----------------------------- MODULE BundleDir -----------------------------
(***************************************************************************)
(* A bundle directory after `papyri gen': a maintainer's injector edits it *)
(* through bundle_edit.py, `papyri pack' checks it and writes one          *)
(* artifact, `papyri unpack' makes a directory of an artifact again.  Each *)
(* command may be killed at any file and run again.  One command runs at a *)
(* time; what a page says is its sections and the flaws pack looks for.    *)
(***************************************************************************)
EXTENDS Naturals, Sequences, SequencesExt, FiniteSets

CONSTANTS
  Title, Key, Object, Asset,  \* titles of sections, keys of narrative pages, documented objects, assets
  Bundles,    \* what `gen' may have written
  Injector,   \* the pages an injector writes or patches, in order
  Torn,       \* a file whose writing was broken off
  Nothing,    \* no directory, or no artifact, is there
  Text, Number, List,  \* the values of a manifest: a string, a number, a list
  MaxStarts   \* bound: how many commands are started

Flaws == {"substitution", "sentinel", "role", "unimplemented", "url"}
Section == [title: Title, level: 1..3, by: {"author", "injector"}]
Page == [sections: Seq(Section), flaws: SUBSET Flaws, links: SUBSET Key, figures: SUBSET Asset]

Required == {"module", "version"}
Optional == {"summary", "github_slug", "tag", "logo", "aliases"}
Known == Required \cup Optional

\* One file of the directory per name; the two at the top are the toc and the manifest.
Toc == <<"toc.json">>
Manifest == <<"papyri.json">>
Files == ({"module"} \X Object) \cup ({"docs"} \X Key) \cup ({"assets"} \X Asset) \cup {Toc, Manifest}

\* What a manifest may be: its keys are gen's own and those a configuration adds.
MetaKeys == Known \cup UNION {DOMAIN b[Manifest] : b \in {x \in Bundles : Manifest \in DOMAIN x}}
Meta == UNION {[D -> {Text, Number, List, ""}] : D \in SUBSET MetaKeys}

Origins == {"gen", "unpacked"}

\* A toc is the paths of its nodes.
Paths == Seq(Seq(Key) \ {<<>>})
Items == [key : Key, patch : BOOLEAN, title : Title, parent : Key \cup {"none"}, sections : Seq(Section)]

ASSUME BundleAssumption ==
  \A b \in Bundles : /\ b = [f \in DOMAIN b |-> b[f]] /\ DOMAIN b \subseteq Files
                     /\ \A f \in DOMAIN b : f[1] \in {"module", "docs"} => b[f] \in Page
                     /\ Toc \in DOMAIN b => b[Toc] \in Paths
ASSUME ManifestAssumption ==
  /\ \A b \in Bundles : Manifest \in DOMAIN b => b[Manifest] \in Meta
  /\ Torn \notin Meta \cup {<<>>, Nothing} /\ Torn \notin Page /\ Torn \notin Paths
  /\ Text # List /\ "" \notin {Number, List}
ASSUME InjectorAssumption ==
  /\ Injector \in Seq(Items) /\ Injector # <<>>
  /\ \A i \in DOMAIN Injector : Injector[i].patch =>
        Injector[i].sections # <<>> /\ Injector[i].sections[1].title = Injector[i].title

VARIABLES
  dir,      \* per directory, its files
  at,       \* the command in progress, the directory it is at and how far it has come
  draft,    \* the page the injector has in memory
  artifact, \* what the artifact file holds
  verdict,  \* how the last command ended
  starts,
  origin,   \* ghost: what `gen' wrote
  injected, \* ghost: the last injector ran to its end, and the directory has been left alone since
  source    \* ghost: the artifact the unpacked directory was made from, once that is finished;
            \* Torn when an injector has altered the directory since

vars == <<dir, at, draft, artifact, verdict, starts, origin, injected, source>>

NoPage == [sections |-> <<>>, flaws |-> {}, links |-> {}, figures |-> {}]
Idle == [do |-> "idle", where |-> "gen", item |-> 0, step |-> "none"]

Put(d, f, x) == [g \in DOMAIN d \cup {f} |-> IF g = f THEN x ELSE d[g]]
Named(d, sub) == {f[2] : f \in {g \in DOMAIN d : Len(g) = 2 /\ g[1] = sub}}
Docs(d) == Named(d, "docs")
TocOf(d) == IF Toc \in DOMAIN d THEN d[Toc] ELSE <<>>
PagesOf(d) == {d[f] : f \in {g \in DOMAIN d : Len(g) = 2 /\ g[1] # "assets"}}

-----------------------------------------------------------------------------
(* bundle_edit: blocks of sections and entries of the toc *)

First(P(_), s) == CHOOSE i \in DOMAIN s : P(i) /\ \A j \in 1..(i - 1) : ~P(j)

\* Mutant: the sections are appended whether or not the block is there.
AppendBlock(s, title, new) == s \o new

\* The block is a section and all that follow it at a strictly deeper level.
StartOf(s, title) == First(LAMBDA i : s[i].title = title, s)
EndOf(s, start) ==
  LET rest == {i \in (start + 1)..Len(s) : s[i].level <= s[start].level}
  IN  IF rest = {} THEN Len(s) + 1 ELSE CHOOSE i \in rest : \A j \in rest : i <= j

ReplaceBlock(s, title, new) ==
  IF \A i \in DOMAIN s : s[i].title # title THEN s \o new
  ELSE LET start == StartOf(s, title)
       IN  SubSeq(s, 1, start - 1) \o new \o SubSeq(s, EndOf(s, start), Len(s))

Lists(toc, key) == \E p \in Range(toc) : Last(p) = key

\* The toc is the paths of its nodes in depth-first order: a new child of a node
\* comes behind all that lies below the node.
Under(toc, node, key) ==
  LET below == {i \in DOMAIN toc : IsPrefix(node, toc[i])}
      end == CHOOSE i \in below : \A j \in below : j <= i
  IN  InsertAt(toc, end + 1, Append(node, key))

Roots(toc) == {i \in DOMAIN toc : Len(toc[i]) = 1}

\* Mutant: of the tree only the node that got the child is kept.
InsertEntryInBranch(toc, key, parent) ==
  IF parent = "none" THEN Append(toc, <<key>>)
  ELSE LET node == toc[First(LAMBDA i : Last(toc[i]) = parent, toc)]
       IN  SelectSeq(Under(toc, node, key), LAMBDA p : IsPrefix(node, p))

InsertEntry(toc, key, parent) ==
  IF parent # "none" THEN Under(toc, toc[First(LAMBDA i : Last(toc[i]) = parent, toc)], key)
  ELSE IF Roots(toc) = {1} THEN Under(toc, toc[1], key)
  ELSE Append(toc, <<key>>)

AddEntry(toc, key, parent) == IF Lists(toc, key) THEN toc ELSE InsertEntry(toc, key, parent)

-----------------------------------------------------------------------------
(* pack: what a directory is read as, and what is refused *)

\* Under a key gen does not know strings stay, other scalars become strings, and
\* anything else is left out.
ReadMeta(m) ==
  [k \in Known \cup {x \in DOMAIN m \ Known : m[x] # List} |->
     IF k \notin DOMAIN m THEN "" ELSE IF m[k] = Number /\ k \notin Known THEN Text ELSE m[k]]

ReadDir(d) == [f \in DOMAIN d \cup {Toc} |->
                 IF f = Manifest THEN ReadMeta(d[f]) ELSE IF f = Toc THEN TocOf(d) ELSE d[f]]

LayoutFails(d) == Manifest \notin DOMAIN d
DecodeFails(d) ==
  \/ \E f \in DOMAIN d : d[f] = Torn
  \/ ~(Required \subseteq DOMAIN d[Manifest])
  \/ \E k \in Required : d[Manifest][k] # Text
  \/ \E k \in Optional \cap DOMAIN d[Manifest] : d[Manifest][k] \in {Number, List}

TocDangles(d) == \E p \in Range(TocOf(d)) : Last(p) \notin Docs(d)
LinkDangles(d) == \E p \in PagesOf(d) : p.links \ Docs(d) # {}
HasOrphan(d) == \E k \in Docs(d) : ~Lists(TocOf(d), k)
Lint(d) == (UNION {p.flaws : p \in PagesOf(d)})
           \cup (IF \E p \in PagesOf(d) : p.figures \ Named(d, "assets") # {} THEN {"asset"} ELSE {})

\* The first of the checks, in the order they are made, that fails.
Check(d, strict) ==
  IF LayoutFails(d) THEN "layout"
  ELSE IF DecodeFails(d) THEN "decode"
  ELSE IF TocDangles(d) THEN "toc"
  ELSE IF strict /\ LinkDangles(d) THEN "refs"
  ELSE IF strict /\ HasOrphan(d) THEN "orphans"
  ELSE IF Lint(d) \cap {"substitution", "sentinel"} # {} THEN "lint"
  ELSE IF strict /\ Lint(d) \cap {"asset", "role", "unimplemented"} # {} THEN "lint"
  ELSE IF "url" \in Lint(d) THEN "url"
  ELSE "ok"

-----------------------------------------------------------------------------
Init ==
  /\ origin \in Bundles
  /\ dir = [gen |-> origin, unpacked |-> Nothing]
  /\ at = Idle /\ draft = NoPage /\ artifact = Nothing /\ verdict = "none" /\ starts = 0
  /\ injected = FALSE /\ source = Nothing

Begin(do, where, step) ==
  /\ at = Idle /\ starts < MaxStarts
  /\ at' = [do |-> do, where |-> where, item |-> 1, step |-> step]
  /\ starts' = starts + 1

End(how) == at' = Idle /\ verdict' = how

(* The injector: per item, read the page or start one, write it, enter it *)

StartInjector(w) ==
  /\ Begin("inject", w, "read")
  /\ dir[w] # Nothing
  /\ injected' = (injected /\ w # "gen")
  /\ source' = IF w = "unpacked" /\ source # Nothing THEN Torn ELSE source
  /\ UNCHANGED <<dir, draft, artifact, verdict, origin>>

Item == Injector[at.item]
Here == dir[at.where]
File == <<"docs", Item.key>>

\* read_doc, narrative_doc and replace_block; every call first looks for papyri.json.
ReadPage ==
  /\ at.do = "inject" /\ at.step = "read"
  /\ IF Manifest \notin DOMAIN Here \/ (Item.patch /\ (File \notin DOMAIN Here \/ Here[File] = Torn))
       THEN End("ValueError") /\ UNCHANGED draft
       ELSE /\ at' = [at EXCEPT !.step = "write"]
            /\ draft' = IF ~Item.patch THEN [NoPage EXCEPT !.sections = Item.sections]
                        ELSE [Here[File] EXCEPT
                                !.sections = ReplaceBlock(@, Item.title, Item.sections)]
            /\ UNCHANGED verdict
  /\ UNCHANGED <<dir, artifact, starts, origin, injected, source>>

WritePage ==
  /\ at.do = "inject" /\ at.step = "write"
  /\ dir' = [dir EXCEPT ![at.where] = Put(@, File, draft)]
  /\ at' = [at EXCEPT !.step = "enter"]
  /\ UNCHANGED <<draft, artifact, verdict, starts, origin, injected, source>>

NextItem ==
  IF at.item < Len(Injector)
    THEN at' = [at EXCEPT !.item = @ + 1, !.step = "read"] /\ UNCHANGED <<verdict, injected>>
    ELSE End("injected") /\ injected' = (injected \/ at.where = "gen")

EntryFails == \/ TocOf(Here) = Torn
              \/ /\ Item.parent # "none"
                 /\ \A k \in {Item.key, Item.parent} : ~Lists(TocOf(Here), k)

Entered == AddEntry(TocOf(Here), Item.key, Item.parent)

EnterPage ==
  /\ at.do = "inject" /\ at.step = "enter"
  /\ IF EntryFails THEN End("ValueError") /\ UNCHANGED <<dir, injected>>
     ELSE /\ dir' = IF Entered = TocOf(Here) THEN dir ELSE [dir EXCEPT ![at.where] = Put(@, Toc, Entered)]
          /\ NextItem
  /\ UNCHANGED <<draft, artifact, starts, origin, source>>

(* pack and unpack *)

Pack(w, strict) ==
  /\ at = Idle /\ starts < MaxStarts /\ dir[w] # Nothing
  /\ starts' = starts + 1
  /\ \/ /\ verdict' = Check(dir[w], strict)
        /\ artifact' = IF verdict' = "ok" THEN ReadDir(dir[w]) ELSE artifact
     \/ /\ Check(dir[w], strict) = "ok"   \* killed while it writes
        /\ verdict' = "killed" /\ artifact' = Torn
  /\ UNCHANGED <<dir, at, draft, origin, injected, source>>

StartUnpack ==
  /\ artifact \notin {Nothing, Torn} /\ dir["unpacked"] = Nothing
  /\ Begin("unpack", "unpacked", "write")
  /\ dir' = [dir EXCEPT !["unpacked"] = <<>>] /\ source' = Nothing
  /\ UNCHANGED <<draft, artifact, verdict, origin, injected>>

\* Mutant: the keys of the manifest gen does not know are not merged back.
ExplodedWithoutExtra(b) ==
  [f \in DOMAIN b |-> IF f = Manifest THEN [k \in DOMAIN b[f] \cap Known |-> b[f][k]] ELSE b[f]]

\* The files an artifact is written out as: no toc when it is empty, and
\* in the manifest no optional field that is.
Exploded(b) ==
  [f \in {g \in DOMAIN b : g # Toc \/ b[Toc] # <<>>} |->
     IF f = Manifest
       THEN [k \in {x \in DOMAIN b[f] : x \notin Optional \/ b[f][x] # ""} |-> b[f][k]]
       ELSE b[f]]

\* Mutant: the manifest is written with the other files.
RankManifestAnywhere(f) == IF f[1] = "module" THEN 1 ELSE IF f[1] = "docs" THEN 2 ELSE 3

Rank(f) == IF f[1] = "module" THEN 1 ELSE IF f[1] = "docs" THEN 2 ELSE IF f[1] = "assets" THEN 3
           ELSE IF f = Toc THEN 4 ELSE 5

Left == DOMAIN Exploded(artifact) \ DOMAIN Here

Due == {f \in Left : \A g \in Left : Rank(f) <= Rank(g)}

WriteOut ==
  /\ at.do = "unpack"
  /\ \E f \in Due :
       /\ dir' = [dir EXCEPT !["unpacked"] = Put(@, f, Exploded(artifact)[f])]
       /\ IF Left = {f} THEN End("unpacked") /\ source' = artifact
                        ELSE UNCHANGED <<at, verdict, source>>
  /\ UNCHANGED <<draft, artifact, starts, origin, injected>>

\* A command is killed; a file it is at may be cut short.
Target == IF at.do = "unpack" THEN Due
          ELSE IF at.step = "write" THEN {File}
          ELSE IF at.step = "enter" /\ ~EntryFails /\ Entered # TocOf(Here) THEN {Toc} ELSE {}

Kill ==
  /\ at # Idle
  /\ \/ UNCHANGED dir
     \/ \E f \in Target : dir' = [dir EXCEPT ![at.where] = Put(@, f, Torn)]
  /\ End("killed")
  /\ UNCHANGED <<draft, artifact, starts, origin, injected, source>>

Next ==
  \/ \E w \in Origins : StartInjector(w) \/ \E strict \in BOOLEAN : Pack(w, strict)
  \/ ReadPage \/ WritePage \/ EnterPage
  \/ StartUnpack \/ WriteOut \/ Kill

Spec == Init /\ [][Next]_vars

-----------------------------------------------------------------------------
(* Properties *)

\* What the injector makes of a directory when nothing comes in between.
EditedBy(item, d) ==
  LET k == <<"docs", item.key>>
      p == IF item.patch THEN [d[k] EXCEPT !.sections = ReplaceBlock(@, item.title, item.sections)]
           ELSE [NoPage EXCEPT !.sections = item.sections]
  IN  Put(Put(d, k, p), Toc, AddEntry(TocOf(d), item.key, item.parent))

Edited(b) ==
  LET f[n \in 0..Len(Injector)] == IF n = 0 THEN b ELSE EditedBy(Injector[n], f[n - 1])
  IN  f[Len(Injector)]

(* Injectors are idempotent (bundle_edit.py): however many runs of one     *)
(* were broken off or came to their end before, after a complete one the   *)
(* directory is what a single undisturbed run makes of gen's output.       *)
InjectionIsIdempotent == injected => dir["gen"] = Edited(origin)

(* An injector spoils no bundle: what gen left fit for a strict pack is    *)
(* fit for one after a complete run, with its new pages in the navigation. *)
InjectionKeepsPackable ==
  injected /\ Check(origin, TRUE) = "ok" => Check(dir["gen"], TRUE) = "ok"

(* Unpacking is the inverse of packing: the directory made of an artifact  *)
(* passes the checks again and packs to the same artifact.                 *)
UnpackedPacksAlike ==
  source \notin {Nothing, Torn} => ReadDir(dir["unpacked"]) = source /\ Check(dir["unpacked"], FALSE) = "ok"

(* Pack refuses a directory whose unpacking was broken off, whatever       *)
(* injectors have done to it since: papyri.json is written last, and no    *)
(* injector writes one.  An injector itself asks only whether papyri.json  *)
(* exists, and goes to work on such a directory if the file is cut short.  *)
BrokenOffIsRefused ==
  dir["unpacked"] # Nothing /\ source = Nothing /\ at.where # "unpacked" =>
    Check(dir["unpacked"], FALSE) # "ok"
=============================================================================
