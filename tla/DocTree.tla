------------------------------ MODULE DocTree ------------------------------
(***************************************************************************)
(* The narrative pages of a library, the toctrees they hold, the one tree  *)
(* that `papyri gen' assembles from them and what `papyri pack' makes of   *)
(* it.  A page has a key, the sequence of names on its path ("sub:page").  *)
(* A toctree refers to pages as the author wrote it ("../page", "sub/"),   *)
(* and two pieces of code turn that into a key: toc.py for the tree and    *)
(* tree.py for the links the page shows.                                   *)
(***************************************************************************)
EXTENDS Naturals, Sequences, SequencesExt, FiniteSets

CONSTANTS
  Name,        \* the names of pages and directories
  Up, Index,   \* the segment `..' and the name `index'
  Pages,       \* the keys of the pages, in the order they are scanned
  Libraries,   \* what the pages may hold, and which of them fail
  MaxDepth     \* the nesting at which Python gives up

Key == Seq(Name \ {Up})

\* A line of a toctree: where it points and how it is spelled, `titled' being
\* the form `Title <path>'.
Entry == [to: {"rel", "abs", "url"}, path: Seq(Name), dir: BOOLEAN, rst: BOOLEAN,
          titled: BOOLEAN, line: {"path", "self", "pattern"}]

Toctree == [entries: Seq(Entry), glob: BOOLEAN, hidden: BOOLEAN]

ASSUME NameAssumption == {Up, Index} \subseteq Name /\ Up # Index
ASSUME PagesAssumption == Pages \in Seq(Key \ {<<>>}) /\ IsInjective(Pages)
ASSUME LibraryAssumption ==
  \A lib \in Libraries :
     /\ DOMAIN lib.holds = Range(Pages)
     /\ lib.fails \subseteq Range(Pages)
     /\ \A k \in Range(Pages) : lib.holds[k] \in Seq(Toctree)
ASSUME DepthAssumption == MaxDepth \in Nat

VARIABLES
  lib,      \* the library: what each page holds, the pages that fail
  seen,     \* how many pages have been visited
  trees,    \* per page that validated, the toctree lines it keeps, flattened
  links,    \* per such page, the keys its visible toctrees link to
  path,     \* the keys from the root to the call of _tree in progress
  next,     \* per call on that path, the line it is to look at
  toc,      \* the tree so far: the paths of its nodes, in the order of their making
  outcome

vars == <<lib, seen, trees, links, path, next, toc, outcome>>

Listed == DOMAIN trees      \* the pages the tree may have
Written == DOMAIN links     \* the pages that are written to docs/

-----------------------------------------------------------------------------
(* Lines and keys *)

\* _toctree_handler takes a line that begins with `..' for a comment, although
\* `../page' does.
LooksLikeComment(e) == ~e.titled /\ e.to = "rel" /\ e.path # <<>> /\ e.path[1] = Up

\* The lines _toctree_handler does not keep.
Dropped(t, e) ==
  e.line = "self" \/ LooksLikeComment(e) \/ (t.glob /\ e.line = "pattern")

Kept(t) ==
  LET f[n \in 0..Len(t.entries)] ==
        IF n = 0 THEN <<>>
        ELSE IF Dropped(t, t.entries[n]) THEN f[n - 1] ELSE Append(f[n - 1], t.entries[n])
  IN  f[Len(t.entries)]

Flat(ts) ==
  LET f[n \in 0..Len(ts)] == IF n = 0 THEN <<>> ELSE f[n - 1] \o Kept(ts[n])
  IN  f[Len(ts)]

\* tree.py: the key that a line of page k is shown as a link to.
DocPath(k, e) == IF e.to = "abs" THEN e.path ELSE Front(k) \o e.path

LinksOf(k, ts) ==
  {DocPath(k, e) : e \in UNION {Range(Kept(ts[i])) : i \in {j \in DOMAIN ts : ~ts[j].hidden}}}

\* toc.py: the leading `..' are counted, and none may follow.
Segments(e) == IF e.dir THEN Append(e.path, Index) ELSE e.path
Dotdots(s) == Cardinality({i \in DOMAIN s : \A j \in 1..i : s[j] = Up})
Below(s) == SubSeq(s, Dotdots(s) + 1, Len(s))
Malformed(e) == Up \in Range(Below(Segments(e)))

\* Mutant: `..' does not leave the directory.
KeepDirectory(k, n) == Front(k)

\* The first Len(k) - 1 - n segments of the key, if there are that many.
Directory(k, n) == SubSeq(k, 1, IF Len(k) > n + 1 THEN Len(k) - 1 - n ELSE 0)

Resolve(k, e) ==
  LET s == Segments(e) IN Directory(k, Dotdots(s)) \o Below(s)

-----------------------------------------------------------------------------
(* gen: visiting the pages, then one tree *)

Init ==
  /\ lib \in Libraries
  /\ seen = 0
  /\ trees = <<>> /\ links = <<>>
  /\ path = <<>> /\ next = <<>> /\ toc = <<>>
  /\ outcome = "none"

Extend(f, k, v) == [x \in DOMAIN f \cup {k} |-> IF x = k THEN v ELSE f[x]]

\* Mutant: the toctrees of a page are registered before it has validated.
VisitPageRegisteringFirst ==
  /\ seen < Len(Pages)
  /\ LET k == Pages[seen + 1] IN
       /\ trees' = Extend(trees, k, Flat(lib.holds[k]))
       /\ links' = IF k \in lib.fails THEN links ELSE Extend(links, k, LinksOf(k, lib.holds[k]))
  /\ seen' = seen + 1
  /\ UNCHANGED <<lib, path, next, toc, outcome>>

\* A page is registered once it has validated.
VisitPage ==
  /\ seen < Len(Pages)
  /\ LET k == Pages[seen + 1] IN
       IF k \in lib.fails THEN UNCHANGED <<trees, links>>
       ELSE /\ trees' = Extend(trees, k, Flat(lib.holds[k]))
            /\ links' = Extend(links, k, LinksOf(k, lib.holds[k]))
  /\ seen' = seen + 1
  /\ UNCHANGED <<lib, path, next, toc, outcome>>

\* A key is compared with the references as they are written.
ReferredTo ==
  {e.path : e \in {f \in UNION {Range(trees[k]) : k \in Listed} :
                     f.to = "rel" /\ ~f.dir /\ ~f.rst /\ Len(f.path) = 1}}

\* The first page, in the order they are scanned, that is in S.
First(S) == Pages[CHOOSE i \in DOMAIN Pages :
                    Pages[i] \in S /\ \A j \in 1..(i - 1) : Pages[j] \notin S]

Root == IF <<Index>> \in Listed THEN <<Index>>
        ELSE IF Listed \ ReferredTo # {} THEN First(Listed \ ReferredTo) ELSE First(Listed)

\* The root is put above the tree that _tree returns for it.
StartTree ==
  /\ seen = Len(Pages) /\ outcome = "none" /\ toc = <<>> /\ Listed # {}
  /\ path' = <<Root>> /\ next' = <<1>> /\ toc' = <<path'>>
  /\ UNCHANGED <<lib, seen, trees, links, outcome>>

Current == Last(path)
Line == trees[Current][Last(next)]

Looking == path # <<>> /\ outcome = "none" /\ Last(next) <= Len(trees[Current])

NextLine == next' = [next EXCEPT ![Len(next)] = @ + 1]

\* Lines that add nothing: other sites, absolute paths, pages nobody wrote, repetitions.
SkipLine ==
  /\ Looking
  /\ \/ Line.to # "rel"
     \/ /\ ~Malformed(Line) /\ Resolve(Current, Line) # Current
        /\ \/ Append(path, Resolve(Current, Line)) \in Range(toc)
           \/ Resolve(Current, Line) \notin Listed
  /\ NextLine
  /\ UNCHANGED <<lib, seen, trees, links, path, toc, outcome>>

\* Mutant: a page listed twice fails an assertion, as the docstring of _tree says.
AssertFailsOnRepetition ==
  /\ Looking /\ Line.to = "rel"
  /\ \/ Malformed(Line) \/ Resolve(Current, Line) = Current
     \/ Append(path, Resolve(Current, Line)) \in Range(toc)
  /\ outcome' = "AssertionError"
  /\ UNCHANGED <<lib, seen, trees, links, path, next, toc>>

\* The two assertions of toc.py; nothing on the way out of gen catches them.
AssertFails ==
  /\ Looking /\ Line.to = "rel"
  /\ Malformed(Line) \/ Resolve(Current, Line) = Current
  /\ outcome' = "AssertionError"
  /\ UNCHANGED <<lib, seen, trees, links, path, next, toc>>

Lists == /\ Looking /\ Line.to = "rel" /\ ~Malformed(Line)
         /\ Resolve(Current, Line) \in Listed \ {Current}
         /\ Append(path, Resolve(Current, Line)) \notin Range(toc)

Descend ==
  /\ Lists /\ Len(path) < MaxDepth
  /\ path' = Append(path, Resolve(Current, Line))
  /\ next' = Append([next EXCEPT ![Len(next)] = @ + 1], 1)
  /\ toc' = Append(toc, path')
  /\ UNCHANGED <<lib, seen, trees, links, outcome>>

TooDeep ==
  /\ Lists /\ Len(path) = MaxDepth
  /\ outcome' = "RecursionError"
  /\ UNCHANGED <<lib, seen, trees, links, path, next, toc>>

Return ==
  /\ path # <<>> /\ outcome = "none" /\ Last(next) > Len(trees[Current])
  /\ path' = Front(path) /\ next' = Front(next)
  /\ UNCHANGED <<lib, seen, trees, links, toc, outcome>>

-----------------------------------------------------------------------------
(* pack: the checks on the toc and on the links *)

\* The toc is written when _tree has returned; without a page there is none.
Built == seen = Len(Pages) /\ path = <<>> /\ (toc # <<>> \/ Listed = {})

TocEntries == {Last(p) : p \in Range(toc)}

Dangling == (UNION {links[k] : k \in Written}) \ Written

\* Mutant: a page counts as reachable when any page lists it.
OrphansOfListing ==
  Written \ ({Root} \cup {Resolve(k, e) : k \in Written, e \in UNION {Range(trees[l]) : l \in Listed}})

Orphans == Written \ TocEntries

Pack(strict) ==
  /\ Built /\ outcome = "none"
  /\ outcome' = IF TocEntries \ Written # {} THEN "toc refused"
                ELSE IF strict /\ Dangling # {} THEN "refs refused"
                ELSE IF strict /\ Orphans # {} THEN "orphans refused"
                ELSE IF strict THEN "packed strict" ELSE "packed"
  /\ UNCHANGED <<lib, seen, trees, links, path, next, toc>>

Next == \/ VisitPage \/ StartTree \/ SkipLine \/ AssertFails \/ Descend \/ TooDeep \/ Return
        \/ \E strict \in BOOLEAN : Pack(strict)

Spec == Init /\ [][Next]_vars /\ WF_vars(Next)

-----------------------------------------------------------------------------
(* Properties *)

\* The page a line means, segment by segment from the directory of the page it is in.
Step(at, x) == IF x # Up THEN Append(at, x) ELSE IF at = <<>> THEN at ELSE Front(at)

Means(k, e) ==
  LET s == Segments(e)
      f[n \in 0..Len(s)] == IF n = 0 THEN Front(k) ELSE Step(f[n - 1], s[n])
  IN  f[Len(s)]

Lines(k) == {e \in Range(Flat(lib.holds[k])) : e.to = "rel"}
Children(k) == {c \in Written : \E e \in Lines(k) : Means(k, e) = c}

\* The pages of S, the pages that those list, and so on.
Closure(S) ==
  LET f[n \in 0..Len(Pages)] ==
        IF n = 0 THEN S ELSE f[n - 1] \cup UNION {Children(k) : k \in f[n - 1]}
  IN  f[Len(Pages)]

(* The tree that gen writes is the listing of the pages unfolded from the  *)
(* root: below a page stand the pages that the lines kept of its toctrees  *)
(* mean, each once, and nothing else.  (toc.py: relative paths, `..' in    *)
(* lines with a title, `dir/', duplicates.)  A line `../page' without a    *)
(* title is not kept (tree.py:1076), which toc.py:46-48 does not know.     *)
TocFollowsLists ==
  Built /\ Written # {} =>
    /\ IsInjective(toc) /\ toc[1] = <<Root>>
    /\ \A p \in Range(toc) : \A c \in Children(Last(p)) : Append(p, c) \in Range(toc)
    /\ \A p \in Range(toc) \ {<<Root>>} :
         Front(p) \in Range(toc) /\ Last(p) \in Children(Last(Front(p)))

(* What gen writes as a toc is never refused by pack for an entry without  *)
(* a document, whichever pages were dropped because they failed.           *)
TocPassesPack == outcome # "toc refused"

(* A library that packs with --strict can be read: every page is reached   *)
(* from the root through the toctrees of the pages.                        *)
StrictPackIsNavigable ==
  outcome = "packed strict" => Written = {} \/ Written \subseteq Closure({Root})

(* A library whose pages list each other without a cycle, and none of      *)
(* whose lines has a `..' after a name, gets its tree, repeated lines and  *)
(* failing pages or not, and is packed or refused for a reason pack gives. *)
TreeGetsBuilt ==
  <>(\/ outcome \notin {"none", "AssertionError", "RecursionError"}
     \/ \E k \in Written : \/ \E e \in Lines(k) : Malformed(e)
                          \/ k \in Closure(Children(k)))

=============================================================================
