------------------------------ MODULE DocVisit ------------------------------
(***************************************************************************)
(* How `papyri gen' visits its documents.  It collects the objects of the  *)
(* package, scans every narrative page for labels, and then visits the     *)
(* docstrings and the pages one by one: roles become links, directives     *)
(* give way to what their handlers return, which is visited in turn.  An   *)
(* exception loses the document.  Labels, pictures and the diagnostics are *)
(* kept across documents.                                                  *)
(***************************************************************************)
EXTENDS References

CONSTANTS
  Docs,       \* the documents in the order of their visit, docstrings first
  Packages,   \* what a package may be: its objects, what each document holds, and
              \* whether the code of plot directives is run
  MaxObjects, \* bound: how many objects are documented
  FileDir,    \* per file of the source tree that exists, the directory it is in
  FileItems,  \* per such file that is a text, its items
  BaseName,   \* per such file, the name its picture is kept under
  Aliases,    \* short names of objects, for See Also
  Asked,      \* what is asked for in LinksMoveOnlyCloser: pairs of a scope and a target
  Depth       \* bound: how deep directives are looked into in LossHasACause

Doc == [page : BOOLEAN, qa : Seq(Component), dir : STRING, params : SUBSET Name, local : SUBSET Name]

ASSUME DocsAssumption ==
  /\ Docs \in Seq(Doc)
  /\ \A i, j \in DOMAIN Docs : i < j /\ Docs[i].page => Docs[j].page
ASSUME PackagesAssumption ==
  \A p \in Packages :
     /\ p.objects \subseteq Object /\ DOMAIN p.items = DOMAIN Docs /\ p.executes \in BOOLEAN
     /\ \A i \in DOMAIN Docs : \A item \in Range(p.items[i]) : item.is = "role" => item \in Role

ASSUME FilesAssumption == IsFiniteSet(DOMAIN FileItems) /\ Depth \in Nat

ASSUME AskedAssumption ==
  \A x \in Asked : x[1] \in Seq(Component) /\ x[2] \in Target

VARIABLES
  known, index,   \* the documented objects, and which of them a key stands for
  package,        \* what is documented, chosen once
  pages, urls,    \* per label the page that defines it; the labels that stand for a URL
  phase, at,      \* what gen is doing, and the document it is at
  todo, out,      \* of that document: the items yet to visit, the nodes made so far
  subs,           \* the substitutions it defines
  resolver,       \* the labels of all sections visited so far (RESOLVER)
  records,        \* the diagnostics: pairs of a document and a code
  assets, plots,  \* per name the picture kept under it; how many plots were drawn
  written         \* per document that made it, its nodes

vars == <<known, index, package, pages, urls, phase, at, todo, out, subs, resolver, records,
          assets, plots, written>>
found == <<known, index, package, pages, urls>>
shared == <<resolver, assets, plots, written>>

Init ==
  /\ known = {} /\ index = <<>> /\ package \in Packages /\ pages = <<>> /\ urls = {}
  /\ phase = "collect" /\ at = 0
  /\ todo = <<>> /\ out = {} /\ subs = {}
  /\ resolver = {} /\ records = {} /\ assets = <<>> /\ plots = 0 /\ written = <<>>

-----------------------------------------------------------------------------
(* Before the visit *)

Collect(o) ==
  /\ phase = "collect" /\ Cardinality(known) < MaxObjects
  /\ o \in package.objects \ known
  /\ known' = known \cup {o}
  /\ index' \in Indexes(known')
  /\ UNCHANGED <<package, pages, urls, phase, at, todo, out, subs, records, shared>>

\* The labels that a page's own text defines; what it includes is not read yet.
LabelsOf(items) ==
  {items[i].label : i \in {j \in DOMAIN items : items[j].is \in {"section", "anchor"}}}
Defining(lib, l) == {i \in DOMAIN Docs : Docs[i].page /\ l \in LabelsOf(lib[i])}

\* Mutant: the last page that defines a label has it.
LastPage(S) == CHOOSE i \in S : \A j \in S : j <= i

FirstPage(S) == CHOOSE i \in S : \A j \in S : i <= j

PageItems(lib) == UNION {Range(lib[i]) : i \in {j \in DOMAIN Docs : Docs[j].page}}

Scan ==
  /\ phase = "collect" /\ phase' = "next"
  /\ pages' = [l \in UNION {LabelsOf(package.items[i]) : i \in {j \in DOMAIN Docs : Docs[j].page}} |->
                 FirstPage(Defining(package.items, l))]
  /\ urls' = {x.label : x \in {y \in PageItems(package.items) : y.is = "external"}}
  /\ UNCHANGED <<known, index, package, at, todo, out, subs, records, shared>>

\* A document's substitutions are known before any of its items is visited;
\* those by another directive than `replace' are dropped.
StartDoc ==
  /\ phase = "next" /\ at < Len(Docs)
  /\ at' = at + 1 /\ phase' = "visit"
  /\ todo' = package.items[at'] /\ out' = {}
  /\ LET defs == {x \in Range(package.items[at']) : x.is = "def"}
     IN  /\ subs' = {x.label : x \in {d \in defs : d.replace}}
         /\ records' = records \cup
              (IF \E d \in defs : ~d.replace THEN {<<at', "W-unsupported-substitution">>} ELSE {})
  /\ UNCHANGED <<found, shared>>

Finish == phase = "next" /\ at = Len(Docs) /\ phase' = "done"
          /\ UNCHANGED <<found, at, todo, out, subs, records, shared>>

-----------------------------------------------------------------------------
(* The visit of one item *)

Visiting(kind) == phase = "visit" /\ todo # <<>> /\ todo[1].is = kind
It == todo[1]

\* The item gives way to nodes, with `more' to be visited in its place.
Emit(nodes, codes, more) ==
  /\ todo' = more \o Tail(todo)
  /\ out' = out \cup nodes
  /\ records' = records \cup ({at} \X codes)
  /\ UNCHANGED <<found, phase, at, subs>>

\* An exception: the document is skipped with a line in the log.
Lose ==
  /\ phase' = "next" /\ todo' = <<>> /\ out' = {}
  /\ UNCHANGED <<found, at, subs, records, shared>>

Warn == {"W-malformed-directive"}

VisitText == Visiting("text") /\ Emit({[is |-> "text"]}, {}, <<>>) /\ UNCHANGED shared

\* The key of a page is the name of it in :doc:; what is none links to nothing (0).
PageAt(name) == IF \E i \in DOMAIN Docs : Docs[i].page /\ Docs[i].qa = name
                  THEN CHOOSE i \in DOMAIN Docs : Docs[i].page /\ Docs[i].qa = name ELSE 0

VisitRole ==
  /\ Visiting("role")
  /\ LET r == Replace(It, index, known, Docs[at].qa, Docs[at].params, Docs[at].local, pages, urls,
                      PageAt(It.target.name))
     IN  IF r.node.is = "error" THEN Lose
         ELSE /\ Emit(IF r.node.is = "nothing" THEN {} ELSE {r.node}, r.codes, <<>>)
              /\ UNCHANGED shared

\* Mutant: a label that some page has is taken.
TakenAnywhere(l) == l \in resolver \/ l \in DOMAIN pages

\* One table of labels for the whole run: a label that was met before is an assertion failure.
Taken(l) == l \in resolver

VisitSection ==
  /\ Visiting("section")
  /\ IF Taken(It.label) THEN Lose
     ELSE /\ resolver' = resolver \cup {It.label}
          /\ Emit({}, {}, <<>>) /\ UNCHANGED <<assets, plots, written>>

\* Definitions and comments go, anchors stay.
VisitMark ==
  /\ \E kind \in {"anchor", "external", "def", "comment"} : Visiting(kind)
  /\ Emit(IF It.is \in {"anchor", "external"} THEN {[is |-> "target", label |-> It.label]} ELSE {}, {}, <<>>)
  /\ UNCHANGED shared

VisitSubstitution ==
  /\ Visiting("subst")
  /\ Emit({[is |-> "text"]}, IF It.label \in subs THEN {} ELSE {"W-unresolved-ref"}, <<>>)
  /\ UNCHANGED shared

(* Directives.  A path is "root" relative to the documentation or "here"   *)
(* relative to the directory of the document; a docstring of an object     *)
(* whose source is not found has no directory ("none").                    *)

File(uri, dir) == <<IF uri.from = "root" THEN "top" ELSE dir, uri.name>>
Exists(uri, dir) == File(uri, dir) \in DOMAIN FileDir
IsText(uri, dir) == Exists(uri, dir) /\ File(uri, dir) \in DOMAIN FileItems

Here == Docs[at].dir

\* An image is kept under its bare name; a figure's caption is visited behind it.
VisitImage ==
  /\ Visiting("image")
  /\ IF It.uri.from = "web" THEN Emit({[is |-> "image"]}, {}, It.items) /\ UNCHANGED assets
     ELSE IF ~Exists(It.uri, Here) THEN Emit({[is |-> "image"]}, Warn, It.items) /\ UNCHANGED assets
     ELSE LET f == File(It.uri, Here)
          IN  /\ assets' = [n \in DOMAIN assets \cup {BaseName[f]} |->
                              IF n = BaseName[f] THEN f ELSE assets[n]]
              /\ Emit({[is |-> "figure", name |-> BaseName[f], of |-> f]}, {}, It.items)
  /\ UNCHANGED <<resolver, plots, written>>

\* Mutant: the plots of a document are counted, not those of the run.
PlotNameOfDoc == <<"plot", Cardinality({x \in out : x.is = "figure"})>>

PlotName == <<"plot", plots>>
Drawing == <<"plot", <<at, plots>>>>

\* A plot is drawn by running its code; if that fails, or draws nothing, the code is all there is.
VisitPlot ==
  /\ Visiting("plot")
  /\ IF It.uri.from # "none" /\ ~Exists(It.uri, Here)
       THEN Emit({}, Warn, <<>>) /\ UNCHANGED <<assets, plots>>
     ELSE \/ ~package.executes /\ Emit({[is |-> "code"]}, {}, <<>>) /\ UNCHANGED <<assets, plots>>
          \/ /\ package.executes
             /\ plots' = plots + 1
             /\ assets' = [n \in DOMAIN assets \cup {PlotName} |->
                             IF n = PlotName THEN Drawing ELSE assets[n]]
             /\ Emit({[is |-> "code"], [is |-> "figure", name |-> PlotName, of |-> Drawing]}, {}, <<>>)
          \/ /\ package.executes
             /\ \E codes \in {{}, Warn} : Emit({[is |-> "code"]}, codes, <<>>)
             /\ UNCHANGED <<assets, plots>>
  /\ UNCHANGED <<resolver, written>>

Cyclic == <<[is |-> "cycle"]>>

\* The text of a file with the includes in it replaced, each from the directory of
\* the file it is in and its headings left out; n levels of them, for files that include each other.
Replaced(x, dir, texts) ==
  IF x.is = "section" THEN <<>>
  ELSE IF x.is # "include" THEN <<x>>
  ELSE IF IsText(x.uri, dir) THEN texts[File(x.uri, dir)]
  ELSE <<[is |-> "lost include"]>>

Included[n \in Nat] ==
  [f \in DOMAIN FileItems |->
     IF n = 0 THEN Cyclic
     ELSE LET texts == Included[n - 1]
          IN  FlattenSeq([i \in DOMAIN FileItems[f] |-> Replaced(FileItems[f][i], FileDir[f], texts)])]

\* Mutant: includes in an included file are left to the visitor.
IncludedLater(f) == FileItems[f]

IncludedAll(f) == Included[Cardinality(DOMAIN FileItems) + 1][f]

VisitInclude ==
  /\ Visiting("include")
  /\ IF ~IsText(It.uri, Here) THEN Emit({}, Warn, <<>>) /\ UNCHANGED shared
     ELSE LET text == IncludedAll(File(It.uri, Here))
          IN  IF [is |-> "cycle"] \in Range(text) THEN Lose
              ELSE Emit({}, {}, text) /\ UNCHANGED shared

VisitLostInclude == Visiting("lost include") /\ Emit({}, Warn, <<>>) /\ UNCHANGED shared

\* A named admonition asserts that it has no options, and drops a body with a heading in it.
VisitAdmonition ==
  /\ Visiting("admonition")
  /\ IF It.options THEN Lose
     ELSE Emit({}, {}, IF It.rest = <<>> THEN It.items ELSE <<>>) /\ UNCHANGED shared

\* Titled boxes keep what comes before the first heading, containers all.
VisitBox ==
  /\ Visiting("box")
  /\ Emit({}, {}, IF It.titled THEN It.items ELSE It.items \o It.rest) /\ UNCHANGED shared

\* Code and formulas are not looked into.
VisitVerbatim == Visiting("code") /\ Emit({It}, {}, <<>>) /\ UNCHANGED shared

\* raw, only and literalinclude go, with a line in the log and no diagnostic.
VisitDropped == Visiting("dropped") /\ Emit({}, {}, <<>>) /\ UNCHANGED shared

\* A list-table that is no list of lists is dropped with a warning.
VisitTable ==
  /\ Visiting("table")
  /\ IF It.ok THEN Emit({[is |-> "table"]}, {}, It.items) ELSE Emit({}, Warn, <<>>)
  /\ UNCHANGED shared

\* The rows of a csv-table come from its header, and from its body or a file: not from the
\* network, not from both, and there have to be some.
Rows(x, dir) ==
  x.header \cup IF x.uri.from = "none" THEN x.body
                ELSE IF Exists(x.uri, dir) THEN {File(x.uri, dir)} ELSE {}

VisitCsv ==
  /\ Visiting("csv")
  /\ IF \/ It.uri.from = "web"
        \/ It.uri.from # "none" /\ (It.body # {} \/ ~Exists(It.uri, Here))
        \/ Rows(It, Here) = {}
       THEN Emit({}, Warn, <<>>)
     ELSE Emit({[is |-> "table"]}, {}, <<>>)
  /\ UNCHANGED shared

SphinxOnly(x) == x.class = "sphinx"

\* A directive without a handler: those that mean something to Sphinx only go, others are
\* kept as they are.
VisitDirective ==
  /\ Visiting("directive")
  /\ Emit(IF SphinxOnly(It) THEN {} ELSE {[is |-> "directive"]}, {}, <<>>)
  /\ UNCHANGED shared

\* The end of a document.  What stands in See Also is resolved apart, by aliases too; its
\* descriptions are taken as they are.  A directive that is left does not validate.
SeeAlso(x) ==
  LET o == ResolveAlias(index, known, Docs[at].qa, x.target, Aliases)
  IN  {IF o = Missing THEN [is |-> "unresolved", name |-> x.target.name]
       ELSE [is |-> "local", object |-> Dotted(o)]} \cup x.desc

VisitSeeAlso ==
  /\ Visiting("see")
  /\ Emit(SeeAlso(It), {}, <<>>) /\ UNCHANGED shared

EndDoc ==
  /\ phase = "visit" /\ todo = <<>>
  /\ IF [is |-> "directive"] \in out THEN Lose
     ELSE /\ written' = [i \in DOMAIN written \cup {at} |-> IF i = at THEN out ELSE written[i]]
          /\ phase' = "next" /\ out' = {}
          /\ UNCHANGED <<found, at, todo, subs, resolver, records, assets, plots>>

Visit ==
  \/ VisitText \/ VisitRole \/ VisitSection \/ VisitMark \/ VisitSubstitution
  \/ VisitImage \/ VisitPlot \/ VisitInclude \/ VisitLostInclude \/ VisitAdmonition
  \/ VisitBox \/ VisitVerbatim \/ VisitDropped \/ VisitTable \/ VisitCsv
  \/ VisitDirective \/ VisitSeeAlso \/ EndDoc

Next == (\E o \in package.objects : Collect(o)) \/ Scan \/ StartDoc \/ Visit \/ Finish

Spec == Init /\ [][Next]_vars /\ WF_vars(Next)

-----------------------------------------------------------------------------
(* Documenting more objects never sends a link astray.  What was not found *)
(* stays so or becomes the new object; what was found stays, or goes to    *)
(* the new object when that is in a nearer scope; and it is lost only if   *)
(* it was found by its ending alone and the new object's name ends alike.  *)
(* Objects of one dotted name are the exception: whichever has the key is  *)
(* chosen anew with every set of objects, and an ending may then meet one  *)
(* of them or both.                                                        *)
Shared(K, o) == \E p \in K : p # o /\ Dotted(p) = Dotted(o)

Nearness(m, qa, t) ==
  IF t.name \in DOMAIN m /\ ~t.dot THEN Len(qa) + 1
  ELSE IF t.dot THEN IF qa \o t.name \in DOMAIN m THEN Len(qa) + 2 ELSE IF t.name \in DOMAIN m THEN 1 ELSE 0
  ELSE IF Enclosing(m, qa, t.name) # {} THEN Len(ClosestScope(Enclosing(m, qa, t.name))) ELSE 0

MovesOnlyCloser(o, qa, t) ==
  LET before == Resolve(index, known, qa, {}, t)
      after  == Resolve(index', known', qa, {}, t)
  IN  IF before = Missing THEN after \in {Missing, o} \/ Shared(known', after)
      ELSE IF after = Missing
        THEN Nearness(index, qa, t) = 0 /\ (IsSuffix(t.name, Dotted(o)) \/ Shared(known, before))
      ELSE \/ Dotted(after) = Dotted(before)
           \/ after = o /\ Nearness(index', qa, t) > Nearness(index, qa, t)

LinksMoveOnlyCloser ==
  [][\A o \in known' \ known : \A x \in Asked : MovesOnlyCloser(o, x[1], x[2])]_vars

(* A written document leaves nothing unresolved that was not reported: for *)
(* each role left in it the diagnostic of that kind of role is on record   *)
(* for the document.                                                       *)
CodeOf(r) == IF ~(IsPython(r) \/ r.role \in {"ref", "doc"}) THEN "W-unknown-role"
             ELSE IF IsDefault(r) THEN "W-unresolved-default-role" ELSE "W-unresolved-ref"

LeftoversAreReported ==
  \A d \in DOMAIN written : \A n \in written[d] : n.is = "role" => <<d, CodeOf(n.role)>> \in records

(* Whoever links to a label, by whatever role and in whatever order the    *)
(* documents are visited, is led to the first page that defines it.        *)
LabelsLeadToFirst ==
  \A d \in DOMAIN written : \A n \in written[d] :
    n.is = "local" /\ "label" \in DOMAIN n /\ Defining(package.items, n.label) # {} =>
      /\ n.page \in Defining(package.items, n.label)
      /\ \A i \in Defining(package.items, n.label) : n.page <= i

(* No failure of one document takes another along: of the items modelled   *)
(* here, a document that is lost holds one that is fatal (an admonition    *)
(* with options, a directive nobody handles, a :pep: that is no number,    *)
(* files that include each other), or a labelled section whose label is    *)
(* there before it in the same run.  An import with side effects, a file   *)
(* that cannot be read and the validation of the nodes may lose a document *)
(* as well; none of them is an item here.                                  *)
Deeper(S, dir) ==
  S \cup (UNION {Range(x.items) : x \in {y \in S : "items" \in DOMAIN y}})
    \cup (UNION {Range(x.rest) : x \in {y \in S : "rest" \in DOMAIN y}})
    \cup UNION {Range(IncludedAll(File(x.uri, dir))) : x \in {y \in S : y.is = "include" /\ IsText(y.uri, dir)}}

Held[n \in Nat] ==
  [d \in DOMAIN Docs |->
     IF n = 0 THEN Range(package.items[d]) ELSE Deeper(Held[n - 1][d], Docs[d].dir)]
Holds(d) == Held[Depth][d]

LabelTwice(d) ==
  \E i \in DOMAIN package.items[d] :
     /\ package.items[d][i].is = "section"
     /\ \E e \in 1..d : \E j \in DOMAIN package.items[e] :
          /\ <<e, j>> # <<d, i>> /\ package.items[e][j].is = "section" /\ package.items[e][j].label = package.items[d][i].label

Fatal(x) ==
  \/ x.is = "admonition" /\ x.options
  \/ x.is = "directive" /\ ~SphinxOnly(x)
  \/ x.is = "see" /\ [is |-> "directive"] \in x.desc
  \/ x.is = "role" /\ x.role = "pep" /\ x.title
  \/ x.is = "cycle"

HasCause(d) == LabelTwice(d) \/ \E x \in Holds(d) : Fatal(x)

LossHasACause == phase = "done" => \A d \in DOMAIN Docs \ DOMAIN written : HasCause(d)

(* A plot keeps its picture: no later document draws over it.              *)
PlotFiguresAreKept ==
  \A d \in DOMAIN written : \A n \in written[d] :
    n.is = "figure" /\ n.of[1] = "plot" => n.name \in DOMAIN assets /\ assets[n.name] = n.of

(* Whatever the documents hold, gen gets through them.                     *)
AllVisited == <>(phase = "done")
=============================================================================
