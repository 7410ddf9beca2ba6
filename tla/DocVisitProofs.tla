---------------------------- MODULE DocVisitProofs ----------------------------
(***************************************************************************)
(* What the visit of the documents makes of roles, labels and plots, for   *)
(* every package and every set of documents; how the search for an object  *)
(* answers when more objects are documented; and why a document is lost.   *)
(***************************************************************************)
EXTENDS DocVisit, SequenceTheorems, FiniteSetTheorems, WellFoundedInduction, TLAPS

-----------------------------------------------------------------------------
(* What becomes of a role                                                   *)

\* A role that is left is reported, a link to a label is one to the page that
\* has it, and no role becomes a picture.
Answers(x, r, labels) ==
  /\ x = Becomes(x.node, x.codes)
  /\ x.node.is = "role" => x.node.role = r /\ CodeOf(r) \in x.codes
  /\ x.node.is = "local" /\ "label" \in DOMAIN x.node =>
       x.node.label \in DOMAIN labels /\ x.node.page = labels[x.node.label]
  /\ x.node.is # "figure"

LEMMA ShownAnswers ==
  ASSUME NEW how \in {"code", "url", "param", "local name"}, NEW r, NEW labels
  PROVE  Answers(Shown(how), r, labels)
BY DEF Answers, Shown, Becomes

LEMMA NotFoundAnswers ==
  ASSUME NEW r, NEW labels, IsPython(r) \/ r.role \in {"ref", "doc"}
  PROVE  Answers(NotFound(r), r, labels)
BY DEF Answers, NotFound, Left, Becomes, CodeOf

LEMMA ObjectAnswers ==
  ASSUME NEW is \in {"local", "external"}, NEW o, NEW r, NEW labels
  PROVE  Answers(Becomes([is |-> is, object |-> o], {}), r, labels)
BY DEF Answers, Becomes

LEMMA PageAnswers ==
  ASSUME NEW r, NEW labels, NEW l \in DOMAIN labels
  PROVE  Answers(PageLink(labels[l], l), r, labels)
BY DEF Answers, PageLink, Becomes

LEMMA DocAnswers ==
  ASSUME NEW r, NEW labels, NEW p
  PROVE  Answers(DocLink(p), r, labels)
BY DEF Answers, DocLink, Becomes

LEMMA SearchedAnswers ==
  ASSUME NEW r, NEW labels, NEW m, NEW K, NEW qa, NEW local,
         IsPython(r) \/ r.role \in {"ref", "doc"}
  PROVE  Answers(Searched(r, m, K, qa, local), r, labels)
<1>1. Answers(Imported(r), r, labels)
  BY NotFoundAnswers, ObjectAnswers DEF Imported, ObjectLink
<1> QED
  BY <1>1, NotFoundAnswers, ObjectAnswers, ShownAnswers DEF Searched

\* The five ways out of replace_InlineRole.
LEMMA ReplaceAnswers ==
  ASSUME NEW r, NEW m, NEW K, NEW qa, NEW params, NEW local, NEW labels, NEW web, NEW page
  PROVE  Answers(Replace(r, m, K, qa, params, local, labels, web, page), r, labels)
<1> DEFINE label == r.target.name
           nonstandard == IF r.role = "method" THEN {"W-nonstandard-role"} ELSE {}
           Linked == IF r.bang THEN Shown("code")
                     ELSE IF r.url THEN Shown("url")
                     ELSE IF r.role = "ref"
                       THEN IF label \in DOMAIN labels THEN PageLink(labels[label], label)
                                                       ELSE NotFound(r)
                     ELSE IF r.role = "doc" THEN DocLink(page)
                     ELSE IF IsDefault(r) /\ label \in DOMAIN labels
                       THEN PageLink(labels[label], label)
                     ELSE IF IsDefault(r) /\ label \in web THEN Shown("url")
                     ELSE Searched(r, m, K, qa, local)
<1>1. CASE IsPython(r) \/ r.role \in {"ref", "doc"}
  <2>1. Answers(Linked, r, labels)
    BY <1>1, ShownAnswers, NotFoundAnswers, PageAnswers, DocAnswers, SearchedAnswers
  <2> HIDE DEF Linked, nonstandard
  <2>2. [Linked EXCEPT !.codes = @ \cup nonstandard] =
          Becomes(Linked.node, Linked.codes \cup nonstandard)
    BY <2>1 DEF Answers, Becomes
  <2>3. Answers([Linked EXCEPT !.codes = @ \cup nonstandard], r, labels)
    BY <2>1, <2>2 DEF Answers, Becomes
  <2>4. Answers(Configured(r), r, labels) /\ Answers(Formatted(r), r, labels)
        /\ Answers(Github(r), r, labels)
    BY DEF Answers, Configured, Formatted, Github, Shown, Becomes
  <2> QED
    BY <1>1, <2>3, <2>4, ShownAnswers DEF Replace, Linked, nonstandard
<1>2. CASE ~(IsPython(r) \/ r.role \in {"ref", "doc"})
  <2>1. Answers(Left(r, {"W-unknown-role"}), r, labels)
    BY <1>2 DEF Answers, Left, Becomes, CodeOf
  <2>2. Answers(Configured(r), r, labels) /\ Answers(Formatted(r), r, labels)
        /\ Answers(Github(r), r, labels)
    BY DEF Answers, Configured, Formatted, Github, Shown, Becomes
  <2> QED
    BY <1>2, <2>1, <2>2, ShownAnswers DEF Replace
<1> QED
  BY <1>1, <1>2

-----------------------------------------------------------------------------
(* What the nodes of a document show                                        *)

\* No file of the source tree has the name or the place of a drawn plot.
PicturesAreNoPlots ==
  \A f \in DOMAIN FileDir : f[1] # "plot" /\ \A j \in Nat : BaseName[f] # <<"plot", j>>

\* A role left is on record, a link to a label shows the page that has it, and
\* a plot shows the picture that was drawn for it.
GoodNode(d, n) ==
  /\ n.is = "role" => <<d, CodeOf(n.role)>> \in records
  /\ n.is = "local" /\ "label" \in DOMAIN n =>
       n.label \in DOMAIN pages /\ n.page = pages[n.label]
  /\ PicturesAreNoPlots /\ n.is = "figure" /\ n.of[1] = "plot" =>
       \E j \in 0..(plots - 1) :
         n.name = <<"plot", j>> /\ n.name \in DOMAIN assets /\ assets[n.name] = n.of

\* A label has the first page that defines it.
PagesScanned ==
  \A l \in DOMAIN pages : pages[l] = FirstPage(Defining(package.items, l))

VisitInv ==
  /\ plots \in Nat
  /\ PagesScanned
  /\ \A n \in out : GoodNode(at, n)
  /\ \A d \in DOMAIN written : \A n \in written[d] : GoodNode(d, n)
  /\ phase = "collect" => out = {} /\ written = <<>>

\* See Also descriptions hold nothing that a visit would have made a link of.
PlainDescriptions ==
  Visiting("see") => \A n \in It.desc : n.is \notin {"role", "local", "figure"}

-----------------------------------------------------------------------------
(* A step keeps what stands: records grow, the labels are settled, and the  *)
(* pictures of the plots drawn so far stay                                  *)

Keeps ==
  /\ records \subseteq records' /\ pages' = pages
  /\ plots' \in Nat /\ plots \in Nat /\ plots <= plots'
  /\ PicturesAreNoPlots => \A j \in 0..(plots - 1) : <<"plot", j>> \in DOMAIN assets =>
       <<"plot", j>> \in DOMAIN assets' /\ assets'[<<"plot", j>>] = assets[<<"plot", j>>]

LEMMA GoodStaysGood ==
  ASSUME Keeps, NEW d, NEW n, GoodNode(d, n)
  PROVE  GoodNode(d, n)'
<1>1. n.is = "role" => <<d, CodeOf(n.role)>> \in records'
  BY DEF GoodNode, Keeps
<1>2. n.is = "local" /\ "label" \in DOMAIN n =>
        n.label \in DOMAIN pages' /\ n.page = pages'[n.label]
  BY DEF GoodNode, Keeps
<1>3. ASSUME PicturesAreNoPlots, n.is = "figure", n.of[1] = "plot"
      PROVE  \E j \in 0..(plots' - 1) :
               n.name = <<"plot", j>> /\ n.name \in DOMAIN assets' /\ assets'[n.name] = n.of
  <2>1. PICK j \in 0..(plots - 1) :
          n.name = <<"plot", j>> /\ n.name \in DOMAIN assets /\ assets[n.name] = n.of
    BY <1>3 DEF GoodNode
  <2>2. plots \in Nat /\ plots' \in Nat /\ plots <= plots'
    BY DEF Keeps
  <2>3. j \in 0..(plots' - 1)
    BY <2>1, <2>2
  <2>4. n.name \in DOMAIN assets' /\ assets'[n.name] = n.of
    BY <1>3, <2>1 DEF Keeps
  <2> QED
    BY <2>1, <2>3, <2>4
<1> QED
  BY <1>1, <1>2, <1>3 DEF GoodNode

\* The item of a document gives way to good nodes.
LEMMA EmitKeeps ==
  ASSUME VisitInv, Keeps, NEW nodes, NEW codes, NEW more, phase = "visit",
         Emit(nodes, codes, more), written' = written,
         \A n \in nodes : GoodNode(at, n)'
  PROVE  VisitInv'
<1>1. out' = out \cup nodes /\ at' = at /\ phase' = phase /\ package' = package /\ pages' = pages
  BY DEF Emit, found
<1>2. \A n \in out' : GoodNode(at, n)'
  BY <1>1, GoodStaysGood DEF VisitInv
<1>3. \A d \in DOMAIN written' : \A n \in written'[d] : GoodNode(d, n)'
  BY GoodStaysGood DEF VisitInv
<1>4. PagesScanned'
  BY <1>1 DEF VisitInv, PagesScanned, Defining
<1>5. plots' \in Nat
  BY DEF Keeps
<1> QED
  BY <1>1, <1>2, <1>3, <1>4, <1>5 DEF VisitInv

\* Nodes that are no role, no link to a label and no plot.
Bland(n) ==
  /\ n.is # "role"
  /\ ~(n.is = "local" /\ "label" \in DOMAIN n)
  /\ ~(n.is = "figure" /\ n.of[1] = "plot")

LEMMA BlandIsGood ==
  ASSUME NEW d, NEW n, Bland(n)
  PROVE  GoodNode(d, n)'
BY DEF Bland, GoodNode

LEMMA RecordsGrow ==
  ASSUME VisitInv, NEW nodes, NEW codes, NEW more, Emit(nodes, codes, more),
         UNCHANGED <<assets, plots>>
  PROVE  Keeps
BY DEF Emit, Keeps, VisitInv, found

\* An item that makes neither links nor plots.
LEMMA BlandKeeps ==
  ASSUME VisitInv, NEW nodes, NEW codes, NEW more, phase = "visit",
         Emit(nodes, codes, more), UNCHANGED <<assets, plots, written>>,
         \A n \in nodes : Bland(n)
  PROVE  VisitInv'
BY RecordsGrow, BlandIsGood, EmitKeeps

LEMMA LoseKeeps ==
  ASSUME VisitInv, phase = "visit", Lose
  PROVE  VisitInv'
<1>1. Keeps
  BY DEF Lose, Keeps, VisitInv, found, shared
<1>2. out' = {} /\ phase' = "next" /\ written' = written /\ package' = package /\ pages' = pages
  BY DEF Lose, found, shared
<1>3. \A d \in DOMAIN written' : \A n \in written'[d] : GoodNode(d, n)'
  BY <1>1, <1>2, GoodStaysGood DEF VisitInv
<1>4. PagesScanned'
  BY <1>2 DEF VisitInv, PagesScanned, Defining
<1> QED
  BY <1>1, <1>2, <1>3, <1>4 DEF VisitInv, Keeps

-----------------------------------------------------------------------------
(* The steps                                                                *)

LEMMA RoleKeeps == VisitInv /\ VisitRole => VisitInv'
<1> SUFFICES ASSUME VisitInv, VisitRole PROVE VisitInv'
  OBVIOUS
<1> DEFINE page == PageAt(It.target.name)
           r == Replace(It, index, known, Docs[at].qa, Docs[at].params, Docs[at].local, pages, urls, page)
           nodes == IF r.node.is = "nothing" THEN {} ELSE {r.node}
<1>1. phase = "visit" /\ Answers(r, It, pages)
  BY ReplaceAnswers DEF VisitRole, Visiting
<1>2. CASE r.node.is = "error"
  <2>1. Lose
    BY <1>2 DEF VisitRole
  <2> QED
    BY <1>1, <2>1, LoseKeeps
<1>3. CASE r.node.is # "error"
  <2>1. Emit(nodes, r.codes, <<>>) /\ UNCHANGED shared
    BY <1>3 DEF VisitRole
  <2> HIDE DEF r
  <2>2. Keeps /\ records' = records \cup ({at} \X r.codes) /\ pages' = pages /\ at' = at
    BY <2>1, RecordsGrow DEF Emit, shared, found
  <2>3. \A n \in nodes : GoodNode(at, n)'
    <3> SUFFICES ASSUME NEW n \in nodes PROVE GoodNode(at, n)'
      OBVIOUS
    <3>1. n = r.node
      OBVIOUS
    <3>2. n.is = "role" => n.role = It /\ CodeOf(It) \in r.codes
      BY <1>1, <3>1 DEF Answers
    <3>3. n.is = "role" => <<at, CodeOf(n.role)>> \in records'
      BY <2>2, <3>2
    <3>4. n.is = "local" /\ "label" \in DOMAIN n =>
            n.label \in DOMAIN pages' /\ n.page = pages'[n.label]
      BY <1>1, <2>2, <3>1 DEF Answers
    <3>5. n.is # "figure"
      BY <1>1, <3>1 DEF Answers
    <3> QED
      BY <2>2, <3>3, <3>4, <3>5 DEF GoodNode
  <2> QED
    BY <1>1, <2>1, <2>2, <2>3, EmitKeeps DEF shared
<1> QED
  BY <1>2, <1>3

LEMMA SectionKeeps == VisitInv /\ VisitSection => VisitInv'
<1> SUFFICES ASSUME VisitInv, VisitSection PROVE VisitInv'
  OBVIOUS
<1>1. phase = "visit"
  BY DEF VisitSection, Visiting
<1>2. CASE Lose
  BY <1>1, <1>2, LoseKeeps
<1>3. CASE Emit({}, {}, <<>>) /\ UNCHANGED <<assets, plots, written>>
  BY <1>1, <1>3, BlandKeeps
<1> QED
  BY <1>2, <1>3 DEF VisitSection

LEMMA ImageKeeps ==
  ASSUME VisitInv, VisitImage
  PROVE  VisitInv'
<1> DEFINE f == File(It.uri, Here)
           name == BaseName[f]
<1>1. phase = "visit" /\ UNCHANGED <<plots, written>> /\ plots \in Nat
  BY DEF VisitImage, Visiting, VisitInv
<1>2. CASE \E codes : Emit({[is |-> "image"]}, codes, It.items) /\ UNCHANGED assets
  BY <1>1, <1>2, BlandKeeps DEF Bland
<1>3. ASSUME Exists(It.uri, Here),
             assets' = [n \in DOMAIN assets \cup {name} |-> IF n = name THEN f ELSE assets[n]],
             Emit({[is |-> "figure", name |-> name, of |-> f]}, {}, It.items)
      PROVE  VisitInv'
  <2>1. PicturesAreNoPlots => f[1] # "plot" /\ \A j \in Nat : name # <<"plot", j>>
    BY <1>3 DEF PicturesAreNoPlots, Exists
  <2>2. records \subseteq records' /\ pages' = pages
    BY <1>3 DEF Emit, found
  <2> HIDE DEF f, name
  <2>3. PicturesAreNoPlots => \A j \in 0..(plots - 1) : <<"plot", j>> \in DOMAIN assets =>
          <<"plot", j>> \in DOMAIN assets' /\ assets'[<<"plot", j>>] = assets[<<"plot", j>>]
    <3> SUFFICES ASSUME PicturesAreNoPlots, NEW j \in 0..(plots - 1), <<"plot", j>> \in DOMAIN assets
                 PROVE  <<"plot", j>> \in DOMAIN assets' /\ assets'[<<"plot", j>>] = assets[<<"plot", j>>]
      OBVIOUS
    <3>1. j \in Nat
      BY <1>1
    <3> QED
      BY <1>3, <2>1, <3>1
  <2>4. Keeps
    BY <1>1, <2>2, <2>3 DEF Keeps
  <2>5. PICK n : n = [is |-> "figure", name |-> name, of |-> f]
    OBVIOUS
  <2>6. GoodNode(at, n)'
    BY <2>1, <2>5 DEF GoodNode
  <2>7. Emit({n}, {}, It.items)
    BY <1>3, <2>5 DEF f, name
  <2> QED
    BY <1>1, <2>4, <2>6, <2>7, EmitKeeps
<1> QED
  BY <1>2, <1>3 DEF VisitImage

LEMMA PlotKeeps == VisitInv /\ VisitPlot => VisitInv'
<1> SUFFICES ASSUME VisitInv, VisitPlot PROVE VisitInv'
  OBVIOUS
<1>0. PICK figure : figure = [is |-> "figure", name |-> PlotName, of |-> Drawing]
  OBVIOUS
<1>1. phase = "visit" /\ UNCHANGED written /\ plots \in Nat
  BY DEF VisitPlot, Visiting, VisitInv
<1>2. CASE \E codes : Emit({}, codes, <<>>) /\ UNCHANGED <<assets, plots>>
  BY <1>1, <1>2, BlandKeeps
<1>3. CASE \E codes : Emit({[is |-> "code"]}, codes, <<>>) /\ UNCHANGED <<assets, plots>>
  BY <1>1, <1>3, BlandKeeps DEF Bland
<1>4. ASSUME plots' = plots + 1,
             assets' = [n \in DOMAIN assets \cup {PlotName} |->
                          IF n = PlotName THEN Drawing ELSE assets[n]],
             Emit({[is |-> "code"], figure}, {}, <<>>)
      PROVE  VisitInv'
  <2>0. PICK it : it = [is |-> "code"]
    OBVIOUS
  <2>1. records \subseteq records' /\ pages' = pages
    BY <1>4 DEF Emit, found
  <2>2. \A j \in 0..(plots - 1) : <<"plot", j>> # PlotName
    BY <1>1 DEF PlotName
  <2>3. \A j \in 0..(plots - 1) : <<"plot", j>> \in DOMAIN assets =>
          <<"plot", j>> \in DOMAIN assets' /\ assets'[<<"plot", j>>] = assets[<<"plot", j>>]
    BY <1>4, <2>2
  <2>4. plots' \in Nat /\ plots <= plots'
    BY <1>1, <1>4
  <2>5. Keeps
    BY <1>1, <2>1, <2>3, <2>4 DEF Keeps
  <2>6. plots \in 0..(plots' - 1) /\ PlotName = <<"plot", plots>>
        /\ PlotName \in DOMAIN assets' /\ assets'[PlotName] = Drawing
    BY <1>1, <1>4 DEF PlotName
  <2>7. figure.name = PlotName /\ figure.of = Drawing /\ figure.is = "figure"
    BY <1>0
  <2>8. GoodNode(at, figure)'
    <3>1. \E j \in 0..(plots' - 1) :
            figure.name = <<"plot", j>> /\ figure.name \in DOMAIN assets' /\ assets'[figure.name] = figure.of
      BY <2>6, <2>7
    <3> QED
      BY <3>1, <2>7 DEF GoodNode
  <2>9. Bland(it)
    BY <2>0 DEF Bland
  <2>10. Emit({it, figure}, {}, <<>>)
    BY <1>4, <2>0
  <2>11. \A n \in {it, figure} : GoodNode(at, n)'
    BY <2>8, <2>9, BlandIsGood
  <2> QED
    BY <1>1, <1>4, <2>5, <2>10, <2>11, EmitKeeps
<1> QED
  BY <1>0, <1>2, <1>3, <1>4 DEF VisitPlot

LEMMA SeeAlsoKeeps ==
  ASSUME PlainDescriptions, VisitInv, VisitSeeAlso
  PROVE  VisitInv'
<1>1. phase = "visit" /\ Emit(SeeAlso(It), {}, <<>>) /\ UNCHANGED shared
  BY DEF VisitSeeAlso, Visiting
<1>2. ASSUME NEW n \in It.desc PROVE Bland(n)
  BY <1>2 DEF PlainDescriptions, VisitSeeAlso, Bland
<1>3. \A n \in SeeAlso(It) : Bland(n)
  <2> SUFFICES ASSUME NEW n \in SeeAlso(It) PROVE Bland(n)
    OBVIOUS
  <2>1. CASE n \in It.desc
    BY <1>2, <2>1
  <2>2. CASE \E name : n = [is |-> "unresolved", name |-> name]
    BY <2>2 DEF Bland
  <2>3. CASE \E o : n = [is |-> "local", object |-> o]
    BY <2>3 DEF Bland
  <2> QED
    BY <2>1, <2>2, <2>3 DEF SeeAlso
<1> QED
  BY <1>1, <1>3, BlandKeeps DEF shared

\* Items whose nodes are of a fixed kind, or that only give way to more items.
LEMMA PlainKeeps ==
  ASSUME VisitInv,
         \/ VisitText \/ VisitMark \/ VisitSubstitution \/ VisitInclude \/ VisitLostInclude
         \/ VisitAdmonition \/ VisitBox \/ VisitVerbatim \/ VisitDropped \/ VisitTable
         \/ VisitCsv \/ VisitDirective
  PROVE  VisitInv'
<1>1. /\ Bland([is |-> "text"]) /\ Bland([is |-> "table"]) /\ Bland([is |-> "directive"])
      /\ Bland([is |-> "target", label |-> It.label])
  BY DEF Bland
<1>2. ASSUME NEW nodes \in {{}, {[is |-> "text"]}, {[is |-> "table"]}, {[is |-> "directive"]},
                            {[is |-> "target", label |-> It.label]}},
             NEW codes, NEW more, phase = "visit", Emit(nodes, codes, more), UNCHANGED shared
      PROVE  VisitInv'
  BY <1>1, <1>2, BlandKeeps DEF shared
<1>3. CASE VisitText
  BY <1>2, <1>3 DEF VisitText, Visiting
<1>4. CASE VisitMark
  BY <1>2, <1>4 DEF VisitMark, Visiting
<1>5. CASE VisitSubstitution
  BY <1>2, <1>5 DEF VisitSubstitution, Visiting
<1>6. CASE VisitInclude
  BY <1>2, <1>6, LoseKeeps DEF VisitInclude, Visiting
<1>7. CASE VisitLostInclude
  BY <1>2, <1>7 DEF VisitLostInclude, Visiting
<1>8. CASE VisitAdmonition
  BY <1>2, <1>8, LoseKeeps DEF VisitAdmonition, Visiting
<1>9. CASE VisitBox
  BY <1>2, <1>9 DEF VisitBox, Visiting
<1>10. CASE VisitVerbatim
  <2>1. phase = "visit" /\ It.is = "code" /\ Emit({It}, {}, <<>>) /\ UNCHANGED shared
    BY <1>10 DEF VisitVerbatim, Visiting, It
  <2>2. Bland(It)
    BY <2>1 DEF Bland
  <2> QED
    BY <2>1, <2>2, BlandKeeps DEF shared
<1>11. CASE VisitDropped
  BY <1>2, <1>11 DEF VisitDropped, Visiting
<1>12. CASE VisitTable
  BY <1>2, <1>12 DEF VisitTable, Visiting
<1>13. CASE VisitCsv
  BY <1>2, <1>13 DEF VisitCsv, Visiting
<1>14. CASE VisitDirective
  BY <1>2, <1>14 DEF VisitDirective, Visiting
<1> QED
  BY <1>3, <1>4, <1>5, <1>6, <1>7, <1>8, <1>9, <1>10, <1>11, <1>12, <1>13, <1>14

LEMMA EndKeeps == VisitInv /\ EndDoc => VisitInv'
<1> SUFFICES ASSUME VisitInv, EndDoc PROVE VisitInv'
  OBVIOUS
<1>1. phase = "visit"
  BY DEF EndDoc
<1>2. CASE Lose
  BY <1>1, <1>2, LoseKeeps
<1>3. CASE ~Lose
  <2>1. /\ written' = [i \in DOMAIN written \cup {at} |-> IF i = at THEN out ELSE written[i]]
        /\ phase' = "next" /\ out' = {}
        /\ UNCHANGED <<found, at, todo, subs, resolver, records, assets, plots>>
    BY <1>3 DEF EndDoc
  <2>2. Keeps
    BY <2>1 DEF Keeps, VisitInv, found
  <2>3. \A d \in DOMAIN written' : \A n \in written'[d] : GoodNode(d, n)
    BY <2>1 DEF VisitInv
  <2>4. \A d \in DOMAIN written' : \A n \in written'[d] : GoodNode(d, n)'
    BY <2>2, <2>3, GoodStaysGood
  <2>5. PagesScanned'
    BY <2>1 DEF VisitInv, PagesScanned, found, Defining
  <2> QED
    BY <2>1, <2>4, <2>5 DEF VisitInv
<1> QED
  BY <1>2, <1>3

LEMMA VisitKeeps ==
  ASSUME PlainDescriptions, VisitInv, Visit
  PROVE  VisitInv'
BY RoleKeeps, SectionKeeps, ImageKeeps, PlotKeeps, SeeAlsoKeeps, PlainKeeps, EndKeeps DEF Visit

\* Before and between the documents.
LEMMA CollectKeeps == VisitInv /\ (\E o \in package.objects : Collect(o)) => VisitInv'
<1> SUFFICES ASSUME VisitInv, NEW o \in package.objects, Collect(o) PROVE VisitInv'
  OBVIOUS
<1>1. /\ phase = "collect" /\ phase' = phase /\ out' = out /\ written' = written
      /\ plots' = plots /\ pages' = pages /\ package' = package
  BY DEF Collect, shared
<1> QED
  BY <1>1 DEF VisitInv, PagesScanned, Defining

LEMMA ScanKeeps == VisitInv /\ Scan => VisitInv'
<1> SUFFICES ASSUME VisitInv, Scan PROVE VisitInv'
  OBVIOUS
<1>1. /\ phase = "collect" /\ phase' = "next" /\ out' = out /\ written' = written
      /\ plots' = plots /\ package' = package
  BY DEF Scan, shared
<1>2. PagesScanned'
  <2> DEFINE labels == UNION {LabelsOf(package.items[i]) : i \in {j \in DOMAIN Docs : Docs[j].page}}
  <2>1. pages' = [l \in labels |-> FirstPage(Defining(package.items, l))]
    BY DEF Scan
  <2> HIDE DEF labels
  <2> QED
    BY <1>1, <2>1 DEF PagesScanned
<1> QED
  BY <1>1, <1>2 DEF VisitInv

LEMMA StartKeeps == VisitInv /\ StartDoc => VisitInv'
<1> SUFFICES ASSUME VisitInv, StartDoc PROVE VisitInv'
  OBVIOUS
<1>1. /\ phase' = "visit" /\ out' = {} /\ records \subseteq records'
      /\ UNCHANGED <<found, shared>>
  BY DEF StartDoc
<1>2. Keeps
  BY <1>1 DEF Keeps, VisitInv, found, shared
<1>3. \A d \in DOMAIN written' : \A n \in written'[d] : GoodNode(d, n)'
  BY <1>1, <1>2, GoodStaysGood DEF VisitInv, shared
<1> QED
  BY <1>1, <1>3 DEF VisitInv, PagesScanned, found, shared, Defining

LEMMA StutterKeeps ==
  ASSUME VisitInv, UNCHANGED <<found, at, out, shared, records>>,
         phase' = phase \/ phase' = "done"
  PROVE  VisitInv'
<1>1. Keeps
  BY DEF Keeps, VisitInv, found, shared
<1>2. \A d \in DOMAIN written' : \A n \in written'[d] : GoodNode(d, n)'
  BY <1>1, GoodStaysGood DEF VisitInv, shared
<1>3. \A n \in out' : GoodNode(at, n)'
  BY <1>1, GoodStaysGood DEF VisitInv
<1> QED
  BY <1>2, <1>3 DEF VisitInv, PagesScanned, found, shared, Defining

LEMMA InitVisitInv == Init => VisitInv
BY DEF Init, VisitInv, PagesScanned

LEMMA NextVisitInv ==
  ASSUME PlainDescriptions, VisitInv, [Next]_vars
  PROVE  VisitInv'
<1>1. CASE \E o \in package.objects : Collect(o)
  BY <1>1, CollectKeeps
<1>2. CASE Scan
  BY <1>2, ScanKeeps
<1>3. CASE StartDoc
  BY <1>3, StartKeeps
<1>4. CASE Visit
  BY <1>4, VisitKeeps
<1>5. CASE Finish \/ UNCHANGED vars
  BY <1>5, StutterKeeps DEF Finish, vars, found, shared
<1> QED
  BY <1>1, <1>2, <1>3, <1>4, <1>5 DEF Next

\* The first of a set of documents is one of them, and before all others.
LEMMA FirstIsFirst ==
  ASSUME NEW S, S \subseteq DOMAIN Docs, S # {}
  PROVE  FirstPage(S) \in S /\ \A i \in S : FirstPage(S) <= i
<1>1. S \subseteq Nat
  BY DocsAssumption
<1>2. PICK i \in S : \A j \in S : ~(<<j, i>> \in OpToRel(<, Nat))
  BY <1>1, NatLessThanWellFounded, WFMin
<1>3. ASSUME NEW j \in S PROVE i <= j
  <2>1. i \in Nat /\ j \in Nat
    BY <1>1
  <2>2. ~(j < i)
    BY <1>2, <2>1 DEF OpToRel
  <2> QED
    BY <2>1, <2>2
<1> QED
  BY <1>2, <1>3 DEF FirstPage

\* No document leaves a role in it that was not reported (tree.py,
\* replace_InlineRole), provided See Also descriptions, which are not visited,
\* hold none.
THEOREM LeftoversReported == Spec /\ []PlainDescriptions => []LeftoversAreReported
<1>1. VisitInv /\ PlainDescriptions /\ [Next]_vars => VisitInv'
  BY NextVisitInv
<1>2. VisitInv => LeftoversAreReported
  BY DEF VisitInv, GoodNode, LeftoversAreReported
<1> QED
  BY <1>1, <1>2, InitVisitInv, PTL DEF Spec

\* Every link to a label, whatever role made it and whatever was visited
\* before, leads to the first page that defines the label (gen.py,
\* _scan_narrative_sources; tree.py, replace_InlineRole).
THEOREM LinksLeadToFirst == Spec /\ []PlainDescriptions => []LabelsLeadToFirst
<1>1. VisitInv /\ PlainDescriptions /\ [Next]_vars => VisitInv'
  BY NextVisitInv
<1>2. VisitInv => LabelsLeadToFirst
  <2> SUFFICES ASSUME VisitInv, NEW d \in DOMAIN written, NEW n \in written[d],
                      n.is = "local", "label" \in DOMAIN n,
                      Defining(package.items, n.label) # {}
               PROVE  /\ n.page \in Defining(package.items, n.label)
                      /\ \A i \in Defining(package.items, n.label) : n.page <= i
    BY DEF LabelsLeadToFirst
  <2>1. n.page = FirstPage(Defining(package.items, n.label))
    BY DEF VisitInv, PagesScanned, GoodNode
  <2>2. Defining(package.items, n.label) \subseteq DOMAIN Docs
    BY DEF Defining
  <2> QED
    BY <2>1, <2>2, FirstIsFirst
<1> QED
  BY <1>1, <1>2, InitVisitInv, PTL DEF Spec

\* A drawn plot keeps its picture to the end of the run (directives.py,
\* _plot_counter), provided no image of the sources has the name of a plot.
THEOREM PlotsAreKept ==
  PicturesAreNoPlots => (Spec /\ []PlainDescriptions => []PlotFiguresAreKept)
<1> SUFFICES ASSUME PicturesAreNoPlots
             PROVE  Spec /\ []PlainDescriptions => []PlotFiguresAreKept
  OBVIOUS
<1>1. VisitInv /\ PlainDescriptions /\ [Next]_vars => VisitInv'
  BY NextVisitInv
<1>2. VisitInv => PlotFiguresAreKept
  BY DEF VisitInv, GoodNode, PlotFiguresAreKept
<1> QED
  BY <1>1, <1>2, InitVisitInv, PTL DEF Spec

-----------------------------------------------------------------------------
(* The search for an object, and one more object                            *)

\* The closest of the enclosing scopes is one of them, and all others are shorter.
LEMMA ClosestIsLongest ==
  ASSUME NEW qa \in Seq(Component), NEW S, S \subseteq Scopes(qa), S # {}
  PROVE  /\ ClosestScope(S) \in S
         /\ Len(ClosestScope(S)) \in 1..Len(qa)
         /\ \A s \in S : s = ClosestScope(S) \/ Len(s) < Len(ClosestScope(S))
<1> DEFINE Scope(i) == SubSeq(qa, 1, i)
           T == {i \in 0..(Len(qa) - 1) : Scope(Len(qa) - i) \in S}
<1>1. Len(qa) \in Nat /\ \A i \in 1..Len(qa) : qa[i] \in Component
  OBVIOUS
<1>2. ASSUME NEW i \in 1..Len(qa)
      PROVE  Scope(i) \in Seq(Component) /\ Len(Scope(i)) = i
  BY <1>1, SubSeqProperties
<1>3. ASSUME NEW j \in 1..Len(qa), NEW i \in 1..j
      PROVE  IsPrefix(Scope(i), Scope(j))
  <2>1. SubSeq(Scope(j), 1, i) = Scope(i)
    BY <1>1, SubSeqOfSubSeq
  <2>2. SubSeq(Scope(i), 1, i) = Scope(i)
    BY <1>1, <1>2, SubSeqFull
  <2>3. Len(Scope(i)) = i /\ Len(Scope(j)) = j
    BY <1>1, <1>2
  <2> HIDE DEF Scope
  <2> QED
    BY <1>1, <2>1, <2>2, <2>3 DEF IsPrefix
<1>4. T \subseteq Nat /\ T # {}
  <2>1. PICK s : s \in S
    OBVIOUS
  <2>2. PICK i \in 1..Len(qa) : s = Scope(i)
    BY <2>1 DEF Scopes
  <2>3. Len(qa) - i \in 0..(Len(qa) - 1) /\ Len(qa) - (Len(qa) - i) = i
    BY <1>1
  <2>4. Len(qa) - i \in T
    BY <2>1, <2>2, <2>3
  <2>5. 0..(Len(qa) - 1) \subseteq Nat
    OBVIOUS
  <2> QED
    BY <2>4, <2>5
<1>5. PICK x \in T : \A y \in T : ~(<<y, x>> \in OpToRel(<, Nat))
  BY <1>4, NatLessThanWellFounded, WFMin
<1>6. ASSUME NEW y \in T PROVE x <= y
  <2>1. x \in Nat /\ y \in Nat
    BY <1>4
  <2>2. ~(y < x)
    BY <1>5, <2>1 DEF OpToRel
  <2> QED
    BY <2>1, <2>2
<1>7. PICK j \in 1..Len(qa) : j = Len(qa) - x /\ Scope(j) \in S
  BY <1>1
<1>8. ASSUME NEW i \in 1..Len(qa), Scope(i) \in S
      PROVE  i <= j
  <2>1. Len(qa) - i \in 0..(Len(qa) - 1) /\ Len(qa) - (Len(qa) - i) = i
    BY <1>1
  <2>2. Len(qa) - i \in T
    BY <1>8, <2>1
  <2>3. x <= Len(qa) - i
    BY <1>6, <2>2
  <2> QED
    BY <1>1, <1>7, <2>3
<1>9. \A s \in S : IsPrefix(s, Scope(j))
  <2> SUFFICES ASSUME NEW s \in S PROVE IsPrefix(s, Scope(j))
    OBVIOUS
  <2>1. PICK i \in 1..Len(qa) : s = Scope(i)
    BY DEF Scopes
  <2>2. i \in 1..j
    BY <1>1, <1>8, <2>1
  <2> QED
    BY <1>3, <2>1, <2>2
<1>10. ClosestScope(S) \in S /\ \A s \in S : IsPrefix(s, ClosestScope(S))
  <2> HIDE DEF Scope
  <2> QED
    BY <1>7, <1>9 DEF ClosestScope
<1>11. PICK c \in 1..Len(qa) : ClosestScope(S) = Scope(c)
  BY <1>10 DEF Scopes
<1>12. ASSUME NEW s \in S PROVE s = Scope(c) \/ Len(s) < Len(Scope(c))
  <2>1. PICK i \in 1..Len(qa) : s = Scope(i)
    BY DEF Scopes
  <2>2. Len(s) = i /\ Len(Scope(c)) = c
    BY <1>2, <2>1
  <2>3. Len(s) <= Len(Scope(c))
    BY <1>10, <1>11 DEF IsPrefix
  <2> HIDE DEF Scope
  <2> QED
    BY <1>1, <2>1, <2>2, <2>3
<1> QED
  BY <1>2, <1>10, <1>11, <1>12

\* An object is neither of the answers that are none.
LEMMA ObjectsAreFound ==
  ASSUME NEW x \in Object
  PROVE  x # Missing
<1>1. "mod" \in DOMAIN x
  BY DEF Object
<1> QED
  BY <1>1 DEF Missing

LEMMA OnlyIsTheOne ==
  ASSUME NEW S, S \subseteq Object
  PROVE  /\ Only(S) # Missing => S = {Only(S)}
         /\ \A x : S = {x} => Only(S) = x /\ Only(S) # Missing
BY ObjectsAreFound DEF Only

\* Two indexes, the second of which has one more object.
Grows(m, m2, K, x) ==
  /\ K \subseteq Object /\ x \in Object
  /\ m \in Indexes(K) /\ m2 \in Indexes(K \cup {x})

\* Every key stands for an object of its name; a key that is new stands for the new one.
LEMMA KeysStand ==
  ASSUME NEW m, NEW m2, NEW K, NEW x, Grows(m, m2, K, x)
  PROVE  /\ DOMAIN m2 = DOMAIN m \cup {Dotted(x)}
         /\ \A k \in DOMAIN m : Dotted(m[k]) = k /\ m[k] \in Object
         /\ \A k \in DOMAIN m2 : Dotted(m2[k]) = k /\ m2[k] \in Object
         /\ Dotted(x) \notin DOMAIN m => m2[Dotted(x)] = x
<1>1. /\ m \in [Keys(K) -> K] /\ \A k \in DOMAIN m : Dotted(m[k]) = k
      /\ m2 \in [Keys(K \cup {x}) -> K \cup {x}] /\ \A k \in DOMAIN m2 : Dotted(m2[k]) = k
      /\ K \subseteq Object /\ x \in Object
  BY DEF Grows, Indexes
<1>2. Keys(K \cup {x}) = Keys(K) \cup {Dotted(x)}
  BY DEF Keys
<1>3. \A y \in K : Dotted(y) \in Keys(K)
  BY DEF Keys
<1>4. DOMAIN m = Keys(K) /\ DOMAIN m2 = Keys(K) \cup {Dotted(x)}
  BY <1>1, <1>2
<1>5. \A k \in DOMAIN m : m[k] \in K
  BY <1>1, <1>4
<1>6. \A k \in DOMAIN m2 : m2[k] \in K \cup {x}
  BY <1>1, <1>2, <1>4
<1>7. Dotted(x) \notin DOMAIN m => m2[Dotted(x)] = x
  BY <1>1, <1>3, <1>4, <1>6
<1> QED
  BY <1>1, <1>4, <1>5, <1>6, <1>7

LEMMA KeysAreOfKnown ==
  ASSUME NEW m, NEW K, m \in Indexes(K)
  PROVE  /\ \A k \in DOMAIN m : Dotted(m[k]) = k /\ m[k] \in K
         /\ \A y \in K : Dotted(y) \in DOMAIN m
BY DEF Indexes, Keys

\* What a name ends in, a longer one ends in, too.
LEMMA LongerEndsAlike ==
  ASSUME NEW C, NEW s \in Seq(C), NEW u \in Seq(C), NEW name \in Seq(C), IsSuffix(name, u)
  PROVE  IsSuffix(name, s \o u)
<1>1. PICK n \in Nat, k \in Nat, l \in Nat : n = Len(s) /\ k = Len(u) /\ l = Len(name)
  BY LenProperties
<1>2. PICK v \in Seq(C) : v = s \o u
  BY ConcatProperties
<1>3. Len(v) = n + k /\ \A i \in 1..(n + k) : v[i] = IF i <= n THEN s[i] ELSE u[i - n]
  BY <1>1, <1>2, ConcatProperties
<1>4. PICK a, b, c : a = Reverse(name) /\ b = Reverse(u) /\ c = Reverse(v)
  OBVIOUS
<1>5. /\ a = [i \in 1..l |-> name[(l - i) + 1]] /\ b = [i \in 1..k |-> u[(k - i) + 1]]
      /\ c = [i \in 1..(n + k) |-> v[((n + k) - i) + 1]]
  BY <1>1, <1>3, <1>4 DEF Reverse
<1>6. /\ \A i \in 1..l : (l - i) + 1 \in 1..l
      /\ \A i \in 1..k : (k - i) + 1 \in 1..k
      /\ \A i \in 1..(n + k) : ((n + k) - i) + 1 \in 1..(n + k)
  OBVIOUS
<1>7. a \in [1..l -> C] /\ b \in [1..k -> C] /\ c \in [1..(n + k) -> C] /\ n + k \in Nat
  <2>1. /\ \A i \in 1..l : name[i] \in C
        /\ \A i \in 1..k : u[i] \in C
        /\ \A i \in 1..(n + k) : v[i] \in C
    BY <1>1, <1>3, ElementOfSeq
  <2>2. n + k \in Nat
    OBVIOUS
  <2> QED
    BY <1>5, <1>6, <2>1, <2>2
<1>8. Len(a) = l /\ Len(b) = k /\ Len(c) = n + k
  BY <1>7
<1>9. l <= k /\ SubSeq(a, 1, l) = SubSeq(b, 1, l)
  BY <1>4, <1>8 DEF IsSuffix, IsPrefix
<1>10. ASSUME NEW i \in 1..l PROVE c[i] = b[i]
  <2>1. i \in 1..k /\ i \in 1..(n + k) /\ (k - i) + 1 \in 1..k
    BY <1>9
  <2>2. ((n + k) - i) + 1 \in 1..(n + k) /\ ~(((n + k) - i) + 1 <= n)
        /\ (((n + k) - i) + 1) - n = (k - i) + 1
    BY <2>1
  <2> QED
    BY <1>3, <1>5, <2>1, <2>2
<1>11. SubSeq(c, 1, l) = SubSeq(b, 1, l)
  <2>1. \A i \in 1..l : i \in 1..k /\ i \in 1..(n + k) /\ (1 + i) - 1 = i
    BY <1>9
  <2>2. (\A i \in 1..l : b[i] \in C) /\ \A i \in 1..l : c[i] \in C
    BY <1>7, <2>1
  <2>3. 1 \in Int /\ l \in Int /\ (l - 1) + 1 = l
    OBVIOUS
  <2>4. /\ SubSeq(b, 1, l) \in Seq(C) /\ \A i \in 1..((l - 1) + 1) : SubSeq(b, 1, l)[i] = b[(1 + i) - 1]
        /\ Len(SubSeq(b, 1, l)) = IF 1 <= l THEN (l - 1) + 1 ELSE 0
    BY <2>2, <2>3, SubSeqProperties
  <2>5. /\ SubSeq(c, 1, l) \in Seq(C) /\ \A i \in 1..((l - 1) + 1) : SubSeq(c, 1, l)[i] = c[(1 + i) - 1]
        /\ Len(SubSeq(c, 1, l)) = IF 1 <= l THEN (l - 1) + 1 ELSE 0
    BY <2>2, <2>3, SubSeqProperties
  <2>6. Len(SubSeq(b, 1, l)) = l /\ Len(SubSeq(c, 1, l)) = l
    BY <2>3, <2>4, <2>5
  <2>7. \A i \in 1..l : SubSeq(c, 1, l)[i] = SubSeq(b, 1, l)[i]
    BY <1>10, <2>1, <2>3, <2>4, <2>5
  <2> QED
    BY <2>4, <2>5, <2>6, <2>7, SeqEqual
<1>12. IsPrefix(a, c)
  <2>1. l <= n + k
    BY <1>9
  <2> QED
    BY <1>8, <1>9, <1>11, <2>1 DEF IsPrefix
<1> QED
  BY <1>2, <1>4, <1>12 DEF IsSuffix

\* The keys without a colon that an ending hits.
SuffixKeys(m, name) == {j \in DOMAIN m : EndsIn(j, name)}

\* A hit is of an object whose dotted name is one of these keys.
LEMMA HitsHaveKeys ==
  ASSUME NEW m, NEW K, NEW name \in Seq(Component), K \subseteq Object,
         \A k \in DOMAIN m : Dotted(m[k]) = k /\ m[k] \in K,
         \A y \in K : Dotted(y) \in DOMAIN m
  PROVE  /\ \A y \in SuffixHits(m, K, name) : y \in K /\ y \in Object /\ Dotted(y) \in SuffixKeys(m, name)
         /\ \A k \in SuffixKeys(m, name) : m[k] \in SuffixHits(m, K, name)
<1>1. ASSUME NEW y \in K, EndsIn(y.qual, name) PROVE EndsIn(Dotted(y), name)
  <2>1. PICK s \in Seq(Component), u \in Seq(Component) : s = y.mod /\ u = y.qual
    BY DEF Object, Name
  <2>2. Dotted(y) = s \o u
    BY <2>1 DEF Dotted
  <2>3. Len(s \o u) = Len(s) + Len(u)
    BY ConcatProperties
  <2>4. Len(u) > Len(name) /\ IsSuffix(name, u)
    BY <1>1, <2>1 DEF EndsIn
  <2>5. IsSuffix(name, s \o u) /\ Len(s) + Len(u) > Len(name)
    <3>1. Len(s) \in Nat /\ Len(u) \in Nat /\ Len(name) \in Nat
      BY LenProperties
    <3> QED
      BY <2>4, <3>1, LongerEndsAlike
  <2> QED
    BY <2>2, <2>3, <2>5 DEF EndsIn
<1> QED
  BY <1>1 DEF SuffixHits, SuffixKeys

\* By its ending alone: what was found stays, or is lost to the new object, unless
\* objects share their dotted name.
LEMMA EndingMoves ==
  ASSUME NEW m, NEW m2, NEW K, NEW x, Grows(m, m2, K, x), NEW name \in Seq(Component)
  PROVE  LET before == Only(SuffixHits(m, K, name))
             after  == Only(SuffixHits(m2, K \cup {x}, name))
         IN  /\ before = Missing => after \in {Missing, x} \/ Shared(K \cup {x}, after)
             /\ before # Missing /\ after = Missing => IsSuffix(name, Dotted(x)) \/ Shared(K, before)
             /\ before # Missing /\ after # Missing => Dotted(after) = Dotted(before)
<1> DEFINE S == SuffixHits(m, K, name)
           S2 == SuffixHits(m2, K \cup {x}, name)
           before == Only(S)
           after  == Only(S2)
           H == SuffixKeys(m, name)
           H2 == SuffixKeys(m2, name)
<1>1. /\ DOMAIN m2 = DOMAIN m \cup {Dotted(x)}
      /\ \A k \in DOMAIN m : Dotted(m[k]) = k /\ m[k] \in K
      /\ \A k \in DOMAIN m2 : Dotted(m2[k]) = k /\ m2[k] \in K \cup {x}
      /\ \A y \in K : Dotted(y) \in DOMAIN m
      /\ K \subseteq Object /\ x \in Object
  <2>1. /\ K \subseteq Object /\ x \in Object /\ m \in Indexes(K) /\ m2 \in Indexes(K \cup {x})
    BY DEF Grows
  <2>2. DOMAIN m2 = DOMAIN m \cup {Dotted(x)}
    BY KeysStand
  <2>3. \A k \in DOMAIN m2 : Dotted(m2[k]) = k /\ m2[k] \in K \cup {x}
    <3>1. PICK L : L = K \cup {x}
      OBVIOUS
    <3> QED
      BY <2>1, <3>1, KeysAreOfKnown
  <2> QED
    BY <2>1, <2>2, <2>3, KeysAreOfKnown
<1>2. /\ \A y \in S : y \in K /\ y \in Object /\ Dotted(y) \in H
      /\ \A k \in H : m[k] \in S
  BY <1>1, HitsHaveKeys
<1>3. /\ \A y \in S2 : y \in K \cup {x} /\ y \in Object /\ Dotted(y) \in H2
      /\ \A k \in H2 : m2[k] \in S2
  <2>1. PICK L : L = K \cup {x}
    OBVIOUS
  <2>2. L \subseteq Object /\ \A y \in L : Dotted(y) \in DOMAIN m2
    BY <1>1, <2>1
  <2> QED
    BY <1>1, <2>1, <2>2, HitsHaveKeys
<1>4. /\ H \subseteq DOMAIN m /\ H2 \subseteq DOMAIN m2 /\ H \subseteq H2 /\ H2 \subseteq H \cup {Dotted(x)}
      /\ \A k \in H2 : k \in DOMAIN m => k \in H
      /\ Dotted(x) \in H2 => IsSuffix(name, Dotted(x))
  BY <1>1 DEF SuffixKeys, EndsIn
<1>5. /\ before # Missing => S = {before}
      /\ \A y : S = {y} => before = y /\ before # Missing
      /\ after # Missing => S2 = {after}
      /\ \A y : S2 = {y} => after = y /\ after # Missing
  <2> HIDE DEF S, S2
  <2>1. S \subseteq Object /\ S2 \subseteq Object
    BY <1>2, <1>3
  <2> QED
    BY <2>1, OnlyIsTheOne
<1> HIDE DEF before, after, S, S2, H, H2
<1>6. ASSUME before # Missing PROVE before \in K /\ H = {Dotted(before)}
  <2>1. before \in S /\ \A y \in S : y = before
    BY <1>5, <1>6
  <2>2. \A k \in H : k = Dotted(before)
    BY <1>1, <1>2, <1>4, <2>1
  <2> QED
    BY <1>2, <2>1, <2>2
<1>7. ASSUME after # Missing PROVE after \in K \cup {x} /\ H2 = {Dotted(after)}
  <2>1. after \in S2 /\ \A y \in S2 : y = after
    BY <1>5, <1>7
  <2>2. \A k \in H2 : k = Dotted(after)
    BY <1>1, <1>3, <1>4, <2>1
  <2> QED
    BY <1>3, <2>1, <2>2
<1>8. ASSUME before = Missing, after # Missing, after # x, ~Shared(K \cup {x}, after) PROVE FALSE
  <2>1. after \in K /\ H2 = {Dotted(after)}
    BY <1>7, <1>8
  <2>2. \A y \in K : Dotted(y) = Dotted(after) => y = after
    BY <1>8 DEF Shared
  <2>3. Dotted(after) \in H /\ H = {Dotted(after)}
    BY <1>1, <1>4, <2>1
  <2>4. \A y \in S : y = after
    BY <1>2, <2>2, <2>3
  <2>5. S # {}
    BY <1>2, <2>3
  <2>6. S = {after}
    BY <2>4, <2>5
  <2> QED
    BY <1>5, <1>8, <2>6
<1>9. ASSUME before # Missing, after = Missing, ~IsSuffix(name, Dotted(x)), ~Shared(K, before) PROVE FALSE
  <2>1. before \in K /\ H = {Dotted(before)}
    BY <1>6, <1>9
  <2>2. \A y \in K : Dotted(y) = Dotted(before) => y = before
    BY <1>9 DEF Shared
  <2>3. H2 = {Dotted(before)} /\ Dotted(x) \notin H2
    BY <1>4, <1>9, <2>1
  <2>4. \A y \in S2 : y = before
    BY <1>3, <2>2, <2>3
  <2>5. S2 # {}
    BY <1>3, <2>3
  <2>6. S2 = {before}
    BY <2>4, <2>5
  <2> QED
    BY <1>5, <1>9, <2>6
<1>10. ASSUME before # Missing, after # Missing PROVE Dotted(after) = Dotted(before)
  BY <1>4, <1>6, <1>7, <1>10
<1> QED
  BY <1>8, <1>9, <1>10 DEF before, after, S, S2

\* MovesOnlyCloser of two indexes.
Closer(m, m2, K, x, qa, t) ==
  LET before == Resolve(m, K, qa, {}, t)
      after  == Resolve(m2, K \cup {x}, qa, {}, t)
  IN  IF before = Missing THEN after \in {Missing, x} \/ Shared(K \cup {x}, after)
      ELSE IF after = Missing
        THEN Nearness(m, qa, t) = 0 /\ (IsSuffix(t.name, Dotted(x)) \/ Shared(K, before))
      ELSE \/ Dotted(after) = Dotted(before)
           \/ after = x /\ Nearness(m2, qa, t) > Nearness(m, qa, t)

\* A name that is one of the keys, or that one of the scopes makes a key of.
LEMMA NameMovesCloser ==
  ASSUME NEW m, NEW m2, NEW K, NEW x, Grows(m, m2, K, x),
         NEW qa \in Seq(Component), NEW t \in Target, ~t.dot, ~NeverIndexed(t)
  PROVE  Closer(m, m2, K, x, qa, t)
<1> DEFINE E == Enclosing(m, qa, t.name)
           E2 == Enclosing(m2, qa, t.name)
           c == ClosestScope(E)
           c2 == ClosestScope(E2)
           before == Resolve(m, K, qa, {}, t)
           after == Resolve(m2, K \cup {x}, qa, {}, t)
           near == Nearness(m, qa, t)
           near2 == Nearness(m2, qa, t)
<1>1. /\ DOMAIN m2 = DOMAIN m \cup {Dotted(x)}
      /\ \A k \in DOMAIN m : Dotted(m[k]) = k /\ m[k] \in Object
      /\ \A k \in DOMAIN m2 : Dotted(m2[k]) = k /\ m2[k] \in Object
      /\ Dotted(x) \notin DOMAIN m => m2[Dotted(x)] = x
  BY KeysStand
<1>2. /\ E \subseteq Scopes(qa) /\ E2 \subseteq Scopes(qa) /\ E \subseteq E2
      /\ \A s \in E2 : s \o t.name \in DOMAIN m2 /\ (s \notin E => s \o t.name \notin DOMAIN m)
      /\ \A s \in E : s \o t.name \in DOMAIN m
  BY <1>1 DEF Enclosing
<1>3. E # {} => /\ c \in E /\ Len(c) \in 1..Len(qa)
                /\ \A s \in E : s = c \/ Len(s) < Len(c)
  BY <1>2, ClosestIsLongest
<1>4. E2 # {} => /\ c2 \in E2 /\ Len(c2) \in 1..Len(qa)
                 /\ \A s \in E2 : s = c2 \/ Len(s) < Len(c2)
  BY <1>2, ClosestIsLongest
<1>5. /\ before = IF t.name \in DOMAIN m THEN m[t.name]
                  ELSE IF E # {} THEN m[c \o t.name] ELSE Only(SuffixHits(m, K, t.name))
      /\ after = IF t.name \in DOMAIN m2 THEN m2[t.name]
                 ELSE IF E2 # {} THEN m2[c2 \o t.name] ELSE Only(SuffixHits(m2, K \cup {x}, t.name))
  BY DEF Resolve
<1>6. /\ near = IF t.name \in DOMAIN m THEN Len(qa) + 1 ELSE IF E # {} THEN Len(c) ELSE 0
      /\ near2 = IF t.name \in DOMAIN m2 THEN Len(qa) + 1 ELSE IF E2 # {} THEN Len(c2) ELSE 0
  BY DEF Nearness
<1>7. Len(qa) \in Nat
  OBVIOUS
<1> HIDE DEF E, E2, c, c2, before, after, near, near2
<1>8. ASSUME \/ before = Missing /\ (after \in {Missing, x} \/ Shared(K \cup {x}, after))
             \/ before # Missing /\ after = Missing /\ near = 0
                /\ (IsSuffix(t.name, Dotted(x)) \/ Shared(K, before))
             \/ before # Missing /\ after # Missing /\ Dotted(after) = Dotted(before)
             \/ after = x /\ after # Missing /\ near2 > near
      PROVE  Closer(m, m2, K, x, qa, t)
  BY <1>8 DEF Closer, before, after, near, near2
<1>9. CASE t.name \in DOMAIN m
  BY <1>1, <1>5, <1>8, <1>9, ObjectsAreFound
<1>10. CASE t.name \in DOMAIN m2 \ DOMAIN m
  <2>1. after = x /\ after # Missing
    BY <1>1, <1>5, <1>10, ObjectsAreFound
  <2>2. near2 > near
    BY <1>3, <1>6, <1>7, <1>10
  <2> QED
    BY <1>8, <2>1, <2>2
<1>11. CASE t.name \notin DOMAIN m2 /\ E # {}
  <2>1. before = m[c \o t.name] /\ c \o t.name \in DOMAIN m
    BY <1>1, <1>2, <1>3, <1>5, <1>11
  <2>2. after = m2[c2 \o t.name] /\ c2 \in E2 /\ c \in E2
    BY <1>2, <1>3, <1>4, <1>5, <1>11
  <2>3. CASE c2 = c
    BY <1>1, <1>2, <1>8, <2>1, <2>2, <2>3, ObjectsAreFound
  <2>4. CASE c2 # c
    <3>1. Len(c) < Len(c2)
      BY <1>4, <2>2, <2>4
    <3>2. c2 \notin E
      BY <1>3, <1>4, <1>11, <2>2, <2>4, <3>1
    <3>3. c2 \o t.name = Dotted(x) /\ Dotted(x) \notin DOMAIN m
      BY <1>1, <1>2, <2>2, <3>2
    <3>4. after = x /\ after # Missing
      BY <1>1, <2>2, <3>3, ObjectsAreFound
    <3>5. near = Len(c) /\ near2 = Len(c2)
      BY <1>1, <1>2, <1>6, <1>11, <2>2
    <3> QED
      BY <1>8, <3>1, <3>4, <3>5
  <2> QED
    BY <2>3, <2>4
<1>12. CASE t.name \notin DOMAIN m2 /\ E = {} /\ E2 # {}
  <2>1. after = m2[c2 \o t.name] /\ c2 \in E2
    BY <1>4, <1>5, <1>12
  <2>2. c2 \o t.name = Dotted(x) /\ Dotted(x) \notin DOMAIN m
    BY <1>1, <1>2, <1>12, <2>1
  <2>3. after = x /\ after # Missing
    BY <1>1, <2>1, <2>2, ObjectsAreFound
  <2>4. near = 0 /\ near2 = Len(c2) /\ Len(c2) > 0
    BY <1>1, <1>4, <1>6, <1>7, <1>12
  <2> QED
    BY <1>8, <2>3, <2>4
<1>13. CASE t.name \notin DOMAIN m2 /\ E2 = {}
  <2>1. E = {} /\ t.name \notin DOMAIN m
    BY <1>1, <1>2, <1>13
  <2>2. before = Only(SuffixHits(m, K, t.name)) /\ after = Only(SuffixHits(m2, K \cup {x}, t.name)) /\ near = 0
    BY <1>5, <1>6, <1>13, <2>1
  <2>3. /\ before = Missing => after \in {Missing, x} \/ Shared(K \cup {x}, after)
        /\ before # Missing /\ after = Missing => IsSuffix(t.name, Dotted(x)) \/ Shared(K, before)
        /\ before # Missing /\ after # Missing => Dotted(after) = Dotted(before)
    <3>1. t.name \in Seq(Component)
      BY DEF Target, Name
    <3> QED
      BY <2>2, <3>1, EndingMoves
  <2> QED
    BY <1>8, <2>2, <2>3
<1> QED
  BY <1>1, <1>9, <1>10, <1>11, <1>12, <1>13

\* A name that begins with a dot is one of the object's own first.
LEMMA DottedMovesCloser ==
  ASSUME NEW m, NEW m2, NEW K, NEW x, Grows(m, m2, K, x),
         NEW qa \in Seq(Component), NEW t \in Target, t.dot
  PROVE  Closer(m, m2, K, x, qa, t)
<1> DEFINE own == qa \o t.name
           before == Resolve(m, K, qa, {}, t)
           after == Resolve(m2, K \cup {x}, qa, {}, t)
           near == Nearness(m, qa, t)
           near2 == Nearness(m2, qa, t)
<1>1. /\ DOMAIN m2 = DOMAIN m \cup {Dotted(x)}
      /\ \A k \in DOMAIN m : Dotted(m[k]) = k /\ m[k] \in Object
      /\ \A k \in DOMAIN m2 : Dotted(m2[k]) = k /\ m2[k] \in Object
      /\ Dotted(x) \notin DOMAIN m => m2[Dotted(x)] = x
  BY KeysStand
<1>2. /\ before = IF own \in DOMAIN m THEN m[own]
                  ELSE IF t.name \in DOMAIN m THEN m[t.name] ELSE Only(SuffixHits(m, K, t.name))
      /\ after = IF own \in DOMAIN m2 THEN m2[own]
                 ELSE IF t.name \in DOMAIN m2 THEN m2[t.name] ELSE Only(SuffixHits(m2, K \cup {x}, t.name))
  BY DEF Resolve, NeverIndexed
<1>3. /\ near = IF own \in DOMAIN m THEN Len(qa) + 2 ELSE IF t.name \in DOMAIN m THEN 1 ELSE 0
      /\ near2 = IF own \in DOMAIN m2 THEN Len(qa) + 2 ELSE IF t.name \in DOMAIN m2 THEN 1 ELSE 0
  BY DEF Nearness
<1>4. Len(qa) \in Nat
  OBVIOUS
<1> HIDE DEF own, before, after, near, near2
<1>5. ASSUME \/ before = Missing /\ (after \in {Missing, x} \/ Shared(K \cup {x}, after))
             \/ before # Missing /\ after = Missing /\ near = 0
                /\ (IsSuffix(t.name, Dotted(x)) \/ Shared(K, before))
             \/ before # Missing /\ after # Missing /\ Dotted(after) = Dotted(before)
             \/ after = x /\ after # Missing /\ near2 > near
      PROVE  Closer(m, m2, K, x, qa, t)
  BY <1>5 DEF Closer, before, after, near, near2
<1>6. CASE own \in DOMAIN m
  BY <1>1, <1>2, <1>5, <1>6, ObjectsAreFound
<1>7. CASE own \in DOMAIN m2 \ DOMAIN m
  <2>1. after = x /\ after # Missing
    BY <1>1, <1>2, <1>7, ObjectsAreFound
  <2>2. near2 > near
    BY <1>3, <1>4, <1>7
  <2> QED
    BY <1>5, <2>1, <2>2
<1>8. CASE own \notin DOMAIN m2 /\ t.name \in DOMAIN m
  BY <1>1, <1>2, <1>5, <1>8, ObjectsAreFound
<1>9. CASE own \notin DOMAIN m2 /\ t.name \in DOMAIN m2 \ DOMAIN m
  <2>1. after = x /\ after # Missing
    BY <1>1, <1>2, <1>9, ObjectsAreFound
  <2>2. near2 > near
    BY <1>1, <1>3, <1>9
  <2> QED
    BY <1>5, <2>1, <2>2
<1>10. CASE own \notin DOMAIN m2 /\ t.name \notin DOMAIN m2
  <2>1. before = Only(SuffixHits(m, K, t.name)) /\ after = Only(SuffixHits(m2, K \cup {x}, t.name)) /\ near = 0
    BY <1>1, <1>2, <1>3, <1>10
  <2>2. /\ before = Missing => after \in {Missing, x} \/ Shared(K \cup {x}, after)
        /\ before # Missing /\ after = Missing => IsSuffix(t.name, Dotted(x)) \/ Shared(K, before)
        /\ before # Missing /\ after # Missing => Dotted(after) = Dotted(before)
    <3>1. t.name \in Seq(Component)
      BY DEF Target, Name
    <3> QED
      BY <2>1, <3>1, EndingMoves
  <2> QED
    BY <1>5, <2>1, <2>2
<1> QED
  BY <1>1, <1>6, <1>7, <1>8, <1>9, <1>10

LEMMA MovesCloser ==
  ASSUME NEW m, NEW m2, NEW K, NEW x, Grows(m, m2, K, x),
         NEW qa \in Seq(Component), NEW t \in Target
  PROVE  Closer(m, m2, K, x, qa, t)
<1>1. CASE NeverIndexed(t)
  BY <1>1 DEF Closer, Resolve
<1> QED
  BY <1>1, NameMovesCloser, DottedMovesCloser

\* The index is one of the objects documented so far.
IndexInv ==
  package \in Packages /\ known \subseteq Object /\ index \in Indexes(known)

LEMMA InitIndexInv == Init => IndexInv
<1> SUFFICES ASSUME Init PROVE IndexInv
  OBVIOUS
<1>1. known = {} /\ index = <<>> /\ package \in Packages
  BY DEF Init
<1>2. Keys({}) = {} /\ index = [k \in {} |-> k]
  BY <1>1 DEF Keys
<1> QED
  BY <1>1, <1>2 DEF IndexInv, Indexes

\* A step documents one object, or none.
LEMMA StepGrows ==
  ASSUME IndexInv, [Next]_vars
  PROVE  /\ IndexInv'
         /\ known' # known =>
              \E o \in Object : known' = known \cup {o} /\ Grows(index, index', known, o)
<1>1. ASSUME NEW o \in package.objects, Collect(o)
      PROVE  /\ IndexInv'
             /\ known' = known \cup {o} /\ Grows(index, index', known, o) /\ o \in Object
  <2>1. o \in Object
    BY PackagesAssumption DEF IndexInv
  <2>2. known' = known \cup {o} /\ index' \in Indexes(known') /\ package' = package
    BY <1>1 DEF Collect
  <2> QED
    BY <2>1, <2>2 DEF IndexInv, Grows
<1>2. CASE UNCHANGED <<known, index, package>>
  BY <1>2 DEF IndexInv
<1>3. ASSUME Scan \/ StartDoc \/ Visit \/ Finish \/ UNCHANGED vars
      PROVE  UNCHANGED <<known, index, package>>
  <2>1. CASE Scan \/ StartDoc \/ Finish \/ UNCHANGED vars
    BY <2>1 DEF Scan, StartDoc, Finish, vars, found
  <2>2. CASE Visit
    BY <2>2 DEF Visit, VisitText, VisitRole, VisitSection, VisitMark, VisitSubstitution,
      VisitImage, VisitPlot, VisitInclude, VisitLostInclude, VisitAdmonition, VisitBox,
      VisitVerbatim, VisitDropped, VisitTable, VisitCsv, VisitDirective, VisitSeeAlso, EndDoc,
      Emit, Lose, found
  <2> QED
    BY <1>3, <2>1, <2>2
<1> QED
  BY <1>1, <1>2, <1>3 DEF Next

\* Documenting one more object leaves every link where it was, or moves it to
\* that object, in a nearer scope; only what an ending alone had found can be
\* lost; objects of one dotted name stand in for each other (tree.py, resolve_).
THEOREM LinksOnlyMoveCloser == Spec => LinksMoveOnlyCloser
<1>1. IndexInv /\ [Next]_vars => IndexInv'
  BY StepGrows
<1>2. IndexInv /\ [Next]_vars =>
        [\A o \in known' \ known : \A x \in Asked : MovesOnlyCloser(o, x[1], x[2])]_vars
  <2> SUFFICES ASSUME IndexInv, [Next]_vars, NEW o \in known' \ known, NEW x \in Asked
               PROVE  MovesOnlyCloser(o, x[1], x[2])
    OBVIOUS
  <2>1. Grows(index, index', known, o) /\ known' = known \cup {o}
    BY StepGrows
  <2>2. x[1] \in Seq(Component) /\ x[2] \in Target
    BY AskedAssumption
  <2>3. Closer(index, index', known, o, x[1], x[2])
    BY <2>1, <2>2, MovesCloser
  <2> QED
    BY <2>1, <2>3 DEF Closer, MovesOnlyCloser
<1> QED
  BY <1>1, <1>2, InitIndexInv, PTL DEF Spec, LinksMoveOnlyCloser

-----------------------------------------------------------------------------
(* Recursive functions over the numbers                                     *)

LEMMA UpToAll ==
  ASSUME NEW S, S \subseteq Nat, 0 \in S, \A k \in S : k + 1 \in S
  PROVE  S = Nat
<1> DEFINE T == Nat \ S
<1> SUFFICES ASSUME T # {} PROVE FALSE
  OBVIOUS
<1>1. PICK k \in T : \A j \in T : ~(<<j, k>> \in OpToRel(<, Nat))
  BY NatLessThanWellFounded, WFMin
<1>2. k # 0 /\ k \in Nat
  OBVIOUS
<1>3. k - 1 \in Nat /\ k - 1 < k /\ (k - 1) + 1 = k
  BY <1>2
<1>4. k - 1 \in S
  BY <1>1, <1>2, <1>3 DEF OpToRel
<1> QED
  BY <1>3, <1>4

\* The texts of the files with n levels of includes replaced, and what a
\* document holds n levels deep, are functions of one form.
Texts(texts) ==
  [f \in DOMAIN FileItems |->
     FlattenSeq([i \in DOMAIN FileItems[f] |-> Replaced(FileItems[f][i], FileDir[f], texts)])]

Below(held) == [d \in DOMAIN Docs |-> Deeper(held[d], Docs[d].dir)]

Start(what) == IF what = "texts" THEN [f \in DOMAIN FileItems |-> Cyclic]
               ELSE [d \in DOMAIN Docs |-> Range(package.items[d])]
Round(what, x) == IF what = "texts" THEN Texts(x) ELSE Below(x)

\* f is that function, for the first n levels.
Leads(what, f, n) == \A k \in 0..n : f[k] = IF k = 0 THEN Start(what) ELSE Round(what, f[k - 1])

LEMMA SomeLeads ==
  ASSUME NEW what, NEW n \in Nat
  PROVE  \E f : Leads(what, f, n)
<1> DEFINE T == {k \in Nat : \E f : Leads(what, f, k)}
<1>1. 0 \in T
  <2>1. Leads(what, [j \in {0} |-> Start(what)], 0)
    BY DEF Leads
  <2> QED
    BY <2>1
<1>2. ASSUME NEW k \in T PROVE k + 1 \in T
  <2>1. PICK f : Leads(what, f, k)
    OBVIOUS
  <2>2. k \in Nat /\ k + 1 \in Nat /\ (k + 1) - 1 = k
    OBVIOUS
  <2> DEFINE g == [j \in 0..(k + 1) |-> IF j = k + 1 THEN Round(what, f[k]) ELSE f[j]]
  <2>3. ASSUME NEW j \in 0..(k + 1) PROVE g[j] = IF j = 0 THEN Start(what) ELSE Round(what, g[j - 1])
    <3>1. CASE j = k + 1
      <4>1. k \in 0..(k + 1) /\ k # k + 1 /\ j # 0 /\ j - 1 = k
        BY <2>2, <3>1
      <4>2. g[j] = Round(what, f[k]) /\ g[k] = f[k]
        BY <3>1, <4>1
      <4> QED
        BY <4>1, <4>2
    <3>2. CASE j # k + 1
      <4>1. j \in 0..k /\ (j # 0 => j - 1 \in 0..(k + 1) /\ j - 1 # k + 1)
        BY <2>2, <3>2
      <4>2. g[j] = f[j] /\ (j # 0 => g[j - 1] = f[j - 1])
        BY <3>2, <4>1
      <4>3. f[j] = IF j = 0 THEN Start(what) ELSE Round(what, f[j - 1])
        BY <2>1, <4>1 DEF Leads
      <4> QED
        BY <4>2, <4>3
    <3> QED
      BY <3>1, <3>2
  <2> HIDE DEF g
  <2>4. Leads(what, g, k + 1)
    BY <2>3 DEF Leads
  <2> QED
    BY <2>2, <2>4
<1> HIDE DEF T
<1>3. T = Nat
  <2>1. T \subseteq Nat
    BY DEF T
  <2> QED
    BY <1>1, <1>2, <2>1, UpToAll
<1> QED
  BY <1>3 DEF T

LEMMA LeadsIsOne ==
  ASSUME NEW what, NEW f, NEW g, NEW n \in Nat, NEW m \in Nat, Leads(what, f, n), Leads(what, g, m),
         NEW k \in Nat, k <= n, k <= m
  PROVE  f[k] = g[k]
<1> DEFINE T == {j \in 0..k : f[j] # g[j]}
<1> SUFFICES ASSUME T # {} PROVE FALSE
  OBVIOUS
<1>0. T \subseteq Nat
  OBVIOUS
<1>1. PICK j \in T : \A i \in T : ~(<<i, j>> \in OpToRel(<, Nat))
  BY <1>0, NatLessThanWellFounded, WFMin
<1>2. j \in Nat /\ j \in 0..n /\ j \in 0..m /\ f[j] # g[j]
  OBVIOUS
<1>3. j # 0 => j - 1 \notin T
  <2> SUFFICES ASSUME j # 0, j - 1 \in T PROVE FALSE
    OBVIOUS
  <2>1. j - 1 \in Nat /\ j - 1 < j
    BY <1>2
  <2> QED
    BY <1>1, <1>2, <2>1 DEF OpToRel
<1>4. j # 0 => f[j - 1] = g[j - 1]
  BY <1>2, <1>3
<1> QED
  BY <1>2, <1>4 DEF Leads

LEMMA RoundsUnfold ==
  ASSUME NEW what
  PROVE  \E F : F = [n \in Nat |-> IF n = 0 THEN Start(what) ELSE Round(what, F[n - 1])]
<1> DEFINE R(f) == [n \in Nat |-> IF n = 0 THEN Start(what) ELSE Round(what, f[n - 1])]
           F == [n \in Nat |-> (CHOOSE f : Leads(what, f, n))[n]]
<1>1. \A n \in Nat : Leads(what, CHOOSE f : Leads(what, f, n), n)
  BY SomeLeads
<1>2. ASSUME NEW n \in Nat PROVE F[n] = R(F)[n]
  <2> DEFINE f == CHOOSE g : Leads(what, g, n)
             h == CHOOSE g : Leads(what, g, n - 1)
  <2>1. Leads(what, f, n) /\ F[n] = f[n] /\ n \in 0..n
    BY <1>1
  <2>2. CASE n = 0
    BY <2>1, <2>2 DEF Leads
  <2>3. CASE n # 0
    <3>1. n - 1 \in Nat
      BY <2>3
    <3>2. Leads(what, h, n - 1) /\ F[n - 1] = h[n - 1]
      BY <1>1, <3>1
    <3>3. f[n - 1] = h[n - 1]
      <4> HIDE DEF f, h, F
      <4> QED
        BY <2>1, <3>1, <3>2, LeadsIsOne
    <3>4. f[n] = Round(what, f[n - 1])
      BY <2>1, <2>3 DEF Leads
    <3>5. R(F)[n] = Round(what, F[n - 1])
      BY <2>3
    <3> HIDE DEF f, h, F, R
    <3> QED
      BY <2>1, <3>2, <3>3, <3>4, <3>5
  <2> QED
    BY <2>2, <2>3
<1>3. F = R(F)
  <2> HIDE DEF R
  <2>1. DOMAIN F = Nat
    OBVIOUS
  <2>2. R(F) = [n \in Nat |-> R(F)[n]]
    BY DEF R
  <2> QED
    BY <1>2, <2>2
<1> HIDE DEF F
<1> QED
  BY <1>3

LEMMA NextIs ==
  ASSUME NEW what, NEW f, f = [n \in Nat |-> IF n = 0 THEN Start(what) ELSE Round(what, f[n - 1])]
  PROVE  f[0] = Start(what) /\ \A n \in Nat : f[n + 1] = Round(what, f[n])
<1>1. \A n \in Nat : f[n] = IF n = 0 THEN Start(what) ELSE Round(what, f[n - 1])
  OBVIOUS
<1>2. ASSUME NEW n \in Nat PROVE f[n + 1] = Round(what, f[n])
  <2>1. n + 1 \in Nat /\ n + 1 # 0 /\ (n + 1) - 1 = n
    OBVIOUS
  <2> QED
    BY <1>1, <2>1
<1> QED
  BY <1>1, <1>2

\* Included and Held are what their definitions say.
LEMMA IncludedIs ==
  /\ Included[0] = [f \in DOMAIN FileItems |-> Cyclic]
  /\ \A n \in Nat : Included[n + 1] = Texts(Included[n])
<1> DEFINE S == [f \in DOMAIN FileItems |-> Cyclic]
           R(f) == [n \in Nat |-> IF n = 0 THEN S ELSE Texts(f[n - 1])]
<1>1. Included = CHOOSE g : g = [n \in Nat |->
        [f \in DOMAIN FileItems |->
          IF n = 0 THEN Cyclic
          ELSE FlattenSeq([i \in DOMAIN FileItems[f] |-> Replaced(FileItems[f][i], FileDir[f], g[n - 1])])]]
  BY DEF Included
<1>2. ASSUME NEW g
      PROVE  [n \in Nat |->
               [f \in DOMAIN FileItems |->
                 IF n = 0 THEN Cyclic
                 ELSE FlattenSeq([i \in DOMAIN FileItems[f] |-> Replaced(FileItems[f][i], FileDir[f], g[n - 1])])]]
             = R(g)
  <2>1. ASSUME NEW n \in Nat
        PROVE  [f \in DOMAIN FileItems |->
                 IF n = 0 THEN Cyclic
                 ELSE FlattenSeq([i \in DOMAIN FileItems[f] |-> Replaced(FileItems[f][i], FileDir[f], g[n - 1])])]
               = IF n = 0 THEN S ELSE Texts(g[n - 1])
    <3>1. CASE n = 0
      BY <3>1
    <3>2. CASE n # 0
      BY <3>2 DEF Texts
    <3> QED
      BY <3>1, <3>2
  <2> QED
    BY <2>1
<1>3. Included = CHOOSE g : g = R(g)
  <2> HIDE DEF R
  <2> QED
    BY <1>1, <1>2
<1>4. PICK what : what = "texts"
  OBVIOUS
<1>5. Start(what) = S /\ \A x : Round(what, x) = Texts(x)
  BY <1>4 DEF Start, Round
<1>6. PICK F : F = [n \in Nat |-> IF n = 0 THEN Start(what) ELSE Round(what, F[n - 1])]
  BY RoundsUnfold
<1> HIDE DEF S
<1>7. F = R(F)
  BY <1>5, <1>6
<1>8. Included = R(Included)
  <2> HIDE DEF R
  <2> QED
    BY <1>3, <1>7
<1>9. PICK g : g = Included
  OBVIOUS
<1>10. g = [n \in Nat |-> IF n = 0 THEN Start(what) ELSE Round(what, g[n - 1])]
  BY <1>5, <1>8, <1>9
<1>11. g[0] = Start(what) /\ \A n \in Nat : g[n + 1] = Round(what, g[n])
  BY <1>10, NextIs
<1> QED
  BY <1>5, <1>9, <1>11 DEF S

LEMMA HeldIs ==
  /\ Held[0] = [d \in DOMAIN Docs |-> Range(package.items[d])]
  /\ \A n \in Nat : Held[n + 1] = Below(Held[n])
<1> DEFINE S == [d \in DOMAIN Docs |-> Range(package.items[d])]
           R(f) == [n \in Nat |-> IF n = 0 THEN S ELSE Below(f[n - 1])]
<1>1. Held = CHOOSE g : g = [n \in Nat |->
        [d \in DOMAIN Docs |-> IF n = 0 THEN Range(package.items[d]) ELSE Deeper(g[n - 1][d], Docs[d].dir)]]
  BY DEF Held
<1>2. ASSUME NEW g
      PROVE  [n \in Nat |->
               [d \in DOMAIN Docs |-> IF n = 0 THEN Range(package.items[d]) ELSE Deeper(g[n - 1][d], Docs[d].dir)]]
             = R(g)
  <2>1. ASSUME NEW n \in Nat
        PROVE  [d \in DOMAIN Docs |-> IF n = 0 THEN Range(package.items[d]) ELSE Deeper(g[n - 1][d], Docs[d].dir)]
               = IF n = 0 THEN S ELSE Below(g[n - 1])
    <3>1. CASE n = 0
      BY <3>1
    <3>2. CASE n # 0
      BY <3>2 DEF Below
    <3> QED
      BY <3>1, <3>2
  <2> QED
    BY <2>1
<1>3. Held = CHOOSE g : g = R(g)
  <2> HIDE DEF R
  <2> QED
    BY <1>1, <1>2
<1>4. PICK what : what = "held"
  OBVIOUS
<1>5. Start(what) = S /\ \A x : Round(what, x) = Below(x)
  BY <1>4 DEF Start, Round
<1>6. PICK F : F = [n \in Nat |-> IF n = 0 THEN Start(what) ELSE Round(what, F[n - 1])]
  BY RoundsUnfold
<1> HIDE DEF S
<1>7. F = R(F)
  BY <1>5, <1>6
<1>8. Held = R(Held)
  <2> HIDE DEF R
  <2> QED
    BY <1>3, <1>7
<1>9. PICK g : g = Held
  OBVIOUS
<1>10. g = [n \in Nat |-> IF n = 0 THEN Start(what) ELSE Round(what, g[n - 1])]
  BY <1>5, <1>8, <1>9
<1>11. g[0] = Start(what) /\ \A n \in Nat : g[n + 1] = Round(what, g[n])
  BY <1>10, NextIs
<1> QED
  BY <1>5, <1>9, <1>11 DEF S

-----------------------------------------------------------------------------
(* What a document holds                                                    *)

\* Items in a row, with no section among them.
Body(s) == s \in Seq(Range(s)) /\ \A x \in Range(s) : x.is # "section"

LEMMA ItemsOf ==
  ASSUME NEW S, NEW s \in Seq(S)
  PROVE  Range(s) \subseteq S /\ s \in Seq(Range(s)) /\ \A i \in 1..Len(s) : s[i] \in Range(s)
<1>1. s \in [1..Len(s) -> S] /\ DOMAIN s = 1..Len(s) /\ Len(s) \in Nat
  BY LenProperties
<1>2. Range(s) \subseteq S /\ \A i \in 1..Len(s) : s[i] \in Range(s)
  BY <1>1 DEF Range
<1>3. s \in [1..Len(s) -> Range(s)]
  BY <1>1, <1>2
<1> QED
  BY <1>1, <1>2, <1>3

\* FlattenSeq as its local function leaves it.
FlatUpTo(ss, f, n) == f = [i \in 1..n |-> IF i = 1 THEN ss[i] ELSE f[i - 1] \o ss[i]]

LEMMA SomeFlat ==
  ASSUME NEW ss, NEW n \in Nat
  PROVE  \E f : FlatUpTo(ss, f, n)
<1> DEFINE T == {k \in Nat : \E f : FlatUpTo(ss, f, k)}
<1>1. 0 \in T
  <2>1. PICK f : f = [i \in 1..0 |-> i]
    OBVIOUS
  <2>2. FlatUpTo(ss, f, 0)
    BY <2>1 DEF FlatUpTo
  <2> QED
    BY <2>2
<1>2. ASSUME NEW k \in T PROVE k + 1 \in T
  <2>1. PICK f : FlatUpTo(ss, f, k)
    OBVIOUS
  <2>2. k \in Nat /\ k + 1 \in Nat
    OBVIOUS
  <2>3. \A i \in 1..k : f[i] = IF i = 1 THEN ss[i] ELSE f[i - 1] \o ss[i]
    BY <2>1 DEF FlatUpTo
  <2> DEFINE last == IF k + 1 = 1 THEN ss[k + 1] ELSE f[k] \o ss[k + 1]
             g == [i \in 1..(k + 1) |-> IF i = k + 1 THEN last ELSE f[i]]
  <2>4. ASSUME NEW i \in 1..(k + 1) PROVE g[i] = IF i = 1 THEN ss[i] ELSE g[i - 1] \o ss[i]
    <3> HIDE DEF last
    <3>1. CASE i = k + 1
      <4>1. i # 1 => i - 1 = k /\ k \in 1..(k + 1) /\ k # k + 1
        BY <2>2, <3>1
      <4>2. g[i] = last /\ (i # 1 => g[i - 1] = f[k])
        BY <3>1, <4>1
      <4> QED
        BY <3>1, <4>2 DEF last
    <3>2. CASE i # k + 1
      <4>1. i \in 1..k /\ (i # 1 => i - 1 \in 1..(k + 1) /\ i - 1 # k + 1)
        BY <2>2, <3>2
      <4>2. g[i] = f[i] /\ (i # 1 => g[i - 1] = f[i - 1])
        BY <3>2, <4>1
      <4> QED
        BY <2>3, <4>1, <4>2
    <3> QED
      BY <3>1, <3>2
  <2>5. g = [i \in 1..(k + 1) |-> IF i = 1 THEN ss[i] ELSE g[i - 1] \o ss[i]]
    <3>1. PICK h : h = [i \in 1..(k + 1) |-> IF i = 1 THEN ss[i] ELSE g[i - 1] \o ss[i]]
      OBVIOUS
    <3>2. g = [i \in 1..(k + 1) |-> g[i]] /\ h = [i \in 1..(k + 1) |-> h[i]]
      BY <3>1
    <3>3. \A i \in 1..(k + 1) : g[i] = h[i]
      <4> HIDE DEF g
      <4> QED
        BY <2>4, <3>1
    <3> HIDE DEF g
    <3> QED
      BY <3>1, <3>2, <3>3
  <2> HIDE DEF g
  <2>6. FlatUpTo(ss, g, k + 1)
    BY <2>5 DEF FlatUpTo
  <2> QED
    BY <2>2, <2>6
<1> HIDE DEF T
<1>3. T = Nat
  <2>1. T \subseteq Nat
    BY DEF T
  <2> QED
    BY <1>1, <1>2, <2>1, UpToAll
<1> QED
  BY <1>3 DEF T

\* Sequences of elements of S, one after the other, are one.
LEMMA FlattenedAreItems ==
  ASSUME NEW S, NEW ss, NEW n \in Nat, Len(ss) = n, \A i \in 1..n : ss[i] \in Seq(S), n = 0 => ss = <<>>
  PROVE  FlattenSeq(ss) \in Seq(S)
<1>1. CASE n = 0
  BY <1>1 DEF FlattenSeq
<1>2. CASE n # 0
  <2> DEFINE f == CHOOSE g : FlatUpTo(ss, g, n)
  <2>1. FlattenSeq(ss) = f[n]
    BY <1>2 DEF FlattenSeq, FlatUpTo
  <2>2. FlatUpTo(ss, f, n)
    BY SomeFlat
  <2> HIDE DEF f
  <2>3. \A i \in 1..n : f[i] = IF i = 1 THEN ss[i] ELSE f[i - 1] \o ss[i]
    BY <2>2 DEF FlatUpTo
  <2> DEFINE T == {i \in Nat : i \in 1..n => f[i] \in Seq(S)}
  <2>4. 0 \in T
    OBVIOUS
  <2>5. ASSUME NEW k \in T PROVE k + 1 \in T
    <3> SUFFICES ASSUME k + 1 \in 1..n PROVE f[k + 1] \in Seq(S)
      OBVIOUS
    <3>1. k \in Nat /\ (k + 1) - 1 = k /\ (k + 1 # 1 => k \in 1..n)
      OBVIOUS
    <3>2. ss[k + 1] \in Seq(S)
      OBVIOUS
    <3>3. CASE k + 1 = 1
      BY <2>3, <3>2, <3>3
    <3>4. CASE k + 1 # 1
      <4>1. f[k + 1] = f[k] \o ss[k + 1] /\ f[k] \in Seq(S)
        BY <2>3, <3>1, <3>4
      <4> QED
        BY <3>2, <4>1, ConcatProperties
    <3> QED
      BY <3>3, <3>4
  <2> HIDE DEF T
  <2>6. T = Nat
    <3>1. T \subseteq Nat
      BY DEF T
    <3> QED
      BY <2>4, <2>5, <3>1, UpToAll
  <2>7. n \in 1..n
    BY <1>2
  <2> QED
    BY <2>1, <2>6, <2>7 DEF T
<1> QED
  BY <1>1, <1>2

\* Files are texts of items.
FilesAreTexts == \A f \in DOMAIN FileItems : FileItems[f] \in Seq(Range(FileItems[f]))

\* The headings of included files are left out.
LEMMA IncludedAreBodies ==
  ASSUME FilesAreTexts, NEW n \in Nat, NEW f \in DOMAIN FileItems
  PROVE  Body(Included[n][f])
<1> DEFINE T == {k \in Nat : \A g \in DOMAIN FileItems : Body(Included[k][g])}
<1>1. 0 \in T
  <2>1. PICK c : c = [is |-> "cycle"]
    OBVIOUS
  <2>2. Cyclic = <<c>>
    BY <2>1 DEF Cyclic
  <2>3. Cyclic \in Seq({c}) /\ Range(Cyclic) = {c}
    BY <2>2 DEF Range
  <2>4. Body(Cyclic)
    BY <2>1, <2>3 DEF Body
  <2> QED
    BY <2>4, IncludedIs
<1>2. ASSUME NEW k \in T PROVE k + 1 \in T
  <2> SUFFICES ASSUME NEW g \in DOMAIN FileItems PROVE Body(Included[k + 1][g])
    OBVIOUS
  <2>1. k \in Nat
    OBVIOUS
  <2>2. PICK texts : texts = Included[k]
    OBVIOUS
  <2>3. \A h \in DOMAIN FileItems : Body(texts[h])
    BY <2>2
  <2>4. PICK s, dir : s = FileItems[g] /\ dir = FileDir[g]
    OBVIOUS
  <2>5. s \in [1..Len(s) -> Range(s)] /\ Len(s) \in Nat
    BY <2>4, LenProperties DEF FilesAreTexts
  <2>6. PICK ss : ss = [i \in 1..Len(s) |-> Replaced(s[i], dir, texts)]
    OBVIOUS
  <2>7. Included[k + 1][g] = FlattenSeq(ss)
    <3>1. Included[k + 1] = Texts(texts)
      BY <2>1, <2>2, IncludedIs
    <3>2. DOMAIN s = 1..Len(s)
      BY <2>5
    <3> QED
      BY <2>4, <2>6, <3>1, <3>2 DEF Texts
  <2>8. ASSUME NEW i \in 1..Len(s) PROVE Body(ss[i])
    <3>1. PICK x : x = s[i]
      OBVIOUS
    <3>2. ss[i] = Replaced(x, dir, texts)
      BY <2>6, <3>1
    <3>3. CASE x.is = "section"
      <4>1. ss[i] = <<>>
        BY <3>2, <3>3 DEF Replaced
      <4> QED
        BY <4>1 DEF Body, Range
    <3>4. CASE x.is \notin {"section", "include"}
      <4>1. ss[i] = <<x>>
        BY <3>2, <3>4 DEF Replaced
      <4>2. ss[i] \in Seq({x}) /\ Range(ss[i]) = {x}
        BY <4>1 DEF Range
      <4> QED
        BY <3>4, <4>2 DEF Body
    <3>5. CASE x.is = "include" /\ IsText(x.uri, dir)
      <4>1. ss[i] = texts[File(x.uri, dir)]
        BY <3>2, <3>5 DEF Replaced
      <4> QED
        BY <2>3, <3>5, <4>1 DEF IsText
    <3>6. CASE x.is = "include" /\ ~IsText(x.uri, dir)
      <4>1. PICK y : y = [is |-> "lost include"]
        OBVIOUS
      <4>2. ss[i] = <<y>>
        BY <3>2, <3>6, <4>1 DEF Replaced
      <4>3. ss[i] \in Seq({y}) /\ Range(ss[i]) = {y}
        BY <4>2 DEF Range
      <4>4. y.is = "lost include"
        BY <4>1
      <4> QED
        BY <4>3, <4>4 DEF Body
    <3> QED
      BY <3>3, <3>4, <3>5, <3>6
  <2> DEFINE S == UNION {Range(ss[i]) : i \in 1..Len(s)}
  <2>9. \A i \in 1..Len(s) : ss[i] \in Seq(S)
    <3> SUFFICES ASSUME NEW i \in 1..Len(s) PROVE ss[i] \in Seq(S)
      OBVIOUS
    <3>1. Range(ss[i]) \subseteq S /\ ss[i] \in Seq(Range(ss[i]))
      BY <2>8 DEF Body
    <3> HIDE DEF S
    <3> QED
      BY <3>1, SeqMonotonic
  <2>10. \A x \in S : x.is # "section"
    BY <2>8 DEF Body
  <2>11. Len(ss) = Len(s) /\ (Len(s) = 0 => ss = <<>>)
    BY <2>5, <2>6
  <2> HIDE DEF S
  <2>12. FlattenSeq(ss) \in Seq(S)
    BY <2>5, <2>9, <2>11, FlattenedAreItems
  <2>13. Range(FlattenSeq(ss)) \subseteq S /\ FlattenSeq(ss) \in Seq(Range(FlattenSeq(ss)))
    BY <2>12, ItemsOf
  <2> QED
    BY <2>7, <2>10, <2>13 DEF Body
<1> HIDE DEF T
<1>3. T = Nat
  <2>1. T \subseteq Nat
    BY DEF T
  <2> QED
    BY <1>1, <1>2, <2>1, UpToAll
<1> QED
  BY <1>3 DEF T

LEMMA IncludedIsABody ==
  ASSUME FilesAreTexts, NEW f \in DOMAIN FileItems
  PROVE  Body(IncludedAll(f))
<1>1. Cardinality(DOMAIN FileItems) + 1 \in Nat
  BY FilesAssumption, FS_CardinalityType
<1> QED
  BY <1>1, IncludedAreBodies DEF IncludedAll

\* What a document holds, it holds at any depth.
LEMMA ItemsAreHeld ==
  ASSUME NEW d \in DOMAIN Docs
  PROVE  Range(package.items[d]) \subseteq Holds(d)
<1> DEFINE T == {k \in Nat : Range(package.items[d]) \subseteq Held[k][d]}
<1>1. 0 \in T
  BY HeldIs
<1>2. ASSUME NEW k \in T PROVE k + 1 \in T
  <2>1. Held[k + 1] = Below(Held[k])
    BY HeldIs
  <2>2. Held[k + 1][d] = Deeper(Held[k][d], Docs[d].dir)
    BY <2>1 DEF Below
  <2>3. Held[k][d] \subseteq Held[k + 1][d]
    BY <2>2 DEF Deeper
  <2> QED
    BY <2>3
<1> HIDE DEF T
<1>3. T = Nat
  <2>1. T \subseteq Nat
    BY DEF T
  <2> QED
    BY <1>1, <1>2, <2>1, UpToAll
<1> QED
  BY <1>3, FilesAssumption DEF T, Holds

LEMMA HeldStays ==
  ASSUME package' = package
  PROVE  Held' = Held
BY DEF Held

LEMMA CausesStay ==
  ASSUME package' = package
  PROVE  \A d \in DOMAIN Docs : Holds(d)' = Holds(d) /\ (HasCause(d)' <=> HasCause(d))
<1>1. \A d \in DOMAIN Docs : Holds(d)' = Holds(d)
  BY HeldStays DEF Holds
<1>2. \A d \in DOMAIN Docs : LabelTwice(d)' <=> LabelTwice(d)
  BY DEF LabelTwice
<1> QED
  BY <1>1, <1>2 DEF HasCause

-----------------------------------------------------------------------------
(* What visits leave                                                        *)

\* A role never becomes a directive, and is an exception only as a :pep: with a title.
Harmless(x, r) ==
  /\ x = Becomes(x.node, x.codes)
  /\ x.node.is # "directive"
  /\ x.node.is = "error" => r.role = "pep" /\ r.title

LEMMA FewAreErrors ==
  ASSUME NEW is \in {"code", "url", "param", "local name", "text", "nothing"}, NEW codes, NEW r
  PROVE  Harmless(Becomes([is |-> is], codes), r)
BY DEF Harmless, Becomes

LEMMA LeftIsHarmless ==
  ASSUME NEW x, NEW codes, NEW r
  PROVE  Harmless(Left(x, codes), r)
BY DEF Harmless, Left, Becomes

LEMMA ObjectIsHarmless ==
  ASSUME NEW is \in {"local", "external"}, NEW o, NEW codes, NEW r
  PROVE  Harmless(Becomes([is |-> is, object |-> o], codes), r)
BY DEF Harmless, Becomes

LEMMA PageIsHarmless ==
  ASSUME NEW p, NEW l, NEW r
  PROVE  Harmless(PageLink(p, l), r) /\ Harmless(DocLink(p), r)
BY DEF Harmless, PageLink, DocLink, Becomes

LEMMA ReplaceIsHarmless ==
  ASSUME NEW r, NEW m, NEW K, NEW qa, NEW params, NEW local, NEW labels, NEW web, NEW page
  PROVE  Harmless(Replace(r, m, K, qa, params, local, labels, web, page), r)
<1> DEFINE label == r.target.name
           nonstandard == IF r.role = "method" THEN {"W-nonstandard-role"} ELSE {}
           Linked == IF r.bang THEN Shown("code")
                     ELSE IF r.url THEN Shown("url")
                     ELSE IF r.role = "ref"
                       THEN IF label \in DOMAIN labels THEN PageLink(labels[label], label)
                                                       ELSE NotFound(r)
                     ELSE IF r.role = "doc" THEN DocLink(page)
                     ELSE IF IsDefault(r) /\ label \in DOMAIN labels
                       THEN PageLink(labels[label], label)
                     ELSE IF IsDefault(r) /\ label \in web THEN Shown("url")
                     ELSE Searched(r, m, K, qa, local)
<1>1. /\ Harmless(Shown("code"), r) /\ Harmless(Shown("url"), r) /\ Harmless(Shown("param"), r)
      /\ Harmless(Shown("local name"), r) /\ Harmless(NotFound(r), r)
  BY FewAreErrors, LeftIsHarmless DEF Shown, NotFound
<1>2. Harmless(Imported(r), r)
  BY <1>1, ObjectIsHarmless DEF Imported, ObjectLink
<1>3. Harmless(Searched(r, m, K, qa, local), r)
  BY <1>1, <1>2, ObjectIsHarmless DEF Searched
<1>4. Harmless(Linked, r)
  BY <1>1, <1>3, PageIsHarmless
<1>5. Harmless([Linked EXCEPT !.codes = @ \cup nonstandard], r)
  <2> HIDE DEF Linked
  <2> HIDE DEF nonstandard
  <2>1. [Linked EXCEPT !.codes = @ \cup nonstandard] =
          Becomes(Linked.node, Linked.codes \cup nonstandard)
    BY <1>4 DEF Harmless, Becomes
  <2> QED
    BY <1>4, <2>1 DEF Harmless, Becomes
<1>6. Harmless(Configured(r), r) /\ Harmless(Github(r), r)
  BY FewAreErrors DEF Configured, Github, Shown
<1>7. Harmless(Formatted(r), r)
  BY DEF Harmless, Formatted, Shown, Becomes
<1> HIDE DEF Linked
<1> QED
  BY <1>1, <1>5, <1>6, <1>7, LeftIsHarmless DEF Replace, Linked, nonstandard

-----------------------------------------------------------------------------
(* Why a document is lost                                                   *)

\* The body of a directive has no headings: they are cut off, or their contents
\* taken instead.
WellNested(x) ==
  /\ x.is \in {"image", "admonition", "box"} \/ (x.is = "table" /\ x.ok) =>
       "items" \in DOMAIN x /\ Body(x.items)
  /\ x.is \in {"admonition", "box"} => "rest" \in DOMAIN x /\ Body(x.rest)

\* Documents and files are made of items, nested no deeper than Depth.
DocumentsAreNested ==
  /\ FilesAreTexts
  /\ \A d \in DOMAIN Docs :
       /\ package.items[d] \in Seq(Range(package.items[d]))
       /\ Deeper(Holds(d), Docs[d].dir) \subseteq Holds(d)
       /\ \A x \in Holds(d) : WellNested(x)

\* Where in the document the section is that is p-th of what is to be visited.
Own == package.items[at]
Place(p) == Len(Own) - Len(todo) + p

SectionAt(e, j, l) ==
  j \in DOMAIN package.items[e] /\ package.items[e][j].is = "section" /\ package.items[e][j].label = l

CourseInv ==
  /\ phase \in {"collect", "next", "visit", "done"} /\ at \in 0..Len(Docs)
  /\ phase = "visit" => at \in 1..Len(Docs)
  /\ phase = "done" => at = Len(Docs)
  /\ phase = "collect" => at = 0 /\ resolver = {}

\* A document that the visit has behind it is written or has a cause.
BehindInv ==
  \A d \in 1..at : (d = at /\ phase = "visit") \/ d \in DOMAIN written \/ HasCause(d)

\* What is to be visited the document holds; its sections are those to come.
AheadInv ==
  phase = "visit" =>
    /\ todo \in Seq(Holds(at))
    /\ [is |-> "directive"] \in out => HasCause(at)
    /\ \A p \in 1..Len(todo) : todo[p].is = "section" => SectionAt(at, Place(p), todo[p].label)

\* A label is in the table because of a section that has been visited.
TableInv ==
  \A l \in resolver : \E e \in 1..at, j \in Nat :
    /\ SectionAt(e, j, l)
    /\ phase = "visit" /\ e = at => \A p \in 1..Len(todo) : todo[p].is = "section" => j < Place(p)

LossInv == DocumentsAreNested /\ CourseInv /\ BehindInv /\ AheadInv /\ TableInv

LEMMA NestedStays ==
  ASSUME package' = package, DocumentsAreNested
  PROVE  DocumentsAreNested'
BY CausesStay DEF DocumentsAreNested

LEMMA ItIsHeld ==
  ASSUME LossInv, phase = "visit", todo # <<>>
  PROVE  /\ at \in DOMAIN Docs /\ at \in 1..Len(Docs) /\ Len(Docs) \in Nat
         /\ It \in Holds(at) /\ WellNested(It)
         /\ Len(todo) \in Nat /\ Len(todo) > 0 /\ todo \in Seq(Holds(at))
         /\ Len(Own) \in Nat /\ DOMAIN Own = 1..Len(Own)
<1>1. at \in 1..Len(Docs) /\ todo \in Seq(Holds(at))
  BY DEF LossInv, CourseInv, AheadInv
<1>2. DOMAIN Docs = 1..Len(Docs) /\ Len(Docs) \in Nat
  BY DocsAssumption, LenProperties
<1>3. Len(todo) \in Nat \ {0}
  BY <1>1, EmptySeq
<1>4. It \in Holds(at)
  BY <1>1, <1>3, ElementOfSeq DEF It
<1>5. Own \in Seq(Range(Own))
  BY <1>1, <1>2 DEF Own, LossInv, DocumentsAreNested
<1>6. Len(Own) \in Nat /\ DOMAIN Own = 1..Len(Own)
  BY <1>5, LenProperties
<1> QED
  BY <1>1, <1>2, <1>3, <1>4, <1>6 DEF LossInv, DocumentsAreNested

\* The item at the head of what is to be visited gives way to items that are
\* held and to nodes that validate, or the document has a cause.
LEMMA EmitHasCause ==
  ASSUME LossInv, phase = "visit", todo # <<>>,
         NEW nodes, NEW codes, NEW more, Emit(nodes, codes, more), written' = written,
         more \in Seq(Holds(at)), \A x \in Range(more) : x.is # "section",
         [is |-> "directive"] \in nodes => HasCause(at),
         \A l \in resolver' : l \in resolver \/ (It.is = "section" /\ l = It.label)
  PROVE  LossInv'
<1>1. /\ todo' = more \o Tail(todo) /\ out' = out \cup nodes
      /\ package' = package /\ phase' = phase /\ at' = at
  BY DEF Emit, found
<1>2. /\ at \in DOMAIN Docs /\ at \in 1..Len(Docs) /\ Len(todo) \in Nat /\ Len(todo) > 0
      /\ todo \in Seq(Holds(at)) /\ Len(Own) \in Nat
  BY ItIsHeld
<1>3. Tail(todo) \in Seq(Holds(at)) /\ Len(Tail(todo)) = Len(todo) - 1
      /\ \A i \in 1..(Len(todo) - 1) : Tail(todo)[i] = todo[i + 1]
  BY <1>2, HeadTailProperties
<1>4. PICK rest, m, t : rest = Tail(todo) /\ m = Len(more) /\ t = Len(todo)
  OBVIOUS
<1>5. m \in Nat /\ t \in Nat /\ t > 0 /\ Len(rest) = t - 1
  BY <1>2, <1>3, <1>4, LenProperties
<1>6. /\ todo' \in Seq(Holds(at)) /\ Len(todo') = m + (t - 1)
      /\ \A i \in 1..(m + (t - 1)) : todo'[i] = IF i <= m THEN more[i] ELSE rest[i - m]
  BY <1>1, <1>3, <1>4, <1>5, ConcatProperties
\* The sections to come are those that were to come, but for the head.
<1>7. ASSUME NEW p \in 1..Len(todo'), todo'[p].is = "section"
      PROVE  /\ p - m + 1 \in 2..t /\ todo[p - m + 1] = todo'[p]
             /\ Place(p)' = Place(p - m + 1)
  <2>1. p \in Nat /\ p \in 1..(m + (t - 1))
    BY <1>5, <1>6
  <2>2. ~(p <= m)
    <3> SUFFICES ASSUME p <= m PROVE FALSE
      OBVIOUS
    <3>1. todo'[p] = more[p] /\ p \in 1..Len(more)
      BY <1>4, <1>6, <2>1
    <3>2. more[p] \in Range(more)
      BY <3>1, ItemsOf
    <3> QED
      BY <1>7, <3>1, <3>2
  <2>3. p - m \in 1..(t - 1) /\ p - m + 1 \in 2..t
    BY <1>5, <2>1, <2>2
  <2>4. todo'[p] = rest[p - m] /\ rest[p - m] = todo[p - m + 1]
    BY <1>3, <1>4, <1>6, <2>1, <2>2, <2>3
  <2>5. Place(p)' = Len(Own) - (m + (t - 1)) + p
    BY <1>1, <1>6 DEF Place, Own
  <2>6. Place(p - m + 1) = Len(Own) - t + (p - m + 1)
    BY <1>4 DEF Place
  <2>7. Len(Own) - (m + (t - 1)) + p = Len(Own) - t + (p - m + 1)
    BY <1>2, <1>5, <2>1
  <2> QED
    BY <2>3, <2>4, <2>5, <2>6, <2>7
<1>8. Holds(at)' = Holds(at) /\ \A d \in DOMAIN Docs : HasCause(d)' <=> HasCause(d)
  BY <1>1, <1>2, CausesStay
<1>9. \A e, j, l : SectionAt(e, j, l)' <=> SectionAt(e, j, l)
  BY <1>1 DEF SectionAt
<1>10. DocumentsAreNested' /\ CourseInv'
  <2>1. phase' = "visit" /\ phase' # "collect"
    BY <1>1
  <2> QED
    BY <1>1, <1>2, <2>1, NestedStays DEF LossInv, CourseInv
<1>11. BehindInv'
  <2> SUFFICES ASSUME NEW d \in 1..at, d # at
               PROVE  d \in DOMAIN written' \/ HasCause(d)'
    BY <1>1 DEF BehindInv
  <2>1. d \in DOMAIN Docs
    BY <1>2, ItIsHeld, DocsAssumption
  <2> QED
    BY <1>8, <2>1 DEF LossInv, BehindInv
<1>12. AheadInv'
  <2>1. todo' \in Seq(Holds(at)')
    BY <1>6, <1>8
  <2>2. [is |-> "directive"] \in out' => HasCause(at)'
    BY <1>1, <1>2, <1>8 DEF LossInv, AheadInv
  <2>3. ASSUME NEW p \in 1..Len(todo'), todo'[p].is = "section"
        PROVE  SectionAt(at, Place(p), todo[p].label)'
    <3>1. PICK q : q = p - m + 1
      OBVIOUS
    <3>2. q \in 1..t /\ todo[q] = todo'[p] /\ Place(p)' = Place(q)
      BY <1>5, <1>7, <2>3, <3>1
    <3>3. SectionAt(at, Place(q), todo[q].label)
      BY <1>4, <2>3, <3>2 DEF LossInv, AheadInv
    <3>4. PICK a, pl, la : a = at /\ pl = Place(q) /\ la = todo[q].label
      OBVIOUS
    <3>5. SectionAt(a, pl, la)'
      BY <1>9, <3>3, <3>4
    <3> QED
      BY <1>1, <3>2, <3>4, <3>5 DEF SectionAt
  <2> QED
    BY <1>1, <2>1, <2>2, <2>3 DEF AheadInv
<1>13. TableInv'
  <2> SUFFICES ASSUME NEW l \in resolver'
               PROVE  \E e \in 1..at', j \in Nat :
                        /\ SectionAt(e, j, l)'
                        /\ phase' = "visit" /\ e = at' => \A p \in 1..Len(todo') : todo'[p].is = "section" => j < Place(p)'
    BY DEF TableInv
  <2>1. CASE l \in resolver
    <3>1. PICK e \in 1..at, j \in Nat :
            /\ SectionAt(e, j, l)
            /\ e = at => \A p \in 1..Len(todo) : todo[p].is = "section" => j < Place(p)
      BY <2>1 DEF LossInv, TableInv
    <3>2. ASSUME e = at, NEW p \in 1..Len(todo'), todo'[p].is = "section" PROVE j < Place(p)'
      <4>1. PICK q : q = p - m + 1
        OBVIOUS
      <4>2. q \in 1..t /\ todo[q] = todo'[p] /\ Place(p)' = Place(q)
        BY <1>5, <1>7, <3>2, <4>1
      <4> QED
        BY <1>4, <3>1, <3>2, <4>2
    <3> QED
      BY <1>1, <1>9, <3>1, <3>2
  <2>2. CASE l \notin resolver
    <3>1. It.is = "section" /\ l = It.label
      BY <2>2
    <3>2. PICK j : j = Place(1)
      OBVIOUS
    <3>3. SectionAt(at, j, l)
      BY <1>2, <3>1, <3>2 DEF LossInv, AheadInv, It
    <3>4. j \in Nat /\ j = Len(Own) - t + 1
      BY <1>2, <1>4, <3>2, <3>3, ItIsHeld DEF SectionAt, Own, Place
    <3>5. ASSUME NEW p \in 1..Len(todo'), todo'[p].is = "section" PROVE j < Place(p)'
      <4>1. PICK q : q = p - m + 1
        OBVIOUS
      <4>2. q \in 2..t /\ Place(p)' = Place(q)
        BY <1>7, <3>5, <4>1
      <4>3. Place(q) = Len(Own) - t + q
        BY <1>4 DEF Place
      <4> QED
        BY <1>2, <1>5, <3>4, <4>2, <4>3
    <3>6. at \in 1..at
      BY <1>2
    <3> QED
      BY <1>1, <1>9, <3>3, <3>4, <3>5, <3>6
  <2> QED
    BY <2>1, <2>2
<1> QED
  BY <1>10, <1>11, <1>12, <1>13 DEF LossInv

\* The document ends, lost with a cause or written.
LEMMA EndHasCause ==
  ASSUME LossInv, phase = "visit", phase' = "next", UNCHANGED <<package, at, resolver>>,
         \A d \in DOMAIN written : d \in DOMAIN written',
         at \in DOMAIN written' \/ HasCause(at)
  PROVE  LossInv'
<1>1. at \in 1..Len(Docs) /\ DOMAIN Docs = 1..Len(Docs) /\ Len(Docs) \in Nat
  BY DocsAssumption, LenProperties DEF LossInv, CourseInv
<1>2. \A d \in DOMAIN Docs : HasCause(d)' <=> HasCause(d)
  BY CausesStay
<1>3. \A e, j, l : SectionAt(e, j, l)' <=> SectionAt(e, j, l)
  BY DEF SectionAt
<1>4. DocumentsAreNested' /\ CourseInv'
  BY <1>1, NestedStays DEF LossInv, CourseInv
<1>5. BehindInv'
  <2> SUFFICES ASSUME NEW d \in 1..at PROVE d \in DOMAIN written' \/ HasCause(d)'
    BY DEF BehindInv
  <2>1. d \in DOMAIN Docs
    BY <1>1
  <2>2. d = at \/ d \in DOMAIN written \/ HasCause(d)
    BY DEF LossInv, BehindInv
  <2> QED
    BY <1>2, <2>1, <2>2
<1>6. AheadInv'
  BY DEF AheadInv
<1>7. TableInv'
  BY <1>3 DEF LossInv, TableInv
<1> QED
  BY <1>4, <1>5, <1>6, <1>7 DEF LossInv

LEMMA LoseHasCause ==
  ASSUME LossInv, phase = "visit", Lose, HasCause(at)
  PROVE  LossInv'
BY EndHasCause DEF Lose, found, shared

\* What is held at the depth of an item is held.
LEMMA BodiesAreHeld ==
  ASSUME LossInv, phase = "visit", todo # <<>>
  PROVE  /\ It.is \in {"image", "admonition", "box"} \/ (It.is = "table" /\ It.ok) =>
              It.items \in Seq(Holds(at)) /\ \A x \in Range(It.items) : x.is # "section"
         /\ It.is \in {"admonition", "box"} =>
              It.rest \in Seq(Holds(at)) /\ \A x \in Range(It.rest) : x.is # "section"
         /\ It.is = "include" /\ IsText(It.uri, Here) =>
              LET text == IncludedAll(File(It.uri, Here))
              IN  text \in Seq(Holds(at)) /\ \A x \in Range(text) : x.is # "section" /\ x \in Holds(at)
<1>1. at \in DOMAIN Docs /\ It \in Holds(at) /\ WellNested(It)
  BY ItIsHeld
<1>2. Deeper(Holds(at), Docs[at].dir) \subseteq Holds(at) /\ FilesAreTexts
  BY <1>1 DEF LossInv, DocumentsAreNested
<1>3. PICK S, x, dir : S = Holds(at) /\ x = It /\ dir = Docs[at].dir
  OBVIOUS
<1>4. /\ "items" \in DOMAIN x => Range(x.items) \subseteq S
      /\ "rest" \in DOMAIN x => Range(x.rest) \subseteq S
      /\ x.is = "include" /\ IsText(x.uri, dir) => Range(IncludedAll(File(x.uri, dir))) \subseteq S
  <2>1. Deeper(S, dir) \subseteq S /\ x \in S
    BY <1>1, <1>2, <1>3
  <2>2. "items" \in DOMAIN x => Range(x.items) \subseteq Deeper(S, dir)
    BY <2>1 DEF Deeper
  <2>3. "rest" \in DOMAIN x => Range(x.rest) \subseteq Deeper(S, dir)
    BY <2>1 DEF Deeper
  <2>4. x.is = "include" /\ IsText(x.uri, dir) => Range(IncludedAll(File(x.uri, dir))) \subseteq Deeper(S, dir)
    BY <2>1 DEF Deeper
  <2> QED
    BY <2>1, <2>2, <2>3, <2>4
<1>5. ASSUME NEW s, Body(s), Range(s) \subseteq S
      PROVE  s \in Seq(S) /\ \A y \in Range(s) : y.is # "section" /\ y \in S
  BY <1>5, SeqMonotonic DEF Body
<1>6. x.is = "include" /\ IsText(x.uri, dir) => Body(IncludedAll(File(x.uri, dir)))
  BY <1>2, IncludedIsABody DEF IsText
<1>7. Here = dir
  BY <1>3 DEF Here
<1> QED
  BY <1>1, <1>3, <1>4, <1>5, <1>6, <1>7 DEF WellNested

\* An item that gives way to nodes alone.
LEMMA NodesHaveCause ==
  ASSUME LossInv, phase = "visit", todo # <<>>,
         NEW nodes, NEW codes, Emit(nodes, codes, <<>>), written' = written, resolver' = resolver,
         [is |-> "directive"] \in nodes => HasCause(at)
  PROVE  LossInv'
<1>1. PICK none : none = <<>>
  OBVIOUS
<1>2. none \in Seq(Holds(at)) /\ \A x \in Range(none) : x.is # "section"
  BY <1>1, EmptySeq DEF Range
<1>3. Emit(nodes, codes, none)
  BY <1>1
<1> QED
  BY <1>2, <1>3, EmitHasCause

\* An item that gives way to others, and to nodes of which none is a directive.
LEMMA ItemsHaveCause ==
  ASSUME LossInv, phase = "visit", todo # <<>>,
         NEW nodes, NEW codes, NEW more, Emit(nodes, codes, more), written' = written, resolver' = resolver,
         more \in Seq(Holds(at)), \A x \in Range(more) : x.is # "section", [is |-> "directive"] \notin nodes
  PROVE  LossInv'
BY EmitHasCause

LEMMA ItIsTheCause ==
  ASSUME LossInv, phase = "visit", todo # <<>>, Fatal(It)
  PROVE  HasCause(at)
BY ItIsHeld DEF HasCause

LEMMA RoleHasCause == LossInv /\ VisitRole => LossInv'
<1> SUFFICES ASSUME LossInv, VisitRole PROVE LossInv'
  OBVIOUS
<1> DEFINE page == PageAt(It.target.name)
           r == Replace(It, index, known, Docs[at].qa, Docs[at].params, Docs[at].local, pages, urls, page)
           nodes == IF r.node.is = "nothing" THEN {} ELSE {r.node}
<1>1. phase = "visit" /\ todo # <<>> /\ It.is = "role" /\ Harmless(r, It)
  BY ReplaceIsHarmless DEF VisitRole, Visiting, It
<1>2. CASE r.node.is = "error"
  <2>1. Lose
    BY <1>2 DEF VisitRole
  <2> HIDE DEF r
  <2>2. Fatal(It)
    BY <1>1, <1>2 DEF Harmless, Fatal
  <2> QED
    BY <1>1, <2>1, <2>2, ItIsTheCause, LoseHasCause
<1>3. CASE r.node.is # "error"
  <2>1. Emit(nodes, r.codes, <<>>) /\ UNCHANGED shared
    BY <1>3 DEF VisitRole
  <2> HIDE DEF r
  <2>2. [is |-> "directive"] \notin nodes
    BY <1>1 DEF Harmless
  <2> QED
    BY <1>1, <2>1, <2>2, NodesHaveCause DEF shared
<1> QED
  BY <1>2, <1>3

LEMMA SectionHasCause == LossInv /\ VisitSection => LossInv'
<1> SUFFICES ASSUME LossInv, VisitSection PROVE LossInv'
  OBVIOUS
<1>1. phase = "visit" /\ todo # <<>> /\ It.is = "section"
  BY DEF VisitSection, Visiting, It
<1>2. CASE Taken(It.label)
  <2>1. Lose
    BY <1>2 DEF VisitSection
  <2>2. Len(todo) \in Nat /\ Len(todo) > 0 /\ at \in 1..Len(Docs) /\ Len(Docs) \in Nat
    BY <1>1, ItIsHeld
  <2>3. SectionAt(at, Place(1), It.label)
    BY <1>1, <2>2 DEF LossInv, AheadInv, It
  <2>4. PICK e \in 1..at, j \in Nat :
          /\ SectionAt(e, j, It.label)
          /\ e = at => \A p \in 1..Len(todo) : todo[p].is = "section" => j < Place(p)
    BY <1>1, <1>2 DEF LossInv, TableInv, Taken
  <2>5. PICK i : i = Place(1)
    OBVIOUS
  <2>6. e = at => j < i
    BY <1>1, <2>2, <2>4, <2>5 DEF It
  <2>7. i \in Nat
    BY <1>1, <2>3, <2>5, ItIsHeld DEF SectionAt, Own
  <2>8. <<e, j>> # <<at, i>>
    BY <2>6, <2>7
  <2>9. LabelTwice(at)
    BY <2>3, <2>4, <2>5, <2>8 DEF LabelTwice, SectionAt
  <2> QED
    BY <1>1, <2>1, <2>9, LoseHasCause DEF HasCause
<1>3. CASE ~Taken(It.label)
  <2>1. resolver' = resolver \cup {It.label} /\ Emit({}, {}, <<>>) /\ written' = written
    BY <1>3 DEF VisitSection
  <2>2. PICK none : none = <<>>
    OBVIOUS
  <2>3. none \in Seq(Holds(at)) /\ \A x \in Range(none) : x.is # "section"
    BY <2>2, EmptySeq DEF Range
  <2>4. Emit({}, {}, none)
    BY <2>1, <2>2
  <2> QED
    BY <1>1, <2>1, <2>3, <2>4, EmitHasCause
<1> QED
  BY <1>2, <1>3

LEMMA ImageHasCause == LossInv /\ VisitImage => LossInv'
<1> SUFFICES ASSUME LossInv, VisitImage PROVE LossInv'
  OBVIOUS
<1>1. phase = "visit" /\ todo # <<>> /\ It.is = "image" /\ UNCHANGED <<resolver, written>>
  BY DEF VisitImage, Visiting, It
<1>2. PICK nodes, codes : Emit(nodes, codes, It.items) /\ [is |-> "directive"] \notin nodes
  <2>1. [is |-> "directive"] # [is |-> "image"]
    <3>1. [is |-> "directive"].is # [is |-> "image"].is
      OBVIOUS
    <3> QED
      BY <3>1
  <2>2. \A n, f : [is |-> "directive"] # [is |-> "figure", name |-> n, of |-> f]
    <3> SUFFICES ASSUME NEW n, NEW f, [is |-> "directive"] = [is |-> "figure", name |-> n, of |-> f] PROVE FALSE
      OBVIOUS
    <3>1. [is |-> "directive"].is = "directive" /\ [is |-> "figure", name |-> n, of |-> f].is = "figure"
      OBVIOUS
    <3> QED
      BY <3>1
  <2>3. CASE It.uri.from = "web" \/ ~Exists(It.uri, Here)
    BY <2>1, <2>3 DEF VisitImage
  <2>4. CASE It.uri.from # "web" /\ Exists(It.uri, Here)
    BY <2>2, <2>4 DEF VisitImage
  <2> QED
    BY <2>3, <2>4
<1> QED
  BY <1>1, <1>2, BodiesAreHeld, ItemsHaveCause

LEMMA PlotHasCause == LossInv /\ VisitPlot => LossInv'
<1> SUFFICES ASSUME LossInv, VisitPlot PROVE LossInv'
  OBVIOUS
<1>1. phase = "visit" /\ todo # <<>> /\ UNCHANGED <<resolver, written>>
  BY DEF VisitPlot, Visiting
<1>2. PICK nodes, codes : Emit(nodes, codes, <<>>) /\ [is |-> "directive"] \notin nodes
  <2>1. PICK c, f, x : /\ c = [is |-> "code"] /\ f = [is |-> "figure", name |-> PlotName, of |-> Drawing]
                       /\ x = [is |-> "directive"]
    OBVIOUS
  <2>2. c.is = "code" /\ f.is = "figure" /\ x.is = "directive"
    BY <2>1
  <2>3. x \notin {} /\ x \notin {c} /\ x \notin {c, f}
    BY <2>2
  <2>4. \E codes : Emit({}, codes, <<>>) \/ Emit({c}, codes, <<>>) \/ Emit({c, f}, codes, <<>>)
    BY <2>1 DEF VisitPlot
  <2> QED
    BY <2>1, <2>3, <2>4
<1> QED
  BY <1>1, <1>2, NodesHaveCause

LEMMA IncludeHasCause == LossInv /\ VisitInclude => LossInv'
<1> SUFFICES ASSUME LossInv, VisitInclude PROVE LossInv'
  OBVIOUS
<1>1. phase = "visit" /\ todo # <<>> /\ It.is = "include"
  BY DEF VisitInclude, Visiting, It
<1>2. CASE ~IsText(It.uri, Here)
  <2>1. Emit({}, Warn, <<>>) /\ UNCHANGED shared
    BY <1>2 DEF VisitInclude
  <2> QED
    BY <1>1, <2>1, NodesHaveCause DEF shared
<1>3. CASE IsText(It.uri, Here)
  <2>1. PICK text : text = IncludedAll(File(It.uri, Here))
    OBVIOUS
  <2>2. text \in Seq(Holds(at)) /\ \A x \in Range(text) : x.is # "section" /\ x \in Holds(at)
    BY <1>1, <1>3, <2>1, BodiesAreHeld
  <2>3. CASE [is |-> "cycle"] \in Range(text)
    <3>1. Lose
      BY <1>3, <2>1, <2>3 DEF VisitInclude
    <3>2. PICK c : c = [is |-> "cycle"] /\ c \in Holds(at)
      BY <2>2, <2>3
    <3>3. Fatal(c)
      BY <3>2 DEF Fatal
    <3> QED
      BY <1>1, <3>1, <3>2, <3>3, LoseHasCause DEF HasCause
  <2>4. CASE [is |-> "cycle"] \notin Range(text)
    <3>1. Emit({}, {}, text) /\ UNCHANGED shared
      BY <1>3, <2>1, <2>4 DEF VisitInclude
    <3> QED
      BY <1>1, <2>2, <3>1, ItemsHaveCause DEF shared
  <2> QED
    BY <2>3, <2>4
<1> QED
  BY <1>2, <1>3

LEMMA AdmonitionHasCause == LossInv /\ VisitAdmonition => LossInv'
<1> SUFFICES ASSUME LossInv, VisitAdmonition PROVE LossInv'
  OBVIOUS
<1>1. phase = "visit" /\ todo # <<>> /\ It.is = "admonition"
  BY DEF VisitAdmonition, Visiting, It
<1>2. CASE It.options
  <2>1. Lose /\ Fatal(It)
    BY <1>1, <1>2 DEF VisitAdmonition, Fatal
  <2> QED
    BY <1>1, <2>1, ItIsTheCause, LoseHasCause
<1>3. CASE ~It.options
  <2>1. PICK more : more = IF It.rest = <<>> THEN It.items ELSE <<>>
    OBVIOUS
  <2>2. Emit({}, {}, more) /\ UNCHANGED shared
    BY <1>3, <2>1 DEF VisitAdmonition
  <2>3. CASE more = It.items
    BY <1>1, <2>2, <2>3, BodiesAreHeld, ItemsHaveCause DEF shared
  <2>4. CASE more = <<>>
    BY <1>1, <2>2, <2>4, NodesHaveCause DEF shared
  <2> QED
    BY <2>1, <2>3, <2>4
<1> QED
  BY <1>2, <1>3

LEMMA BoxHasCause == LossInv /\ VisitBox => LossInv'
<1> SUFFICES ASSUME LossInv, VisitBox PROVE LossInv'
  OBVIOUS
<1>1. phase = "visit" /\ todo # <<>> /\ It.is = "box" /\ UNCHANGED shared
  BY DEF VisitBox, Visiting, It
<1>2. PICK S, s, t : S = Holds(at) /\ s = It.items /\ t = It.rest
  OBVIOUS
<1>3. /\ s \in Seq(S) /\ \A x \in Range(s) : x.is # "section"
      /\ t \in Seq(S) /\ \A x \in Range(t) : x.is # "section"
  BY <1>1, <1>2, BodiesAreHeld
<1>4. CASE It.titled
  <2>1. Emit({}, {}, s)
    BY <1>2, <1>4 DEF VisitBox
  <2> QED
    BY <1>1, <1>2, <1>3, <2>1, ItemsHaveCause DEF shared
<1>5. CASE ~It.titled
  <2>1. PICK more : more = s \o t
    OBVIOUS
  <2>2. Emit({}, {}, more)
    BY <1>2, <1>5, <2>1 DEF VisitBox
  <2>3. more \in Seq(S) /\ Range(more) \subseteq Range(s) \cup Range(t)
    <3>1. /\ more \in Seq(S) /\ Len(more) = Len(s) + Len(t)
          /\ \A i \in 1..(Len(s) + Len(t)) : more[i] = IF i <= Len(s) THEN s[i] ELSE t[i - Len(s)]
      BY <1>3, <2>1, ConcatProperties
    <3>2. DOMAIN more = 1..(Len(s) + Len(t)) /\ DOMAIN s = 1..Len(s) /\ DOMAIN t = 1..Len(t)
          /\ Len(s) \in Nat /\ Len(t) \in Nat
      BY <1>3, <3>1, LenProperties
    <3>3. ASSUME NEW i \in DOMAIN more PROVE more[i] \in Range(s) \cup Range(t)
      <4>1. CASE i <= Len(s)
        <5>1. i \in DOMAIN s
          BY <3>2, <4>1
        <5> QED
          BY <3>1, <3>2, <4>1, <5>1 DEF Range
      <4>2. CASE ~(i <= Len(s))
        <5>1. i - Len(s) \in DOMAIN t
          BY <3>2, <4>2
        <5> QED
          BY <3>1, <3>2, <4>2, <5>1 DEF Range
      <4> QED
        BY <4>1, <4>2
    <3> QED
      BY <3>1, <3>3 DEF Range
  <2>4. \A x \in Range(more) : x.is # "section"
    BY <1>3, <2>3
  <2> QED
    BY <1>1, <1>2, <2>2, <2>3, <2>4, ItemsHaveCause DEF shared
<1> QED
  BY <1>4, <1>5

LEMMA TableHasCause == LossInv /\ VisitTable => LossInv'
<1> SUFFICES ASSUME LossInv, VisitTable PROVE LossInv'
  OBVIOUS
<1>1. phase = "visit" /\ todo # <<>> /\ It.is = "table" /\ UNCHANGED shared
  BY DEF VisitTable, Visiting, It
<1>2. CASE It.ok
  <2>1. PICK t, x : t = [is |-> "table"] /\ x = [is |-> "directive"]
    OBVIOUS
  <2>2. x \notin {t}
    <3>1. t.is # x.is
      BY <2>1
    <3> QED
      BY <3>1
  <2>3. Emit({t}, {}, It.items)
    BY <1>2, <2>1 DEF VisitTable
  <2> QED
    BY <1>1, <1>2, <2>1, <2>2, <2>3, BodiesAreHeld, ItemsHaveCause DEF shared
<1>3. CASE ~It.ok
  <2>1. Emit({}, Warn, <<>>)
    BY <1>3 DEF VisitTable
  <2> QED
    BY <1>1, <2>1, NodesHaveCause DEF shared
<1> QED
  BY <1>2, <1>3

LEMMA DirectiveHasCause == LossInv /\ VisitDirective => LossInv'
<1> SUFFICES ASSUME LossInv, VisitDirective PROVE LossInv'
  OBVIOUS
<1>1. phase = "visit" /\ todo # <<>> /\ It.is = "directive" /\ UNCHANGED shared
  BY DEF VisitDirective, Visiting, It
<1>2. PICK nodes : nodes = IF SphinxOnly(It) THEN {} ELSE {[is |-> "directive"]}
  OBVIOUS
<1>3. Emit(nodes, {}, <<>>)
  BY <1>2 DEF VisitDirective
<1>4. [is |-> "directive"] \in nodes => HasCause(at)
  <2>1. [is |-> "directive"] \in nodes => Fatal(It)
    BY <1>1, <1>2 DEF Fatal
  <2> QED
    BY <1>1, <2>1, ItIsTheCause
<1> QED
  BY <1>1, <1>3, <1>4, NodesHaveCause DEF shared

LEMMA SeeAlsoHasCause == LossInv /\ VisitSeeAlso => LossInv'
<1> SUFFICES ASSUME LossInv, VisitSeeAlso PROVE LossInv'
  OBVIOUS
<1>1. phase = "visit" /\ todo # <<>> /\ It.is = "see" /\ UNCHANGED shared /\ Emit(SeeAlso(It), {}, <<>>)
  BY DEF VisitSeeAlso, Visiting, It
<1>2. [is |-> "directive"] \in SeeAlso(It) => HasCause(at)
  <2>1. PICK x : x = [is |-> "directive"]
    OBVIOUS
  <2>2. x \in SeeAlso(It) => x \in It.desc
    <3>1. x.is = "directive"
      BY <2>1
    <3>2. \A name : x # [is |-> "unresolved", name |-> name]
      BY <3>1
    <3>3. \A o : x # [is |-> "local", object |-> o]
      BY <3>1
    <3> QED
      BY <3>2, <3>3 DEF SeeAlso
  <2>3. x \in It.desc => Fatal(It)
    BY <1>1, <2>1 DEF Fatal
  <2> QED
    BY <1>1, <2>1, <2>2, <2>3, ItIsTheCause
<1> QED
  BY <1>1, <1>2, NodesHaveCause DEF shared

\* Items that become nodes of a fixed kind, or nothing.
LEMMA OthersHaveCause ==
  ASSUME LossInv,
         \/ VisitText \/ VisitMark \/ VisitSubstitution \/ VisitLostInclude \/ VisitVerbatim
         \/ VisitDropped \/ VisitCsv
  PROVE  LossInv'
<1>1. PICK x, text, table, target :
        /\ x = [is |-> "directive"] /\ text = [is |-> "text"] /\ table = [is |-> "table"]
        /\ target = [is |-> "target", label |-> It.label]
  OBVIOUS
<1>2. x \notin {} /\ x \notin {text} /\ x \notin {table} /\ x \notin {target}
  <2>1. x.is = "directive" /\ text.is = "text" /\ table.is = "table" /\ target.is = "target"
    BY <1>1
  <2> QED
    BY <2>1
<1>3. ASSUME NEW nodes \in {{}, {text}, {table}, {target}}, NEW codes, phase = "visit", todo # <<>>,
             Emit(nodes, codes, <<>>), UNCHANGED shared
      PROVE  LossInv'
  BY <1>1, <1>2, <1>3, NodesHaveCause DEF shared
<1>4. CASE VisitText
  BY <1>1, <1>3, <1>4 DEF VisitText, Visiting
<1>5. CASE VisitMark
  BY <1>1, <1>3, <1>5 DEF VisitMark, Visiting
<1>6. CASE VisitSubstitution
  BY <1>1, <1>3, <1>6 DEF VisitSubstitution, Visiting
<1>7. CASE VisitLostInclude
  BY <1>1, <1>3, <1>7 DEF VisitLostInclude, Visiting
<1>8. CASE VisitVerbatim
  <2>1. phase = "visit" /\ todo # <<>> /\ It.is = "code" /\ Emit({It}, {}, <<>>) /\ UNCHANGED shared
    BY <1>8 DEF VisitVerbatim, Visiting, It
  <2>2. x \notin {It}
    BY <1>1, <2>1
  <2> QED
    BY <1>1, <2>1, <2>2, NodesHaveCause DEF shared
<1>9. CASE VisitDropped
  BY <1>1, <1>3, <1>9 DEF VisitDropped, Visiting
<1>10. CASE VisitCsv
  BY <1>1, <1>3, <1>10 DEF VisitCsv, Visiting
<1> QED
  BY <1>4, <1>5, <1>6, <1>7, <1>8, <1>9, <1>10

LEMMA EndDocHasCause == LossInv /\ EndDoc => LossInv'
<1> SUFFICES ASSUME LossInv, EndDoc PROVE LossInv'
  OBVIOUS
<1>1. phase = "visit"
  BY DEF EndDoc
<1>2. CASE [is |-> "directive"] \in out
  <2>1. Lose /\ HasCause(at)
    BY <1>1, <1>2 DEF EndDoc, LossInv, AheadInv
  <2> QED
    BY <1>1, <2>1, LoseHasCause
<1>3. CASE [is |-> "directive"] \notin out
  <2>1. /\ written' = [i \in DOMAIN written \cup {at} |-> IF i = at THEN out ELSE written[i]]
        /\ phase' = "next" /\ UNCHANGED <<package, at, resolver>>
    BY <1>3 DEF EndDoc, found
  <2>2. DOMAIN written' = DOMAIN written \cup {at}
    BY <2>1
  <2> QED
    BY <1>1, <2>1, <2>2, EndHasCause
<1> QED
  BY <1>2, <1>3

LEMMA VisitHasCause == LossInv /\ Visit => LossInv'
BY RoleHasCause, SectionHasCause, ImageHasCause, PlotHasCause, IncludeHasCause, AdmonitionHasCause,
   BoxHasCause, TableHasCause, DirectiveHasCause, SeeAlsoHasCause, OthersHaveCause, EndDocHasCause
   DEF Visit

\* The items of a document are before the visit as they are in it.
LEMMA StartHasCause == LossInv /\ StartDoc => LossInv'
<1> SUFFICES ASSUME LossInv, StartDoc PROVE LossInv'
  OBVIOUS
<1>1. /\ phase = "next" /\ phase' = "visit" /\ at < Len(Docs) /\ at' = at + 1
      /\ todo' = package.items[at'] /\ out' = {}
      /\ UNCHANGED <<package, resolver, written>>
  BY DEF StartDoc, found, shared
<1>2. /\ at \in 0..Len(Docs) /\ DOMAIN Docs = 1..Len(Docs) /\ Len(Docs) \in Nat
  BY DocsAssumption, LenProperties DEF LossInv, CourseInv
<1>3. PICK b : b = at'
  OBVIOUS
<1>4. b \in DOMAIN Docs /\ b \in 1..Len(Docs) /\ \A d \in 1..b : d \in 1..at \/ d = b
  BY <1>1, <1>2, <1>3
<1>5. /\ Holds(b)' = Holds(b)
      /\ \A d \in DOMAIN Docs : HasCause(d)' <=> HasCause(d)
  BY <1>1, <1>4, CausesStay
<1>6. \A e, j, l : SectionAt(e, j, l)' <=> SectionAt(e, j, l)
  BY <1>1 DEF SectionAt
<1>7. PICK s : s = package.items[b]
  OBVIOUS
<1>8. s \in Seq(Range(s)) /\ Range(s) \subseteq Holds(b)
  BY <1>4, <1>7, ItemsAreHeld DEF LossInv, DocumentsAreNested
<1>9. s \in Seq(Holds(b)) /\ Len(s) \in Nat /\ DOMAIN s = 1..Len(s)
  BY <1>8, SeqMonotonic, LenProperties
<1>10. DocumentsAreNested' /\ CourseInv'
  BY <1>1, <1>2, <1>3, <1>4, NestedStays DEF LossInv, CourseInv
<1>11. BehindInv'
  <2> SUFFICES ASSUME NEW d \in 1..b, d # b PROVE d \in DOMAIN written' \/ HasCause(d)'
    BY <1>1, <1>3 DEF BehindInv
  <2>1. d \in 1..at /\ d \in DOMAIN Docs
    BY <1>2, <1>4
  <2>2. d \in DOMAIN written \/ HasCause(d)
    BY <1>1, <2>1 DEF LossInv, BehindInv
  <2> QED
    BY <1>1, <1>5, <2>1, <2>2
<1>12. AheadInv'
  <2>1. todo' = s /\ todo' \in Seq(Holds(at)')
    <3>1. Holds(at)' = Holds(b)
      BY <1>3, <1>5 DEF Holds
    <3> QED
      BY <1>1, <1>3, <1>7, <1>9, <3>1
  <2>2. ASSUME NEW p \in 1..Len(todo'), todo'[p].is = "section"
        PROVE  SectionAt(at, Place(p), todo[p].label)'
    <3>1. Place(p)' = Len(s) - Len(s) + p
      BY <1>1, <1>3, <1>7, <2>1 DEF Place, Own
    <3>2. Place(p)' = p /\ p \in 1..Len(s)
      BY <1>9, <2>1, <3>1
    <3> QED
      BY <1>1, <1>3, <1>7, <1>9, <2>1, <2>2, <3>2 DEF SectionAt
  <2> QED
    BY <1>1, <2>1, <2>2 DEF AheadInv
<1>13. TableInv'
  <2> SUFFICES ASSUME NEW l \in resolver
               PROVE  \E e \in 1..b, j \in Nat : SectionAt(e, j, l)' /\ e # b
    BY <1>1, <1>3 DEF TableInv
  <2>1. PICK e \in 1..at, j \in Nat : SectionAt(e, j, l)
    BY DEF LossInv, TableInv
  <2>2. e \in 1..b /\ e # b
    BY <1>1, <1>2, <1>3
  <2> QED
    BY <1>6, <2>1, <2>2
<1> QED
  BY <1>10, <1>11, <1>12, <1>13 DEF LossInv

\* Before and between the documents.
LEMMA BetweenHasCause ==
  ASSUME LossInv, phase # "visit", phase' \in {phase, "next", "done"}, phase' = "done" => at = Len(Docs),
         UNCHANGED <<package, at, resolver, written>>
  PROVE  LossInv'
<1>1. at \in 0..Len(Docs) /\ DOMAIN Docs = 1..Len(Docs) /\ Len(Docs) \in Nat
  BY DocsAssumption, LenProperties DEF LossInv, CourseInv
<1>2. \A d \in DOMAIN Docs : HasCause(d)' <=> HasCause(d)
  BY CausesStay
<1>3. \A e, j, l : SectionAt(e, j, l)' <=> SectionAt(e, j, l)
  BY DEF SectionAt
<1>4. DocumentsAreNested' /\ CourseInv' /\ phase' # "visit"
  BY <1>1, NestedStays DEF LossInv, CourseInv
<1>5. BehindInv'
  <2> SUFFICES ASSUME NEW d \in 1..at PROVE d \in DOMAIN written' \/ HasCause(d)'
    BY DEF BehindInv
  <2>1. d \in DOMAIN Docs
    <3>1. PICK n : n = Len(Docs)
      OBVIOUS
    <3>2. n \in Nat /\ at \in 0..n
      BY <1>1, <3>1
    <3>3. d \in 1..n
      BY <3>2
    <3> QED
      BY <1>1, <3>1, <3>3
  <2>2. d \in DOMAIN written \/ HasCause(d)
    BY DEF LossInv, BehindInv
  <2> QED
    BY <1>2, <2>1, <2>2
<1>6. AheadInv'
  BY <1>4 DEF AheadInv
<1>7. TableInv'
  <2> SUFFICES ASSUME NEW l \in resolver
               PROVE  \E e \in 1..at, j \in Nat : SectionAt(e, j, l)'
    BY <1>4 DEF TableInv
  <2>1. PICK e \in 1..at, j \in Nat : SectionAt(e, j, l)
    BY DEF LossInv, TableInv
  <2> QED
    BY <1>3, <2>1
<1> QED
  BY <1>4, <1>5, <1>6, <1>7 DEF LossInv

LEMMA UnmovedHasCause == LossInv /\ UNCHANGED vars => LossInv'
<1> SUFFICES ASSUME LossInv, UNCHANGED vars PROVE LossInv'
  OBVIOUS
<1>1. UNCHANGED <<package, at, phase, resolver, written, todo, out>>
  BY DEF vars
<1>2. at \in 0..Len(Docs) /\ DOMAIN Docs = 1..Len(Docs) /\ Len(Docs) \in Nat
  BY DocsAssumption, LenProperties DEF LossInv, CourseInv
<1>3. \A d \in DOMAIN Docs : Holds(d)' = Holds(d) /\ (HasCause(d)' <=> HasCause(d))
  BY <1>1, CausesStay
<1>4. DocumentsAreNested' /\ CourseInv'
  BY <1>1, NestedStays DEF LossInv, CourseInv
<1>5. BehindInv'
  BY <1>1, <1>2, <1>3 DEF LossInv, BehindInv
<1>a. \A p : Place(p)' = Place(p)
  BY <1>1 DEF Place, Own
<1>b. \A e, j, l : SectionAt(e, j, l)' <=> SectionAt(e, j, l)
  BY <1>1 DEF SectionAt
<1>6. AheadInv'
  <2>1. phase = "visit" => at \in DOMAIN Docs
    BY <1>2 DEF LossInv, CourseInv
  <2>2. phase = "visit" => Holds(at)' = Holds(at) /\ (HasCause(at)' <=> HasCause(at))
    BY <1>1, <1>3, <2>1
  <2>3. AheadInv
    BY DEF LossInv
  <2>4. phase = "visit" => (todo \in Seq(Holds(at)))'
    BY <1>1, <2>2, <2>3 DEF AheadInv
  <2>5. phase = "visit" => ([is |-> "directive"] \in out => HasCause(at))'
    BY <1>1, <2>2, <2>3 DEF AheadInv
  <2>6. phase = "visit" =>
          (\A p \in 1..Len(todo) : todo[p].is = "section" => SectionAt(at, Place(p), todo[p].label))'
    BY <1>1, <2>3 DEF AheadInv, SectionAt, Place, Own
  <2> QED
    BY <1>1, <2>4, <2>5, <2>6 DEF AheadInv
<1>7. TableInv'
  BY <1>1, <1>a, <1>b DEF LossInv, TableInv
<1> QED
  BY <1>4, <1>5, <1>6, <1>7 DEF LossInv

LEMMA NextLossInv == LossInv /\ [Next]_vars => LossInv'
<1> SUFFICES ASSUME LossInv, [Next]_vars PROVE LossInv'
  OBVIOUS
<1>1. CASE \E o \in package.objects : Collect(o)
  BY <1>1, BetweenHasCause DEF Collect, shared
<1>2. CASE Scan
  BY <1>2, BetweenHasCause DEF Scan, shared
<1>3. CASE StartDoc
  BY <1>3, StartHasCause
<1>4. CASE Visit
  BY <1>4, VisitHasCause
<1>5. CASE Finish
  BY <1>5, BetweenHasCause DEF Finish, found, shared
<1>6. CASE UNCHANGED vars
  BY <1>6, UnmovedHasCause
<1> QED
  BY <1>1, <1>2, <1>3, <1>4, <1>5, <1>6 DEF Next

LEMMA InitLossInv == Init /\ DocumentsAreNested => LossInv
<1> SUFFICES ASSUME Init, DocumentsAreNested PROVE LossInv
  OBVIOUS
<1>1. phase = "collect" /\ at = 0 /\ resolver = {}
  BY DEF Init
<1>2. Len(Docs) \in Nat
  BY DocsAssumption, LenProperties
<1> QED
  BY <1>1, <1>2 DEF LossInv, CourseInv, BehindInv, AheadInv, TableInv

\* No document takes another one along: one that is lost over its items holds,
\* however deep, an admonition with options, a directive nobody handles, a :pep:
\* that is no number or files that include each other, or a label that is there
\* twice (gen.py, the handlers of GenVisitor and the try around each document).
\* What else may fail, of which DocVisit has nothing, is an import with side
\* effects, a file that cannot be read, and the validation of the nodes.
THEOREM LossesHaveACause == DocumentsAreNested /\ Spec => []LossHasACause
<1>1. LossInv => LossHasACause
  <2> SUFFICES ASSUME LossInv, phase = "done", NEW d \in DOMAIN Docs \ DOMAIN written
               PROVE  HasCause(d)
    BY DEF LossHasACause
  <2>1. at = Len(Docs) /\ d \in 1..at
    BY DocsAssumption, LenProperties DEF LossInv, CourseInv
  <2> QED
    BY <2>1 DEF LossInv, BehindInv
<1>2. DocumentsAreNested /\ Init => LossInv
  BY InitLossInv
<1> QED
  BY <1>1, <1>2, NextLossInv, PTL DEF Spec
=============================================================================
