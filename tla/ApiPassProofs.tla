--------------------------- MODULE ApiPassProofs ---------------------------
(***************************************************************************)
(* The API pass of `papyri gen', for every package and all examples: where *)
(* the figures of a page come from, that the scan finds all objects of the *)
(* package, that a page shows the blocks of its docstring as they ran, and *)
(* that the names in papyri.json are shortest paths to their objects.      *)
(***************************************************************************)
EXTENDS ApiPass, SequenceTheorems, FiniteSetTheorems, WellFoundedInduction, TLAPS

-----------------------------------------------------------------------------
(* Figures that linger                                                      *)

\* The object whose examples are being run.
Now == IF at = 0 THEN {} ELSE {qa}

\* The objects that may have left figures open: those left out, and the one at work.
Drawers == skipped \union Now

Drawings(S) == [of : S, at : Nat, broken : BOOLEAN]

FiguresInv ==
  /\ at \in Nat
  /\ phase \notin {"examples", "done"} => skipped = {} /\ open_figs = <<>> /\ at = 0 /\ pages = <<>>
  /\ open_figs \in Seq(Drawings(Drawers))
  /\ figs \in Seq(Drawings(Drawers)) /\ (at = 0 => figs = <<>>)
  /\ \A i \in DOMAIN open_figs : open_figs[i].broken => DrawsBroken(open_figs[i].of)
  /\ \A q \in DOMAIN pages : \A i \in DOMAIN pages[q].figs : pages[q].figs[i].of \in {q} \union skipped
  /\ \A q \in skipped : OwnTrouble(q) \/ \E p \in skipped : DrawsBroken(p)

LEMMA DrawingsGrow ==
  ASSUME NEW S, NEW T, S \subseteq T, NEW s \in Seq(Drawings(S))
  PROVE  s \in Seq(Drawings(T))
<1>1. Drawings(S) \subseteq Drawings(T)
  BY DEF Drawings
<1> QED
  BY <1>1

\* What is open once an example has run.
LEMMA DrawnIsTyped ==
  ASSUME FiguresInv, Running
  PROVE  /\ Drawn \in Seq(Drawings(Drawers))
         /\ \A i \in DOMAIN Drawn : Drawn[i].broken => DrawsBroken(Drawn[i].of)
<1>1. at \in 1..Len(Blocks) /\ Block = Blocks[at] /\ Blocks = BlocksOf(qa)
  BY DEF Running, InBlocks, Block, Blocks, BlocksOf
<1>2. at \in Nat /\ at # 0
  <2>1. at \in Nat
    BY DEF FiguresInv
  <2>2. at >= 1
    BY <1>1
  <2> QED
    BY <2>1, <2>2
<1>3. qa \in Drawers
  BY <1>2 DEF Drawers, Now
<1>4. open_figs \in Seq(Drawings(Drawers))
      /\ \A i \in DOMAIN open_figs : open_figs[i].broken => DrawsBroken(open_figs[i].of)
  BY DEF FiguresInv
<1>5. CASE Block.draws = "closes"
  BY <1>5 DEF Drawn
<1>6. CASE Block.draws = "nothing"
  BY <1>4, <1>6 DEF Drawn
<1>7. CASE Block.draws \notin {"closes", "nothing"}
  <2> DEFINE f == [of |-> qa, at |-> at, broken |-> Block.draws = "broken"]
  <2>1. Drawn = Append(open_figs, f)
    BY <1>7 DEF Drawn
  <2>2. f \in Drawings(Drawers)
    BY <1>2, <1>3 DEF Drawings
  <2>3. f.broken => DrawsBroken(f.of)
    BY <1>1 DEF DrawsBroken
  <2> HIDE DEF f
  <2>4. /\ Append(open_figs, f) \in Seq(Drawings(Drawers))
        /\ Len(Append(open_figs, f)) = Len(open_figs) + 1
        /\ \A i \in 1..Len(open_figs) : Append(open_figs, f)[i] = open_figs[i]
        /\ Append(open_figs, f)[Len(open_figs) + 1] = f
    BY <1>4, <2>2, AppendProperties
  <2>5. ASSUME NEW i \in DOMAIN Drawn, Drawn[i].broken PROVE DrawsBroken(Drawn[i].of)
    <3>1. DOMAIN Drawn = 1..(Len(open_figs) + 1) /\ DOMAIN open_figs = 1..Len(open_figs)
          /\ Len(open_figs) \in Nat
      BY <1>4, <2>1, <2>4
    <3>2. CASE i \in 1..Len(open_figs)
      BY <1>4, <2>1, <2>4, <2>5, <3>1, <3>2
    <3>3. CASE i = Len(open_figs) + 1
      BY <2>1, <2>3, <2>4, <2>5, <3>3
    <3> QED
      BY <3>1, <3>2, <3>3
  <2> QED
    BY <2>1, <2>4, <2>5
<1> QED
  BY <1>5, <1>6, <1>7

\* A step of the examples: the figures open belong to whoever is left out or at
\* work, and an object is left out over a broken figure only.
LEMMA FiguresKept ==
  ASSUME FiguresInv, phase = "examples",
         UNCHANGED <<package, obj>>, phase' = phase \/ phase' = "done",
         at' \in Nat,
         open_figs' \in Seq(Drawings(Drawers')),
         \A i \in DOMAIN open_figs' : open_figs'[i].broken => DrawsBroken(open_figs'[i].of),
         figs' \in Seq(Drawings(Drawers')), at' = 0 => figs' = <<>>,
         skipped \subseteq skipped',
         \A q \in DOMAIN pages' :
            (q \in DOMAIN pages /\ pages'[q] = pages[q])
              \/ \A i \in DOMAIN pages'[q].figs : pages'[q].figs[i].of \in {q} \union skipped',
         \A q \in skipped' \ skipped : OwnTrouble(q) \/ \E p \in skipped' : DrawsBroken(p)
  PROVE  FiguresInv'
<1>1. \A q : DrawsBroken(q)' <=> DrawsBroken(q)
  BY DEF DrawsBroken, BlocksOf
<1>2. (\A i \in DOMAIN open_figs : open_figs[i].broken => DrawsBroken(open_figs[i].of))'
  BY DEF DrawsBroken, BlocksOf
<1>3. \A q \in DOMAIN pages' : \A i \in DOMAIN pages'[q].figs :
        pages'[q].figs[i].of \in {q} \union skipped'
  BY DEF FiguresInv
<1>4. \A q \in skipped' : OwnTrouble(q) \/ \E p \in skipped' : DrawsBroken(p)
  BY DEF FiguresInv
<1>5. \A q : OwnTrouble(q)' <=> OwnTrouble(q)
  BY DEF OwnTrouble, Kept, Skips, Runs, BlocksOf
<1>6. \A q \in skipped' : OwnTrouble(q)' \/ \E p \in skipped' : DrawsBroken(p)'
  BY <1>1, <1>4, <1>5
<1> QED
  BY <1>2, <1>3, <1>6 DEF FiguresInv

LEMMA PageOfNothingKeeps == FiguresInv /\ WithoutExamples => FiguresInv'
<1> SUFFICES ASSUME FiguresInv, WithoutExamples PROVE FiguresInv'
  OBVIOUS
<1>1. /\ phase = "examples" /\ at = 0 /\ at' = 0 /\ figs' = <<>>
      /\ UNCHANGED <<package, obj, phase, open_figs, skipped>>
      /\ pages' = [q \in DOMAIN pages \union {qa} |->
                     IF q = qa THEN [section |-> <<>>, figs |-> <<>>] ELSE pages[q]]
  BY DEF WithoutExamples, Treating, NextObject
<1>2. Drawers' = Drawers
  BY <1>1 DEF Drawers, Now
<1>3. \A q \in DOMAIN pages' : (q \in DOMAIN pages /\ pages'[q] = pages[q]) \/ pages'[q].figs = <<>>
  BY <1>1
<1>4. at' \in Nat /\ skipped' = skipped /\ skipped \subseteq skipped'
  BY <1>1
<1>5. open_figs' \in Seq(Drawings(Drawers')) /\ figs' \in Seq(Drawings(Drawers'))
      /\ \A i \in DOMAIN open_figs' : open_figs'[i].broken => DrawsBroken(open_figs'[i].of)
  BY <1>1, <1>2 DEF FiguresInv
<1>6. \A q \in DOMAIN pages' :
            (q \in DOMAIN pages /\ pages'[q] = pages[q])
              \/ \A i \in DOMAIN pages'[q].figs : pages'[q].figs[i].of \in {q} \union skipped'
  BY <1>3
<1> QED
  BY <1>1, <1>4, <1>5, <1>6, FiguresKept

LEMMA RefusalKeeps == FiguresInv /\ RefuseExamples => FiguresInv'
<1> SUFFICES ASSUME FiguresInv, RefuseExamples PROVE FiguresInv'
  OBVIOUS
<1>1. /\ phase = "examples" /\ at = 0 /\ at' = 0 /\ figs' = <<>> /\ Refused
      /\ skipped' = skipped \union {qa}
      /\ UNCHANGED <<package, obj, phase, open_figs, pages>>
  BY DEF RefuseExamples, Treating, NextObject
<1>2. Drawers \subseteq Drawers'
  BY <1>1 DEF Drawers, Now
<1>3. at' \in Nat /\ skipped \subseteq skipped'
  BY <1>1
<1>4. open_figs' \in Seq(Drawings(Drawers')) /\ figs' \in Seq(Drawings(Drawers'))
      /\ \A i \in DOMAIN open_figs' : open_figs'[i].broken => DrawsBroken(open_figs'[i].of)
  BY <1>1, <1>2, DrawingsGrow DEF FiguresInv
<1>5. \A q \in skipped' \ skipped : OwnTrouble(q)
  BY <1>1 DEF Refused, OwnTrouble
<1> QED
  BY <1>1, <1>3, <1>4, <1>5, FiguresKept

\* A step within the blocks of one docstring.
LEMMA BlockKeeps ==
  ASSUME FiguresInv, phase = "examples", UNCHANGED <<package, obj, phase, order, pages, skipped>>,
         at' \in Nat \ {0}, at # 0 \/ figs' = <<>>,
         \/ UNCHANGED <<figs, open_figs>>
         \/ /\ Running
            /\ open_figs' \in {Drawn, <<>>} /\ figs' \in {figs, figs \o Drawn}
  PROVE  FiguresInv'
<1>1. Drawers \subseteq Drawers' /\ skipped \subseteq skipped'
  BY DEF Drawers, Now, qa
<1>2. Running => /\ Drawn \in Seq(Drawings(Drawers))
                 /\ \A i \in DOMAIN Drawn : Drawn[i].broken => DrawsBroken(Drawn[i].of)
  BY DrawnIsTyped
<1>3. /\ open_figs \in Seq(Drawings(Drawers)) /\ figs \in Seq(Drawings(Drawers))
      /\ \A i \in DOMAIN open_figs : open_figs[i].broken => DrawsBroken(open_figs[i].of)
  BY DEF FiguresInv
<1>4. /\ open_figs' \in Seq(Drawings(Drawers))
      /\ \A i \in DOMAIN open_figs' : open_figs'[i].broken => DrawsBroken(open_figs'[i].of)
  <2>1. CASE open_figs' = open_figs
    BY <1>3, <2>1
  <2>2. CASE Running /\ open_figs' = Drawn
    BY <1>2, <2>2
  <2>3. CASE open_figs' = <<>>
    <3>1. DOMAIN open_figs' = {} /\ open_figs' \in Seq(Drawings(Drawers))
      BY <2>3
    <3> QED
      BY <3>1
  <2> QED
    BY <2>1, <2>2, <2>3
<1>5. figs' \in Seq(Drawings(Drawers))
  BY <1>2, <1>3, ConcatProperties
<1>6. open_figs' \in Seq(Drawings(Drawers')) /\ figs' \in Seq(Drawings(Drawers'))
  BY <1>1, <1>4, <1>5, DrawingsGrow
<1> QED
  BY <1>1, <1>4, <1>6, FiguresKept

LEMMA BlocksKeep ==
  FiguresInv /\ (StartExamples \/ KeepText \/ ShowOnly \/ Skip \/ Succeed \/ SucceedWithFigures \/ Fail)
    => FiguresInv'
<1> SUFFICES ASSUME FiguresInv,
                    StartExamples \/ KeepText \/ ShowOnly \/ Skip \/ Succeed \/ SucceedWithFigures \/ Fail
             PROVE  FiguresInv'
  OBVIOUS
<1>1. at \in Nat /\ (at = 0 => figs = <<>>)
  BY DEF FiguresInv
<1>2. InBlocks => at >= 1
  BY DEF InBlocks
<1>3. CASE StartExamples
  <2>1. phase = "examples" /\ at' = 1 /\ figs' = <<>>
        /\ UNCHANGED <<package, obj, phase, order, pages, skipped, figs, open_figs>>
    BY <1>1, <1>3 DEF StartExamples, Treating, scanVars
  <2> QED
    BY <2>1, BlockKeeps
<1>4. CASE KeepText \/ ShowOnly \/ Skip
  <2>1. phase = "examples" /\ at' = at + 1 /\ InBlocks
        /\ UNCHANGED <<package, obj, phase, order, pages, skipped, figs, open_figs>>
    BY <1>4 DEF KeepText, ShowOnly, Skip, InBlocks, Treating, scanVars
  <2>2. at' \in Nat \ {0} /\ at # 0
    BY <1>1, <1>2, <2>1
  <2> QED
    BY <2>1, <2>2, BlockKeeps
<1>5. CASE Succeed \/ SucceedWithFigures \/ Fail
  <2>1. phase = "examples" /\ at' = at + 1 /\ InBlocks /\ Running
        /\ UNCHANGED <<package, obj, phase, order, pages, skipped>>
    BY <1>5 DEF Succeed, SucceedWithFigures, Fail, Running, InBlocks, Treating, scanVars
  <2>2. at' \in Nat \ {0} /\ at # 0
    BY <1>1, <1>2, <2>1
  <2>3. open_figs' \in {Drawn, <<>>} /\ figs' \in {figs, figs \o Drawn}
    BY <1>5 DEF Succeed, SucceedWithFigures, Fail
  <2> QED
    BY <2>1, <2>2, <2>3, BlockKeeps
<1> QED
  BY <1>3, <1>4, <1>5

\* The object is left out: one of the figures open is broken, and it was drawn by
\* this object or by one that was left out before.
LEMMA SaveFailsKeeps == FiguresInv /\ SaveFails => FiguresInv'
<1> SUFFICES ASSUME FiguresInv, SaveFails PROVE FiguresInv'
  OBVIOUS
<1>1. /\ phase = "examples" /\ at' = 0 /\ figs' = <<>> /\ Running /\ Unsavable
      /\ skipped' = skipped \union {qa} /\ open_figs' = Drawn
      /\ UNCHANGED <<package, obj, phase, pages>>
  BY DEF SaveFails, Running, InBlocks, Treating, NextObject
<1>2. /\ Drawn \in Seq(Drawings(Drawers))
      /\ \A i \in DOMAIN Drawn : Drawn[i].broken => DrawsBroken(Drawn[i].of)
  BY <1>1, DrawnIsTyped
<1>3. Drawers \subseteq skipped' /\ Drawers' = skipped'
  BY <1>1 DEF Drawers, Now
<1>4. open_figs' \in Seq(Drawings(Drawers')) /\ figs' \in Seq(Drawings(Drawers'))
  BY <1>1, <1>2, <1>3, DrawingsGrow
<1>5. PICK i \in DOMAIN Drawn : Drawn[i].broken
  BY <1>1 DEF Unsavable
<1>6. Drawn[i] \in Drawings(Drawers)
  BY <1>2
<1>7. Drawn[i].of \in skipped' /\ DrawsBroken(Drawn[i].of)
  BY <1>2, <1>3, <1>5, <1>6 DEF Drawings
<1>8. at' \in Nat /\ skipped \subseteq skipped'
  BY <1>1
<1> QED
  BY <1>1, <1>2, <1>4, <1>7, <1>8, FiguresKept

\* The object is left out for a source that has no tokens; what its examples
\* have open stays open.
LEMMA TokensFailKeeps == FiguresInv /\ TokensFail => FiguresInv'
<1> SUFFICES ASSUME FiguresInv, TokensFail PROVE FiguresInv'
  OBVIOUS
<1>1. /\ phase = "examples" /\ at' = 0 /\ figs' = <<>> /\ InBlocks /\ Block.kind = "example"
      /\ ~Block.tokens /\ ~(Executed /\ Block.ends = "skip")
      /\ skipped' = skipped \union {qa} /\ open_figs' = IF Executed THEN Drawn ELSE open_figs
      /\ UNCHANGED <<package, obj, phase, pages>>
  BY DEF TokensFail, InBlocks, Treating, NextObject
<1>2. Executed => Running
  BY <1>1 DEF Running
<1>3. Drawers \subseteq Drawers'
  BY <1>1 DEF Drawers, Now
<1>4. /\ open_figs' \in Seq(Drawings(Drawers))
      /\ \A i \in DOMAIN open_figs' : open_figs'[i].broken => DrawsBroken(open_figs'[i].of)
  <2>1. CASE Executed
    BY <1>1, <1>2, <2>1, DrawnIsTyped
  <2>2. CASE ~Executed
    BY <1>1, <2>2 DEF FiguresInv
  <2> QED
    BY <2>1, <2>2
<1>5. open_figs' \in Seq(Drawings(Drawers')) /\ figs' \in Seq(Drawings(Drawers'))
  BY <1>1, <1>3, <1>4, DrawingsGrow
<1>6. OwnTrouble(qa)
  <2>1. at \in 1..Len(Blocks) /\ Block = Blocks[at] /\ Blocks = BlocksOf(qa)
    BY <1>1 DEF InBlocks, Block, Blocks, BlocksOf
  <2>2. at \in DOMAIN BlocksOf(qa)
    BY <1>1, <2>1 DEF InBlocks
  <2>3. at \in Kept(qa)
    BY <1>1, <2>1, <2>2 DEF Kept, Skips, Executed
  <2> QED
    BY <1>1, <2>1, <2>3 DEF OwnTrouble
<1>7. at' \in Nat /\ skipped \subseteq skipped' /\ \A q \in skipped' \ skipped : OwnTrouble(q)
  BY <1>1, <1>6
<1> QED
  BY <1>1, <1>4, <1>5, <1>7, FiguresKept

LEMMA EndKeeps == FiguresInv /\ EndExamples => FiguresInv'
<1> SUFFICES ASSUME FiguresInv, EndExamples PROVE FiguresInv'
  OBVIOUS
<1>1. /\ phase = "examples" /\ at' = 0 /\ figs' = <<>> /\ open_figs' = <<>>
      /\ UNCHANGED <<package, obj, phase, skipped>>
      /\ pages' = [q \in DOMAIN pages \union {qa} |->
                     IF q = qa THEN [section |-> Compact(section), figs |-> figs] ELSE pages[q]]
  BY DEF EndExamples, Treating, NextObject
<1>2. \A i \in DOMAIN figs : figs[i].of \in {qa} \union skipped'
  <2>1. \A i \in DOMAIN figs : figs[i] \in Drawings(Drawers)
    BY DEF FiguresInv
  <2> QED
    BY <1>1, <2>1 DEF Drawings, Drawers, Now
<1>3. \A q \in DOMAIN pages' : q # qa => q \in DOMAIN pages /\ pages'[q] = pages[q]
  BY <1>1
<1>4. qa \in DOMAIN pages' => pages'[qa].figs = figs
  BY <1>1
<1>5. \A q \in DOMAIN pages' :
            (q \in DOMAIN pages /\ pages'[q] = pages[q])
              \/ \A i \in DOMAIN pages'[q].figs : pages'[q].figs[i].of \in {q} \union skipped'
  BY <1>2, <1>3, <1>4
<1>6. at' \in Nat /\ skipped \subseteq skipped' /\ skipped' = skipped
      /\ open_figs' \in Seq(Drawings(Drawers')) /\ figs' \in Seq(Drawings(Drawers'))
      /\ DOMAIN open_figs' = {}
  BY <1>1
<1> QED
  BY <1>1, <1>5, <1>6, FiguresKept

\* Before the examples no figure is open and nobody is left out.
LEMMA ScanKeepsFigures == FiguresInv /\ Scan => FiguresInv'
<1> SUFFICES ASSUME FiguresInv, Scan PROVE FiguresInv'
  OBVIOUS
<1>1. phase \notin {"examples", "done"} /\ UNCHANGED exampleVars
  BY DEF Scan, ScanNext, GetCollector, RefuseSubmodule, Visit, Pass, Select, Scanning
<1>2. skipped' = {} /\ open_figs' = <<>> /\ at' = 0 /\ pages' = <<>> /\ figs' = <<>>
  BY <1>1 DEF FiguresInv, exampleVars
<1> QED
  BY <1>2 DEF FiguresInv

LEMMA InitFiguresInv == Init => FiguresInv
BY DEF Init, FiguresInv, Drawers, Now

LEMMA NextFiguresInv == FiguresInv /\ [Next]_vars => FiguresInv'
<1> SUFFICES ASSUME FiguresInv, [Next]_vars PROVE FiguresInv'
  OBVIOUS
<1>1. CASE Finish
  <2>1. phase = "examples" /\ phase' = "done"
        /\ UNCHANGED <<package, obj, order, at, figs, open_figs, pages, skipped>>
    BY <1>1 DEF Finish, exampleVars
  <2>2. Drawers' = Drawers
    BY <2>1 DEF Drawers, Now, qa
  <2> QED
    BY <2>1, <2>2, FiguresKept DEF FiguresInv
<1>2. CASE UNCHANGED vars
  <2>1. UNCHANGED <<package, obj, order, phase, at, figs, open_figs, pages, skipped>>
    BY <1>2 DEF vars, scanVars, exampleVars
  <2>2. Drawers' = Drawers
    BY <2>1 DEF Drawers, Now, qa
  <2>3. \A q : (OwnTrouble(q)' <=> OwnTrouble(q)) /\ (DrawsBroken(q)' <=> DrawsBroken(q))
    BY <2>1 DEF OwnTrouble, DrawsBroken, Kept, Skips, Runs, BlocksOf
  <2> QED
    BY <2>1, <2>2, <2>3 DEF FiguresInv
<1>3. CASE Stopped
  BY <1>2, <1>3 DEF Stopped
<1> QED
  BY <1>1, <1>2, <1>3, ScanKeepsFigures, PageOfNothingKeeps, RefusalKeeps, BlocksKeep,
     SaveFailsKeeps, TokensFailKeeps, EndKeeps DEF Next

\* A figure on the page of another object was left open by an object that was
\* left out.  An object whose runner is made, whose docstring is parsed and
\* whose examples have tokens is left out only over a figure that cannot be
\* saved, its own or that of an object left out (gen.py, get_example_data).
THEOREM FiguresHaveACause == Spec => []LingeringFigureHasACause
<1>1. FiguresInv => LingeringFigureHasACause
  BY DEF FiguresInv, LingeringFigureHasACause
<1> QED
  BY <1>1, InitFiguresInv, NextFiguresInv, PTL DEF Spec

-----------------------------------------------------------------------------
(* What the root and the configured submodules lead to                      *)

Sources == {Root} \union ToSet(Seeds)

Led(S) == S \union UNION {{m[2] : m \in ToSet(Members(o))} : o \in {q \in S : Walks(q)}}

\* The paths that are one step longer.
Longer(S) == S \union UNION {{Append(p, m[1]) : m \in ToSet(Members(At(p)))} : p \in {q \in S : Walks(At(q))}}

\* Reached and Paths are functions of one form.
Start(what) == IF what = "objects" THEN Sources ELSE {RootName}
Round(what, S) == IF what = "objects" THEN Led(S) ELSE Longer(S)

\* f is that function, for the first n steps.
Leads(what, f, n) == \A k \in 0..n : f[k] = IF k = 0 THEN Start(what) ELSE Round(what, f[k - 1])

LEMMA SomeLeads ==
  ASSUME NEW what, NEW n \in Nat
  PROVE  \E f : Leads(what, f, n)
<1> DEFINE T == {k \in Nat : ~\E f : Leads(what, f, k)}
<1> SUFFICES ASSUME T # {} PROVE FALSE
  OBVIOUS
<1>1. PICK k \in T : \A j \in T : ~(<<j, k>> \in OpToRel(<, Nat))
  BY NatLessThanWellFounded, WFMin
<1>2. \A j \in Nat : j < k => \E f : Leads(what, f, j)
  BY <1>1 DEF OpToRel
<1>3. CASE k = 0
  <2>1. Leads(what, [j \in {0} |-> Start(what)], 0)
    BY DEF Leads
  <2> QED
    BY <1>1, <1>3, <2>1
<1>4. CASE k # 0
  <2>0. k \in Nat
    OBVIOUS
  <2>1. k \in Nat /\ k - 1 \in Nat /\ k - 1 < k
    BY <1>4, <2>0
  <2>2. PICK f : Leads(what, f, k - 1)
    BY <1>2, <2>1
  <2> DEFINE g == [j \in 0..k |-> IF j = k THEN Round(what, f[k - 1]) ELSE f[j]]
  <2>3. ASSUME NEW j \in 0..k PROVE g[j] = IF j = 0 THEN Start(what) ELSE Round(what, g[j - 1])
    <3>1. CASE j = k
      <4>1. g[j] = Round(what, f[k - 1]) /\ g[k - 1] = f[k - 1]
        BY <2>1, <3>1
      <4> QED
        BY <1>4, <3>1, <4>1
    <3>2. CASE j # k
      <4>1. j \in 0..(k - 1) /\ (j # 0 => j - 1 \in 0..k /\ j - 1 # k)
        BY <2>1, <3>2
      <4>2. g[j] = f[j] /\ (j # 0 => g[j - 1] = f[j - 1])
        BY <3>2, <4>1
      <4>3. f[j] = IF j = 0 THEN Start(what) ELSE Round(what, f[j - 1])
        BY <2>2, <4>1 DEF Leads
      <4> QED
        BY <4>2, <4>3
    <3> QED
      BY <3>1, <3>2
  <2> HIDE DEF g
  <2>4. Leads(what, g, k)
    BY <2>3 DEF Leads
  <2> QED
    BY <1>1, <2>4
<1> QED
  BY <1>3, <1>4

LEMMA LeadsIsOne ==
  ASSUME NEW what, NEW f, NEW g, NEW n \in Nat, NEW m \in Nat, Leads(what, f, n), Leads(what, g, m),
         NEW k \in Nat, k <= n, k <= m
  PROVE  f[k] = g[k]
<1> DEFINE T == {j \in 0..k : f[j] # g[j]}
<1> SUFFICES ASSUME T # {} PROVE FALSE
  OBVIOUS
<1>0. T \subseteq Nat
  OBVIOUS
<1>1. PICK j \in T : \A i \in T : ~(<<i, j>> \in OpToRel(<, Nat))
  BY <1>0, NatLessThanWellFounded, WFMin
<1>2. j \in Nat /\ j \in 0..n /\ j \in 0..m /\ f[j] # g[j]
  OBVIOUS
<1>3. j # 0 => j - 1 \notin T
  <2> SUFFICES ASSUME j # 0, j - 1 \in T PROVE FALSE
    OBVIOUS
  <2>1. j - 1 \in Nat /\ j - 1 < j
    BY <1>2
  <2> QED
    BY <1>1, <1>2, <2>1 DEF OpToRel
<1>4. j # 0 => f[j - 1] = g[j - 1]
  BY <1>2, <1>3
<1> QED
  BY <1>2, <1>4 DEF Leads

LEMMA RoundsUnfold ==
  ASSUME NEW what
  PROVE  \E F : F = [n \in Nat |-> IF n = 0 THEN Start(what) ELSE Round(what, F[n - 1])]
<1> DEFINE R(f) == [n \in Nat |-> IF n = 0 THEN Start(what) ELSE Round(what, f[n - 1])]
           F == [n \in Nat |-> (CHOOSE f : Leads(what, f, n))[n]]
<1>1. \A n \in Nat : Leads(what, CHOOSE f : Leads(what, f, n), n)
  BY SomeLeads
<1>2. ASSUME NEW n \in Nat PROVE F[n] = R(F)[n]
  <2> DEFINE f == CHOOSE g : Leads(what, g, n)
             h == CHOOSE g : Leads(what, g, n - 1)
  <2>1. Leads(what, f, n) /\ F[n] = f[n] /\ n \in 0..n
    BY <1>1
  <2>2. CASE n = 0
    BY <2>1, <2>2 DEF Leads
  <2>3. CASE n # 0
    <3>1. n - 1 \in Nat
      BY <2>3
    <3>2. Leads(what, h, n - 1) /\ F[n - 1] = h[n - 1]
      BY <1>1, <3>1
    <3>3. f[n - 1] = h[n - 1]
      <4> HIDE DEF f, h, F
      <4> QED
        BY <2>1, <3>1, <3>2, LeadsIsOne
    <3>4. f[n] = Round(what, f[n - 1])
      BY <2>1, <2>3 DEF Leads
    <3>5. R(F)[n] = Round(what, F[n - 1])
      BY <2>3
    <3> HIDE DEF f, h, F, R
    <3> QED
      BY <2>1, <3>2, <3>3, <3>4, <3>5
  <2> QED
    BY <2>2, <2>3
<1>3. F = R(F)
  <2> HIDE DEF R
  <2>1. DOMAIN F = Nat
    OBVIOUS
  <2>2. R(F) = [n \in Nat |-> R(F)[n]]
    BY DEF R
  <2> QED
    BY <1>2, <2>2
<1> HIDE DEF F
<1> QED
  BY <1>3

LEMMA NextIs ==
  ASSUME NEW what, NEW f, f = [n \in Nat |-> IF n = 0 THEN Start(what) ELSE Round(what, f[n - 1])]
  PROVE  f[0] = Start(what) /\ \A n \in Nat : f[n + 1] = Round(what, f[n])
<1>1. \A n \in Nat : f[n] = IF n = 0 THEN Start(what) ELSE Round(what, f[n - 1])
  OBVIOUS
<1>2. ASSUME NEW n \in Nat PROVE f[n + 1] = Round(what, f[n])
  <2>1. n + 1 \in Nat /\ n + 1 # 0 /\ (n + 1) - 1 = n
    OBVIOUS
  <2> QED
    BY <1>1, <2>1
<1> QED
  BY <1>1, <1>2

\* Reached is what its definition says.
LEMMA ReachedIs ==
  /\ Reached[0] = Sources
  /\ \A n \in Nat : Reached[n + 1] = Led(Reached[n])
<1> DEFINE R(f) == [n \in Nat |-> IF n = 0 THEN Sources ELSE Led(f[n - 1])]
<1>1. Reached = CHOOSE f : f = R(f)
  BY DEF Reached, Sources, Led
<1>2. \E f : f = R(f)
  BY RoundsUnfold DEF Start, Round
<1>3. Reached = R(Reached)
  <2> HIDE DEF R
  <2> QED
    BY <1>1, <1>2
<1> QED
  BY <1>3, NextIs DEF Start, Round

\* And so is Paths.
LEMMA PathsIs ==
  /\ Paths[0] = {RootName}
  /\ \A n \in Nat : Paths[n + 1] = Longer(Paths[n])
<1> DEFINE R(f) == [n \in Nat |-> IF n = 0 THEN {RootName} ELSE Longer(f[n - 1])]
<1>1. Paths = CHOOSE f : f = R(f)
  BY DEF Paths, Longer
<1>2. PICK what : what = "paths"
  OBVIOUS
<1>3. Start(what) = {RootName} /\ \A S : Round(what, S) = Longer(S)
  BY <1>2 DEF Start, Round
<1>4. PICK F : F = [n \in Nat |-> IF n = 0 THEN Start(what) ELSE Round(what, F[n - 1])]
  BY RoundsUnfold
<1>5. F = R(F)
  BY <1>3, <1>4
<1>6. Paths = R(Paths)
  <2> HIDE DEF R
  <2> QED
    BY <1>1, <1>5
<1>7. Paths = [n \in Nat |-> IF n = 0 THEN Start(what) ELSE Round(what, Paths[n - 1])]
  BY <1>3, <1>6
<1>8. Paths[0] = Start(what) /\ \A n \in Nat : Paths[n + 1] = Round(what, Paths[n])
  <2>1. PICK f : f = Paths
    OBVIOUS
  <2>2. f = [n \in Nat |-> IF n = 0 THEN Start(what) ELSE Round(what, f[n - 1])]
    BY <1>7, <2>1
  <2> QED
    BY <2>1, <2>2, NextIs
<1> QED
  BY <1>3, <1>8

\* A set that what its walkers lead to stays in.
Closed(S) == Sources \subseteq S /\ Led(S) = S

LEMMA LedGrows ==
  ASSUME NEW S, NEW T, S \subseteq T
  PROVE  S \subseteq Led(S) /\ Led(S) \subseteq Led(T)
BY DEF Led

\* All that is reached is in every closed set.
LEMMA ReachedIsLeast ==
  ASSUME NEW T, Closed(T), NEW n \in Nat
  PROVE  Reached[n] \subseteq T
<1> DEFINE N == {k \in Nat : ~(Reached[k] \subseteq T)}
<1> SUFFICES ASSUME N # {} PROVE FALSE
  OBVIOUS
<1>1. PICK k \in N : \A j \in N : ~(<<j, k>> \in OpToRel(<, Nat))
  BY NatLessThanWellFounded, WFMin
<1>2. k \in Nat /\ ~(Reached[k] \subseteq T)
  OBVIOUS
<1>3. k # 0
  BY <1>2, ReachedIs DEF Closed
<1>4. k - 1 \in Nat /\ k - 1 < k /\ (k - 1) + 1 = k
  BY <1>2, <1>3
<1>5. Reached[k - 1] \subseteq T
  BY <1>1, <1>2, <1>4 DEF OpToRel
<1>6. Reached[k] = Led(Reached[k - 1])
  <2>1. Reached[(k - 1) + 1] = Led(Reached[k - 1])
    BY <1>4, ReachedIs
  <2> QED
    BY <1>4, <2>1
<1> QED
  BY <1>2, <1>5, <1>6, LedGrows DEF Closed

LEMMA ReachedHoldsSources ==
  ASSUME NEW n \in Nat
  PROVE  Sources \subseteq Reached[n]
<1> DEFINE N == {k \in Nat : ~(Sources \subseteq Reached[k])}
<1> SUFFICES ASSUME N # {} PROVE FALSE
  OBVIOUS
<1>1. PICK k \in N : \A j \in N : ~(<<j, k>> \in OpToRel(<, Nat))
  BY NatLessThanWellFounded, WFMin
<1>2. k \in Nat /\ ~(Sources \subseteq Reached[k])
  OBVIOUS
<1>3. k # 0
  BY <1>2, ReachedIs
<1>4. k - 1 \in Nat /\ k - 1 < k /\ (k - 1) + 1 = k
  BY <1>2, <1>3
<1>5. Sources \subseteq Reached[k - 1]
  BY <1>1, <1>2, <1>4 DEF OpToRel
<1>6. Reached[(k - 1) + 1] = Led(Reached[k - 1])
  BY <1>4, ReachedIs
<1> QED
  BY <1>2, <1>4, <1>5, <1>6, LedGrows

\* Among the objects of a finite graph, no more is reached after as many steps as
\* there are objects.
LEMMA ReachedIsClosed ==
  ASSUME NEW U, IsFiniteSet(U), Closed(U)
  PROVE  Closed(Reached[Cardinality(U)])
<1> DEFINE R(k) == Reached[k]
           N == {k \in Nat : k <= Cardinality(U) /\ Led(R(k)) = R(k)}
           M == {k \in Nat : ~(Cardinality(R(k)) >= k + 1)}
           card == Cardinality(U)
<1>1. card \in Nat
  BY FS_CardinalityType
<1>2. ASSUME NEW k \in Nat
      PROVE  /\ R(k) \subseteq U /\ IsFiniteSet(R(k)) /\ Cardinality(R(k)) \in Nat
             /\ Cardinality(R(k)) <= card
  <2>1. R(k) \subseteq U
    BY ReachedIsLeast
  <2> HIDE DEF R
  <2> QED
    BY <2>1, FS_Subset, FS_CardinalityType
<1>3. ASSUME NEW k \in Nat
      PROVE  R(k + 1) = Led(R(k))
  BY ReachedIs
\* Once nothing is added, nothing is.
<1>4. ASSUME NEW k \in N
      PROVE  R(card) = R(k)
  <2> DEFINE P == {j \in Nat : j >= k /\ R(j) # R(k)}
  <2>1. k \in Nat /\ k <= card /\ Led(R(k)) = R(k)
    OBVIOUS
  <2>2. P = {}
    <3> SUFFICES ASSUME P # {} PROVE FALSE
      OBVIOUS
    <3>1. PICK j \in P : \A i \in P : ~(<<i, j>> \in OpToRel(<, Nat))
      BY NatLessThanWellFounded, WFMin
    <3>2. j \in Nat /\ j >= k /\ R(j) # R(k)
      OBVIOUS
    <3>3. j # k
      BY <3>2
    <3>4. j - 1 \in Nat /\ j - 1 >= k /\ j - 1 < j /\ (j - 1) + 1 = j
      BY <2>1, <3>2, <3>3
    <3>5. j - 1 \notin P
      BY <3>1, <3>2, <3>4 DEF OpToRel
    <3> HIDE DEF R
    <3>6. R(j - 1) = R(k)
      BY <3>4, <3>5
    <3>7. R((j - 1) + 1) = Led(R(j - 1))
      BY <1>3, <3>4
    <3> QED
      BY <2>1, <3>2, <3>4, <3>6, <3>7
  <2> HIDE DEF R
  <2> QED
    BY <1>1, <2>1, <2>2
<1>5. CASE N # {}
  <2>1. PICK k \in N : Led(R(k)) = R(k)
    BY <1>5
  <2>2. Led(R(card)) = R(card)
    BY <1>4, <2>1
  <2>3. Sources \subseteq R(card)
    BY <1>1, ReachedHoldsSources
  <2> QED
    BY <2>2, <2>3 DEF Closed
<1>6. CASE N = {}
  <2> DEFINE P == {k \in Nat : k <= card /\ ~(Cardinality(R(k)) >= k + 1)}
  <2>1. P = {}
    <3> SUFFICES ASSUME P # {} PROVE FALSE
      OBVIOUS
    <3>1. PICK k \in P : \A j \in P : ~(<<j, k>> \in OpToRel(<, Nat))
      BY NatLessThanWellFounded, WFMin
    <3>2. k \in Nat /\ k <= card /\ ~(Cardinality(R(k)) >= k + 1)
      OBVIOUS
    <3>3. k # 0
      <4> SUFFICES ASSUME k = 0 PROVE FALSE
        OBVIOUS
      <4>1. Root \in R(0)
        BY ReachedIs DEF Sources
      <4>2. Cardinality(R(0)) # 0
        BY <1>2, <4>1, FS_EmptySet
      <4>3. Cardinality(R(0)) \in Nat
        BY <1>2
      <4> HIDE DEF R
      <4> QED
        BY <3>2, <4>2, <4>3
    <3>4. k - 1 \in Nat /\ k - 1 <= card /\ k - 1 < k /\ (k - 1) + 1 = k
      BY <1>1, <3>2, <3>3
    <3>5. k - 1 \notin P
      BY <3>1, <3>2, <3>4 DEF OpToRel
    <3> HIDE DEF R
    <3>6. Cardinality(R(k - 1)) >= (k - 1) + 1
      BY <3>4, <3>5
    <3>7. R(k) = Led(R(k - 1))
      <4>1. R((k - 1) + 1) = Led(R(k - 1))
        BY <1>3, <3>4
      <4> QED
        BY <3>4, <4>1
    <3>8. Led(R(k - 1)) # R(k - 1)
      BY <1>6, <3>4
    <3>9. R(k - 1) \subseteq R(k) /\ R(k - 1) # R(k)
      BY <3>7, <3>8, LedGrows
    <3>10. /\ Cardinality(R(k - 1)) <= Cardinality(R(k))
           /\ Cardinality(R(k - 1)) # Cardinality(R(k))
      BY <1>2, <3>2, <3>9, FS_Subset
    <3>11. Cardinality(R(k - 1)) \in Nat /\ Cardinality(R(k)) \in Nat
      BY <1>2, <3>2, <3>4
    <3> QED
      BY <3>2, <3>4, <3>6, <3>10, <3>11
  <2>2. Cardinality(R(card)) >= card + 1
    BY <1>1, <2>1
  <2>3. Cardinality(R(card)) <= card /\ Cardinality(R(card)) \in Nat
    BY <1>1, <1>2
  <2> HIDE DEF R, card
  <2> QED
    BY <1>1, <2>2, <2>3
<1> QED
  BY <1>5, <1>6

-----------------------------------------------------------------------------
(* The scan.  What has been seen, or waits in the open list, is in every    *)
(* closed set; and what has been seen leads only to what has been seen or   *)
(* waits.                                                                   *)

Firsts(s) == {s[i][1] : i \in DOMAIN s}
Opened == Firsts(open)

Objects == DOMAIN Kind

\* What a package is: finitely many objects, the members of which are objects.
PackageIsGraph ==
  /\ IsFiniteSet(Objects) /\ Root \in Objects
  /\ package.submodules \in Seq(ToSet(package.submodules))
  /\ ToSet(Seeds) \subseteq Objects \union {Broken}
  /\ \A o \in Objects :
        Members(o) \in Seq(ToSet(Members(o))) /\ \A m \in ToSet(Members(o)) : m[2] \in Objects

\* No module or class of the package is equal to another object of it.
WalkersAreThemselves ==
  \A o, p \in Objects : Walks(o) /\ Owned(p) /\ Equal(o, p) => o = p

\* The object that stands for an equal one of another name shares its own name
\* with none that is not equal.
StandInsStay ==
  \A o, p, r \in Objects :
     /\ Owned(o) /\ Owned(p) /\ Owned(r)
     /\ Equal(o, p) /\ Full[o] # Full[p] /\ Full[r] = Full[p]
     => Equal(r, p)

ScanInv ==
  /\ PackageIsGraph
  /\ phase \in {"start", "scan", "examples", "done", "refused"}
  /\ \E S : open \in Seq(S)
  /\ phase \in {"start", "refused"} => seen = {} /\ open = <<>> /\ DOMAIN obj = {}
  /\ phase \notin {"start", "refused"} =>
       Broken \notin ToSet(Seeds) /\ Sources \subseteq seen \union Opened
  /\ \A T : Closed(T) => seen \union Opened \subseteq T
  /\ \A o \in seen : Walks(o) => \A m \in ToSet(Members(o)) : m[2] \in seen \union Opened
  /\ \A o \in seen : Owned(o) => Full[o] \in DOMAIN obj \/ Taken(o)
  /\ \A q \in DOMAIN obj : obj[q] \in seen /\ Owned(obj[q]) /\ Full[obj[q]] = q
  /\ Scanned => open = <<>>

LEMMA FirstsOfConcat ==
  ASSUME NEW S, NEW s \in Seq(S), NEW t \in Seq(S)
  PROVE  Firsts(s \o t) = Firsts(s) \union Firsts(t)
<1>1. /\ s \o t \in Seq(S) /\ Len(s \o t) = Len(s) + Len(t)
      /\ \A i \in 1 .. Len(s) + Len(t) :
           (s \o t)[i] = IF i <= Len(s) THEN s[i] ELSE t[i - Len(s)]
  BY ConcatProperties
<1>2. DOMAIN s = 1..Len(s) /\ DOMAIN t = 1..Len(t) /\ DOMAIN (s \o t) = 1..(Len(s) + Len(t))
      /\ Len(s) \in Nat /\ Len(t) \in Nat
  BY <1>1
<1>3. ASSUME NEW i \in DOMAIN s PROVE i \in DOMAIN (s \o t) /\ (s \o t)[i] = s[i]
  BY <1>1, <1>2
<1>4. ASSUME NEW i \in DOMAIN t
      PROVE  Len(s) + i \in DOMAIN (s \o t) /\ (s \o t)[Len(s) + i] = t[i]
  BY <1>1, <1>2
<1>5. ASSUME NEW i \in DOMAIN (s \o t)
      PROVE  \/ i \in DOMAIN s /\ (s \o t)[i] = s[i]
             \/ i - Len(s) \in DOMAIN t /\ (s \o t)[i] = t[i - Len(s)]
  BY <1>1, <1>2
<1>6. Firsts(s) \subseteq Firsts(s \o t)
  BY <1>3 DEF Firsts
<1>7. Firsts(t) \subseteq Firsts(s \o t)
  <2> SUFFICES ASSUME NEW i \in DOMAIN t PROVE t[i][1] \in Firsts(s \o t)
    BY DEF Firsts
  <2> QED
    BY <1>4 DEF Firsts
<1>8. Firsts(s \o t) \subseteq Firsts(s) \union Firsts(t)
  <2> SUFFICES ASSUME NEW i \in DOMAIN (s \o t)
               PROVE  (s \o t)[i][1] \in Firsts(s) \union Firsts(t)
    BY DEF Firsts
  <2> QED
    BY <1>5 DEF Firsts
<1> QED
  BY <1>6, <1>7, <1>8

LEMMA FirstsOfHead ==
  ASSUME NEW S, NEW s \in Seq(S), s # <<>>
  PROVE  Firsts(s) = {Head(s)[1]} \union Firsts(Tail(s))
<1>1. /\ Tail(s) \in Seq(S) /\ Len(Tail(s)) = Len(s) - 1
      /\ \A i \in 1 .. Len(Tail(s)) : Tail(s)[i] = s[i + 1]
  BY HeadTailProperties
<1>2. DOMAIN s = 1..Len(s) /\ Len(s) \in Nat /\ Len(s) >= 1 /\ DOMAIN Tail(s) = 1..(Len(s) - 1)
      /\ Head(s) = s[1]
  BY <1>1
<1>3. ASSUME NEW i \in DOMAIN s PROVE s[i][1] \in {Head(s)[1]} \union Firsts(Tail(s))
  <2>1. CASE i = 1
    BY <1>2, <2>1
  <2>2. CASE i # 1
    <3>1. i - 1 \in DOMAIN Tail(s) /\ Tail(s)[i - 1] = s[i]
      BY <1>1, <1>2, <2>2
    <3> QED
      BY <3>1 DEF Firsts
  <2> QED
    BY <2>1, <2>2
<1>4. ASSUME NEW i \in DOMAIN Tail(s) PROVE i + 1 \in DOMAIN s /\ s[i + 1] = Tail(s)[i]
  BY <1>1, <1>2
<1>5. 1 \in DOMAIN s
  BY <1>2
<1> QED
  BY <1>2, <1>3, <1>4, <1>5 DEF Firsts

LEMMA ChildrenAreMembers ==
  ASSUME PackageIsGraph, NEW o \in Objects, NEW path
  PROVE  /\ \E S : Children(o, path) \in Seq(S)
         /\ Owned(o) => Firsts(Children(o, path)) =
              IF Walks(o) THEN {m[2] : m \in ToSet(Members(o))} ELSE {}
<1> DEFINE c == [i \in 1..Len(Members(o)) |-> <<Members(o)[i][2], Append(path, Members(o)[i][1])>>]
<1>1. Members(o) \in Seq(ToSet(Members(o)))
  BY DEF PackageIsGraph
<1>2. Len(Members(o)) \in Nat /\ DOMAIN Members(o) = 1..Len(Members(o))
  BY <1>1
<1> DEFINE S == {c[i] : i \in 1..Len(Members(o))}
<1>3. c \in Seq(S)
  BY <1>2
<1>4. Firsts(c) = {m[2] : m \in ToSet(Members(o))}
  <2>1. DOMAIN c = DOMAIN Members(o) /\ \A i \in DOMAIN Members(o) : c[i][1] = Members(o)[i][2]
    BY <1>2
  <2> HIDE DEF c
  <2> QED
    BY <2>1 DEF Firsts, ToSet
<1>5. CASE Kind[o] \in {"module", "class"}
  <2>1. Children(o, path) = c
    BY <1>5 DEF Children
  <2>2. Owned(o) => Walks(o)
    BY <1>5 DEF Walks
  <2> HIDE DEF c, S
  <2> QED
    BY <1>3, <1>4, <2>1, <2>2
<1>6. CASE Kind[o] \notin {"module", "class"}
  <2>1. Children(o, path) = <<>> /\ ~Walks(o)
    BY <1>6 DEF Children, Walks
  <2>2. Firsts(<<>>) = {} /\ <<>> \in Seq({})
    BY DEF Firsts
  <2> QED
    BY <2>1, <2>2
<1> QED
  BY <1>5, <1>6

\* The objects of the package are a closed set.
LEMMA ObjectsAreClosed ==
  ASSUME PackageIsGraph, Broken \notin ToSet(Seeds)
  PROVE  Closed(Objects)
BY DEF PackageIsGraph, Closed, Led, Sources

\* Reached, Members and the like depend on the package only.
LEMMA PackageStays ==
  ASSUME package' = package
  PROVE  /\ \A o : Members(o)' = Members(o)
         /\ Seeds' = Seeds /\ Sources' = Sources
         /\ \A S : Led(S)' = Led(S) /\ (Closed(S)' <=> Closed(S))
         /\ PackageIsGraph => PackageIsGraph'
<1>1. \A o : Members(o)' = Members(o)
  BY DEF Members
<1>2. Seeds' = Seeds
  <2>1. \A path : At(path)' = At(path)
    BY DEF At
  <2> QED
    BY <2>1 DEF Seeds
<1>3. Sources' = Sources
  BY <1>2 DEF Sources
<1>4. \A S : Led(S)' = Led(S)
  BY <1>1 DEF Led
<1>5. \A S : Closed(S)' <=> Closed(S)
  BY <1>3, <1>4 DEF Closed
<1>6. PackageIsGraph => PackageIsGraph'
  BY <1>1, <1>2 DEF PackageIsGraph
<1> QED
  BY <1>1, <1>2, <1>3, <1>4, <1>5, <1>6

-----------------------------------------------------------------------------
(* One step of the scan.                                                    *)

LEMMA InitScanInv == Init /\ PackageIsGraph => ScanInv
<1> SUFFICES ASSUME Init, PackageIsGraph PROVE ScanInv
  OBVIOUS
<1>1. open = <<>> /\ seen = {} /\ obj = <<>> /\ phase = "start"
  BY DEF Init, ScanInit
<1>2. Opened = {} /\ DOMAIN obj = {} /\ open \in Seq({})
  BY <1>1 DEF Opened, Firsts
<1> QED
  BY <1>1, <1>2 DEF ScanInv, Scanned

\* The invariant in the terms of the next state.
LEMMA ScanInvNext ==
  ASSUME ScanInv, package' = package,
         phase' \in {"start", "scan", "examples", "done", "refused"},
         \E S : open' \in Seq(S),
         phase' \in {"start", "refused"} => seen' = {} /\ open' = <<>> /\ DOMAIN obj' = {},
         phase' \notin {"start", "refused"} =>
           Broken \notin ToSet(Seeds) /\ Sources \subseteq seen' \union Firsts(open'),
         \A T : Closed(T) => seen' \union Firsts(open') \subseteq T,
         \A o \in seen' : Walks(o) => \A m \in ToSet(Members(o)) : m[2] \in seen' \union Firsts(open'),
         \A o \in seen' : Owned(o) => Full[o] \in DOMAIN obj' \/ \E q \in DOMAIN obj' : Equal(obj'[q], o),
         \A q \in DOMAIN obj' : obj'[q] \in seen' /\ Owned(obj'[q]) /\ Full[obj'[q]] = q,
         phase' \in {"examples", "done"} => open' = <<>>
  PROVE  ScanInv'
<1>1. Opened' = Firsts(open')
  BY DEF Opened, Firsts
<1>2. PackageIsGraph' /\ Seeds' = Seeds /\ Sources' = Sources
  BY PackageStays DEF ScanInv
<1>3. \A T : Closed(T)' => seen' \union Opened' \subseteq T
  BY <1>1, PackageStays
<1>4. \A o \in seen' : Walks(o) => \A m \in ToSet(Members(o))' : m[2] \in seen' \union Opened'
  <2>1. \A o : Members(o)' = Members(o)
    BY PackageStays
  <2> QED
    BY <1>1, <2>1 DEF ToSet
<1>5. \A o \in seen' : Owned(o) => Full[o] \in DOMAIN obj' \/ Taken(o)'
  BY DEF Taken
<1> QED
  BY <1>1, <1>2, <1>3, <1>4, <1>5 DEF ScanInv, Scanned

\* The object at the head of the open list.
LEMMA HeadIsAnObject ==
  ASSUME ScanInv, Scanning
  PROVE  /\ Head(open)[1] \in Objects
         /\ Opened = {Head(open)[1]} \union Firsts(Tail(open))
         /\ \E S : open \in Seq(S) /\ Tail(open) \in Seq(S)
<1>1. PICK S : open \in Seq(S)
  BY DEF ScanInv
<1>2. open # <<>> /\ phase = "scan"
  BY DEF Scanning
<1>3. Opened = {Head(open)[1]} \union Firsts(Tail(open)) /\ Tail(open) \in Seq(S)
  BY <1>1, <1>2, FirstsOfHead, HeadTailProperties DEF Opened
<1>4. Closed(Objects)
  BY <1>2, ObjectsAreClosed DEF ScanInv
<1>5. Opened \subseteq Objects
  BY <1>4 DEF ScanInv
<1> QED
  BY <1>1, <1>3, <1>5

LEMMA SeedsAreASequence ==
  ASSUME PackageIsGraph
  PROVE  Len(Seeds) \in Nat /\ DOMAIN Seeds = 1..Len(Seeds)
<1>1. Len(package.submodules) \in Nat
  BY DEF PackageIsGraph
<1>2. Seeds \in Seq({Seeds[i] : i \in 1..Len(package.submodules)})
  BY <1>1 DEF Seeds
<1> QED
  BY <1>2

\* What the collector starts from.
LEMMA CollectorOpens ==
  ASSUME PackageIsGraph, GetCollector
  PROVE  Firsts(open') = Sources /\ \E S : open' \in Seq(S)
<1> DEFINE s == <<<<Root, RootName>>>>
           t == [i \in 1..Len(Seeds) |-> <<Seeds[i], DottedName(Seeds[i])>>]
           S == {s[1]} \union {t[i] : i \in 1..Len(Seeds)}
<1>1. open' = s \o t
  BY DEF GetCollector
<1>2. Len(Seeds) \in Nat /\ DOMAIN Seeds = 1..Len(Seeds)
  BY SeedsAreASequence
<1>3. s \in Seq(S) /\ t \in Seq(S)
  BY <1>2
<1>4. open' \in Seq(S) /\ Firsts(open') = Firsts(s) \union Firsts(t)
  <2> HIDE DEF s, t, S
  <2> QED
    BY <1>1, <1>3, FirstsOfConcat, ConcatProperties
<1>5. Firsts(s) = {Root} /\ Firsts(t) = ToSet(Seeds)
  BY <1>2 DEF Firsts, ToSet
<1>6. \E X : open' \in Seq(X)
  BY <1>4
<1> HIDE DEF s, t, S
<1> QED
  BY <1>4, <1>5, <1>6 DEF Sources

LEMMA GetCollectorScans == ScanInv /\ GetCollector => ScanInv'
<1> SUFFICES ASSUME ScanInv, GetCollector PROVE ScanInv'
  OBVIOUS
<1>1. /\ phase = "start" /\ phase' = "scan" /\ Broken \notin ToSet(Seeds)
      /\ UNCHANGED <<package, seen, obj>>
  BY DEF GetCollector
<1>2. seen = {} /\ DOMAIN obj = {}
  BY <1>1 DEF ScanInv
<1>3. Firsts(open') = Sources /\ \E X : open' \in Seq(X)
  BY CollectorOpens DEF ScanInv
<1>4. \A T : Closed(T) => seen' \union Firsts(open') \subseteq T
  BY <1>1, <1>2, <1>3 DEF Closed
<1> QED
  BY <1>1, <1>2, <1>3, <1>4, ScanInvNext

LEMMA PassScans ==
  ASSUME WalkersAreThemselves, ScanInv, Pass
  PROVE  ScanInv'
<1> DEFINE o == Head(open)[1]
<1>1. /\ Scanning /\ phase = "scan" /\ ~Wanted(o) /\ open' = Tail(open) /\ seen' = seen \union {o}
      /\ UNCHANGED <<package, obj, phase>>
  BY DEF Pass, Scanning
<1>2. /\ o \in Objects /\ Opened = {o} \union Firsts(Tail(open)) /\ \E S : open' \in Seq(S)
  BY <1>1, HeadIsAnObject
<1> HIDE DEF o
<1>3. seen' \union Firsts(open') = seen \union Opened
  BY <1>1, <1>2
<1>4. \A T : Closed(T) => seen' \union Firsts(open') \subseteq T
  BY <1>3 DEF ScanInv
<1>5. Broken \notin ToSet(Seeds) /\ Sources \subseteq seen' \union Firsts(open')
  BY <1>1, <1>3 DEF ScanInv
<1>6. o \in seen \/ ~Owned(o) \/ Taken(o)
  BY <1>1 DEF Wanted
<1>7. o \notin seen => ~Walks(o)
  <2> SUFFICES ASSUME o \notin seen, Walks(o) PROVE FALSE
    OBVIOUS
  <2>1. Owned(o)
    BY DEF Walks
  <2>2. PICK q \in DOMAIN obj : Equal(obj[q], o)
    BY <1>6, <2>1 DEF Taken
  <2>3. obj[q] \in seen /\ Owned(obj[q])
    BY DEF ScanInv
  <2>4. obj[q] \in Objects
    <3>1. Closed(Objects)
      BY <1>1, ObjectsAreClosed DEF ScanInv
    <3> QED
      BY <2>3, <3>1 DEF ScanInv
  <2>5. o = obj[q]
    BY <1>2, <2>2, <2>3, <2>4 DEF WalkersAreThemselves, Equal
  <2> QED
    BY <2>3, <2>5
<1>8. \A x \in seen' : Walks(x) => \A m \in ToSet(Members(x)) : m[2] \in seen' \union Firsts(open')
  BY <1>1, <1>3, <1>7 DEF ScanInv
<1>9. \A x \in seen' : Owned(x) => Full[x] \in DOMAIN obj' \/ \E q \in DOMAIN obj' : Equal(obj'[q], x)
  BY <1>1, <1>6 DEF ScanInv, Taken
<1>10. \A q \in DOMAIN obj' : obj'[q] \in seen' /\ Owned(obj'[q]) /\ Full[obj'[q]] = q
  BY <1>1 DEF ScanInv
<1> QED
  BY <1>1, <1>2, <1>4, <1>5, <1>8, <1>9, <1>10, ScanInvNext

LEMMA VisitScans ==
  ASSUME StandInsStay, ScanInv, Visit
  PROVE  ScanInv'
<1> DEFINE o == Head(open)[1]
           path == Head(open)[2]
           c == Children(o, path)
           led == IF Walks(o) THEN {m[2] : m \in ToSet(Members(o))} ELSE {}
<1>1. /\ Scanning /\ phase = "scan" /\ Wanted(o)
      /\ open' = Tail(open) \o c /\ seen' = seen \union {o}
      /\ obj' = [q \in DOMAIN obj \union {Full[o]} |-> IF q = Full[o] THEN o ELSE obj[q]]
      /\ UNCHANGED <<package, phase>>
  BY DEF Visit, Keep, Scanning
<1>2. o \in Objects /\ Opened = {o} \union Firsts(Tail(open))
  BY <1>1, HeadIsAnObject
<1>3. PICK S : Tail(open) \in Seq(S)
  BY <1>1, HeadIsAnObject
<1>4. o \notin seen /\ Owned(o) /\ ~Taken(o)
  BY <1>1 DEF Wanted
<1>5. (\E X : c \in Seq(X)) /\ Firsts(c) = led
  BY <1>2, <1>4, ChildrenAreMembers DEF ScanInv
<1>6. PICK X : c \in Seq(X)
  BY <1>5
<1> HIDE DEF o, path, c, led
<1>7. open' \in Seq(S \union X) /\ Firsts(open') = Firsts(Tail(open)) \union led
  <2>1. Tail(open) \in Seq(S \union X) /\ c \in Seq(S \union X)
    BY <1>3, <1>6
  <2>2. PICK t : t = Tail(open)
    OBVIOUS
  <2>3. t \o c \in Seq(S \union X)
    BY <2>1, <2>2, ConcatProperties
  <2>4. PICK Y : Y = S \union X
    OBVIOUS
  <2>5. t \in Seq(Y) /\ c \in Seq(Y)
    BY <2>1, <2>2, <2>4
  <2>6. Firsts(t \o c) = Firsts(t) \union Firsts(c)
    BY <2>5, FirstsOfConcat
  <2> QED
    BY <1>1, <1>5, <2>2, <2>3, <2>6
<1>8. seen' \union Firsts(open') = seen \union Opened \union led
  BY <1>1, <1>2, <1>7
<1>9. ASSUME NEW T, Closed(T) PROVE seen' \union Firsts(open') \subseteq T
  <2>1. seen \union Opened \subseteq T
    BY <1>9 DEF ScanInv
  <2>2. led \subseteq T
    BY <1>2, <1>9, <2>1 DEF Closed, Led, led
  <2> QED
    BY <1>8, <2>1, <2>2
<1>10. Broken \notin ToSet(Seeds) /\ Sources \subseteq seen' \union Firsts(open')
  BY <1>1, <1>8 DEF ScanInv
<1>11. \A x \in seen' : Walks(x) => \A m \in ToSet(Members(x)) : m[2] \in seen' \union Firsts(open')
  BY <1>1, <1>8 DEF ScanInv, led
<1>12. Closed(Objects)
  BY <1>1, ObjectsAreClosed DEF ScanInv
<1>13. ASSUME NEW x \in seen', Owned(x)
       PROVE  Full[x] \in DOMAIN obj' \/ \E q \in DOMAIN obj' : Equal(obj'[q], x)
  <2>1. CASE x = o \/ Full[x] \in DOMAIN obj
    BY <1>1, <2>1
  <2>2. CASE x # o /\ Full[x] \notin DOMAIN obj
    <3>1. x \in seen
      BY <1>1, <2>2
    <3>2. PICK q \in DOMAIN obj : Equal(obj[q], x)
      BY <1>13, <2>2, <3>1 DEF ScanInv, Taken
    <3>3. obj[q] \in seen /\ Owned(obj[q]) /\ Full[obj[q]] = q /\ Full[x] # q
      BY <2>2, <3>2 DEF ScanInv
    <3>4. x \in Objects /\ obj[q] \in Objects
      BY <1>12, <3>1, <3>3 DEF ScanInv
    <3>5. q # Full[o]
      <4> SUFFICES ASSUME q = Full[o] PROVE FALSE
        OBVIOUS
      <4>1. Equal(x, obj[q])
        BY <3>2 DEF Equal
      <4>2. Equal(o, obj[q])
        BY <1>2, <1>4, <1>13, <3>3, <3>4, <4>1 DEF StandInsStay
      <4> QED
        BY <1>4, <4>2 DEF Taken, Equal
    <3> QED
      BY <1>1, <3>2, <3>5
  <2> QED
    BY <2>1, <2>2
<1>14. \A q \in DOMAIN obj' : obj'[q] \in seen' /\ Owned(obj'[q]) /\ Full[obj'[q]] = q
  BY <1>1, <1>4 DEF ScanInv
<1>15. \E Y : open' \in Seq(Y)
  BY <1>7
<1> QED
  BY <1>1, <1>9, <1>10, <1>11, <1>13, <1>14, <1>15, ScanInvNext

\* The scan is over, or the examples go on.
LEMMA OthersScan ==
  ASSUME ScanInv, UNCHANGED <<package, open, seen, obj>>,
         \/ phase' = phase
         \/ phase = "start" /\ phase' = "refused"
         \/ phase \in {"scan", "examples"} /\ open = <<>> /\ phase' \in {"examples", "done"}
  PROVE  ScanInv'
<1>1. /\ phase' \in {"start", "scan", "examples", "done", "refused"}
      /\ phase' \in {"start", "refused"} => seen' = {} /\ open' = <<>> /\ DOMAIN obj' = {}
      /\ phase' \in {"examples", "done"} => open' = <<>>
      /\ \E S : open' \in Seq(S)
  BY DEF ScanInv, Scanned
<1>2. Firsts(open') = Opened
  BY DEF Opened
<1>3. phase' \notin {"start", "refused"} =>
        Broken \notin ToSet(Seeds) /\ Sources \subseteq seen' \union Firsts(open')
  BY <1>2 DEF ScanInv
<1>4. \A T : Closed(T) => seen' \union Firsts(open') \subseteq T
  BY <1>2 DEF ScanInv
<1>5. \A o \in seen' : Walks(o) => \A m \in ToSet(Members(o)) : m[2] \in seen' \union Firsts(open')
  BY <1>2 DEF ScanInv
<1>6. /\ \A o \in seen' : Owned(o) => Full[o] \in DOMAIN obj' \/ \E q \in DOMAIN obj' : Equal(obj'[q], o)
      /\ \A q \in DOMAIN obj' : obj'[q] \in seen' /\ Owned(obj'[q]) /\ Full[obj'[q]] = q
  BY DEF ScanInv, Taken
<1> QED
  BY <1>1, <1>3, <1>4, <1>5, <1>6, ScanInvNext

LEMMA NextScanInv ==
  ASSUME WalkersAreThemselves, StandInsStay, ScanInv, [Next]_vars
  PROVE  ScanInv'
<1>1. CASE GetCollector \/ Visit \/ Pass
  BY <1>1, GetCollectorScans, VisitScans, PassScans
<1>2. CASE RefuseSubmodule \/ Select
  BY <1>2, OthersScan DEF RefuseSubmodule, Select
<1>3. CASE \/ WithoutExamples \/ RefuseExamples \/ StartExamples \/ KeepText \/ ShowOnly
           \/ Skip \/ Succeed \/ SucceedWithFigures \/ SaveFails \/ Fail \/ TokensFail \/ EndExamples
           \/ Stopped \/ UNCHANGED vars
  <2>1. UNCHANGED <<package, open, seen, obj, phase>>
    BY <1>3 DEF WithoutExamples, RefuseExamples, StartExamples, KeepText, ShowOnly, Skip, Succeed,
      SucceedWithFigures, SaveFails, Fail, TokensFail, EndExamples, Stopped, vars, scanVars
  <2> QED
    BY <2>1, OthersScan
<1>4. CASE Finish
  <2>1. phase = "examples" /\ open = <<>>
    BY <1>4 DEF Finish, ScanInv, Scanned
  <2> QED
    BY <1>4, <2>1, OthersScan DEF Finish
<1> QED
  BY <1>1, <1>2, <1>3, <1>4 DEF Next, Scan, ScanNext

\* When the scan is over, what has been seen is what is reached.
LEMMA ScanInvFindsAll == ScanInv => AllOwnedFound
<1> SUFFICES ASSUME ScanInv, Scanned PROVE AllOwnedFound
  BY DEF AllOwnedFound
<1> DEFINE N == Cardinality(Objects)
<1>1. open = <<>> /\ phase \notin {"start", "refused"}
  BY DEF ScanInv, Scanned
<1>2. Opened = {}
  BY <1>1 DEF Opened, Firsts
<1>3. Sources \subseteq seen /\ Broken \notin ToSet(Seeds)
  BY <1>1, <1>2 DEF ScanInv
<1>4. Closed(seen)
  BY <1>2, <1>3 DEF ScanInv, Closed, Led
<1>5. IsFiniteSet(Objects) /\ Closed(Objects)
  BY <1>3, ObjectsAreClosed DEF ScanInv, PackageIsGraph
<1>6. N \in Nat /\ Closed(Reached[N])
  BY <1>5, ReachedIsClosed, FS_CardinalityType
<1>7. Reached[N] = seen
  <2>1. Reached[N] \subseteq seen
    BY <1>4, <1>6, ReachedIsLeast
  <2>2. seen \subseteq Reached[N]
    BY <1>6 DEF ScanInv
  <2> QED
    BY <2>1, <2>2
<1> QED
  BY <1>7 DEF ScanInv, AllOwnedFound, Objects

\* Every object of the package that its own modules and classes lead to is
\* found, under its name or as the equal of one that was, and nothing else is
\* (gen.py, DFSCollector.scan).
THEOREM TheScanIsComplete ==
  WalkersAreThemselves /\ StandInsStay => (PackageIsGraph /\ Spec => []AllOwnedFound)
<1> SUFFICES ASSUME WalkersAreThemselves /\ StandInsStay
             PROVE  PackageIsGraph /\ Spec => []AllOwnedFound
  OBVIOUS
<1>1. ScanInv /\ [Next]_vars => ScanInv'
  BY NextScanInv
<1> QED
  BY <1>1, InitScanInv, ScanInvFindsAll, PTL DEF Spec
-----------------------------------------------------------------------------
(* Recursive functions over the numbers up to n.                            *)

LEMMA LeastOf ==
  ASSUME NEW S, S \subseteq Nat, S # {}
  PROVE  \E i \in S : \A j \in S : i <= j
<1>1. PICK i \in S : \A j \in S : ~(<<j, i>> \in OpToRel(<, Nat))
  BY NatLessThanWellFounded, WFMin
<1>2. \A j \in S : ~(j < i)
  BY <1>1 DEF OpToRel
<1> QED
  BY <1>2

\* A set of numbers that holds 0 and with each number the next holds all up to n.
LEMMA UpToAll ==
  ASSUME NEW n \in Nat, NEW T, 0 \in T, \A j \in 0..n : j < n /\ j \in T => j + 1 \in T
  PROVE  \A j \in 0..n : j \in T
<1> DEFINE U == {j \in 0..n : j \notin T}
<1> SUFFICES ASSUME U # {} PROVE FALSE
  OBVIOUS
<1>1. U \subseteq Nat
  OBVIOUS
<1>2. PICK k \in U : \A j \in U : k <= j
  <2> HIDE DEF U
  <2> QED
    BY <1>1, LeastOf
<1>3. k \in 1..n /\ k \notin T
  OBVIOUS
<1>4. k - 1 \in 0..n /\ k - 1 < n /\ (k - 1) + 1 = k /\ ~(k <= k - 1)
  BY <1>3
<1>5. k - 1 \in T
  BY <1>2, <1>4
<1> QED
  BY <1>3, <1>4, <1>5

\* f follows step from base on, for the first n numbers.
Follows(f, base, step, n) ==
  f[0] = base /\ \A k \in 1..n : f[k] = step[<<k, f[k - 1]>>]

\* What a step takes from values of S to values of S can be done n times.
LEMMA SomeFollows ==
  ASSUME NEW S, NEW n \in Nat, NEW base \in S, NEW step \in [(1..n) \X S -> S]
  PROVE  \E f \in [0..n -> S] : Follows(f, base, step, n)
<1> DEFINE T == {m \in 0..n : \E f \in [0..n -> S] : Follows(f, base, step, m)}
<1>1. 0 \in T
  <2>1. Follows([k \in 0..n |-> base], base, step, 0)
    BY DEF Follows
  <2> QED
    BY <2>1
<1>2. ASSUME NEW j \in 0..n, j < n, j \in T PROVE j + 1 \in T
  <2>1. PICK f \in [0..n -> S] : Follows(f, base, step, j)
    BY <1>2
  <2>2. j + 1 \in 1..n /\ f[j] \in S
    BY <1>2
  <2>3. PICK x : x = step[<<j + 1, f[j]>>]
    OBVIOUS
  <2>4. x \in S
    BY <2>2, <2>3
  <2>5. PICK g : g = [f EXCEPT ![j + 1] = x]
    OBVIOUS
  <2>6. g \in [0..n -> S] /\ g[j + 1] = x /\ \A k \in 0..n : k # j + 1 => g[k] = f[k]
    BY <2>2, <2>4, <2>5
  <2>7. g[0] = base
    BY <1>2, <2>1, <2>6 DEF Follows
  <2>8. ASSUME NEW k \in 1..(j + 1) PROVE g[k] = step[<<k, g[k - 1]>>]
    <3>1. CASE k = j + 1
      <4>1. k - 1 = j /\ g[j] = f[j]
        BY <2>6, <3>1
      <4> QED
        BY <2>3, <2>6, <3>1, <4>1
    <3>2. CASE k # j + 1
      <4>1. k \in 1..j /\ k - 1 \in 0..n /\ k \in 0..n /\ k - 1 # j + 1
        BY <1>2, <3>2
      <4> QED
        BY <2>1, <2>6, <3>2, <4>1 DEF Follows
    <3> QED
      BY <3>1, <3>2
  <2>9. Follows(g, base, step, j + 1)
    BY <2>7, <2>8 DEF Follows
  <2> QED
    BY <2>2, <2>6, <2>9
<1>3. n \in T
  <2> HIDE DEF T
  <2>1. n \in 0..n
    OBVIOUS
  <2> QED
    BY <1>1, <1>2, <2>1, UpToAll
<1> QED
  BY <1>3

-----------------------------------------------------------------------------
(* The items of a page, as they are merged.                                 *)

\* Items whose entries, statuses and outputs are in E.
Items(E) == [type : {"text", "code", "figure"}, entries : Seq(E), status : E, out : E]

LEMMA ItemsGrow ==
  ASSUME NEW E, NEW F, E \subseteq F, NEW s \in Seq(Items(E))
  PROVE  s \in Seq(Items(F))
<1>1. \A t \in Seq(E) : t \in Seq(F)
  OBVIOUS
<1>2. Items(E) \subseteq Items(F)
  BY <1>1 DEF Items
<1> QED
  BY <1>2

LEMMA EndOf ==
  ASSUME NEW S, NEW p \in Seq(S), p # <<>>
  PROVE  /\ Len(p) \in Nat \ {0} /\ Last(p) = p[Len(p)] /\ Last(p) \in S
         /\ Front(p) \in Seq(S) /\ Len(Front(p)) = Len(p) - 1
         /\ \A i \in 1..(Len(p) - 1) : Front(p)[i] = p[i]
         /\ p = Append(Front(p), Last(p))
<1>1. PICK n \in Nat : Len(p) = n + 1
  <2>1. Len(p) \in Nat \ {0}
    BY EmptySeq
  <2>2. Len(p) - 1 \in Nat /\ Len(p) = (Len(p) - 1) + 1
    BY <2>1
  <2> QED
    BY <2>2
<1>2. Front(p) = SubSeq(p, 1, n)
  BY <1>1 DEF Front
<1>3. \A i \in 1..n : p[i] \in S
  BY <1>1, ElementOfSeq
<1>4. /\ Front(p) \in Seq(S) /\ Len(Front(p)) = IF 1 <= n THEN n - 1 + 1 ELSE 0
      /\ \A i \in 1..(n - 1 + 1) : Front(p)[i] = p[1 + i - 1]
  BY <1>2, <1>3, SubSeqProperties
<1>5. Len(Front(p)) = n
  BY <1>4
<1>6. ASSUME NEW i \in 1..n PROVE Front(p)[i] = p[i]
  <2>1. i \in 1..(n - 1 + 1) /\ 1 + i - 1 = i
    OBVIOUS
  <2> QED
    BY <1>4, <2>1
<1>7. Last(p) = p[n + 1] /\ Last(p) \in S
  BY <1>1, ElementOfSeq DEF Last
<1>8. p = Append(Front(p), Last(p))
  <2>1. /\ Append(Front(p), Last(p)) \in Seq(S) /\ Len(Append(Front(p), Last(p))) = n + 1
        /\ \A i \in 1..n : Append(Front(p), Last(p))[i] = Front(p)[i]
        /\ Append(Front(p), Last(p))[n + 1] = Last(p)
    BY <1>4, <1>5, <1>7, AppendProperties
  <2>2. \A i \in 1..(n + 1) : Append(Front(p), Last(p))[i] = p[i]
    BY <1>6, <1>7, <2>1
  <2> QED
    BY <1>1, <2>1, <2>2, SeqEqual
<1> QED
  BY <1>1, <1>4, <1>5, <1>6, <1>7, <1>8

LEMMA MergedIsTyped ==
  ASSUME NEW E, NEW acc \in Seq(Items(E)), NEW item \in Items(E)
  PROVE  Merged(acc, item) \in Seq(Items(E))
<1>1. CASE /\ acc # <<>> /\ item.type = "code"
           /\ Last(acc).type = "code" /\ Last(acc).status = item.status
  <2>1. Last(acc) \in Items(E) /\ Front(acc) \in Seq(Items(E))
    BY <1>1, EndOf
  <2>2. Last(acc).entries \o item.entries \in Seq(E)
    BY <2>1, ConcatProperties DEF Items
  <2>3. [item EXCEPT !.entries = Last(acc).entries \o item.entries] \in Items(E)
    BY <2>2 DEF Items
  <2> QED
    BY <1>1, <2>1, <2>3, AppendProperties DEF Merged
<1>2. CASE ~(/\ acc # <<>> /\ item.type = "code"
             /\ Last(acc).type = "code" /\ Last(acc).status = item.status)
  BY <1>2, AppendProperties DEF Merged
<1> QED
  BY <1>1, <1>2

\* The stages of Compact.
CompactBy(f, s) ==
  f[0] = <<>> /\ \A k \in 1..Len(s) : f[k] = Merged(f[k - 1], s[k])

LEMMA CompactIsLastStage ==
  ASSUME NEW s, NEW f, Len(s) \in Nat, f = [k \in 0..Len(s) |-> f[k]], CompactBy(f, s)
  PROVE  Compact(s) = f[Len(s)]
<1> DEFINE R(g) == [k \in 0..Len(s) |-> IF k = 0 THEN <<>> ELSE Merged(g[k - 1], s[k])]
           F == CHOOSE g : g = R(g)
<1>1. PICK n \in Nat : n = Len(s)
  OBVIOUS
<1>2. ASSUME NEW k \in 0..n
      PROVE  f[k] = IF k = 0 THEN <<>> ELSE Merged(f[k - 1], s[k])
  <2>1. k = 0 \/ k \in 1..n
    OBVIOUS
  <2> QED
    BY <1>1, <2>1 DEF CompactBy
<1>3. f = R(f)
  BY <1>1, <1>2
<1>4. F = R(F)
  <2> HIDE DEF R
  <2> QED
    BY <1>3
<1>5. Compact(s) = F[n]
  BY <1>1 DEF Compact
<1> HIDE DEF F
<1>6. ASSUME NEW k \in 0..n
      PROVE  F[k] = IF k = 0 THEN <<>> ELSE Merged(F[k - 1], s[k])
  BY <1>1, <1>4
<1> DEFINE T == {k \in 0..n : F[k] = f[k]}
<1>7. 0 \in T
  BY <1>2, <1>6
<1>8. ASSUME NEW j \in 0..n, j < n, j \in T PROVE j + 1 \in T
  <2>1. j + 1 \in 0..n /\ j + 1 # 0 /\ (j + 1) - 1 = j
    BY <1>8
  <2>2. F[j + 1] = Merged(F[j], s[j + 1]) /\ f[j + 1] = Merged(f[j], s[j + 1])
    BY <1>2, <1>6, <2>1
  <2> QED
    BY <1>8, <2>1, <2>2
<1>9. n \in T
  <2> HIDE DEF T
  <2>1. n \in 0..n
    OBVIOUS
  <2> QED
    BY <1>7, <1>8, <2>1, UpToAll
<1> QED
  BY <1>1, <1>5, <1>9

LEMMA CompactStages ==
  ASSUME NEW E, NEW s \in Seq(Items(E))
  PROVE  \E f \in [0..Len(s) -> Seq(Items(E))] : CompactBy(f, s) /\ Compact(s) = f[Len(s)]
<1>1. PICK n \in Nat : n = Len(s)
  BY LenProperties
<1>2. \A k \in 1..n : s[k] \in Items(E)
  BY <1>1, ElementOfSeq
<1> DEFINE step == [x \in (1..n) \X Seq(Items(E)) |-> Merged(x[2], s[x[1]])]
<1>3. step \in [(1..n) \X Seq(Items(E)) -> Seq(Items(E))]
  BY <1>2, MergedIsTyped
<1>4. \A k \in 1..n, t \in Seq(Items(E)) : step[<<k, t>>] = Merged(t, s[k])
  OBVIOUS
<1> HIDE DEF step
<1>5. PICK f \in [0..n -> Seq(Items(E))] : Follows(f, <<>>, step, n)
  <2>1. <<>> \in Seq(Items(E))
    OBVIOUS
  <2> QED
    BY <1>3, <2>1, SomeFollows
<1>6. \A k \in 1..n : k - 1 \in 0..n
  OBVIOUS
<1>7. CompactBy(f, s)
  BY <1>1, <1>4, <1>5, <1>6 DEF Follows, CompactBy
<1>8. f = [k \in 0..Len(s) |-> f[k]]
  BY <1>1
<1>9. Compact(s) = f[Len(s)]
  BY <1>1, <1>7, <1>8, CompactIsLastStage
<1> QED
  BY <1>1, <1>7, <1>9

\* One more item is merged with what the others were merged to.
LEMMA CompactAppend ==
  ASSUME NEW E, NEW s \in Seq(Items(E)), NEW x \in Items(E)
  PROVE  Compact(s) \in Seq(Items(E)) /\ Compact(Append(s, x)) = Merged(Compact(s), x)
<1>1. PICK n \in Nat : n = Len(s)
  BY LenProperties
<1>2. PICK f \in [0..n -> Seq(Items(E))] : CompactBy(f, s) /\ Compact(s) = f[n]
  BY <1>1, CompactStages
<1>3. PICK t : t = Append(s, x)
  OBVIOUS
<1>4. Len(t) = n + 1 /\ t[n + 1] = x /\ \A k \in 1..n : t[k] = s[k]
  BY <1>1, <1>3, AppendProperties
<1>5. PICK g : g = [k \in 0..(n + 1) |-> IF k = n + 1 THEN Merged(f[n], x) ELSE f[k]]
  OBVIOUS
<1>6. g[n + 1] = Merged(f[n], x) /\ \A k \in 0..n : g[k] = f[k]
  BY <1>5
<1>7. ASSUME NEW k \in 1..(n + 1) PROVE g[k] = Merged(g[k - 1], t[k])
  <2>1. k - 1 \in 0..n
    OBVIOUS
  <2>2. CASE k = n + 1
    BY <1>4, <1>6, <2>1, <2>2
  <2>3. CASE k # n + 1
    <3>1. k \in 1..n /\ k \in 0..n
      BY <2>3
    <3> QED
      BY <1>1, <1>2, <1>4, <1>6, <2>1, <3>1 DEF CompactBy
  <2> QED
    BY <2>2, <2>3
<1>8. CompactBy(g, t)
  <2>1. g[0] = <<>>
    BY <1>2, <1>6 DEF CompactBy
  <2> QED
    BY <1>4, <1>7, <2>1 DEF CompactBy
<1>9. g = [k \in 0..Len(t) |-> g[k]] /\ Len(t) \in Nat
  BY <1>4, <1>5
<1>10. Compact(t) = g[n + 1]
  BY <1>4, <1>8, <1>9, CompactIsLastStage
<1>11. f[n] \in Seq(Items(E))
  BY <1>2
<1> QED
  BY <1>2, <1>3, <1>6, <1>10, <1>11

LEMMA CompactOfNothing == Compact(<<>>) = <<>>
<1>1. CompactBy([k \in {0} |-> <<>>], <<>>)
  BY DEF CompactBy
<1>2. PICK f : f = [k \in {0} |-> <<>>]
  OBVIOUS
<1>3. 0..Len(<<>>) = {0} /\ Len(<<>>) \in Nat /\ Len(<<>>) = 0
  OBVIOUS
<1>4. f = [k \in 0..Len(<<>>) |-> f[k]] /\ CompactBy(f, <<>>) /\ f[0] = <<>>
  BY <1>1, <1>2, <1>3
<1> QED
  BY <1>3, <1>4, CompactIsLastStage

\* The stages of Entries.
EntriesBy(f, s) ==
  f[0] = <<>> /\ \A k \in 1..Len(s) : f[k] = IF s[k].type = "figure" THEN f[k - 1] ELSE f[k - 1] \o s[k].entries

LEMMA EntriesAreLastStage ==
  ASSUME NEW s, NEW f, Len(s) \in Nat, f = [k \in 0..Len(s) |-> f[k]], EntriesBy(f, s)
  PROVE  Entries(s) = f[Len(s)]
<1> DEFINE More(v, k) == IF s[k].type = "figure" THEN v ELSE v \o s[k].entries
           R(g) == [k \in 0..Len(s) |->
                      IF k = 0 THEN <<>>
                      ELSE IF s[k].type = "figure" THEN g[k - 1] ELSE g[k - 1] \o s[k].entries]
           F == CHOOSE g : g = R(g)
<1>1. PICK n \in Nat : n = Len(s)
  OBVIOUS
<1>2. ASSUME NEW k \in 0..n
      PROVE  f[k] = IF k = 0 THEN <<>> ELSE More(f[k - 1], k)
  <2>1. k = 0 \/ k \in 1..n
    OBVIOUS
  <2> QED
    BY <1>1, <2>1 DEF EntriesBy
<1>3. f = R(f)
  BY <1>1, <1>2
<1>4. F = R(F)
  <2> HIDE DEF R
  <2> QED
    BY <1>3
<1>5. Entries(s) = F[n]
  BY <1>1 DEF Entries
<1> HIDE DEF F
<1>6. ASSUME NEW k \in 0..n
      PROVE  F[k] = IF k = 0 THEN <<>> ELSE More(F[k - 1], k)
  BY <1>1, <1>4
<1> HIDE DEF More
<1> DEFINE T == {k \in 0..n : F[k] = f[k]}
<1>7. 0 \in T
  BY SMTT(30), <1>2, <1>6
<1>8. ASSUME NEW j \in 0..n, j < n, j \in T PROVE j + 1 \in T
  <2>1. j + 1 \in 0..n /\ j + 1 # 0 /\ (j + 1) - 1 = j
    BY <1>8
  <2>2. F[j + 1] = More(F[j], j + 1) /\ f[j + 1] = More(f[j], j + 1)
    BY <1>2, <1>6, <2>1
  <2> QED
    BY <1>8, <2>1, <2>2
<1>9. n \in T
  <2> HIDE DEF T
  <2>1. n \in 0..n
    OBVIOUS
  <2> QED
    BY <1>7, <1>8, <2>1, UpToAll
<1> QED
  BY <1>1, <1>5, <1>9

LEMMA EntriesStages ==
  ASSUME NEW E, NEW s \in Seq(Items(E))
  PROVE  \E f \in [0..Len(s) -> Seq(E)] : EntriesBy(f, s) /\ Entries(s) = f[Len(s)]
<1>1. PICK n \in Nat : n = Len(s)
  BY LenProperties
<1>2. \A k \in 1..n : s[k].entries \in Seq(E)
  <2>1. \A k \in 1..n : s[k] \in Items(E)
    BY <1>1, ElementOfSeq
  <2> QED
    BY <2>1 DEF Items
<1> DEFINE step == [x \in (1..n) \X Seq(E) |->
                      IF s[x[1]].type = "figure" THEN x[2] ELSE x[2] \o s[x[1]].entries]
<1>3. step \in [(1..n) \X Seq(E) -> Seq(E)]
  <2>1. ASSUME NEW k \in 1..n, NEW t \in Seq(E)
        PROVE  (IF s[k].type = "figure" THEN t ELSE t \o s[k].entries) \in Seq(E)
    BY <1>2, ConcatProperties
  <2> QED
    BY <2>1
<1>4. \A k \in 1..n, t \in Seq(E) : step[<<k, t>>] = IF s[k].type = "figure" THEN t ELSE t \o s[k].entries
  OBVIOUS
<1> HIDE DEF step
<1>5. PICK f \in [0..n -> Seq(E)] : Follows(f, <<>>, step, n)
  <2>1. <<>> \in Seq(E)
    OBVIOUS
  <2> QED
    BY <1>3, <2>1, SomeFollows
<1>6. \A k \in 1..n : k - 1 \in 0..n
  OBVIOUS
<1>7. EntriesBy(f, s)
  BY <1>1, <1>4, <1>5, <1>6 DEF Follows, EntriesBy
<1>8. f = [k \in 0..Len(s) |-> f[k]]
  BY <1>1
<1>9. Entries(s) = f[Len(s)]
  BY <1>1, <1>7, <1>8, EntriesAreLastStage
<1> QED
  BY <1>1, <1>7, <1>9

LEMMA EntriesAppend ==
  ASSUME NEW E, NEW s \in Seq(Items(E)), NEW x \in Items(E)
  PROVE  /\ Entries(s) \in Seq(E)
         /\ Entries(Append(s, x)) = IF x.type = "figure" THEN Entries(s) ELSE Entries(s) \o x.entries
<1>1. PICK n \in Nat : n = Len(s)
  BY LenProperties
<1>2. PICK f \in [0..n -> Seq(E)] : EntriesBy(f, s) /\ Entries(s) = f[n]
  BY <1>1, EntriesStages
<1>3. PICK t : t = Append(s, x)
  OBVIOUS
<1>4. Len(t) = n + 1 /\ t[n + 1] = x /\ \A k \in 1..n : t[k] = s[k]
  BY <1>1, <1>3, AppendProperties
<1>5. PICK v : v = IF x.type = "figure" THEN f[n] ELSE f[n] \o x.entries
  OBVIOUS
<1>6. PICK g : g = [k \in 0..(n + 1) |-> IF k = n + 1 THEN v ELSE f[k]]
  OBVIOUS
<1>7. g[n + 1] = v /\ \A k \in 0..n : g[k] = f[k]
  BY <1>6
<1>8. ASSUME NEW k \in 1..(n + 1)
      PROVE  g[k] = IF t[k].type = "figure" THEN g[k - 1] ELSE g[k - 1] \o t[k].entries
  <2>1. k - 1 \in 0..n
    OBVIOUS
  <2>2. CASE k = n + 1
    BY <1>4, <1>5, <1>7, <2>1, <2>2
  <2>3. CASE k # n + 1
    <3>1. k \in 1..n /\ k \in 0..n
      BY <2>3
    <3> QED
      BY <1>1, <1>2, <1>4, <1>7, <2>1, <3>1 DEF EntriesBy
  <2> QED
    BY <2>2, <2>3
<1>9. EntriesBy(g, t)
  <2>1. g[0] = <<>>
    BY <1>2, <1>7 DEF EntriesBy
  <2> QED
    BY <1>4, <1>8, <2>1 DEF EntriesBy
<1>10. g = [k \in 0..Len(t) |-> g[k]] /\ Len(t) \in Nat
  BY <1>4, <1>6
<1>11. Entries(t) = g[n + 1]
  BY <1>4, <1>9, <1>10, EntriesAreLastStage
<1>12. f[n] \in Seq(E)
  BY <1>2
<1> QED
  BY <1>2, <1>3, <1>5, <1>7, <1>11, <1>12

LEMMA EntriesOfNothing == Entries(<<>>) = <<>>
<1>1. PICK f : f = [k \in {0} |-> <<>>]
  OBVIOUS
<1>2. 0..Len(<<>>) = {0} /\ Len(<<>>) \in Nat /\ Len(<<>>) = 0
  OBVIOUS
<1>3. f = [k \in 0..Len(<<>>) |-> f[k]] /\ EntriesBy(f, <<>>) /\ f[0] = <<>>
  BY <1>1, <1>2 DEF EntriesBy
<1> QED
  BY <1>2, <1>3, EntriesAreLastStage

\* Merging changes neither the entries nor their order.
LEMMA MergedEntries ==
  ASSUME NEW E, NEW c \in Seq(Items(E)), NEW x \in Items(E)
  PROVE  Entries(Merged(c, x)) = IF x.type = "figure" THEN Entries(c) ELSE Entries(c) \o x.entries
<1>1. CASE /\ c # <<>> /\ x.type = "code" /\ Last(c).type = "code" /\ Last(c).status = x.status
  <2>1. /\ Last(c) \in Items(E) /\ Front(c) \in Seq(Items(E)) /\ c = Append(Front(c), Last(c))
    BY <1>1, EndOf
  <2>2. PICK b \in Seq(Items(E)), l \in Items(E) : b = Front(c) /\ l = Last(c) /\ c = Append(b, l)
    BY <2>1
  <2>3. l.entries \in Seq(E) /\ x.entries \in Seq(E)
    BY DEF Items
  <2>4. l.entries \o x.entries \in Seq(E)
    BY <2>3, ConcatProperties
  <2>5. PICK y : y = [x EXCEPT !.entries = l.entries \o x.entries]
    OBVIOUS
  <2>6. y \in Items(E) /\ y.type = "code" /\ y.entries = l.entries \o x.entries
    BY <1>1, <2>4, <2>5 DEF Items
  <2>7. Merged(c, x) = Append(b, y)
    BY <1>1, <2>2, <2>5 DEF Merged
  <2>8. Entries(b) \in Seq(E) /\ Entries(c) = Entries(b) \o l.entries
    BY <1>1, <2>2, EntriesAppend
  <2>9. Entries(Append(b, y)) = Entries(b) \o (l.entries \o x.entries)
    BY <2>6, EntriesAppend
  <2>10. (Entries(b) \o l.entries) \o x.entries = Entries(b) \o (l.entries \o x.entries)
    <3>1. PICK t \in Seq(E), u \in Seq(E), w \in Seq(E) : t = Entries(b) /\ u = l.entries /\ w = x.entries
      BY <2>3, <2>8
    <3>2. (t \o u) \o w = t \o (u \o w)
      BY SMTT(30), ConcatAssociative
    <3> QED
      BY <3>1, <3>2
  <2> QED
    BY <1>1, <2>7, <2>8, <2>9, <2>10
<1>2. CASE ~(/\ c # <<>> /\ x.type = "code" /\ Last(c).type = "code" /\ Last(c).status = x.status)
  <2>1. Merged(c, x) = Append(c, x)
    BY <1>2 DEF Merged
  <2> QED
    BY <2>1, EntriesAppend
<1> QED
  BY <1>1, <1>2

\* The stages of Within.
WithinBy(f, s, X) ==
  f[0] = <<>> /\ \A k \in 1..Len(s) : f[k] = IF s[k] \in X THEN Append(f[k - 1], s[k]) ELSE f[k - 1]

LEMMA WithinIsLastStage ==
  ASSUME NEW s, NEW X, NEW f, Len(s) \in Nat, f = [k \in 0..Len(s) |-> f[k]], WithinBy(f, s, X)
  PROVE  Within(s, X) = f[Len(s)]
<1> DEFINE More(v, k) == IF s[k] \in X THEN Append(v, s[k]) ELSE v
           R(g) == [k \in 0..Len(s) |->
                      IF k = 0 THEN <<>>
                      ELSE IF s[k] \in X THEN Append(g[k - 1], s[k]) ELSE g[k - 1]]
           F == CHOOSE g : g = R(g)
<1>1. PICK n \in Nat : n = Len(s)
  OBVIOUS
<1>2. ASSUME NEW k \in 0..n
      PROVE  f[k] = IF k = 0 THEN <<>> ELSE More(f[k - 1], k)
  <2>1. k = 0 \/ k \in 1..n
    OBVIOUS
  <2> QED
    BY <1>1, <2>1 DEF WithinBy
<1>3. f = R(f)
  BY <1>1, <1>2
<1>4. F = R(F)
  <2> HIDE DEF R
  <2> QED
    BY <1>3
<1>5. Within(s, X) = F[n]
  BY <1>1 DEF Within
<1> HIDE DEF F
<1>6. ASSUME NEW k \in 0..n
      PROVE  F[k] = IF k = 0 THEN <<>> ELSE More(F[k - 1], k)
  BY <1>1, <1>4
<1> HIDE DEF More
<1> DEFINE T == {k \in 0..n : F[k] = f[k]}
<1>7. 0 \in T
  BY <1>2, <1>6
<1>8. ASSUME NEW j \in 0..n, j < n, j \in T PROVE j + 1 \in T
  <2>1. j + 1 \in 0..n /\ j + 1 # 0 /\ (j + 1) - 1 = j
    BY <1>8
  <2>2. F[j + 1] = More(F[j], j + 1) /\ f[j + 1] = More(f[j], j + 1)
    BY <1>2, <1>6, <2>1
  <2> QED
    BY <1>8, <2>1, <2>2
<1>9. n \in T
  <2> HIDE DEF T
  <2>1. n \in 0..n
    OBVIOUS
  <2> QED
    BY <1>7, <1>8, <2>1, UpToAll
<1> QED
  BY <1>1, <1>5, <1>9

LEMMA WithinStages ==
  ASSUME NEW S, NEW s \in Seq(S), NEW X
  PROVE  \E f \in [0..Len(s) -> Seq(S \intersect X)] : WithinBy(f, s, X) /\ Within(s, X) = f[Len(s)]
<1>1. PICK n \in Nat : n = Len(s)
  BY LenProperties
<1>2. \A k \in 1..n : s[k] \in S
  BY <1>1, ElementOfSeq
<1> DEFINE V == Seq(S \intersect X)
           step == [x \in (1..n) \X V |-> IF s[x[1]] \in X THEN Append(x[2], s[x[1]]) ELSE x[2]]
<1>3. step \in [(1..n) \X V -> V]
  <2>1. ASSUME NEW k \in 1..n, NEW t \in V
        PROVE  (IF s[k] \in X THEN Append(t, s[k]) ELSE t) \in V
    BY <1>2, AppendProperties
  <2> HIDE DEF V
  <2> QED
    BY <2>1
<1>4. \A k \in 1..n, t \in V : step[<<k, t>>] = IF s[k] \in X THEN Append(t, s[k]) ELSE t
  OBVIOUS
<1>5. PICK f \in [0..n -> V] : Follows(f, <<>>, step, n)
  <2>1. <<>> \in V
    OBVIOUS
  <2> HIDE DEF step, V
  <2> QED
    BY <1>3, <2>1, SomeFollows
<1> HIDE DEF step
<1>6. \A k \in 1..n : k - 1 \in 0..n
  OBVIOUS
<1>7. WithinBy(f, s, X)
  <2> HIDE DEF V
  <2> QED
    BY <1>1, <1>4, <1>5, <1>6 DEF Follows, WithinBy
<1>8. f = [k \in 0..Len(s) |-> f[k]]
  BY <1>1
<1>9. Within(s, X) = f[Len(s)]
  BY <1>1, <1>7, <1>8, WithinIsLastStage
<1> QED
  BY <1>1, <1>7, <1>9

\* What is said of the first n blocks of q.
ShownAsRun(c, q, n) ==
  /\ Entries(c) = Within([i \in 1..n |-> i], Kept(q))
  /\ \A k \in DOMAIN c :
       c[k].type = "code" => \A j \in DOMAIN c[k].entries : StatusOf(q, c[k].entries[j]) = c[k].status

LEMMA FigureKeepsShown ==
  ASSUME NEW E, NEW c \in Seq(Items(E)), NEW x \in Items(E), x.type = "figure", NEW q, NEW n,
         ShownAsRun(c, q, n)
  PROVE  ShownAsRun(Merged(c, x), q, n)
<1>1. Merged(c, x) = Append(c, x) /\ Entries(Merged(c, x)) = Entries(c)
  BY MergedEntries DEF Merged
<1>2. PICK m \in Nat : m = Len(c)
  BY LenProperties
<1>3. PICK t \in Seq(Items(E)) : t = Append(c, x)
  BY AppendProperties
<1>4. Len(t) = m + 1 /\ t[m + 1] = x /\ (\A i \in 1..m : t[i] = c[i]) /\ DOMAIN t = 1..(m + 1) /\ DOMAIN c = 1..m
  BY <1>2, <1>3, AppendProperties, LenProperties
<1>5. ASSUME NEW k \in DOMAIN t, t[k].type = "code"
      PROVE  \A j \in DOMAIN t[k].entries : StatusOf(q, t[k].entries[j]) = t[k].status
  <2>1. k \in 1..m
    BY <1>4, <1>5
  <2> QED
    BY <1>4, <1>5, <2>1 DEF ShownAsRun
<1> QED
  BY <1>1, <1>3, <1>5 DEF ShownAsRun

\* The next number is kept, or it is not.
LEMMA WithinUpTo ==
  ASSUME NEW n \in Nat, NEW X
  PROVE  /\ Within([i \in 1..n |-> i], X) \in Seq(Nat)
         /\ Within([i \in 1..(n + 1) |-> i], X) =
              IF n + 1 \in X THEN Within([i \in 1..n |-> i], X) \o <<n + 1>>
              ELSE Within([i \in 1..n |-> i], X)
<1>1. PICK s : s = [i \in 1..n |-> i]
  OBVIOUS
<1>2. PICK v : v = [i \in 1..(n + 1) |-> i]
  OBVIOUS
<1>3. s \in [1..n -> Nat] /\ v \in [1..(n + 1) -> Nat] /\ n + 1 \in Nat
  BY <1>1, <1>2
<1>4. s \in Seq(Nat) /\ Len(s) = n /\ v \in Seq(Nat) /\ Len(v) = n + 1
  BY <1>3, SeqDef, LenProperties
<1>5. PICK f \in [0..Len(v) -> Seq(Nat \intersect X)] : WithinBy(f, v, X) /\ Within(v, X) = f[Len(v)]
  BY <1>4, WithinStages
<1>6. PICK g : g = [k \in 0..n |-> f[k]]
  OBVIOUS
<1>7. \A k \in 1..n : k \in 1..(n + 1) /\ k \in 0..n /\ k - 1 \in 0..n /\ s[k] = v[k]
  BY <1>1, <1>2
<1>8. 0 \in 0..n /\ n \in 0..n /\ n + 1 \in 1..(n + 1) /\ (n + 1) - 1 = n /\ n \in 0..(n + 1)
  OBVIOUS
<1>9. WithinBy(g, s, X)
  <2>1. g[0] = <<>>
    BY <1>5, <1>6, <1>8 DEF WithinBy
  <2>2. ASSUME NEW k \in 1..n
        PROVE  g[k] = IF s[k] \in X THEN Append(g[k - 1], s[k]) ELSE g[k - 1]
    BY <1>4, <1>5, <1>6, <1>7 DEF WithinBy
  <2> QED
    BY <1>4, <2>1, <2>2 DEF WithinBy
<1>10. Within(s, X) = f[n]
  <2>1. g = [k \in 0..Len(s) |-> g[k]] /\ Len(s) \in Nat
    BY <1>4, <1>6
  <2>2. Within(s, X) = g[Len(s)]
    BY <1>9, <2>1, WithinIsLastStage
  <2> QED
    BY <1>4, <1>6, <1>8, <2>2
<1>11. f[n] \in Seq(Nat)
  <2>1. f[n] \in Seq(Nat \intersect X)
    BY <1>4, <1>5, <1>8
  <2> QED
    BY <2>1, SeqMonotonic
<1>12. f[n + 1] = IF n + 1 \in X THEN Append(f[n], n + 1) ELSE f[n]
  <2>1. v[n + 1] = n + 1
    BY <1>2, <1>8
  <2> QED
    BY <1>4, <1>5, <1>8, <2>1 DEF WithinBy
<1>13. Append(f[n], n + 1) = f[n] \o <<n + 1>>
  BY <1>3, <1>11, AppendIsConcat
<1> QED
  BY <1>1, <1>2, <1>4, <1>5, <1>10, <1>11, <1>12, <1>13

\* The next block, shown under its status.
LEMMA BlockKeepsShown ==
  ASSUME NEW E, NEW c \in Seq(Items(E)), NEW x \in Items(E), NEW q, NEW n \in Nat,
         ShownAsRun(c, q, n), n + 1 \in Kept(q), x.type # "figure", x.entries = <<n + 1>>,
         x.type = "code" => x.status = StatusOf(q, n + 1)
  PROVE  ShownAsRun(Merged(c, x), q, n + 1)
<1>1. Entries(Merged(c, x)) = Within([i \in 1..(n + 1) |-> i], Kept(q))
  <2>1. Entries(Merged(c, x)) = Entries(c) \o x.entries
    BY MergedEntries
  <2> QED
    BY <2>1, WithinUpTo DEF ShownAsRun
<1> DEFINE Right(y) == \A j \in DOMAIN y.entries : StatusOf(q, y.entries[j]) = y.status
<1>2. ASSUME NEW b \in Seq(Items(E)), NEW y \in Items(E), y.type = "code" => Right(y),
             \A k \in DOMAIN b : b[k].type = "code" => Right(b[k])
      PROVE  \A k \in DOMAIN Append(b, y) : Append(b, y)[k].type = "code" => Right(Append(b, y)[k])
  <2> HIDE DEF Right
  <2>1. PICK m \in Nat : m = Len(b) /\ DOMAIN b = 1..m
    BY LenProperties
  <2>2. PICK t \in Seq(Items(E)) : t = Append(b, y)
    BY AppendProperties
  <2>3. DOMAIN t = 1..(m + 1) /\ t[m + 1] = y /\ \A i \in 1..m : t[i] = b[i]
    BY <2>1, <2>2, AppendProperties, LenProperties
  <2>4. \A k \in 1..(m + 1) : k \in 1..m \/ k = m + 1
    OBVIOUS
  <2>5. \A k \in DOMAIN t : t[k].type = "code" => Right(t[k])
    BY <1>2, <2>1, <2>3, <2>4
  <2> QED
    BY <2>2, <2>5
<1>3. \A k \in DOMAIN c : c[k].type = "code" => Right(c[k])
  BY DEF ShownAsRun
<1>4. x.type = "code" => Right(x)
  <2>1. \A j \in DOMAIN <<n + 1>> : <<n + 1>>[j] = n + 1
    OBVIOUS
  <2> QED
    BY <2>1
<1>5. CASE /\ c # <<>> /\ x.type = "code" /\ Last(c).type = "code" /\ Last(c).status = x.status
  <2>1. PICK b \in Seq(Items(E)), l \in Items(E) : b = Front(c) /\ l = Last(c)
    BY <1>5, EndOf
  <2>2. PICK m \in Nat : Len(c) = m + 1 /\ DOMAIN c = 1..(m + 1) /\ DOMAIN b = 1..m
                        /\ l = c[m + 1] /\ \A i \in 1..m : b[i] = c[i]
    <3>1. /\ Len(c) \in Nat \ {0} /\ Last(c) = c[Len(c)] /\ Len(Front(c)) = Len(c) - 1
          /\ \A i \in 1..(Len(c) - 1) : Front(c)[i] = c[i]
      BY <1>5, EndOf
    <3>2. Len(c) - 1 \in Nat /\ (Len(c) - 1) + 1 = Len(c)
      BY <3>1
    <3>3. DOMAIN c = 1..Len(c) /\ DOMAIN b = 1..Len(b)
      BY LenProperties
    <3> QED
      BY <2>1, <3>1, <3>2, <3>3
  <2>3. PICK y : y = [x EXCEPT !.entries = l.entries \o x.entries]
    OBVIOUS
  <2>4. l.entries \in Seq(E) /\ x.entries \in Seq(E)
    BY DEF Items
  <2>5. l.entries \o x.entries \in Seq(E)
    BY <2>4, ConcatProperties
  <2>6. y \in Items(E) /\ y.entries = l.entries \o x.entries /\ y.status = x.status
    BY <2>3, <2>5 DEF Items
  <2>7. Right(l)
    BY <1>3, <1>5, <2>1, <2>2
  <2>8. Right(y)
    <3> SUFFICES ASSUME NEW j \in DOMAIN (l.entries \o x.entries)
                 PROVE  StatusOf(q, (l.entries \o x.entries)[j]) = x.status
      BY <2>6
    <3>1. PICK p \in Nat : p = Len(l.entries) /\ DOMAIN l.entries = 1..p
      BY <2>4, LenProperties
    <3>2. Len(x.entries) = 1 /\ x.entries[1] = n + 1
      OBVIOUS
    <3>3. DOMAIN (l.entries \o x.entries) = 1..(p + 1)
          /\ \A i \in 1..(p + 1) : (l.entries \o x.entries)[i] =
                                     IF i <= p THEN l.entries[i] ELSE x.entries[i - p]
      BY <2>4, <2>5, <3>1, <3>2, ConcatProperties, LenProperties
    <3>4. CASE j \in 1..p
      BY <1>5, <2>1, <2>7, <3>1, <3>3, <3>4
    <3>5. CASE j = p + 1
      <4>1. ~(j <= p) /\ j - p = 1 /\ j \in 1..(p + 1)
        BY <3>5
      <4>2. (l.entries \o x.entries)[j] = x.entries[1]
        BY <3>3, <4>1
      <4> QED
        BY <1>5, <3>2, <4>2
    <3> QED
      BY <3>3, <3>4, <3>5
  <2>9. Merged(c, x) = Append(b, y)
    BY <1>5, <2>1, <2>3 DEF Merged
  <2>10. \A k \in DOMAIN b : b[k].type = "code" => Right(b[k])
    <3> HIDE DEF Right
    <3>1. \A k \in 1..m : k \in 1..(m + 1)
      OBVIOUS
    <3> QED
      BY <1>3, <2>2, <3>1
  <2>11. \A k \in DOMAIN Append(b, y) : Append(b, y)[k].type = "code" => Right(Append(b, y)[k])
    <3> HIDE DEF Right
    <3> QED
      BY <1>2, <2>6, <2>8, <2>10
  <2> QED
    BY <1>1, <2>9, <2>11 DEF ShownAsRun
<1>6. CASE ~(/\ c # <<>> /\ x.type = "code" /\ Last(c).type = "code" /\ Last(c).status = x.status)
  <2>1. Merged(c, x) = Append(c, x)
    BY <1>6 DEF Merged
  <2>2. \A k \in DOMAIN Append(c, x) : Append(c, x)[k].type = "code" => Right(Append(c, x)[k])
    <3> HIDE DEF Right
    <3> QED
      BY <1>2, <1>3, <1>4
  <2> QED
    BY <1>1, <2>1, <2>2 DEF ShownAsRun
<1> QED
  BY <1>5, <1>6

\* An example that is skipped shows nothing.
LEMMA SkippedKeepsShown ==
  ASSUME NEW c, NEW q, NEW n \in Nat, ShownAsRun(c, q, n), n + 1 \notin Kept(q)
  PROVE  ShownAsRun(c, q, n + 1)
BY WithinUpTo DEF ShownAsRun

\* Figures do not come between the examples.
LEMMA FiguresKeepShown ==
  ASSUME NEW E, NEW s \in Seq(Items(E)), NEW g \in Seq(Items(E)), NEW q, NEW n,
         \A i \in 1..Len(g) : g[i].type = "figure",
         ShownAsRun(Compact(s), q, n)
  PROVE  s \o g \in Seq(Items(E)) /\ ShownAsRun(Compact(s \o g), q, n)
<1>1. PICK m \in Nat : m = Len(g)
  BY LenProperties
<1> DEFINE U(j) == s \o SubSeq(g, 1, j)
           T == {j \in 0..m : U(j) \in Seq(Items(E)) /\ ShownAsRun(Compact(U(j)), q, n)}
<1>2. 0 \in T
  <2>1. SubSeq(g, 1, 0) = <<>>
    BY SubSeqEmpty
  <2>2. U(0) = s
    BY <2>1, ConcatEmptySeq
  <2> HIDE DEF U
  <2> QED
    BY <2>2
<1>3. ASSUME NEW j \in 0..m, j < m, j \in T PROVE j + 1 \in T
  <2>1. j + 1 \in 1..m /\ 1 \in 1..m /\ j + 1 \in 0..m /\ (j + 1) - 1 = j
    BY <1>3
  <2>2. PICK x \in Items(E) : x = g[j + 1]
    BY <1>1, <2>1, ElementOfSeq
  <2>3. x.type = "figure"
    BY <1>1, <2>1, <2>2
  <2>4. SubSeq(g, 1, j + 1) = SubSeq(g, 1, j) \o <<x>>
    <3>1. j + 1 \in 1..Len(g) /\ 1 \in 1..Len(g)
      BY <1>1, <2>1
    <3>2. SubSeq(g, 1, j + 1) = SubSeq(g, 1, (j + 1) - 1) \o <<g[j + 1]>>
      BY <3>1, SubSeqRecursiveSecond
    <3> QED
      BY <2>1, <2>2, <3>2
  <2>5. PICK h \in Seq(Items(E)) : h = SubSeq(g, 1, j)
    <3>1. \A i \in 1..j : g[i] \in Items(E)
      BY <1>1, <1>3, ElementOfSeq
    <3>2. 1 \in Int /\ j \in Int
      OBVIOUS
    <3>3. SubSeq(g, 1, j) \in Seq(Items(E))
      BY <3>1, <3>2, SubSeqProperties
    <3> QED
      BY <3>3
  <2>6. PICK e \in Seq(Items(E)) : e = <<x>>
    <3>1. <<x>> \in Seq(Items(E))
      OBVIOUS
    <3> QED
      BY <3>1
  <2>7. U(j + 1) = (s \o h) \o e
    BY <2>4, <2>5, <2>6, ConcatAssociative
  <2>8. PICK t \in Seq(Items(E)) : t = s \o h /\ t = U(j)
    BY <2>5, ConcatProperties
  <2>9. U(j + 1) = Append(t, x)
    BY <2>6, <2>7, <2>8, AppendIsConcat
  <2>10. ShownAsRun(Compact(t), q, n)
    BY <1>3, <2>8
  <2>11. Append(t, x) \in Seq(Items(E)) /\ ShownAsRun(Compact(Append(t, x)), q, n)
    BY <2>3, <2>10, CompactAppend, FigureKeepsShown, AppendProperties
  <2> HIDE DEF U
  <2> QED
    BY <2>1, <2>9, <2>11
<1>4. m \in T
  <2> HIDE DEF T
  <2>1. m \in 0..m
    OBVIOUS
  <2> QED
    BY <1>2, <1>3, <2>1, UpToAll
<1>5. SubSeq(g, 1, m) = g
  BY <1>1, SubSeqFull
<1> QED
  BY <1>4, <1>5

-----------------------------------------------------------------------------
(* The objects whose examples are shown.                                    *)

\* What the examples of an object are.
ExamplesAreLists == \A o \in Objects : package.examples[o] \in Seq(ToSet(package.examples[o]))

\* The objects found, and those whose examples are still to come.
FoundInv ==
  /\ PackageIsGraph /\ ExamplesAreLists
  /\ \E S : open \in Seq(S)
  /\ Opened \subseteq Objects
  /\ \A q \in DOMAIN obj : obj[q] \in Objects
  /\ order \in Seq(DOMAIN obj)

LEMMA HeadOfOpen ==
  ASSUME FoundInv, Scanning
  PROVE  /\ Head(open)[1] \in Objects /\ Firsts(Tail(open)) \subseteq Objects
         /\ \E S : Tail(open) \in Seq(S)
<1>1. PICK S : open \in Seq(S)
  BY DEF FoundInv
<1>2. open # <<>>
  BY DEF Scanning
<1>3. Opened = {Head(open)[1]} \union Firsts(Tail(open)) /\ Tail(open) \in Seq(S)
  BY <1>1, <1>2, FirstsOfHead, HeadTailProperties DEF Opened
<1> QED
  BY <1>3 DEF FoundInv

\* The invariant in the terms of the next state.
LEMMA FoundNext ==
  ASSUME FoundInv, package' = package,
         \E S : open' \in Seq(S), Firsts(open') \subseteq Objects,
         \A q \in DOMAIN obj' : obj'[q] \in Objects,
         order' \in Seq(DOMAIN obj')
  PROVE  FoundInv'
<1>1. Opened' = Firsts(open')
  BY DEF Opened, Firsts
<1>2. PackageIsGraph'
  BY PackageStays DEF FoundInv
<1>3. ExamplesAreLists'
  BY DEF FoundInv, ExamplesAreLists
<1> QED
  BY <1>1, <1>2, <1>3 DEF FoundInv

LEMMA VisitFinds == FoundInv /\ Visit => FoundInv'
<1> SUFFICES ASSUME FoundInv, Visit PROVE FoundInv'
  OBVIOUS
<1> DEFINE o == Head(open)[1]
           c == Children(o, Head(open)[2])
<1>1. /\ Scanning /\ Wanted(o) /\ open' = Tail(open) \o c /\ package' = package
      /\ obj' = [q \in DOMAIN obj \union {Full[o]} |-> IF q = Full[o] THEN o ELSE obj[q]]
      /\ order' = IF Full[o] \in DOMAIN obj THEN order ELSE Append(order, Full[o])
  BY DEF Visit, Keep
<1>2. o \in Objects /\ Firsts(Tail(open)) \subseteq Objects
  BY <1>1, HeadOfOpen
<1>3. PICK S : Tail(open) \in Seq(S)
  BY <1>1, HeadOfOpen
<1>4. Owned(o)
  BY <1>1 DEF Wanted
<1>5. (\E X : c \in Seq(X)) /\ Firsts(c) \subseteq Objects
  <2>1. (\E X : c \in Seq(X)) /\ Firsts(c) = IF Walks(o) THEN {m[2] : m \in ToSet(Members(o))} ELSE {}
    BY <1>2, <1>4, ChildrenAreMembers DEF FoundInv
  <2>2. \A m \in ToSet(Members(o)) : m[2] \in Objects
    BY <1>2 DEF FoundInv, PackageIsGraph
  <2> HIDE DEF o, c
  <2> QED
    BY <2>1, <2>2
<1>6. PICK X : c \in Seq(X)
  BY <1>5
<1> HIDE DEF o, c
<1>7. PICK Y, t : Y = S \union X /\ t = Tail(open)
  OBVIOUS
<1>8. t \in Seq(Y) /\ c \in Seq(Y)
  BY <1>3, <1>6, <1>7
<1>9. open' \in Seq(Y) /\ Firsts(open') = Firsts(t) \union Firsts(c)
  <2>1. open' = t \o c
    BY <1>1, <1>7
  <2>2. t \o c \in Seq(Y)
    BY <1>8, ConcatProperties
  <2>3. Firsts(t \o c) = Firsts(t) \union Firsts(c)
    BY <1>8, FirstsOfConcat
  <2> QED
    BY <2>1, <2>2, <2>3
<1>10. Firsts(open') \subseteq Objects
  BY <1>2, <1>5, <1>7, <1>9
<1>11. \A q \in DOMAIN obj' : obj'[q] \in Objects
  BY <1>1, <1>2 DEF FoundInv
<1>12. order' \in Seq(DOMAIN obj')
  <2>1. DOMAIN obj' = DOMAIN obj \union {Full[o]}
    BY <1>1
  <2>2. PICK D : D = DOMAIN obj \union {Full[o]}
    OBVIOUS
  <2>3. order \in Seq(D) /\ Full[o] \in D
    BY <2>2 DEF FoundInv
  <2>4. order' \in Seq(D)
    BY <1>1, <2>3, AppendProperties
  <2> QED
    BY <2>1, <2>2, <2>4
<1> QED
  BY <1>1, <1>9, <1>10, <1>11, <1>12, FoundNext

LEMMA InitFoundInv == Init /\ PackageIsGraph /\ ExamplesAreLists => FoundInv
<1> SUFFICES ASSUME Init, PackageIsGraph, ExamplesAreLists PROVE FoundInv
  OBVIOUS
<1>1. open = <<>> /\ obj = <<>> /\ order = <<>>
  BY DEF Init, ScanInit
<1>2. Opened = {} /\ DOMAIN obj = {} /\ open \in Seq({}) /\ order \in Seq(DOMAIN obj)
  BY <1>1 DEF Opened, Firsts
<1> QED
  BY <1>2 DEF FoundInv

LEMMA NextFoundInv == FoundInv /\ [Next]_vars => FoundInv'
<1> SUFFICES ASSUME FoundInv, [Next]_vars PROVE FoundInv'
  OBVIOUS
<1>1. CASE GetCollector
  <2>1. /\ Broken \notin ToSet(Seeds) /\ UNCHANGED <<package, obj, order>>
    BY <1>1 DEF GetCollector
  <2>2. Firsts(open') \subseteq Objects /\ \E S : open' \in Seq(S)
    BY <1>1, <2>1, CollectorOpens DEF FoundInv, PackageIsGraph, Sources
  <2> QED
    BY <2>1, <2>2, FoundNext DEF FoundInv
<1>2. CASE Visit
  BY <1>2, VisitFinds
<1>3. CASE Pass
  <2>1. Scanning /\ open' = Tail(open) /\ UNCHANGED <<package, obj, order>>
    BY <1>3 DEF Pass
  <2>2. Firsts(open') \subseteq Objects /\ \E S : open' \in Seq(S)
    BY <2>1, HeadOfOpen
  <2> QED
    BY <2>1, <2>2, FoundNext DEF FoundInv
<1>4. CASE Select
  <2>1. /\ UNCHANGED <<package, open, obj>>
        /\ order' = Within(order, {q \in ToSet(order) : Selected(q)})
    BY <1>4 DEF Select
  <2>2. order' \in Seq(DOMAIN obj)
    <3>1. PICK D, X : D = DOMAIN obj /\ X = {q \in ToSet(order) : Selected(q)}
      OBVIOUS
    <3>2. order \in Seq(D)
      BY <3>1 DEF FoundInv
    <3>3. PICK f \in [0..Len(order) -> Seq(D \intersect X)] : Within(order, X) = f[Len(order)]
      BY <3>2, WithinStages
    <3>4. Len(order) \in 0..Len(order)
      BY <3>2, LenProperties
    <3>5. order' \in Seq(D \intersect X)
      BY <2>1, <3>1, <3>3, <3>4
    <3>6. order' \in Seq(D)
      BY <3>5, SeqMonotonic
    <3> QED
      BY <3>1, <3>6
  <2> QED
    BY <2>1, <2>2, FoundNext DEF FoundInv, Opened, Firsts
<1>5. CASE \/ RefuseSubmodule \/ StartExamples \/ KeepText \/ ShowOnly \/ Skip \/ Succeed
           \/ SucceedWithFigures \/ Fail \/ Finish \/ Stopped \/ UNCHANGED vars
  <2>1. UNCHANGED <<package, open, obj, order>>
    BY <1>5 DEF RefuseSubmodule, StartExamples, KeepText, ShowOnly, Skip, Succeed,
      SucceedWithFigures, Fail, Finish, Stopped, vars, scanVars
  <2> QED
    BY <2>1, FoundNext DEF FoundInv, Opened, Firsts
<1>6. CASE WithoutExamples \/ RefuseExamples \/ SaveFails \/ TokensFail \/ EndExamples
  <2>1. UNCHANGED <<package, open, obj>> /\ order # <<>> /\ order' = Tail(order)
    BY <1>6 DEF WithoutExamples, RefuseExamples, SaveFails, TokensFail, EndExamples, NextObject, Treating, Running, InBlocks
  <2>2. order' \in Seq(DOMAIN obj)
    BY <2>1, HeadTailProperties DEF FoundInv
  <2> QED
    BY <2>1, <2>2, FoundNext DEF FoundInv, Opened, Firsts
<1> QED
  BY <1>1, <1>2, <1>3, <1>4, <1>5, <1>6 DEF Next, Scan, ScanNext

-----------------------------------------------------------------------------
(* What the page of the object at work shows so far is the blocks before    *)
(* the next one; a page made shows all blocks of its object.                *)

SectionInv ==
  /\ at = 0 => section = <<>>
  /\ at # 0 => /\ order # <<>> /\ at <= Len(Blocks) + 1
               /\ \E E : section \in Seq(Items(E))
               /\ ShownAsRun(Compact(section), qa, at - 1)

PagesInv ==
  \A q \in DOMAIN pages : q \in DOMAIN obj /\ ShownAsRun(pages[q].section, q, Len(BlocksOf(q)))

ShownInv == FiguresInv /\ FoundInv /\ SectionInv /\ PagesInv

LEMMA NothingIsShown ==
  ASSUME NEW q
  PROVE  ShownAsRun(<<>>, q, 0)
<1>1. PICK X, s : X = Kept(q) /\ s = [i \in 1..0 |-> i]
  OBVIOUS
<1>2. s = <<>> /\ DOMAIN <<>> = {}
  BY <1>1
<1>3. Within(s, X) = <<>>
  <2>1. s \in Seq(Nat) /\ Len(s) = 0
    BY <1>2
  <2>2. PICK f \in [0..Len(s) -> Seq(Nat \intersect X)] : WithinBy(f, s, X) /\ Within(s, X) = f[Len(s)]
    BY <2>1, WithinStages
  <2> QED
    BY <2>1, <2>2 DEF WithinBy
<1> QED
  BY <1>1, <1>2, <1>3, EntriesOfNothing DEF ShownAsRun

LEMMA BlocksOfFound ==
  ASSUME FoundInv, order # <<>>
  PROVE  qa \in DOMAIN obj /\ Blocks = BlocksOf(qa) /\ Len(Blocks) \in Nat /\ DOMAIN Blocks = 1..Len(Blocks)
<1>1. qa \in DOMAIN obj
  <2>1. Head(order) \in DOMAIN obj
    BY HeadTailProperties DEF FoundInv
  <2> QED
    BY <2>1 DEF qa
<1>2. Blocks \in Seq(ToSet(Blocks))
  BY <1>1 DEF FoundInv, ExamplesAreLists, Blocks
<1> QED
  BY <1>1, <1>2, LenProperties DEF Blocks, BlocksOf

LEMMA ShownStays ==
  ASSUME package' = package, obj' = obj
  PROVE  \A c, q, n : ShownAsRun(c, q, n)' <=> ShownAsRun(c, q, n)
BY DEF ShownAsRun, StatusOf, Kept, Skips, Runs, BlocksOf, Entries, Within

LEMMA PagesStay ==
  ASSUME PagesInv, UNCHANGED <<package, obj, pages>>
  PROVE  PagesInv'
<1> SUFFICES ASSUME NEW q \in DOMAIN pages
             PROVE  ShownAsRun(pages[q].section, q, Len(BlocksOf(q)))'
  BY DEF PagesInv
<1>1. PICK c, n : c = pages[q].section /\ n = Len(BlocksOf(q))
  OBVIOUS
<1>2. ShownAsRun(c, q, n)'
  BY <1>1, ShownStays DEF PagesInv
<1>3. c = pages'[q].section /\ n = Len(BlocksOf(q))'
  BY <1>1 DEF BlocksOf
<1> QED
  BY <1>2, <1>3

\* Steps from one object to the next.
LEMMA ObjectLeft ==
  ASSUME ShownInv, FiguresInv', FoundInv', UNCHANGED <<package, obj, pages>>, at' = 0, section' = <<>>
  PROVE  ShownInv'
BY PagesStay DEF ShownInv, SectionInv

\* The page of the object at work is made.
LEMMA PageMade ==
  ASSUME ShownInv, FiguresInv', FoundInv', UNCHANGED <<package, obj>>, at' = 0, section' = <<>>,
         order # <<>>, NEW page,
         pages' = [q \in DOMAIN pages \union {qa} |-> IF q = qa THEN page ELSE pages[q]],
         ShownAsRun(page.section, qa, Len(Blocks))
  PROVE  ShownInv'
<1>1. SectionInv'
  BY DEF SectionInv
<1>2. PagesInv'
  <2>1. qa \in DOMAIN obj /\ Blocks = BlocksOf(qa)
    BY BlocksOfFound DEF ShownInv
  <2> SUFFICES ASSUME NEW q \in DOMAIN pages'
               PROVE  q \in DOMAIN obj /\ ShownAsRun(pages[q].section, q, Len(BlocksOf(q)))'
    BY DEF PagesInv
  <2>2. PICK c, n : c = pages'[q].section /\ n = Len(BlocksOf(q))
    OBVIOUS
  <2>3. n = Len(BlocksOf(q))'
    BY <2>2 DEF BlocksOf
  <2>4. q \in DOMAIN obj /\ ShownAsRun(c, q, n)
    <3>1. CASE q = qa
      BY <2>1, <2>2, <3>1
    <3>2. CASE q # qa
      BY <2>2, <3>2 DEF ShownInv, PagesInv
    <3> QED
      BY <3>1, <3>2
  <2>5. ShownAsRun(c, q, n)'
    BY <2>4, ShownStays
  <2> QED
    BY <2>2, <2>3, <2>4, <2>5
<1> QED
  BY <1>1, <1>2 DEF ShownInv

\* The next block is added to the section, as an item with the figures behind it.
LEMMA BlockShown ==
  ASSUME ShownInv, FiguresInv', FoundInv', InBlocks, UNCHANGED <<package, obj, order, pages>>, at' = at + 1,
         at \in Kept(qa),
         NEW F, NEW x \in Items(F), x.type # "figure", x.entries = <<at>>,
         x.type = "code" => x.status = StatusOf(qa, at),
         NEW g \in Seq(Items(F)), \A i \in 1..Len(g) : g[i].type = "figure",
         section' = Append(section, x) \o g
  PROVE  ShownInv'
<1>1. at \in 1..Len(Blocks) /\ at \in Nat /\ order # <<>>
  BY DEF InBlocks, Treating, ShownInv, FiguresInv
<1>2. at # 0 /\ at - 1 \in Nat /\ (at - 1) + 1 = at /\ at + 1 # 0 /\ (at + 1) - 1 = at
  BY <1>1
<1>3. PICK D : section \in Seq(Items(D))
  BY <1>2 DEF ShownInv, SectionInv
<1>4. PICK E : E = D \union F
  OBVIOUS
<1>5. section \in Seq(Items(E)) /\ g \in Seq(Items(E)) /\ x \in Items(E)
  <2>1. section \in Seq(Items(E)) /\ g \in Seq(Items(E))
    BY <1>3, <1>4, ItemsGrow
  <2>2. \A t \in Seq(F) : t \in Seq(E)
    BY <1>4
  <2>3. x \in Items(E)
    BY <1>4, <2>2 DEF Items
  <2> QED
    BY <2>1, <2>3
<1>6. PICK c : c = Compact(section)
  OBVIOUS
<1>7. c \in Seq(Items(E)) /\ ShownAsRun(c, qa, at - 1) /\ Compact(Append(section, x)) = Merged(c, x)
  BY <1>2, <1>5, <1>6, CompactAppend DEF ShownInv, SectionInv
<1>8. ShownAsRun(Merged(c, x), qa, (at - 1) + 1)
  BY <1>2, <1>5, <1>7, BlockKeepsShown
<1>9. PICK s \in Seq(Items(E)) : s = Append(section, x)
  BY <1>5, AppendProperties
<1>10. s \o g \in Seq(Items(E)) /\ ShownAsRun(Compact(s \o g), qa, at)
  <2>1. Compact(s) = Merged(c, x)
    BY <1>7, <1>9
  <2>2. ShownAsRun(Compact(s), qa, at)
    BY <1>2, <1>8, <2>1
  <2>3. PICK q, n : q = qa /\ n = at
    OBVIOUS
  <2>4. ShownAsRun(Compact(s), q, n)
    BY <2>2, <2>3
  <2>5. s \o g \in Seq(Items(E)) /\ ShownAsRun(Compact(s \o g), q, n)
    BY <1>5, <2>4, FiguresKeepShown
  <2> QED
    BY <2>3, <2>5
<1>11. PICK v, q, n : v = Compact(s \o g) /\ q = qa /\ n = at
  OBVIOUS
<1>12. section' = s \o g /\ qa' = q /\ Blocks' = Blocks /\ at' - 1 = n
  BY <1>1, <1>2, <1>9, <1>11 DEF qa, Blocks
<1>13. Compact(section)' = v
  BY <1>11, <1>12 DEF Compact, Merged
<1>14. ShownAsRun(v, q, n)'
  BY <1>10, <1>11, ShownStays
<1>15. ShownAsRun(Compact(section), qa, at - 1)'
  BY <1>12, <1>13, <1>14
<1>16. order' # <<>> /\ at' <= Len(Blocks') + 1 /\ at' # 0 /\ section' \in Seq(Items(E))
  BY <1>1, <1>2, <1>10, <1>12, BlocksOfFound DEF ShownInv
<1>17. SectionInv'
  BY <1>15, <1>16 DEF SectionInv
<1>18. PagesInv'
  BY PagesStay DEF ShownInv
<1> QED
  BY <1>17, <1>18 DEF ShownInv

\* Until the examples are run no page is made, and nothing is shown.
LEMMA ScanKeepsShown == ShownInv /\ Scan /\ FiguresInv' /\ FoundInv' => ShownInv'
<1> SUFFICES ASSUME ShownInv, Scan, FiguresInv', FoundInv' PROVE ShownInv'
  OBVIOUS
<1>1. phase \notin {"examples", "done"} /\ UNCHANGED exampleVars
  BY DEF Scan, ScanNext, GetCollector, RefuseSubmodule, Visit, Pass, Select, Scanning
<1>2. at' = 0 /\ section' = <<>> /\ DOMAIN pages' = {}
  BY <1>1 DEF ShownInv, FiguresInv, SectionInv, exampleVars
<1> QED
  BY <1>2 DEF ShownInv, SectionInv, PagesInv

LEMMA StartKeepsShown == ShownInv /\ StartExamples /\ FiguresInv' /\ FoundInv' => ShownInv'
<1> SUFFICES ASSUME ShownInv, StartExamples, FiguresInv', FoundInv' PROVE ShownInv'
  OBVIOUS
<1>1. /\ order # <<>> /\ order' = order /\ at = 0 /\ at' = 1 /\ section' = section /\ section = <<>>
      /\ UNCHANGED <<package, obj, pages>>
  BY DEF StartExamples, Treating, scanVars, ShownInv, SectionInv
<1>2. PICK q, n : q = qa /\ n = 0
  OBVIOUS
<1>3. ShownAsRun(<<>>, q, n)'
  BY <1>1, <1>2, NothingIsShown, ShownStays
<1>4. Compact(section)' = <<>> /\ qa' = q /\ at' - 1 = n
  BY <1>1, <1>2, CompactOfNothing DEF Compact, Merged, qa
<1>5. ShownAsRun(Compact(section), qa, at - 1)'
  BY <1>3, <1>4
<1>6. at' <= Len(Blocks') + 1 /\ at' # 0 /\ section' \in Seq(Items({}))
  BY <1>1, BlocksOfFound DEF ShownInv, Blocks, qa
<1>7. SectionInv'
  BY <1>1, <1>5, <1>6 DEF SectionInv
<1> QED
  BY <1>1, <1>7, PagesStay DEF ShownInv

LEMMA ItemOfOne ==
  ASSUME NEW E, NEW t \in {"text", "code", "figure"}, NEW a \in E, NEW status \in E, NEW out \in E
  PROVE  [type |-> t, entries |-> <<a>>, status |-> status, out |-> out] \in Items(E)
<1>1. PICK e \in Seq(E) : e = <<a>>
  <2>1. <<a>> \in Seq(E)
    OBVIOUS
  <2> QED
    BY <2>1
<1>2. [type |-> t, entries |-> e, status |-> status, out |-> out] \in Items(E)
  BY DEF Items
<1> QED
  BY <1>1, <1>2

\* One item for the block, and no figures.
LEMMA ItemShown ==
  ASSUME ShownInv, FiguresInv', FoundInv', InBlocks, UNCHANGED <<package, obj, order, pages>>, at' = at + 1,
         at \in Kept(qa),
         NEW x, x.type \in {"text", "code"},
         x = [type |-> x.type, entries |-> <<at>>, status |-> x.status, out |-> x.out],
         x.type = "code" => x.status = StatusOf(qa, at),
         section' = Append(section, x)
  PROVE  ShownInv'
<1> DEFINE F == {at, x.status, x.out}
<1>1. x.entries = <<at>>
  OBVIOUS
<1>2. x \in Items(F)
  BY ItemOfOne
<1>3. PICK E : section \in Seq(E)
  <2>1. CASE at = 0
    BY <2>1 DEF ShownInv, SectionInv
  <2>2. CASE at # 0
    BY <2>2 DEF ShownInv, SectionInv
  <2> QED
    BY <2>1, <2>2
<1>4. PICK s : s = Append(section, x)
  OBVIOUS
<1>5. s \in Seq(E \union {x})
  BY <1>3, <1>4, AppendProperties
<1>6. section' = s \o <<>>
  BY <1>4, <1>5, ConcatEmptySeq
<1>7. <<>> \in Seq(Items(F)) /\ \A i \in 1..Len(<<>>) : <<>>[i].type = "figure"
  OBVIOUS
<1> HIDE DEF F
<1> QED
  BY <1>1, <1>2, <1>4, <1>6, <1>7, BlockShown

LEMMA BlocksKeepShown ==
  ShownInv /\ (KeepText \/ ShowOnly \/ Succeed \/ Fail) /\ FiguresInv' /\ FoundInv' => ShownInv'
<1> SUFFICES ASSUME ShownInv, KeepText \/ ShowOnly \/ Succeed \/ Fail, FiguresInv', FoundInv'
             PROVE  ShownInv'
  OBVIOUS
<1>1. InBlocks /\ UNCHANGED <<package, obj, order, pages>> /\ at' = at + 1
  BY DEF KeepText, ShowOnly, Succeed, Fail, Running, scanVars
<1>2. at \in 1..Len(Blocks) /\ Block = Blocks[at] /\ Blocks = BlocksOf(qa)
  BY <1>1 DEF InBlocks, Block, Blocks, BlocksOf
<1>3. at \in DOMAIN BlocksOf(qa)
  BY <1>1, <1>2, BlocksOfFound DEF InBlocks, Treating, ShownInv
<1>4. at \in Kept(qa)
  <2>1. KeepText \/ ShowOnly => Block.kind = "text" \/ ~Executed
    BY DEF KeepText, ShowOnly
  <2>2. Succeed \/ Fail => Block.ends # "skip"
    BY DEF Succeed, Fail, Running
  <2> QED
    BY <1>2, <1>3, <2>1, <2>2 DEF Kept, Skips, Executed
<1>5. CASE KeepText
  <2>1. PICK x : x = Text(at)
    OBVIOUS
  <2>2. /\ x.type = "text" /\ section' = Append(section, x)
        /\ x = [type |-> x.type, entries |-> <<at>>, status |-> x.status, out |-> x.out]
    BY <1>5, <2>1 DEF KeepText, Text
  <2> QED
    BY <1>1, <1>4, <2>2, ItemShown
<1>6. CASE ShowOnly
  <2>1. PICK x : x = GenCode(at, "none")
    OBVIOUS
  <2>2. StatusOf(qa, at) = "none"
    BY <1>6 DEF ShowOnly, Executed, StatusOf
  <2> QED
    BY <1>1, <1>6, <1>4, <2>1, <2>2, ItemShown DEF ShowOnly, GenCode
<1>7. CASE Succeed \/ Fail
  <2>1. StatusOf(qa, at) = Block.ends
    BY <1>2, <1>7 DEF Succeed, Fail, Running, Executed, StatusOf
  <2>2. section' = Append(section, GenCode(at, Block.ends))
    BY <1>7 DEF Succeed, Fail
  <2>3. PICK x : x = GenCode(at, Block.ends)
    OBVIOUS
  <2> QED
    BY <1>1, <1>4, <2>1, <2>2, <2>3, ItemShown DEF GenCode
<1> QED
  BY <1>5, <1>6, <1>7

LEMMA FiguresKeepTheRun ==
  ShownInv /\ SucceedWithFigures /\ FiguresInv' /\ FoundInv' => ShownInv'
<1> SUFFICES ASSUME ShownInv, SucceedWithFigures, FiguresInv', FoundInv' PROVE ShownInv'
  OBVIOUS
<1>1. /\ InBlocks /\ Running /\ UNCHANGED <<package, obj, order, pages>> /\ at' = at + 1
      /\ section' = Append(section, GenCode(at, "success")) \o [i \in DOMAIN Drawn |-> Figure(Drawn[i])]
  BY DEF SucceedWithFigures, Running, scanVars
<1>2. at \in 1..Len(Blocks) /\ Block = Blocks[at] /\ Blocks = BlocksOf(qa)
  BY <1>1 DEF InBlocks, Block, Blocks, BlocksOf
<1>3. StatusOf(qa, at) = "success"
  BY <1>2 DEF SucceedWithFigures, Running, Executed, StatusOf
<1>4. at \in Kept(qa)
  <2>1. at \in DOMAIN BlocksOf(qa)
    BY <1>1, <1>2, BlocksOfFound DEF InBlocks, Treating, ShownInv
  <2> QED
    BY <1>1, <1>2, <2>1 DEF Kept, Skips, SucceedWithFigures
<1>5. Drawn \in Seq(Drawings(Drawers))
  BY <1>1, DrawnIsTyped DEF ShownInv
<1> DEFINE F == {at, "success", "", 0} \union Drawings(Drawers)
           x == GenCode(at, "success")
           g == [i \in DOMAIN Drawn |-> Figure(Drawn[i])]
<1>6. at \in F /\ "success" \in F /\ "" \in F /\ 0 \in F /\ \A d \in Drawings(Drawers) : d \in F
  OBVIOUS
<1> HIDE DEF F
<1>7. x \in Items(F) /\ x.type = "code" /\ x.entries = <<at>> /\ x.status = "success"
  <2>1. x = [type |-> "code", entries |-> <<at>>, status |-> "success", out |-> at]
    BY DEF GenCode
  <2>2. x \in Items(F)
    BY <1>6, <2>1, ItemOfOne
  <2> QED
    BY <2>1, <2>2
<1>8. \A d \in Drawings(Drawers) : Figure(d) \in Items(F) /\ Figure(d).type = "figure"
  <2> TAKE d \in Drawings(Drawers)
  <2>1. Figure(d) = [type |-> "figure", entries |-> <<d>>, status |-> "", out |-> 0]
    BY DEF Figure
  <2>2. Figure(d) \in Items(F)
    BY <1>6, <2>1, ItemOfOne
  <2>3. Figure(d).type = "figure"
    BY DEF Figure
  <2> QED
    BY <2>2, <2>3
<1>9. Len(Drawn) \in Nat /\ DOMAIN Drawn = 1..Len(Drawn) /\ \A i \in DOMAIN Drawn : Drawn[i] \in Drawings(Drawers)
  BY <1>5, LenProperties, ElementOfSeq
<1>10. g \in Seq(Items(F)) /\ \A i \in 1..Len(g) : g[i].type = "figure"
  <2>1. g \in [1..Len(Drawn) -> Items(F)]
    BY <1>8, <1>9
  <2>2. g \in Seq(Items(F))
    BY <1>9, <2>1, SeqDef
  <2>3. Len(g) = Len(Drawn)
    BY <1>9, <2>1, <2>2, LenProperties
  <2> QED
    BY <1>8, <1>9, <2>2, <2>3
<1>11. section' = Append(section, x) \o g
  BY <1>1
<1> HIDE DEF x, g
<1> QED
  BY <1>1, <1>3, <1>7, <1>10, <1>11, <1>4, BlockShown

LEMMA SkipKeepsShown == ShownInv /\ Skip /\ FiguresInv' /\ FoundInv' => ShownInv'
<1> SUFFICES ASSUME ShownInv, Skip, FiguresInv', FoundInv' PROVE ShownInv'
  OBVIOUS
<1>1. /\ InBlocks /\ Block.kind = "example" /\ Executed /\ Block.ends = "skip" /\ order # <<>>
      /\ UNCHANGED <<package, obj, order, pages, section>> /\ at' = at + 1
  BY DEF Skip, InBlocks, Treating, scanVars
<1>2. at \in 1..Len(Blocks) /\ Block = Blocks[at] /\ Blocks = BlocksOf(qa) /\ Len(Blocks) \in Nat
  BY <1>1, BlocksOfFound DEF InBlocks, Block, ShownInv
<1>3. at # 0 /\ at - 1 \in Nat /\ (at - 1) + 1 = at /\ at + 1 # 0 /\ (at + 1) - 1 = at
      /\ at + 1 <= Len(Blocks) + 1
  BY <1>2
<1>4. at \notin Kept(qa)
  BY <1>1, <1>2 DEF Kept, Skips, Executed
<1>5. PICK c, q, n : c = Compact(section) /\ q = qa /\ n = at
  OBVIOUS
<1>6. ShownAsRun(c, q, n)
  <2>1. ShownAsRun(c, q, at - 1)
    BY <1>3, <1>5 DEF ShownInv, SectionInv
  <2>2. PICK m \in Nat : m = at - 1
    BY <1>3
  <2>3. n = m + 1
    BY <1>3, <1>5, <2>2
  <2> QED
    BY <1>4, <1>5, <2>1, <2>2, <2>3, SkippedKeepsShown
<1>7. ShownAsRun(c, q, n)'
  BY <1>1, <1>6, ShownStays
<1>8. Compact(section)' = c /\ qa' = q /\ at' - 1 = n /\ Blocks' = Blocks /\ at' # 0
  BY <1>1, <1>3, <1>5 DEF Compact, Merged, qa, Blocks
<1>9. ShownAsRun(Compact(section), qa, at - 1)'
  BY <1>7, <1>8
<1>10. (\E E : section' \in Seq(Items(E))) /\ at' <= Len(Blocks') + 1 /\ order' # <<>>
  BY <1>1, <1>3, <1>8 DEF ShownInv, SectionInv
<1>11. SectionInv'
  BY <1>8, <1>9, <1>10 DEF SectionInv
<1> QED
  BY <1>1, <1>11, PagesStay DEF ShownInv

LEMMA PagesAreShown == ShownInv /\ (WithoutExamples \/ EndExamples) /\ FiguresInv' /\ FoundInv' => ShownInv'
<1> SUFFICES ASSUME ShownInv, WithoutExamples \/ EndExamples, FiguresInv', FoundInv' PROVE ShownInv'
  OBVIOUS
<1>1. UNCHANGED <<package, obj>> /\ at' = 0 /\ section' = <<>> /\ order # <<>>
  BY DEF WithoutExamples, EndExamples, NextObject, Treating
<1>2. CASE WithoutExamples
  <2>1. PICK page : page = [section |-> <<>>, figs |-> <<>>]
    OBVIOUS
  <2>2. pages' = [q \in DOMAIN pages \union {qa} |-> IF q = qa THEN page ELSE pages[q]]
    BY <1>2, <2>1 DEF WithoutExamples
  <2>3. Len(Blocks) = 0 /\ page.section = <<>>
    BY <1>2, <2>1 DEF WithoutExamples
  <2>4. ShownAsRun(page.section, qa, Len(Blocks))
    BY <2>3, NothingIsShown
  <2> QED
    BY <1>1, <2>2, <2>4, PageMade
<1>3. CASE EndExamples
  <2>1. PICK page : page = [section |-> Compact(section), figs |-> figs]
    OBVIOUS
  <2>2. pages' = [q \in DOMAIN pages \union {qa} |-> IF q = qa THEN page ELSE pages[q]]
    BY <1>3, <2>1 DEF EndExamples
  <2>3. at > Len(Blocks) /\ Len(Blocks) \in Nat /\ at \in Nat
    BY <1>1, <1>3, BlocksOfFound DEF EndExamples, ShownInv, FiguresInv
  <2>4. at # 0
    BY <2>3
  <2>5. at - 1 = Len(Blocks)
    BY <2>3, <2>4 DEF ShownInv, SectionInv
  <2>6. ShownAsRun(page.section, qa, Len(Blocks))
    BY <2>1, <2>4, <2>5 DEF ShownInv, SectionInv
  <2> QED
    BY <1>1, <2>2, <2>6, PageMade
<1> QED
  BY <1>2, <1>3

LEMMA NextShownInv == ShownInv /\ [Next]_vars => ShownInv'
<1> SUFFICES ASSUME ShownInv, [Next]_vars PROVE ShownInv'
  OBVIOUS
<1>1. FiguresInv' /\ FoundInv'
  BY NextFiguresInv, NextFoundInv DEF ShownInv
<1>2. CASE RefuseExamples \/ SaveFails \/ TokensFail
  BY <1>1, <1>2, ObjectLeft DEF RefuseExamples, SaveFails, TokensFail, NextObject
<1>3. CASE Finish \/ Stopped \/ UNCHANGED vars
  <2>1. UNCHANGED <<package, obj, order, at, section, pages>>
    BY <1>3 DEF Finish, Stopped, vars, scanVars, exampleVars
  <2>2. SectionInv'
    <3>1. CASE at = 0
      BY <2>1, <3>1 DEF SectionInv, ShownInv
    <3>2. CASE at # 0
      <4>1. PICK c, q, n : c = Compact(section) /\ q = qa /\ n = at - 1
        OBVIOUS
      <4>2. ShownAsRun(c, q, n)'
        BY <2>1, <3>2, <4>1, ShownStays DEF ShownInv, SectionInv
      <4>3. Compact(section)' = c /\ qa' = q /\ at' - 1 = n /\ Blocks' = Blocks
        BY <2>1, <4>1 DEF Compact, Merged, qa, Blocks
      <4>4. ShownAsRun(Compact(section), qa, at - 1)'
        BY <4>2, <4>3
      <4> QED
        BY <2>1, <3>2, <4>3, <4>4 DEF ShownInv, SectionInv
    <3> QED
      BY <3>1, <3>2
  <2> QED
    BY <1>1, <2>1, <2>2, PagesStay DEF ShownInv
<1> QED
  BY <1>1, <1>2, <1>3, ScanKeepsShown, StartKeepsShown, BlocksKeepShown, FiguresKeepTheRun,
     SkipKeepsShown, PagesAreShown DEF Next

\* The page of an object shows the blocks of its docstring but the examples that
\* doctest skips, each once and in the order they were run in, and the status of
\* the examples merged into one is that of each of them, wherever figures come in
\* between (gen.py, get_example_data and PapyriDocTestRunner._compact).
THEOREM PagesShowTheRun == PackageIsGraph /\ ExamplesAreLists /\ Spec => []ExamplesShownAsRun
<1>1. ShownInv => ExamplesShownAsRun
  <2> SUFFICES ASSUME ShownInv, NEW q \in DOMAIN pages
               PROVE  /\ Entries(pages[q].section) = Within([i \in DOMAIN BlocksOf(q) |-> i], Kept(q))
                      /\ \A k \in DOMAIN pages[q].section :
                           pages[q].section[k].type = "code" =>
                             \A j \in DOMAIN pages[q].section[k].entries :
                               StatusOf(q, pages[q].section[k].entries[j]) = pages[q].section[k].status
    BY DEF ExamplesShownAsRun
  <2>1. q \in DOMAIN obj /\ ShownAsRun(pages[q].section, q, Len(BlocksOf(q)))
    BY DEF ShownInv, PagesInv
  <2>2. DOMAIN BlocksOf(q) = 1..Len(BlocksOf(q))
    BY <2>1, LenProperties DEF ShownInv, FoundInv, ExamplesAreLists, BlocksOf
  <2> QED
    BY <2>1, <2>2 DEF ShownAsRun
<1>2. PackageIsGraph /\ ExamplesAreLists /\ Init => ShownInv
  <2> SUFFICES ASSUME PackageIsGraph, ExamplesAreLists, Init PROVE ShownInv
    OBVIOUS
  <2>1. at = 0 /\ section = <<>> /\ DOMAIN pages = {}
    BY DEF Init
  <2> QED
    BY <2>1, InitFiguresInv, InitFoundInv DEF ShownInv, SectionInv, PagesInv
<1> QED
  BY <1>1, <1>2, NextShownInv, PTL DEF Spec

-----------------------------------------------------------------------------
(* The names of objects.  A path is looked up key by key.                   *)

\* dir() and __dict__ list each key once.
KeysAreUnique ==
  \A o \in Objects :
    /\ package.members[o] \in Seq(ToSet(package.members[o]))
    /\ \A m, k \in ToSet(package.members[o]) : m[1] = k[1] => m = k

\* A configured submodule that is a module has the name it is configured by.
SubmodulesAtTheirNames ==
  \A i \in 1..Len(package.submodules) :
    /\ package.submodules[i] \in Seq(ToSet(package.submodules[i])) /\ package.submodules[i] # <<>>
    /\ Seeds[i] # Broken /\ Kind[Seeds[i]] = "module" => Full[Seeds[i]].module = RootName \o package.submodules[i]

LEMMA WithinHolds ==
  ASSUME NEW S, NEW s \in Seq(S), NEW X
  PROVE  /\ Within(s, X) \in Seq(S \intersect X)
         /\ \A x \in ToSet(s) : x \in X => x \in ToSet(Within(s, X))
<1>1. PICK n \in Nat : n = Len(s) /\ DOMAIN s = 1..n
  BY LenProperties
<1>2. PICK f \in [0..n -> Seq(S \intersect X)] : WithinBy(f, s, X) /\ Within(s, X) = f[n]
  BY <1>1, WithinStages
<1>3. ASSUME NEW i \in 1..n, s[i] \in X PROVE s[i] \in ToSet(f[n])
  <2> DEFINE T == {k \in 0..n : i <= k => \E j \in DOMAIN f[k] : f[k][j] = s[i]}
  <2>1. 0 \in T
    OBVIOUS
  <2>2. ASSUME NEW k \in 0..n, k < n, k \in T PROVE k + 1 \in T
    <3>1. k + 1 \in 1..n /\ (k + 1) - 1 = k /\ k + 1 \in 0..n /\ (i <= k + 1 => i <= k \/ i = k + 1)
      BY <2>2
    <3>2. f[k + 1] = IF s[k + 1] \in X THEN Append(f[k], s[k + 1]) ELSE f[k]
      BY <1>1, <1>2, <3>1 DEF WithinBy
    <3>3. f[k] \in Seq(S \intersect X) /\ s[k + 1] \in S
      BY <1>1, <2>2, <3>1, ElementOfSeq
    <3>4. PICK t \in Seq(S), x \in S : t = f[k] /\ x = s[k + 1]
      BY <3>3
    <3>5. PICK m \in Nat : m = Len(t) /\ DOMAIN t = 1..m
      BY LenProperties
    <3>6. /\ Append(t, x) \in Seq(S) /\ Len(Append(t, x)) = m + 1 /\ DOMAIN Append(t, x) = 1..(m + 1)
          /\ Append(t, x)[m + 1] = x /\ \A j \in 1..m : Append(t, x)[j] = t[j]
      BY <3>5, AppendProperties, LenProperties
    <3>7. m + 1 \in 1..(m + 1) /\ \A j \in 1..m : j \in 1..(m + 1)
      OBVIOUS
    <3>8. ASSUME i <= k + 1 PROVE \E j \in DOMAIN f[k + 1] : f[k + 1][j] = s[i]
      <4>1. CASE i = k + 1
        BY <1>3, <3>2, <3>4, <3>6, <3>7, <4>1
      <4>2. CASE i <= k
        <5>1. PICK j \in DOMAIN f[k] : f[k][j] = s[i]
          BY <2>2, <4>2
        <5>2. CASE s[k + 1] \in X
          BY <3>2, <3>4, <3>5, <3>6, <3>7, <5>1, <5>2
        <5> QED
          BY <3>2, <5>1, <5>2
      <4> QED
        BY <3>1, <3>8, <4>1, <4>2
    <3> QED
      BY <3>1, <3>8
  <2>3. n \in T
    <3> HIDE DEF T
    <3>1. n \in 0..n
      OBVIOUS
    <3> QED
      BY <2>1, <2>2, <3>1, UpToAll
  <2> QED
    BY <2>3 DEF ToSet
<1>4. n \in 0..n
  OBVIOUS
<1> QED
  BY <1>1, <1>2, <1>3, <1>4 DEF ToSet

\* The members of an object that can be got.
LEMMA MembersAre ==
  ASSUME KeysAreUnique, NEW o \in Objects, NEW m
  PROVE  m \in ToSet(Members(o)) <=> m \in ToSet(package.members[o]) /\ m[2] # Broken
<1> DEFINE ms == package.members[o]
           X == {x \in ToSet(ms) : x[2] # Broken}
<1>1. ms \in Seq(ToSet(ms))
  BY DEF KeysAreUnique
<1>2. Members(o) = Within(ms, X)
  BY DEF Members, Gettable
<1> HIDE DEF X
<1>3. Members(o) \in Seq(ToSet(ms) \intersect X) /\ \A x \in ToSet(ms) : x \in X => x \in ToSet(Members(o))
  BY <1>1, <1>2, WithinHolds
<1>4. \A x \in ToSet(Members(o)) : x \in ToSet(ms) \intersect X
  BY <1>3, ElementOfSeq, LenProperties DEF ToSet
<1> QED
  BY <1>3, <1>4 DEF X

\* getattr(o, key): the member of that key, if it can be got.
LEMMA AttributeIs ==
  ASSUME PackageIsGraph, KeysAreUnique, NEW o \in Objects, NEW key
  PROVE  /\ Attribute(package.members[o], key) \in Objects \union {Broken}
         /\ \A m \in ToSet(Members(o)) : m[1] = key => Attribute(package.members[o], key) = m[2]
<1> DEFINE ms == package.members[o]
           X == {x \in ToSet(ms) : x[1] = key}
           hits == Within(ms, X)
<1>1. ms \in Seq(ToSet(ms))
  BY DEF KeysAreUnique
<1>2. Attribute(ms, key) = IF hits = <<>> THEN Broken ELSE Head(hits)[2]
  BY DEF Attribute
<1> HIDE DEF hits
<1>3. hits \in Seq(ToSet(ms) \intersect X) /\ \A x \in ToSet(ms) : x \in X => x \in ToSet(hits)
  <2> HIDE DEF X
  <2> QED
    BY <1>1, WithinHolds DEF hits
<1>4. hits # <<>> => Head(hits) \in ToSet(ms) /\ Head(hits)[1] = key
  <2>1. hits # <<>> => Head(hits) \in ToSet(ms) \intersect X
    <3> HIDE DEF X
    <3> QED
      BY <1>3, HeadTailProperties
  <2> QED
    BY <2>1
<1>5. ASSUME NEW m \in ToSet(ms), m[1] = key PROVE Attribute(ms, key) = m[2]
  <2>1. m \in ToSet(hits)
    BY <1>3, <1>5
  <2>2. hits # <<>>
    BY <2>1 DEF ToSet
  <2>3. Head(hits) = m
    BY <1>4, <1>5, <2>2 DEF KeysAreUnique
  <2> QED
    BY <1>2, <2>2, <2>3
<1>6. \A m \in ToSet(ms) : m[2] \in Objects \union {Broken}
  BY MembersAre DEF PackageIsGraph
<1>7. \A m \in ToSet(Members(o)) : m \in ToSet(ms)
  BY MembersAre
<1> QED
  BY <1>2, <1>4, <1>5, <1>6, <1>7

\* The stages of Lookup.
LookupBy(f, p) ==
  /\ f[0] = Root
  /\ \A k \in 1..(Len(p) - 1) :
       f[k] = IF f[k - 1] = Broken THEN Broken ELSE Attribute(package.members[f[k - 1]], p[k + 1])

LEMMA AtIsLastStage ==
  ASSUME NEW p, NEW f, NEW n \in Nat, Len(p) = n + 1, p # <<>>, Head(p) = Head(RootName),
         f = [k \in 0..n |-> f[k]], LookupBy(f, p)
  PROVE  At(p) = f[n]
<1> DEFINE More(v, k) == IF v = Broken THEN Broken ELSE Attribute(package.members[v], p[k + 1])
           R(g) == [k \in 0..(Len(p) - 1) |->
                      IF k = 0 THEN Root
                      ELSE IF g[k - 1] = Broken THEN Broken
                           ELSE Attribute(package.members[g[k - 1]], p[k + 1])]
           F == CHOOSE g : g = R(g)
<1>1. Len(p) - 1 = n
  OBVIOUS
<1>2. ASSUME NEW k \in 0..n
      PROVE  f[k] = IF k = 0 THEN Root ELSE More(f[k - 1], k)
  <2>1. k = 0 \/ k \in 1..n
    OBVIOUS
  <2> QED
    BY <1>1, <2>1 DEF LookupBy
<1>3. f = R(f)
  BY <1>1, <1>2
<1>4. F = R(F)
  <2> HIDE DEF R
  <2> QED
    BY <1>3
<1>5. At(p) = F[n]
  BY <1>1 DEF At, Lookup
<1> HIDE DEF F
<1>6. ASSUME NEW k \in 0..n
      PROVE  F[k] = IF k = 0 THEN Root ELSE More(F[k - 1], k)
  BY <1>1, <1>4
<1> HIDE DEF More
<1> DEFINE T == {k \in 0..n : F[k] = f[k]}
<1>7. 0 \in T
  <2>1. 0 \in 0..n
    OBVIOUS
  <2>2. F[0] = Root
    BY <1>6, <2>1
  <2>3. f[0] = Root
    BY <1>2, <2>1
  <2> QED
    BY <2>1, <2>2, <2>3
<1>8. ASSUME NEW j \in 0..n, j < n, j \in T PROVE j + 1 \in T
  <2>1. j + 1 \in 0..n /\ j + 1 # 0 /\ (j + 1) - 1 = j
    BY <1>8
  <2>2. F[j + 1] = More(F[j], j + 1) /\ f[j + 1] = More(f[j], j + 1)
    BY <1>2, <1>6, <2>1
  <2> QED
    BY <1>8, <2>1, <2>2
<1>9. n \in T
  <2> HIDE DEF T
  <2>1. n \in 0..n
    OBVIOUS
  <2> QED
    BY <1>7, <1>8, <2>1, UpToAll
<1> QED
  BY <1>5, <1>9

LEMMA LookupStages ==
  ASSUME PackageIsGraph, KeysAreUnique, NEW p, NEW n \in Nat, Len(p) = n + 1
  PROVE  \E f \in [0..n -> Objects \union {Broken}] : LookupBy(f, p)
<1> DEFINE V == Objects \union {Broken}
           step == [x \in (1..n) \X V |->
                      IF x[2] = Broken THEN Broken ELSE Attribute(package.members[x[2]], p[x[1] + 1])]
<1>1. step \in [(1..n) \X V -> V]
  <2>1. ASSUME NEW k \in 1..n, NEW v \in V
        PROVE  (IF v = Broken THEN Broken ELSE Attribute(package.members[v], p[k + 1])) \in V
    <3>1. v # Broken => v \in Objects
      OBVIOUS
    <3> QED
      BY <3>1, AttributeIs
  <2> HIDE DEF V
  <2> QED
    BY <2>1
<1>2. \A k \in 1..n, v \in V :
        step[<<k, v>>] = IF v = Broken THEN Broken ELSE Attribute(package.members[v], p[k + 1])
  OBVIOUS
<1>3. PICK f \in [0..n -> V] : Follows(f, Root, step, n)
  <2>1. Root \in V
    BY DEF PackageIsGraph
  <2> HIDE DEF step, V
  <2> QED
    BY <1>1, <2>1, SomeFollows
<1> HIDE DEF step
<1>4. \A k \in 1..n : k - 1 \in 0..n /\ f[k - 1] \in V
  <2> HIDE DEF V
  <2>1. \A k \in 1..n : k - 1 \in 0..n
    OBVIOUS
  <2> QED
    BY <1>3, <2>1
<1>5. Len(p) - 1 = n
  OBVIOUS
<1>6. LookupBy(f, p)
  <2> HIDE DEF V
  <2> QED
    BY <1>2, <1>3, <1>4, <1>5 DEF Follows, LookupBy
<1> QED
  BY <1>3, <1>6

\* What can be looked up: the root's name and more keys.
IsPath(p) == p \in Seq(ToSet(p)) /\ p # <<>> /\ Head(p) = Head(RootName)

LEMMA RootIsAt ==
  /\ Root \in Objects /\ Full[Root] = [module |-> RootName, name |-> <<>>]
  /\ RootName = <<Head(RootName)>> /\ Len(RootName) = 1 /\ IsPath(RootName)
  /\ PackageIsGraph /\ KeysAreUnique => At(RootName) = Root
<1>1. Root \in Objects /\ Full[Root].name = <<>> /\ Len(RootName) = 1
  BY RootIsAModule DEF Objects
<1>2. Full[Root] \in [module : Seq(STRING), name : Seq(STRING)]
  BY RootIsAModule, ObjectsAreNamed
<1>3. RootName \in Seq(STRING) /\ Full[Root] = [module |-> RootName, name |-> <<>>]
  BY <1>1, <1>2 DEF RootName
<1>4. RootName = <<Head(RootName)>>
  BY <1>1, <1>3
<1>5. PICK k : RootName = <<k>>
  BY <1>4
<1>6. IsPath(RootName)
  <2>1. <<k>> \in Seq(ToSet(<<k>>)) /\ <<k>> # <<>>
    BY DEF ToSet
  <2> QED
    BY <1>5, <2>1 DEF IsPath
<1>7. ASSUME PackageIsGraph, KeysAreUnique PROVE At(RootName) = Root
  <2>1. PICK p : p = RootName
    OBVIOUS
  <2>2. PICK n \in Nat : n = 0
    OBVIOUS
  <2>3. Len(p) = n + 1
    BY <1>1, <2>1, <2>2
  <2>4. PICK f \in [0..n -> Objects \union {Broken}] : LookupBy(f, p)
    BY <1>7, <2>3, LookupStages
  <2>5. At(p) = f[n]
    BY <1>6, <2>1, <2>3, <2>4, AtIsLastStage DEF IsPath
  <2> QED
    BY <2>1, <2>2, <2>4, <2>5 DEF LookupBy
<1> QED
  BY <1>1, <1>3, <1>4, <1>6, <1>7

\* A key more leads to the member of that key.
LEMMA AtStep ==
  ASSUME PackageIsGraph, KeysAreUnique, NEW p, IsPath(p), At(p) \in Objects,
         NEW m \in ToSet(Members(At(p)))
  PROVE  /\ IsPath(Append(p, m[1])) /\ Len(Append(p, m[1])) = Len(p) + 1
         /\ At(Append(p, m[1])) = m[2]
<1>1. p \in Seq(ToSet(p)) /\ p # <<>> /\ Head(p) = Head(RootName)
  BY DEF IsPath
<1>2. PICK n \in Nat : Len(p) = n + 1
  <2>1. Len(p) \in Nat /\ Len(p) # 0
    BY <1>1
  <2>2. Len(p) - 1 \in Nat /\ Len(p) = (Len(p) - 1) + 1
    BY <2>1
  <2> QED
    BY <2>2
<1>3. PICK K, q : K = ToSet(p) \union {m[1]} /\ q = Append(p, m[1])
  OBVIOUS
<1>4. p \in Seq(K) /\ m[1] \in K
  BY <1>1, <1>3
<1>5. /\ q \in Seq(K) /\ Len(q) = n + 2 /\ q[n + 2] = m[1]
      /\ \A i \in 1..(n + 1) : q[i] = p[i]
  BY <1>2, <1>3, <1>4, AppendProperties
<1>6. q # <<>> /\ Head(q) = Head(RootName)
  <2>1. 1 \in 1..(n + 1) /\ Head(p) = p[1]
    BY <1>1
  <2>2. q # <<>> /\ Head(q) = q[1]
    BY <1>5
  <2> QED
    BY <1>1, <1>5, <2>1, <2>2
<1>7. q \in Seq(ToSet(q))
  BY <1>5 DEF ToSet
<1>8. PICK f \in [0..n -> Objects \union {Broken}] : LookupBy(f, p)
  BY <1>2, LookupStages
<1>9. PICK g \in [0..(n + 1) -> Objects \union {Broken}] : LookupBy(g, q)
  <2>1. n + 1 \in Nat /\ Len(q) = (n + 1) + 1
    BY <1>5
  <2> QED
    BY <2>1, LookupStages
<1>10. At(p) = f[n]
  BY <1>1, <1>2, <1>8, AtIsLastStage
<1>11. At(q) = g[n + 1]
  <2>1. n + 1 \in Nat /\ Len(q) = (n + 1) + 1
    BY <1>5
  <2>2. g = [k \in 0..(n + 1) |-> g[k]]
    BY <1>9
  <2> QED
    BY <1>6, <1>9, <2>1, <2>2, AtIsLastStage
<1>12. g[n] = f[n]
  <2> DEFINE T == {k \in 0..n : g[k] = f[k]}
  <2>1. 0 \in T
    BY <1>8, <1>9 DEF LookupBy
  <2>2. ASSUME NEW j \in 0..n, j < n, j \in T PROVE j + 1 \in T
    <3>1. j + 1 \in 0..n /\ j + 1 \in 1..(Len(p) - 1) /\ j + 1 \in 1..(Len(q) - 1) /\ (j + 1) - 1 = j
          /\ (j + 1) + 1 \in 1..(n + 1)
      BY <1>2, <1>5, <2>2
    <3>2. q[(j + 1) + 1] = p[(j + 1) + 1]
      BY <1>5, <3>1
    <3>3. f[j + 1] = IF f[j] = Broken THEN Broken ELSE Attribute(package.members[f[j]], p[(j + 1) + 1])
      BY <1>8, <3>1 DEF LookupBy
    <3>4. g[j + 1] = IF g[j] = Broken THEN Broken ELSE Attribute(package.members[g[j]], q[(j + 1) + 1])
      BY <1>9, <3>1 DEF LookupBy
    <3> QED
      BY <2>2, <3>1, <3>2, <3>3, <3>4
  <2>3. n \in T
    <3> HIDE DEF T
    <3>1. n \in 0..n
      OBVIOUS
    <3> QED
      BY <2>1, <2>2, <3>1, UpToAll
  <2> QED
    BY <2>3
<1>13. g[n + 1] = Attribute(package.members[At(p)], m[1])
  <2>1. n + 1 \in 1..(Len(q) - 1) /\ (n + 1) - 1 = n /\ (n + 1) + 1 = n + 2
    BY <1>5
  <2>2. At(p) # Broken
    BY ObjectsAreNamed DEF Objects
  <2> QED
    BY <1>5, <1>9, <1>10, <1>12, <2>1, <2>2 DEF LookupBy
<1>14. g[n + 1] = m[2]
  BY <1>13, AttributeIs
<1>15. Len(q) = Len(p) + 1
  BY <1>2, <1>5
<1> QED
  BY <1>3, <1>6, <1>7, <1>11, <1>14, <1>15 DEF IsPath

-----------------------------------------------------------------------------
(* The paths in the open list and the aliases lead to their objects.        *)

\* The open list when its head is taken off and c added.
LEMMA QueueAfter ==
  ASSUME NEW S, NEW s \in Seq(S), s # <<>>, NEW T, NEW c \in Seq(T), NEW t, t = Tail(s) \o c
  PROVE  /\ \E X : t \in Seq(X)
         /\ 1 \in DOMAIN s /\ Head(s) = s[1]
         /\ \A i \in DOMAIN t :
              \/ i + 1 \in DOMAIN s /\ t[i] = s[i + 1]
              \/ i >= Len(s) /\ i - (Len(s) - 1) \in DOMAIN c /\ t[i] = c[i - (Len(s) - 1)]
         /\ \A j \in DOMAIN s : j # 1 => j - 1 \in DOMAIN t /\ t[j - 1] = s[j]
         /\ \A j \in DOMAIN c : Len(s) - 1 + j \in DOMAIN t /\ t[Len(s) - 1 + j] = c[j]
<1>1. PICK n \in Nat, k \in Nat : Len(s) = n + 1 /\ Len(c) = k
  <2>1. Len(s) \in Nat /\ Len(s) # 0 /\ Len(c) \in Nat
    BY EmptySeq, LenProperties
  <2>2. Len(s) - 1 \in Nat /\ Len(s) = (Len(s) - 1) + 1
    BY <2>1
  <2> QED
    BY <2>1, <2>2
<1>2. DOMAIN s = 1..(n + 1) /\ DOMAIN c = 1..k
  BY <1>1, LenProperties
<1>3. /\ Head(s) = s[1] /\ Tail(s) \in Seq(S) /\ Len(Tail(s)) = n
      /\ \A i \in 1..n : Tail(s)[i] = s[i + 1]
  <2>1. Len(s) - 1 = n
    BY <1>1
  <2> QED
    BY <1>1, <2>1, HeadTailProperties
<1>4. PICK X, h : X = S \union T /\ h = Tail(s)
  OBVIOUS
<1>5. h \in Seq(X) /\ c \in Seq(X)
  BY <1>3, <1>4
<1>6. /\ t \in Seq(X) /\ Len(t) = n + k
      /\ \A i \in 1..(n + k) : t[i] = IF i <= n THEN h[i] ELSE c[i - n]
  BY <1>1, <1>3, <1>4, <1>5, ConcatProperties
<1>7. DOMAIN t = 1..(n + k)
  BY <1>6, LenProperties
<1>8. ASSUME NEW i \in 1..(n + k)
      PROVE  \/ i + 1 \in DOMAIN s /\ t[i] = s[i + 1]
             \/ i >= n + 1 /\ i - n \in 1..k /\ t[i] = c[i - n]
  <2>1. CASE i <= n
    <3>1. i \in 1..n /\ i + 1 \in 1..(n + 1)
      BY <2>1
    <3> QED
      BY <1>2, <1>3, <1>4, <1>6, <2>1, <3>1
  <2>2. CASE ~(i <= n)
    <3>1. i >= n + 1 /\ i - n \in 1..k
      BY <2>2
    <3> QED
      BY <1>6, <2>2, <3>1
  <2> QED
    BY <2>1, <2>2
<1>9. ASSUME NEW j \in 1..(n + 1), j # 1 PROVE j - 1 \in 1..(n + k) /\ t[j - 1] = s[j]
  <2>1. j - 1 \in 1..n /\ j - 1 \in 1..(n + k) /\ (j - 1) + 1 = j /\ j - 1 <= n
    BY <1>9
  <2> QED
    BY <1>3, <1>4, <1>6, <2>1
<1>10. ASSUME NEW j \in 1..k PROVE n + j \in 1..(n + k) /\ t[n + j] = c[j]
  <2>1. n + j \in 1..(n + k) /\ ~(n + j <= n) /\ (n + j) - n = j
    OBVIOUS
  <2> QED
    BY <1>6, <2>1
<1>11. Len(s) - 1 = n /\ 1 \in 1..(n + 1)
  BY <1>1
<1> QED
  BY <1>1, <1>2, <1>3, <1>6, <1>7, <1>8, <1>9, <1>10, <1>11

LEMMA OfItsElements ==
  ASSUME NEW S, NEW s \in Seq(S)
  PROVE  s \in Seq(ToSet(s))
BY DEF ToSet

LEMMA SetOfAppend ==
  ASSUME NEW S, NEW s \in Seq(S), NEW x
  PROVE  Append(s, x) \in Seq(ToSet(Append(s, x))) /\ ToSet(Append(s, x)) = ToSet(s) \union {x}
<1>1. PICK T, t : T = S \union {x} /\ t = Append(s, x)
  OBVIOUS
<1>2. PICK n \in Nat : n = Len(s) /\ DOMAIN s = 1..n
  BY LenProperties
<1>3. s \in Seq(T) /\ x \in T
  BY <1>1
<1>4. /\ t \in Seq(T) /\ DOMAIN t = 1..(n + 1) /\ t[n + 1] = x
      /\ \A i \in 1..n : t[i] = s[i]
  BY <1>1, <1>2, <1>3, AppendProperties, LenProperties
<1>5. \A i \in 1..(n + 1) : i \in 1..n \/ i = n + 1
  OBVIOUS
<1>6. n + 1 \in 1..(n + 1) /\ \A i \in 1..n : i \in 1..(n + 1)
  OBVIOUS
<1>7. ToSet(t) = ToSet(s) \union {x}
  BY <1>2, <1>4, <1>5, <1>6 DEF ToSet
<1> QED
  BY <1>1, <1>4, <1>7, OfItsElements

LEMMA SeedsAreAtTheirNames ==
  ASSUME PackageIsGraph, SubmodulesAtTheirNames, ~Shadowed, Broken \notin ToSet(Seeds),
         NEW i \in 1..Len(Seeds)
  PROVE  /\ Seeds[i] \in Objects /\ IsPath(DottedName(Seeds[i])) /\ At(DottedName(Seeds[i])) = Seeds[i]
         /\ i \in 1..Len(package.submodules) /\ Len(package.submodules[i]) \in Nat
         /\ Len(DottedName(Seeds[i])) = Len(package.submodules[i]) + 1
<1>1. Len(Seeds) \in Nat /\ DOMAIN Seeds = 1..Len(Seeds) /\ Len(package.submodules) \in Nat
  BY SeedsAreASequence DEF PackageIsGraph
<1>2. i \in 1..Len(package.submodules) /\ Seeds[i] = At(RootName \o package.submodules[i])
  <2>1. PICK n \in Nat : n = Len(package.submodules)
    BY <1>1
  <2>2. Seeds = [j \in 1..n |-> At(RootName \o package.submodules[j])]
    BY <2>1 DEF Seeds
  <2>3. Len(Seeds) = n
    BY <1>1, <2>2
  <2> QED
    BY <2>1, <2>2, <2>3
<1>3. PICK sub : sub = package.submodules[i] /\ sub \in Seq(ToSet(sub)) /\ sub # <<>>
  BY <1>2 DEF SubmodulesAtTheirNames
<1>4. Seeds[i] \in Objects /\ Seeds[i] # Broken /\ Kind[Seeds[i]] = "module"
  BY <1>1 DEF PackageIsGraph, Shadowed, ToSet
<1>5. DottedName(Seeds[i]) = RootName \o sub
  BY <1>2, <1>3, <1>4 DEF SubmodulesAtTheirNames, DottedName
<1>6. PICK k : RootName = <<k>> /\ Head(RootName) = k
  BY RootIsAt
<1>7. PICK K : K = {k} \union ToSet(sub)
  OBVIOUS
<1>8. PICK r \in Seq(K) : r = <<k>> /\ Len(r) = 1 /\ r[1] = k
  <2>1. <<k>> \in Seq(K)
    BY <1>7
  <2> QED
    BY <2>1
<1>9. sub \in Seq(K) /\ Len(sub) \in Nat
  BY <1>3, <1>7
<1>10. /\ r \o sub \in Seq(K) /\ Len(r \o sub) = 1 + Len(sub)
       /\ \A j \in 1..(1 + Len(sub)) : (r \o sub)[j] = IF j <= 1 THEN r[j] ELSE sub[j - 1]
  BY <1>8, <1>9, ConcatProperties
<1>11. PICK p \in Seq(K) : p = r \o sub
  BY <1>10
<1>12. Len(p) = Len(sub) + 1 /\ p[1] = k
  <2>1. 1 \in 1..(1 + Len(sub)) /\ 1 <= 1
    BY <1>9
  <2> QED
    BY <1>8, <1>9, <1>10, <1>11, <2>1
<1>13. p # <<>> /\ Head(p) = p[1]
  <2>1. Len(p) # 0
    BY <1>9, <1>12
  <2> QED
    BY <2>1
<1>14. p \in Seq(ToSet(p))
  BY <1>11, OfItsElements
<1> QED
  BY <1>2, <1>3, <1>4, <1>5, <1>6, <1>8, <1>9, <1>11, <1>12, <1>13, <1>14 DEF IsPath

\* An entry of the open list.
LeadsHome(e) == e[1] \in Objects /\ IsPath(e[2]) /\ At(e[2]) = e[1]

HomeInv ==
  /\ ScanInv /\ KeysAreUnique /\ SubmodulesAtTheirNames
  /\ DOMAIN aliases = DOMAIN obj
  /\ \A q \in DOMAIN aliases : aliases[q] \in Seq(ToSet(aliases[q]))
  /\ ~Shadowed =>
       /\ \A i \in DOMAIN open : LeadsHome(open[i])
       /\ \A q \in DOMAIN aliases : \A p \in ToSet(aliases[q]) :
            IsPath(p) /\ At(p) \in Objects /\ Full[At(p)] = q
  /\ Scanned => canonical = Canonical(aliases)

LEMMA KeysStay ==
  ASSUME package' = package
  PROVE  /\ \A p : At(p)' = At(p)
         /\ Shadowed' <=> Shadowed
         /\ KeysAreUnique => KeysAreUnique'
         /\ SubmodulesAtTheirNames => SubmodulesAtTheirNames'
<1>1. \A p : At(p)' = At(p)
  BY DEF At
<1>2. Seeds' = Seeds
  BY PackageStays
<1>3. KeysAreUnique => KeysAreUnique'
  BY DEF KeysAreUnique
<1>4. Shadowed' <=> Shadowed
  BY <1>2 DEF Shadowed
<1>5. SubmodulesAtTheirNames => SubmodulesAtTheirNames'
  BY <1>2 DEF SubmodulesAtTheirNames
<1> QED
  BY <1>1, <1>3, <1>4, <1>5

\* The invariant in the terms of the next state.
LEMMA HomeNext ==
  ASSUME HomeInv, ScanInv', package' = package, DOMAIN aliases' = DOMAIN obj',
         \A q \in DOMAIN aliases' : aliases'[q] \in Seq(ToSet(aliases'[q])),
         ~Shadowed =>
           /\ \A i \in DOMAIN open' : LeadsHome(open'[i])
           /\ \A q \in DOMAIN aliases' : \A p \in ToSet(aliases'[q]) :
                IsPath(p) /\ At(p) \in Objects /\ Full[At(p)] = q,
         phase' \in {"examples", "done"} => canonical' = Canonical(aliases')
  PROVE  HomeInv'
<1>1. \A p : At(p)' = At(p)
  BY KeysStay
<1>2. KeysAreUnique' /\ SubmodulesAtTheirNames' /\ (Shadowed' <=> Shadowed)
  BY KeysStay DEF HomeInv
<1>3. \A e : LeadsHome(e)' <=> LeadsHome(e)
  BY <1>1 DEF LeadsHome
<1>4. ~Shadowed' =>
        /\ \A i \in DOMAIN open' : LeadsHome(open[i])'
        /\ \A q \in DOMAIN aliases' : \A p \in ToSet(aliases'[q]) :
             IsPath(p) /\ At(p)' \in Objects /\ Full[At(p)'] = q
  BY <1>1, <1>2 DEF LeadsHome
<1>5. Scanned' => canonical' = Canonical(aliases)'
  BY DEF Scanned, Canonical, HasCanonical, Candidates
<1> QED
  BY <1>1, <1>2, <1>4, <1>5 DEF HomeInv

LEMMA CollectorLeadsHome ==
  ASSUME PackageIsGraph, KeysAreUnique, SubmodulesAtTheirNames, ~Shadowed, GetCollector
  PROVE  /\ 1 \in DOMAIN open' /\ open'[1] = <<Root, RootName>>
         /\ \A i \in DOMAIN open' :
              /\ LeadsHome(open'[i])
              /\ \/ i = 1
                 \/ i # 1 /\ \E j \in 1..Len(package.submodules) :
                      Len(open'[i][2]) = Len(package.submodules[j]) + 1
<1> DEFINE s == <<<<Root, RootName>>>>
           t == [i \in 1..Len(Seeds) |-> <<Seeds[i], DottedName(Seeds[i])>>]
<1>1. open' = s \o t /\ Broken \notin ToSet(Seeds)
  BY SMTT(30) DEF GetCollector
<1>2. PICK n \in Nat : n = Len(Seeds)
  BY SeedsAreASequence
<1>3. s \in Seq({s[1]}) /\ Len(s) = 1 /\ s[1] = <<Root, RootName>>
  OBVIOUS
<1>4. PICK T : t \in Seq(T)
  <2>1. t \in Seq({t[i] : i \in 1..n})
    BY <1>2
  <2> QED
    BY <2>1
<1>5. Len(t) = n /\ \A i \in 1..n : t[i] = <<Seeds[i], DottedName(Seeds[i])>>
  BY <1>2
<1> HIDE DEF s, t
<1>6. PICK X : X = {s[1]} \union T
  OBVIOUS
<1>7. s \in Seq(X) /\ t \in Seq(X)
  BY <1>3, <1>4, <1>6
<1>8. /\ open' \in Seq(X) /\ Len(open') = 1 + n
      /\ \A i \in 1..(1 + n) : open'[i] = IF i <= 1 THEN s[i] ELSE t[i - 1]
  <2>1. Len(s) = 1 /\ Len(t) = n
    BY <1>3, <1>5
  <2>2. /\ s \o t \in Seq(X) /\ Len(s \o t) = Len(s) + Len(t)
        /\ \A i \in 1..(Len(s) + Len(t)) : (s \o t)[i] = IF i <= Len(s) THEN s[i] ELSE t[i - Len(s)]
    BY <1>7, ConcatProperties
  <2> QED
    BY <1>1, <2>1, <2>2
<1>9. DOMAIN open' = 1..(1 + n)
  BY <1>8, LenProperties
<1>10. 1 \in 1..(1 + n) /\ open'[1] = <<Root, RootName>>
  <2>1. 1 \in 1..(1 + n) /\ 1 <= 1
    OBVIOUS
  <2> QED
    BY <1>3, <1>8, <2>1
<1>11. LeadsHome(open'[1])
  BY <1>10, RootIsAt DEF LeadsHome
<1>12. ASSUME NEW i \in 1..(1 + n), i # 1
       PROVE  /\ LeadsHome(open'[i])
              /\ \E j \in 1..Len(package.submodules) : Len(open'[i][2]) = Len(package.submodules[j]) + 1
  <2>1. i - 1 \in 1..n /\ ~(i <= 1)
    BY <1>12
  <2>2. open'[i] = <<Seeds[i - 1], DottedName(Seeds[i - 1])>>
    BY <1>5, <1>8, <2>1
  <2>3. PICK j \in 1..Len(Seeds) : j = i - 1
    BY <1>2, <2>1
  <2>4. open'[i][1] = Seeds[j] /\ open'[i][2] = DottedName(Seeds[j])
    BY <2>2, <2>3
  <2> QED
    BY <1>1, <2>4, SeedsAreAtTheirNames DEF LeadsHome
<1> QED
  BY <1>9, <1>10, <1>11, <1>12

LEMMA ChildrenLeadHome ==
  ASSUME PackageIsGraph, KeysAreUnique, NEW o, NEW path, LeadsHome(<<o, path>>)
  PROVE  \A i \in DOMAIN Children(o, path) :
           /\ LeadsHome(Children(o, path)[i])
           /\ Len(Children(o, path)[i][2]) = Len(path) + 1
<1>1. o \in Objects /\ IsPath(path) /\ At(path) = o
  BY DEF LeadsHome
<1> SUFFICES ASSUME NEW i \in DOMAIN Children(o, path)
             PROVE  /\ LeadsHome(Children(o, path)[i])
                    /\ Len(Children(o, path)[i][2]) = Len(path) + 1
  OBVIOUS
<1>2. Kind[o] \in {"module", "class"}
  <2>1. DOMAIN <<>> = {}
    OBVIOUS
  <2> QED
    BY <2>1 DEF Children
<1>3. Members(o) \in Seq(ToSet(Members(o)))
  BY <1>1 DEF PackageIsGraph
<1>4. DOMAIN Members(o) = 1..Len(Members(o))
  BY <1>3, LenProperties
<1>5. i \in DOMAIN Members(o) /\ Children(o, path)[i] = <<Members(o)[i][2], Append(path, Members(o)[i][1])>>
  BY <1>2, <1>4 DEF Children
<1>6. PICK m \in ToSet(Members(o)) : m = Members(o)[i]
  BY <1>5 DEF ToSet
<1>7. m[2] \in Objects
  BY <1>1 DEF PackageIsGraph
<1>8. IsPath(Append(path, m[1])) /\ Len(Append(path, m[1])) = Len(path) + 1 /\ At(Append(path, m[1])) = m[2]
  BY <1>1, AtStep
<1> QED
  BY <1>5, <1>6, <1>7, <1>8 DEF LeadsHome

\* The path of the object just found is one of its aliases.
LEMMA AliasesAfter ==
  ASSUME HomeInv, Visit, NEW q \in DOMAIN aliases'
  PROVE  /\ DOMAIN aliases' = DOMAIN obj \union {Full[Head(open)[1]]}
         /\ aliases'[q] \in Seq(ToSet(aliases'[q]))
         /\ q # Full[Head(open)[1]] => q \in DOMAIN aliases /\ aliases'[q] = aliases[q]
         /\ q = Full[Head(open)[1]] =>
              ToSet(aliases'[q]) = (IF q \in DOMAIN aliases THEN ToSet(aliases[q]) ELSE {}) \union {Head(open)[2]}
<1>1. PICK o, path, qa0 : o = Head(open)[1] /\ path = Head(open)[2] /\ qa0 = Full[o]
  OBVIOUS
<1>2. aliases' = [r \in DOMAIN obj \union {qa0} |->
                     IF r # qa0 THEN aliases[r]
                     ELSE Append(IF qa0 \in DOMAIN obj THEN aliases[qa0] ELSE <<>>, path)]
  BY <1>1 DEF Visit, Keep
<1>3. DOMAIN aliases = DOMAIN obj /\ \A r \in DOMAIN aliases : aliases[r] \in Seq(ToSet(aliases[r]))
  BY SMTT(30) DEF HomeInv
<1>4. CASE q # qa0
  BY <1>1, <1>2, <1>3, <1>4
<1>5. CASE q = qa0
  <2>1. PICK s : s = IF qa0 \in DOMAIN obj THEN aliases[qa0] ELSE <<>>
    OBVIOUS
  <2>2. s \in Seq(ToSet(s)) /\ ToSet(s) = IF q \in DOMAIN aliases THEN ToSet(aliases[q]) ELSE {}
    <3>1. CASE qa0 \in DOMAIN obj
      BY <1>3, <1>5, <2>1, <3>1
    <3>2. CASE qa0 \notin DOMAIN obj
      BY <1>3, <1>5, <2>1, <3>2 DEF ToSet
    <3> QED
      BY <3>1, <3>2
  <2>3. aliases'[q] = Append(s, path)
    BY <1>2, <1>5, <2>1
  <2>4. Append(s, path) \in Seq(ToSet(Append(s, path))) /\ ToSet(Append(s, path)) = ToSet(s) \union {path}
    BY <2>2, SetOfAppend
  <2> QED
    BY <1>1, <1>2, <1>5, <2>2, <2>3, <2>4
<1> QED
  BY <1>1, <1>4, <1>5

LEMMA VisitLeadsHome ==
  ASSUME HomeInv, ScanInv', Visit
  PROVE  HomeInv'
<1>1. PICK o, path, c : o = Head(open)[1] /\ path = Head(open)[2] /\ c = Children(o, path)
  OBVIOUS
<1>2. /\ Scanning /\ phase' = "scan" /\ package' = package /\ open' = Tail(open) \o c
      /\ DOMAIN obj' = DOMAIN obj \union {Full[o]}
  BY <1>1 DEF Visit, Keep, Scanning
<1>3. o \in Objects /\ PackageIsGraph /\ KeysAreUnique
  BY <1>1, <1>2, HeadIsAnObject DEF HomeInv, ScanInv
<1>4. DOMAIN aliases' = DOMAIN obj'
  <2>1. DOMAIN aliases' = DOMAIN obj \union {Full[Head(open)[1]]}
    BY DEF Visit, Keep
  <2> QED
    BY <1>1, <1>2, <2>1
<1>5. \A q \in DOMAIN aliases' : aliases'[q] \in Seq(ToSet(aliases'[q]))
  BY AliasesAfter
<1>6. ASSUME ~Shadowed
      PROVE  /\ \A i \in DOMAIN open' : LeadsHome(open'[i])
             /\ \A q \in DOMAIN aliases' : \A p \in ToSet(aliases'[q]) :
                  IsPath(p) /\ At(p) \in Objects /\ Full[At(p)] = q
  <2>1. PICK S : open \in Seq(S)
    BY DEF HomeInv, ScanInv
  <2>2. PICK T : c \in Seq(T)
    BY <1>1, <1>3, ChildrenAreMembers
  <2>3. open # <<>>
    BY <1>2 DEF Scanning
  <2>4. /\ 1 \in DOMAIN open /\ Head(open) = open[1]
        /\ \A i \in DOMAIN open' :
             \/ i + 1 \in DOMAIN open /\ open'[i] = open[i + 1]
             \/ i - (Len(open) - 1) \in DOMAIN c /\ open'[i] = c[i - (Len(open) - 1)]
    BY <1>2, <2>1, <2>2, <2>3, QueueAfter
  <2>5. LeadsHome(open[1]) /\ \A i \in DOMAIN open : LeadsHome(open[i])
    BY <1>6, <2>4 DEF HomeInv
  <2>6. IsPath(path) /\ At(path) = o
    BY <1>1, <2>4, <2>5 DEF LeadsHome
  <2>7. LeadsHome(<<o, path>>)
    BY <1>3, <2>6 DEF LeadsHome
  <2>8. \A i \in DOMAIN c : LeadsHome(c[i])
    BY <1>1, <1>3, <2>7, ChildrenLeadHome
  <2>9. \A i \in DOMAIN open' : LeadsHome(open'[i])
    BY <2>4, <2>5, <2>8
  <2>10. ASSUME NEW q \in DOMAIN aliases', NEW p \in ToSet(aliases'[q])
         PROVE  IsPath(p) /\ At(p) \in Objects /\ Full[At(p)] = q
    <3>1. CASE q # Full[o]
      <4>1. q \in DOMAIN aliases /\ p \in ToSet(aliases[q])
        BY <1>1, <2>10, <3>1, AliasesAfter
      <4> QED
        BY <1>6, <4>1 DEF HomeInv
    <3>2. CASE q = Full[o]
      <4>1. ToSet(aliases'[q]) = (IF q \in DOMAIN aliases THEN ToSet(aliases[q]) ELSE {}) \union {path}
        BY <1>1, <3>2, AliasesAfter
      <4>2. p = path \/ (q \in DOMAIN aliases /\ p \in ToSet(aliases[q]))
        BY <2>10, <4>1
      <4> QED
        BY <1>3, <1>6, <2>6, <3>2, <4>2 DEF HomeInv
    <3> QED
      BY <3>1, <3>2
  <2> QED
    BY <2>9, <2>10
<1> QED
  BY <1>2, <1>4, <1>5, <1>6, HomeNext

LEMMA PassLeadsHome ==
  ASSUME HomeInv, ScanInv', Pass
  PROVE  HomeInv'
<1>1. /\ Scanning /\ phase' = "scan" /\ open' = Tail(open) /\ UNCHANGED <<package, obj, aliases>>
  BY DEF Pass, Scanning
<1>2. PICK S : open \in Seq(S)
  BY DEF HomeInv, ScanInv
<1>3. \A i \in DOMAIN open' : i + 1 \in DOMAIN open /\ open'[i] = open[i + 1]
  <2>1. open # <<>>
    BY <1>1 DEF Scanning
  <2>2. PICK h \in Seq(S) : h = Tail(open)
    BY <1>2, <2>1, HeadTailProperties
  <2>3. PICK c : c = <<>>
    OBVIOUS
  <2>4. c \in Seq({}) /\ DOMAIN c = {} /\ open' = Tail(open) \o c
    BY <1>1, <2>2, <2>3, ConcatEmptySeq
  <2> QED
    BY <1>2, <2>1, <2>4, QueueAfter
<1> QED
  BY <1>1, <1>3, HomeNext DEF HomeInv

LEMMA NextHomeInv ==
  ASSUME WalkersAreThemselves, StandInsStay, HomeInv, [Next]_vars
  PROVE  HomeInv'
<1>1. ScanInv'
  BY NextScanInv DEF HomeInv
<1>2. CASE GetCollector
  <2>1. phase = "start" /\ phase' = "scan" /\ UNCHANGED <<package, obj, aliases>>
    BY <1>2 DEF GetCollector
  <2>2. ~Shadowed => \A i \in DOMAIN open' : LeadsHome(open'[i])
    BY <1>2, CollectorLeadsHome DEF HomeInv, ScanInv
  <2> QED
    BY <1>1, <2>1, <2>2, HomeNext DEF HomeInv
<1>3. CASE Visit \/ Pass
  BY <1>1, <1>3, VisitLeadsHome, PassLeadsHome
<1>4. CASE Select
  <2>1. /\ open' = open /\ canonical' = Canonical(aliases) /\ UNCHANGED <<package, obj, aliases>>
    BY <1>4 DEF Select
  <2> QED
    BY <1>1, <2>1, HomeNext DEF HomeInv
<1>5. CASE \/ RefuseSubmodule \/ WithoutExamples \/ RefuseExamples \/ StartExamples \/ KeepText \/ ShowOnly
           \/ Skip \/ Succeed \/ SucceedWithFigures \/ SaveFails \/ Fail \/ TokensFail \/ EndExamples \/ Finish
           \/ Stopped \/ UNCHANGED vars
  <2>1. /\ UNCHANGED <<package, open, obj, aliases, canonical>>
        /\ phase' \in {"examples", "done"} => phase \in {"examples", "done"}
    BY <1>5 DEF RefuseSubmodule, WithoutExamples, RefuseExamples, StartExamples, KeepText, ShowOnly, Skip, Succeed,
      SucceedWithFigures, SaveFails, Fail, TokensFail, EndExamples, Finish, Stopped, vars, scanVars
  <2> QED
    BY <1>1, <2>1, HomeNext DEF HomeInv, Scanned
<1> QED
  BY <1>2, <1>3, <1>4, <1>5 DEF Next, Scan, ScanNext

-----------------------------------------------------------------------------
(* Breadth first.  d gives the number of keys each object was met at.       *)

\* No submodule was configured below the root's own.
Shallow == \A i \in 1..Len(package.submodules) : ~(Len(package.submodules[i]) > 1)

\* x was met, or waits, at the end of at most n keys.
NearBy(d, list, x, n) ==
  (x \in DOMAIN d /\ d[x] <= n) \/ \E i \in DOMAIN list : list[i][1] = x /\ Len(list[i][2]) <= n

\* The entries of the list are in order, and of at most two lengths.
InOrder(list) ==
  \A i \in DOMAIN list :
    /\ Len(list[i][2]) \in Nat
    /\ \A j \in DOMAIN list :
         i <= j => Len(list[i][2]) <= Len(list[j][2]) /\ Len(list[j][2]) <= Len(list[i][2]) + 1

\* The head o is met at n keys, or was met.
Met(d, M, o, n) == [x \in M \union {o} |-> IF x \in M THEN d[x] ELSE n]

\* The head o of the list is met, at n keys, and what it leads to, c, is put at the end.
TakesHead(S, list, T, c, M, d, o, n, t, e) ==
  /\ list \in Seq(S) /\ list # <<>> /\ c \in Seq(T) /\ InOrder(list)
  /\ d \in [M -> Nat] /\ \A x \in M, i \in DOMAIN list : d[x] <= Len(list[i][2])
  /\ o = Head(list)[1] /\ n = Len(Head(list)[2]) /\ \A i \in DOMAIN c : Len(c[i][2]) = n + 1
  /\ t = Tail(list) \o c /\ e = Met(d, M, o, n)

LEMMA HeadIsMet ==
  ASSUME NEW S, NEW list, NEW T, NEW c, NEW M, NEW d, NEW o, NEW n, NEW t, NEW e,
         TakesHead(S, list, T, c, M, d, o, n, t, e)
  PROVE  /\ n \in Nat /\ InOrder(t) /\ e \in [M \union {o} -> Nat] /\ e[o] <= n
         /\ \A x \in M \union {o}, i \in DOMAIN t : e[x] <= Len(t[i][2])
         /\ \A x : \A k \in Nat : NearBy(d, list, x, k) => NearBy(e, t, x, k)
         /\ \A i \in DOMAIN c : NearBy(e, t, c[i][1], n + 1)
<1> SUFFICES ASSUME list \in Seq(S), list # <<>>, c \in Seq(T), InOrder(list),
                    d \in [M -> Nat], \A x \in M, i \in DOMAIN list : d[x] <= Len(list[i][2]),
                    o = Head(list)[1], n = Len(Head(list)[2]), \A i \in DOMAIN c : Len(c[i][2]) = n + 1,
                    t = Tail(list) \o c, e = Met(d, M, o, n)
             PROVE  /\ n \in Nat /\ InOrder(t) /\ e \in [M \union {o} -> Nat] /\ e[o] <= n
                    /\ \A x \in M \union {o}, i \in DOMAIN t : e[x] <= Len(t[i][2])
                    /\ \A x : \A k \in Nat : NearBy(d, list, x, k) => NearBy(e, t, x, k)
                    /\ \A i \in DOMAIN c : NearBy(e, t, c[i][1], n + 1)
  BY DEF TakesHead
<1>1. /\ 1 \in DOMAIN list /\ Head(list) = list[1]
      /\ \A i \in DOMAIN t :
           \/ i + 1 \in DOMAIN list /\ t[i] = list[i + 1]
           \/ i >= Len(list) /\ i - (Len(list) - 1) \in DOMAIN c /\ t[i] = c[i - (Len(list) - 1)]
      /\ \A j \in DOMAIN list : j # 1 => j - 1 \in DOMAIN t /\ t[j - 1] = list[j]
      /\ \A j \in DOMAIN c : Len(list) - 1 + j \in DOMAIN t /\ t[Len(list) - 1 + j] = c[j]
  BY QueueAfter, SMTT(60)
<1>2. DOMAIN list = 1..Len(list) /\ Len(list) \in Nat
  BY LenProperties
<1>3. n \in Nat /\ \A i \in DOMAIN list : Len(list[i][2]) \in {n, n + 1}
  <2>1. n = Len(list[1][2]) /\ n \in Nat
    BY <1>1 DEF InOrder
  <2> SUFFICES ASSUME NEW i \in DOMAIN list PROVE Len(list[i][2]) \in {n, n + 1}
    BY <2>1
  <2>2. 1 <= i /\ Len(list[i][2]) \in Nat
    BY <1>2 DEF InOrder
  <2>3. n <= Len(list[i][2]) /\ Len(list[i][2]) <= n + 1
    BY <1>1, <2>1, <2>2 DEF InOrder
  <2> QED
    BY <2>1, <2>2, <2>3
<1>4. \A i \in DOMAIN t : Len(t[i][2]) \in {n, n + 1}
  BY SMTT(30), <1>1, <1>3
<1>5. InOrder(t)
  <2> SUFFICES ASSUME NEW i \in DOMAIN t, NEW j \in DOMAIN t, i <= j
               PROVE  Len(t[i][2]) <= Len(t[j][2]) /\ Len(t[j][2]) <= Len(t[i][2]) + 1
    BY SMTT(30), <1>3, <1>4 DEF InOrder
  <2>1. Len(t[i][2]) \in {n, n + 1} /\ Len(t[j][2]) \in {n, n + 1}
    BY <1>4
  <2>2. CASE i + 1 \in DOMAIN list /\ t[i] = list[i + 1] /\ j + 1 \in DOMAIN list /\ t[j] = list[j + 1]
    <3>1. i + 1 <= j + 1
      BY <1>2, <2>2
    <3> QED
      BY <2>2, <3>1 DEF InOrder
  <2>3. CASE j - (Len(list) - 1) \in DOMAIN c /\ t[j] = c[j - (Len(list) - 1)]
    <3>1. PICK k \in DOMAIN c : t[j] = c[k]
      BY <2>3
    <3>2. Len(t[j][2]) = n + 1
      BY <3>1
    <3>3. n <= n + 1 /\ n + 1 <= n + 1 /\ n + 1 <= (n + 1) + 1
      BY <1>3
    <3> QED
      BY <2>1, <3>2, <3>3
  <2>4. CASE /\ i >= Len(list) /\ i - (Len(list) - 1) \in DOMAIN c
             /\ j + 1 \in DOMAIN list /\ t[j] = list[j + 1]
    <3>1. DOMAIN t \subseteq Int
      <4>1. PICK X : t \in Seq(X)
        BY QueueAfter
      <4> QED
        BY <4>1, LenProperties
    <3> QED
      BY <1>2, <2>4, <3>1
  <2> QED
    BY <1>1, <2>2, <2>3, <2>4
<1>6. e \in [M \union {o} -> Nat] /\ e[o] <= n
  <2>1. \A x \in M \union {o} : e[x] \in Nat
    BY <1>3 DEF Met
  <2>2. o \in M => d[o] <= n
    BY <1>1
  <2> QED
    BY <1>3, <2>1, <2>2 DEF Met
<1>7. ASSUME NEW x \in M \union {o}, NEW i \in DOMAIN t PROVE e[x] <= Len(t[i][2])
  <2>1. e[x] <= n /\ e[x] \in Nat
    <3>1. x \in M => d[x] <= Len(list[1][2])
      BY <1>1
    <3> QED
      BY <1>1, <1>3, <1>6, <3>1 DEF Met
  <2>2. PICK a \in Nat, b \in {n, n + 1} : a = e[x] /\ b = Len(t[i][2])
    BY <1>4, <2>1
  <2>3. a <= n
    BY <2>1, <2>2
  <2>4. a <= b
    <3>1. n \in Nat
      BY <1>3
    <3>2. b = n \/ b = n + 1
      OBVIOUS
    <3> QED
      BY <2>3, <3>1, <3>2
  <2> QED
    BY <2>2, <2>4
<1>8. ASSUME NEW x, NEW k \in Nat, NearBy(d, list, x, k) PROVE NearBy(e, t, x, k)
  <2>1. CASE x \in DOMAIN d /\ d[x] <= k
    BY <2>1 DEF NearBy, Met
  <2>2. CASE \E i \in DOMAIN list : list[i][1] = x /\ Len(list[i][2]) <= k
    <3>1. PICK i \in DOMAIN list : list[i][1] = x /\ Len(list[i][2]) <= k
      BY <2>2
    <3>2. CASE i = 1
      <4>1. x = o /\ n <= k
        BY <1>1, <3>1, <3>2
      <4>2. o \in DOMAIN e /\ e[o] <= k
        BY <1>3, <1>6, <4>1
      <4> QED
        BY <4>1, <4>2 DEF NearBy
    <3>3. CASE i # 1
      BY <1>1, <3>1, <3>3 DEF NearBy
    <3> QED
      BY <3>2, <3>3
  <2> QED
    BY <1>8, <2>1, <2>2 DEF NearBy
<1>9. ASSUME NEW i \in DOMAIN c PROVE NearBy(e, t, c[i][1], n + 1)
  <2>1. Len(list) - 1 + i \in DOMAIN t /\ t[Len(list) - 1 + i] = c[i] /\ Len(c[i][2]) <= n + 1
    BY <1>1, <1>3
  <2> QED
    BY <2>1 DEF NearBy
<1> QED
  BY <1>3, <1>5, <1>6, <1>7, <1>8, <1>9

\* x is in the aliases with a path of at most n keys, or left to its equal for good.
Recorded(x, n) ==
  \/ Full[x] \in DOMAIN aliases /\ \E p \in ToSet(aliases[Full[x]]) : Len(p) <= n
  \/ Full[x] \notin DOMAIN obj /\ Taken(x)

Near(d) ==
  /\ InOrder(open)
  /\ \A x \in seen, i \in DOMAIN open : d[x] <= Len(open[i][2])
  /\ NearBy(d, open, Root, 1)
  /\ \A x \in seen : Walks(x) => \A m \in ToSet(Members(x)) : NearBy(d, open, m[2], d[x] + 1)
  /\ \A x \in seen : Owned(x) => Recorded(x, d[x])

NearInv ==
  ~Shadowed /\ Shallow /\ phase \notin {"start", "refused"} => \E d \in [seen -> Nat] : Near(d)

LEMMA ShallowStays ==
  ASSUME package' = package
  PROVE  (Shallow' <=> Shallow) /\ (Shadowed' <=> Shadowed)
BY KeysStay DEF Shallow

\* The invariant in the terms of the next state.
LEMMA NearNext ==
  ASSUME package' = package, NEW e \in [seen' -> Nat], InOrder(open'),
         \A x \in seen', i \in DOMAIN open' : e[x] <= Len(open'[i][2]),
         NearBy(e, open', Root, 1),
         \A x \in seen' : Walks(x) => \A m \in ToSet(Members(x)) : NearBy(e, open', m[2], e[x] + 1),
         \A x \in seen' : Owned(x) => Recorded(x, e[x])'
  PROVE  NearInv'
<1>1. \A x : ToSet(Members(x))' = ToSet(Members(x))
  <2>1. \A x : Members(x)' = Members(x)
    BY PackageStays
  <2> QED
    BY <2>1 DEF ToSet
<1>2. InOrder(open)'
  BY DEF InOrder
<1>3. \A x, n : NearBy(e, open, x, n)' <=> NearBy(e, open', x, n)
  BY DEF NearBy
<1>4. \A x \in seen' : Walks(x) => \A m \in ToSet(Members(x))' : NearBy(e, open, m[2], e[x] + 1)'
  BY <1>1, <1>3
<1>5. NearBy(e, open, Root, 1)'
  BY <1>3
<1>6. Near(e)'
  BY <1>2, <1>4, <1>5 DEF Near
<1> QED
  BY <1>6 DEF NearInv

LEMMA CollectorIsNear ==
  ASSUME HomeInv, GetCollector, ~Shadowed, Shallow
  PROVE  NearInv'
<1>1. package' = package /\ seen' = {} /\ PackageIsGraph /\ KeysAreUnique /\ SubmodulesAtTheirNames
  BY DEF GetCollector, HomeInv, ScanInv
<1>2. /\ 1 \in DOMAIN open' /\ open'[1] = <<Root, RootName>>
      /\ \A i \in DOMAIN open' :
           \/ i = 1
           \/ i # 1 /\ \E j \in 1..Len(package.submodules) : Len(open'[i][2]) = Len(package.submodules[j]) + 1
  BY <1>1, CollectorLeadsHome
<1>3. \A j \in 1..Len(package.submodules) : Len(package.submodules[j]) = 1
  <2> SUFFICES ASSUME NEW j \in 1..Len(package.submodules) PROVE Len(package.submodules[j]) = 1
    OBVIOUS
  <2>1. PICK sub : sub = package.submodules[j] /\ sub \in Seq(ToSet(sub)) /\ sub # <<>>
    BY <1>1 DEF SubmodulesAtTheirNames
  <2>2. Len(sub) \in Nat /\ Len(sub) # 0
    BY <2>1
  <2>3. ~(Len(sub) > 1)
    BY <2>1 DEF Shallow
  <2>4. Len(sub) = 1
    <3> SUFFICES ASSUME NEW n \in Nat, n # 0, ~(n > 1) PROVE n = 1
      BY <2>2, <2>3
    <3> QED
      OBVIOUS
  <2> QED
    BY <2>1, <2>4
<1>4. Len(open'[1][2]) = 1 /\ \A i \in DOMAIN open' : i # 1 => Len(open'[i][2]) = 2
  <2>1. open'[1][2] = RootName
    BY <1>2
  <2>2. ASSUME NEW i \in DOMAIN open', i # 1 PROVE Len(open'[i][2]) = 2
    <3>1. PICK j \in 1..Len(package.submodules) : Len(open'[i][2]) = Len(package.submodules[j]) + 1
      BY <1>2, <2>2
    <3>2. Len(package.submodules[j]) = 1
      BY <1>3
    <3> QED
      BY <3>1, <3>2
  <2> QED
    BY <2>1, <2>2, RootIsAt
<1>5. DOMAIN open' \subseteq Nat \ {0}
  <2>1. \E S : open' \in Seq(S)
    BY <1>1, CollectorOpens
  <2> QED
    BY <2>1, LenProperties
<1>6. InOrder(open')
  <2> SUFFICES ASSUME NEW i \in DOMAIN open', NEW j \in DOMAIN open', i <= j
               PROVE  Len(open'[i][2]) <= Len(open'[j][2]) /\ Len(open'[j][2]) <= Len(open'[i][2]) + 1
    BY <1>4 DEF InOrder
  <2>1. i # 1 => j # 1
    <3> SUFFICES ASSUME NEW a \in Nat \ {0}, NEW b \in Nat \ {0}, a <= b, a # 1 PROVE b # 1
      BY <1>5
    <3> QED
      OBVIOUS
  <2>2. CASE i = 1 /\ j = 1
    BY <1>4, <2>2
  <2>3. CASE i = 1 /\ j # 1
    <3>1. Len(open'[i][2]) = 1 /\ Len(open'[j][2]) = 2
      BY <1>4, <2>3
    <3> QED
      BY <3>1
  <2>4. CASE i # 1
    BY <1>4, <2>1, <2>4
  <2> QED
    BY <2>2, <2>3, <2>4
<1>7. PICK e : e = [x \in {} |-> 0]
  OBVIOUS
<1>8. e \in [seen' -> Nat]
  BY <1>1, <1>7
<1>9. NearBy(e, open', Root, 1)
  <2>1. open'[1][1] = Root /\ Len(open'[1][2]) <= 1
    BY SMTT(30), <1>2, <1>4
  <2> QED
    BY <1>2, <2>1 DEF NearBy
<1> QED
  BY <1>1, <1>6, <1>8, <1>9, NearNext

LEMMA VisitIsNear ==
  ASSUME StandInsStay, HomeInv, NearInv, Visit, ~Shadowed, Shallow
  PROVE  NearInv'
<1>1. PICK o, path, n, c : o = Head(open)[1] /\ path = Head(open)[2] /\ n = Len(path) /\ c = Children(o, path)
  OBVIOUS
<1>2. /\ Scanning /\ phase = "scan" /\ package' = package /\ open' = Tail(open) \o c
      /\ Wanted(o) /\ seen' = seen \union {o}
      /\ obj' = [q \in DOMAIN obj \union {Full[o]} |-> IF q = Full[o] THEN o ELSE obj[q]]
  BY <1>1 DEF Visit, Keep, Scanning
<1>3. o \in Objects /\ PackageIsGraph /\ KeysAreUnique
  BY <1>1, <1>2, HeadIsAnObject DEF HomeInv, ScanInv
<1>4. PICK d \in [seen -> Nat] : Near(d)
  BY <1>2 DEF NearInv
<1>5. PICK S, T : open \in Seq(S) /\ c \in Seq(T)
  BY <1>1, <1>3, ChildrenAreMembers DEF HomeInv, ScanInv
<1>6. open # <<>>
  BY <1>2 DEF Scanning
<1>7. LeadsHome(<<o, path>>)
  <2>1. 1 \in DOMAIN open /\ Head(open) = open[1]
    BY <1>5, <1>6, LenProperties, EmptySeq
  <2>2. LeadsHome(open[1])
    BY <2>1 DEF HomeInv
  <2> QED
    BY <1>1, <2>1, <2>2 DEF LeadsHome
<1>8. \A i \in DOMAIN c : Len(c[i][2]) = n + 1
  BY <1>1, <1>3, <1>7, ChildrenLeadHome
<1>9. PICK t : t = open'
  OBVIOUS
<1>10. PICK e : e = Met(d, seen, o, n)
  OBVIOUS
<1>11. /\ n \in Nat /\ InOrder(t) /\ e \in [seen \union {o} -> Nat]
       /\ \A x \in seen \union {o}, i \in DOMAIN t : e[x] <= Len(t[i][2])
       /\ \A x : \A k \in Nat : NearBy(d, open, x, k) => NearBy(e, t, x, k)
       /\ \A i \in DOMAIN c : NearBy(e, t, c[i][1], n + 1)
  <2>1. t = Tail(open) \o c
    BY <1>2, <1>9
  <2>2. InOrder(open) /\ \A x \in seen, i \in DOMAIN open : d[x] <= Len(open[i][2])
    BY <1>4 DEF Near
  <2>3. o = Head(open)[1] /\ n = Len(Head(open)[2])
    BY <1>1
  <2>4. TakesHead(S, open, T, c, seen, d, o, n, t, e)
    BY <1>4, <1>5, <1>6, <1>8, <1>10, <2>1, <2>2, <2>3 DEF TakesHead
  <2>5. n \in Nat /\ InOrder(t) /\ e \in [seen \union {o} -> Nat]
    BY <2>4, HeadIsMet
  <2>6. \A x \in seen \union {o}, i \in DOMAIN t : e[x] <= Len(t[i][2])
    BY <2>4, HeadIsMet
  <2>7. \A x : \A k \in Nat : NearBy(d, open, x, k) => NearBy(e, t, x, k)
    BY <2>4, HeadIsMet
  <2>8. \A i \in DOMAIN c : NearBy(e, t, c[i][1], n + 1)
    BY <2>4, HeadIsMet
  <2> QED
    BY <2>5, <2>6, <2>7, <2>8
<1>12. o \notin seen /\ Owned(o) /\ ~Taken(o)
  BY <1>2 DEF Wanted
<1>13. e[o] = n /\ \A x \in seen : e[x] = d[x] /\ x # o
  BY <1>10, <1>12 DEF Met
<1>14. ASSUME NEW x \in seen', Walks(x), NEW m \in ToSet(Members(x))
       PROVE  NearBy(e, t, m[2], e[x] + 1)
  <2>1. CASE x \in seen
    <3>1. NearBy(d, open, m[2], d[x] + 1) /\ d[x] + 1 \in Nat
      BY <1>4, <1>14, <2>1 DEF Near
    <3> QED
      BY <1>11, <1>13, <2>1, <3>1
  <2>2. CASE x = o
    <3>1. Members(o) \in Seq(ToSet(Members(o)))
      BY <1>3 DEF PackageIsGraph
    <3>2. PICK i \in 1..Len(Members(o)) : m = Members(o)[i]
      BY <1>14, <2>2, <3>1, LenProperties DEF ToSet
    <3>3. Len(Members(o)) \in Nat
      BY <3>1, LenProperties
    <3>4. i \in DOMAIN c /\ c[i][1] = m[2]
      BY <1>1, <1>14, <2>2, <3>2, <3>3 DEF Children, Walks
    <3> QED
      BY <1>11, <1>13, <2>2, <3>4
  <2> QED
    BY <1>2, <2>1, <2>2
<1>15. ASSUME NEW x \in seen', Owned(x) PROVE Recorded(x, e[x])'
  <2>1. CASE x = o
    <3>1. Full[o] \in DOMAIN aliases' /\ path \in ToSet(aliases'[Full[o]])
      <4>1. Full[o] \in DOMAIN aliases'
        BY <1>1 DEF Visit, Keep
      <4> QED
        BY <1>1, <4>1, AliasesAfter
    <3>2. Len(path) <= n
      BY <1>1, <1>11
    <3> QED
      BY <1>13, <2>1, <3>1, <3>2 DEF Recorded, ToSet
  <2>2. CASE x \in seen
    <3>1. Recorded(x, d[x]) /\ e[x] = d[x]
      BY <1>4, <1>13, <1>15, <2>2 DEF Near
    <3>2. CASE Full[x] \in DOMAIN aliases /\ \E p \in ToSet(aliases[Full[x]]) : Len(p) <= d[x]
      <4>1. PICK p \in ToSet(aliases[Full[x]]) : Len(p) <= d[x]
        BY <3>2
      <4>2. Full[x] \in DOMAIN aliases'
        BY <3>2 DEF Visit, Keep, HomeInv
      <4>3. p \in ToSet(aliases'[Full[x]])
        BY <1>1, <3>2, <4>1, <4>2, AliasesAfter
      <4> QED
        BY <3>1, <4>1, <4>2, <4>3 DEF Recorded, ToSet
    <3>3. CASE Full[x] \notin DOMAIN obj /\ Taken(x)
      <4>1. PICK q \in DOMAIN obj : Equal(obj[q], x)
        BY <3>3 DEF Taken
      <4>2. obj[q] \in seen /\ Owned(obj[q]) /\ Full[obj[q]] = q /\ Full[x] # q
        BY <3>3, <4>1 DEF HomeInv, ScanInv
      <4>3. x \in Objects /\ obj[q] \in Objects
        <5>1. Closed(Objects)
          BY <1>2, ObjectsAreClosed DEF HomeInv, ScanInv
        <5> QED
          BY <2>2, <4>2, <5>1 DEF HomeInv, ScanInv
      <4>4. Equal(x, obj[q])
        BY <4>1 DEF Equal
      <4>5. q # Full[o]
        <5> SUFFICES ASSUME q = Full[o] PROVE FALSE
          OBVIOUS
        <5>1. Equal(o, obj[q])
          BY <1>3, <1>12, <1>15, <4>2, <4>3, <4>4 DEF StandInsStay
        <5> QED
          BY <1>12, <5>1 DEF Taken, Equal
      <4>6. Full[x] # Full[o]
        <5> SUFFICES ASSUME Full[x] = Full[o] PROVE FALSE
          OBVIOUS
        <5>1. Equal(o, x)
          BY <1>3, <1>12, <1>15, <4>1, <4>2, <4>3 DEF StandInsStay
        <5> QED
          BY <1>12, <4>1, <5>1 DEF Taken, Equal
      <4>7. q \in DOMAIN obj' /\ obj'[q] = obj[q] /\ Full[x] \notin DOMAIN obj'
        BY <1>2, <3>3, <4>5, <4>6
      <4> QED
        BY <4>1, <4>7 DEF Recorded, Taken
    <3> QED
      BY <3>1, <3>2, <3>3 DEF Recorded
  <2> QED
    BY <1>2, <2>1, <2>2
<1>16. NearBy(e, t, Root, 1)
  BY <1>4, <1>11 DEF Near
<1>17. e \in [seen' -> Nat]
  BY <1>2, <1>11
<1> QED
  BY <1>2, <1>9, <1>11, <1>14, <1>15, <1>16, <1>17, NearNext

\* An object that is passed and was not met is walked by no one.
LEMMA PassedIsNoWalker ==
  ASSUME WalkersAreThemselves, ScanInv, Broken \notin ToSet(Seeds),
         NEW o \in Objects, ~Wanted(o), o \notin seen
  PROVE  ~Walks(o)
<1> SUFFICES ASSUME Walks(o) PROVE FALSE
  OBVIOUS
<1>1. Owned(o)
  BY DEF Walks
<1>2. PICK q \in DOMAIN obj : Equal(obj[q], o)
  BY <1>1 DEF Wanted, Taken
<1>3. obj[q] \in seen /\ Owned(obj[q]) /\ obj[q] \in Objects
  <2>1. Closed(Objects)
    BY ObjectsAreClosed DEF ScanInv
  <2> QED
    BY <2>1 DEF ScanInv
<1>4. o = obj[q]
  BY <1>2, <1>3 DEF WalkersAreThemselves, Equal
<1> QED
  BY <1>3, <1>4

LEMMA PassIsNear ==
  ASSUME WalkersAreThemselves, HomeInv, NearInv, Pass, ~Shadowed, Shallow
  PROVE  NearInv'
<1>1. PICK o, n, c : o = Head(open)[1] /\ n = Len(Head(open)[2]) /\ c = <<>>
  OBVIOUS
<1>2. /\ Scanning /\ phase = "scan" /\ package' = package /\ open' = Tail(open)
      /\ ~Wanted(o) /\ seen' = seen \union {o} /\ UNCHANGED <<obj, aliases>>
  BY <1>1 DEF Pass, Scanning
<1>3. o \in Objects /\ ScanInv
  BY <1>1, <1>2, HeadIsAnObject DEF HomeInv
<1>4. PICK d \in [seen -> Nat] : Near(d)
  BY <1>2 DEF NearInv
<1>5. open # <<>>
  BY <1>2 DEF Scanning
<1>6. PICK S : open \in Seq(S)
  BY <1>3 DEF ScanInv
<1>7. PICK t : t = open'
  OBVIOUS
<1>8. PICK e : e = Met(d, seen, o, n)
  OBVIOUS
<1>9. c \in Seq({}) /\ DOMAIN c = {} /\ t = Tail(open) \o c
  <2>1. PICK h \in Seq(S) : h = Tail(open)
    BY <1>5, <1>6, HeadTailProperties
  <2> QED
    BY <1>1, <1>2, <1>7, <2>1, ConcatEmptySeq
<1>10. TakesHead(S, open, {}, c, seen, d, o, n, t, e)
  <2>1. InOrder(open) /\ \A x \in seen, i \in DOMAIN open : d[x] <= Len(open[i][2])
    BY <1>4 DEF Near
  <2>2. o = Head(open)[1] /\ n = Len(Head(open)[2])
    BY <1>1
  <2> QED
    BY <1>4, <1>5, <1>6, <1>8, <1>9, <2>1, <2>2 DEF TakesHead
<1>11. n \in Nat /\ InOrder(t) /\ e \in [seen \union {o} -> Nat]
  BY <1>10, HeadIsMet
<1>12. \A x \in seen \union {o}, i \in DOMAIN t : e[x] <= Len(t[i][2])
  BY <1>10, HeadIsMet
<1>13. \A x : \A k \in Nat : NearBy(d, open, x, k) => NearBy(e, t, x, k)
  BY <1>10, HeadIsMet
<1>14. e[o] <= n
  BY <1>10, HeadIsMet
<1>15. (\A x \in seen : e[x] = d[x]) /\ (o \notin seen => e[o] = n)
  BY <1>8 DEF Met
<1>16. Broken \notin ToSet(Seeds)
  BY <1>2, <1>3 DEF ScanInv
<1>17. ASSUME NEW x \in seen', Walks(x), NEW m \in ToSet(Members(x))
       PROVE  NearBy(e, t, m[2], e[x] + 1)
  <2>1. x \in seen
    BY <1>2, <1>3, <1>16, <1>17, PassedIsNoWalker
  <2>2. NearBy(d, open, m[2], d[x] + 1) /\ d[x] + 1 \in Nat
    BY <1>4, <1>17, <2>1 DEF Near
  <2> QED
    BY <1>13, <1>15, <2>1, <2>2
<1>18. ASSUME NEW x \in seen', Owned(x) PROVE Recorded(x, e[x])'
  <2>1. CASE x \in seen
    <3>1. Recorded(x, d[x]) /\ e[x] = d[x]
      BY <1>4, <1>15, <1>18, <2>1 DEF Near
    <3> QED
      BY <1>2, <3>1 DEF Recorded, Taken
  <2>2. CASE x = o /\ o \notin seen
    <3>1. Taken(o)
      BY <1>2, <1>18, <2>2 DEF Wanted
    <3>2. CASE Full[o] \in DOMAIN obj
      <4>1. PICK y \in seen : y = obj[Full[o]] /\ Owned(y) /\ Full[y] = Full[o]
        BY <1>3, <3>2 DEF ScanInv
      <4>2. Recorded(y, d[y])
        BY <1>4, <4>1 DEF Near
      <4>3. PICK p \in ToSet(aliases[Full[o]]) : Full[o] \in DOMAIN aliases /\ Len(p) <= d[y]
        BY <3>2, <4>1, <4>2 DEF Recorded
      <4>4. d[y] <= n
        <5>1. 1 \in DOMAIN open /\ Head(open) = open[1]
          BY <1>5, <1>6, EmptySeq, LenProperties
        <5> QED
          BY <1>1, <1>4, <4>1, <5>1 DEF Near
      <4>5. Len(p) <= n
        <5>1. IsPath(p)
          BY <4>3 DEF HomeInv
        <5>2. Len(p) \in Nat
          BY <5>1, LenProperties DEF IsPath
        <5>3. d[y] \in Nat
          BY <1>4, <4>1
        <5> QED
          BY <1>11, <4>3, <4>4, <5>2, <5>3
      <4> QED
        BY <1>2, <1>15, <2>2, <4>3, <4>5 DEF Recorded
    <3>3. CASE Full[o] \notin DOMAIN obj
      BY <1>2, <2>2, <3>1, <3>3 DEF Recorded, Taken
    <3> QED
      BY <3>2, <3>3
  <2> QED
    BY <1>2, <2>1, <2>2
<1>19. NearBy(e, t, Root, 1)
  BY <1>4, <1>13 DEF Near
<1>20. e \in [seen' -> Nat]
  BY <1>2, <1>11
<1> QED
  BY <1>2, <1>7, <1>11, <1>12, <1>17, <1>18, <1>19, <1>20, NearNext

LEMMA NearStays ==
  ASSUME NearInv, UNCHANGED <<package, open, seen, obj, aliases>>,
         phase' \notin {"start", "refused"} => phase \notin {"start", "refused"}
  PROVE  NearInv'
<1>1. (Shallow' <=> Shallow) /\ (Shadowed' <=> Shadowed)
  BY ShallowStays
<1> SUFFICES ASSUME ~Shadowed, Shallow, phase' \notin {"start", "refused"} PROVE NearInv'
  BY <1>1 DEF NearInv
<1>2. PICK d \in [seen -> Nat] : Near(d)
  BY DEF NearInv
<1>3. \A x \in seen : Owned(x) => Recorded(x, d[x])'
  BY <1>2 DEF Near, Recorded, Taken
<1> QED
  BY <1>2, <1>3, NearNext DEF Near

LEMMA NextNearInv ==
  ASSUME WalkersAreThemselves, StandInsStay, HomeInv, NearInv, [Next]_vars
  PROVE  NearInv'
<1>1. CASE GetCollector \/ Visit \/ Pass
  <2>1. package' = package
    BY <1>1 DEF GetCollector, Visit, Pass
  <2>2. CASE Shadowed \/ ~Shallow
    BY <2>1, <2>2, ShallowStays DEF NearInv
  <2>3. CASE ~Shadowed /\ Shallow
    BY <1>1, <2>3, CollectorIsNear, VisitIsNear, PassIsNear
  <2> QED
    BY <2>2, <2>3
<1>2. CASE \/ RefuseSubmodule \/ Select \/ WithoutExamples \/ RefuseExamples \/ StartExamples \/ KeepText \/ ShowOnly
           \/ Skip \/ Succeed \/ SucceedWithFigures \/ SaveFails \/ Fail \/ TokensFail \/ EndExamples \/ Finish
           \/ Stopped \/ UNCHANGED vars
  <2>1. /\ UNCHANGED <<package, open, seen, obj, aliases>>
        /\ phase' \notin {"start", "refused"} => phase \notin {"start", "refused"}
    BY <1>2 DEF RefuseSubmodule, Select, WithoutExamples, RefuseExamples, StartExamples, KeepText, ShowOnly, Skip, Succeed,
      SucceedWithFigures, SaveFails, Fail, TokensFail, EndExamples, Finish, Stopped, vars, scanVars
  <2> QED
    BY <2>1, NearStays
<1> QED
  BY <1>1, <1>2 DEF Next, Scan, ScanNext

\* Each path through the package's own modules and classes leads to an object that was
\* met at the end of no more keys.
LEMMA PathsAreNear ==
  ASSUME HomeInv, Scanned, NEW d \in [seen -> Nat], Near(d), NEW n \in Nat
  PROVE  \A p \in Paths[n] :
           IsPath(p) /\ Len(p) \in 1..(n + 1) /\ At(p) \in seen /\ d[At(p)] <= Len(p)
<1> DEFINE Well(p, k) == IsPath(p) /\ Len(p) \in 1..(k + 1) /\ At(p) \in seen /\ d[At(p)] <= Len(p)
           T == {k \in 0..n : \A p \in Paths[k] : Well(p, k)}
<1>1. PackageIsGraph /\ KeysAreUnique /\ seen \subseteq Objects
  <2>1. Broken \notin ToSet(Seeds) /\ Closed(Objects)
    BY ObjectsAreClosed DEF HomeInv, ScanInv, Scanned
  <2> QED
    BY <2>1 DEF HomeInv, ScanInv
<1>2. \A x : \A k \in Nat : NearBy(d, open, x, k) => x \in seen /\ d[x] <= k
  <2>1. DOMAIN open = {} /\ DOMAIN d = seen
    BY DEF HomeInv, ScanInv
  <2> QED
    BY <2>1 DEF NearBy
<1>3. 0 \in T
  <2>1. Root \in seen /\ d[Root] <= 1
    BY <1>2 DEF Near
  <2>2. Well(RootName, 0)
    BY <1>1, <2>1, RootIsAt
  <2>3. 0 \in 0..n
    OBVIOUS
  <2> HIDE DEF Well
  <2>4. \A p \in Paths[0] : Well(p, 0)
    BY <2>2, PathsIs
  <2> QED
    BY <2>3, <2>4
<1>4. ASSUME NEW k \in 0..n, k < n, k \in T PROVE k + 1 \in T
  <2> SUFFICES ASSUME NEW p \in Paths[k + 1] PROVE Well(p, k + 1)
    BY <1>4
  <2>1. k \in Nat /\ \A q \in Paths[k] : Well(q, k)
    BY <1>4
  <2> HIDE DEF T
  <2>2. p \in Longer(Paths[k])
    BY <2>1, PathsIs
  <2>3. CASE p \in Paths[k]
    BY <2>1, <2>3
  <2>4. ASSUME NEW q \in Paths[k], Walks(At(q)), NEW m \in ToSet(Members(At(q))), p = Append(q, m[1])
        PROVE  Well(p, k + 1)
    <3>1. PICK j \in 1..(k + 1) : j = Len(q)
      BY <2>1
    <3>2. IsPath(q) /\ At(q) \in seen /\ At(q) \in Objects /\ d[At(q)] <= j
      BY <1>1, <2>1, <3>1
    <3>3. IsPath(p) /\ Len(p) = j + 1 /\ At(p) = m[2]
      BY <1>1, <2>4, <3>1, <3>2, AtStep
    <3>4. PICK x \in Nat : x = d[At(q)]
      BY <3>2
    <3>5. NearBy(d, open, m[2], x + 1)
      BY <2>4, <3>2, <3>4 DEF Near
    <3>6. m[2] \in seen /\ d[m[2]] <= x + 1
      BY <1>2, <3>4, <3>5
    <3>7. PICK y \in Nat : y = d[m[2]]
      BY <3>6
    <3>8. y <= j + 1
      BY <3>2, <3>4, <3>6, <3>7
    <3>9. j + 1 \in 1..((k + 1) + 1)
      BY <2>1
    <3> QED
      BY <3>3, <3>6, <3>7, <3>8, <3>9
  <2> QED
    BY <2>2, <2>3, <2>4 DEF Longer
<1>5. n \in T
  <2> HIDE DEF T
  <2>1. n \in 0..n
    OBVIOUS
  <2> QED
    BY <1>3, <1>4, <2>1, UpToAll
<1> QED
  BY <1>5

\* find_canonical chooses one of the paths, one that no other is shorter than.
LEMMA CanonicalIs ==
  ASSUME NEW s, s \in Seq(ToSet(s)), \A p \in ToSet(s) : Len(p) \in Nat \ {0},
         NEW q, QualLevel(q) \in Int, HasCanonical(q, s)
  PROVE  LET a == Head(Candidates(q, s))
         IN  a \in ToSet(s) /\ ~IsName(a, q) /\ \A p \in ToSet(s) : Len(a) <= Len(p)
<1> DEFINE L == {Level(p) : p \in ToSet(s)}
           least == CHOOSE n \in L : \A p \in ToSet(s) : n <= Level(p)
           bound == IF least < QualLevel(q) THEN least ELSE QualLevel(q)
           X == {p \in ToSet(s) : Level(p) <= bound}
<1>1. Candidates(q, s) = Within(s, X)
  BY DEF Candidates
<1>2. Len(Candidates(q, s)) = 1 /\ ~IsName(Head(Candidates(q, s)), q) /\ L # {}
  BY DEF HasCanonical, ToSet
<1>3. \A p \in ToSet(s) : Level(p) \in Nat /\ Level(p) = Len(p) - 1
  BY DEF Level
<1>4. least \in L /\ \A p \in ToSet(s) : least <= Level(p)
  <2>1. \E n \in L : \A j \in L : n <= j
    <3>1. L \subseteq Nat
      BY <1>3
    <3> HIDE DEF L
    <3> QED
      BY <1>2, <3>1, LeastOf
  <2>2. \E n \in L : \A p \in ToSet(s) : n <= Level(p)
    BY <2>1
  <2> QED
    BY <2>2
<1>5. least \in Nat
  BY <1>3, <1>4
<1> HIDE DEF least
<1>6. bound <= least /\ bound \in Int
  BY <1>5
<1> HIDE DEF bound
<1>7. Candidates(q, s) # <<>> /\ Candidates(q, s) \in Seq(ToSet(s) \intersect X)
  <2>1. Len(<<>>) = 0
    OBVIOUS
  <2> HIDE DEF X
  <2> QED
    BY <1>1, <1>2, <2>1, WithinHolds
<1>8. PICK a : a = Head(Candidates(q, s))
  OBVIOUS
<1>9. a \in ToSet(s) \intersect X
  <2> HIDE DEF X
  <2> QED
    BY <1>7, <1>8, HeadTailProperties
<1>10. a \in ToSet(s) /\ Level(a) <= bound
  BY <1>9
<1>11. ASSUME NEW p \in ToSet(s) PROVE Len(a) <= Len(p)
  <2>1. PICK x \in Nat, y \in Nat : x = Len(a) /\ y = Len(p)
    BY <1>10
  <2>2. x - 1 <= bound /\ least <= y - 1
    BY <1>3, <1>4, <1>10, <2>1
  <2>3. x - 1 <= y - 1
    BY <1>5, <1>6, <2>2
  <2> QED
    BY <2>1, <2>3
<1> QED
  BY <1>2, <1>8, <1>10, <1>11

LEMMA NamesAreShortest ==
  ASSUME HomeInv, NearInv
  PROVE  CanonicalNameLeadsHome
<1> SUFFICES ASSUME Scanned, ~Shadowed, NEW q \in DOMAIN canonical
             PROVE  /\ At(canonical[q]) # Broken /\ Full[At(canonical[q])] = q
                    /\ \/ \E i \in DOMAIN package.submodules : Len(package.submodules[i]) > 1
                       \/ \A p \in Paths[Len(canonical[q]) - 2] : At(p) = Broken \/ Full[At(p)] # q
  BY DEF CanonicalNameLeadsHome
<1>1. PICK a, s : a = canonical[q] /\ s = aliases[q]
  OBVIOUS
<1>2. q \in DOMAIN aliases /\ HasCanonical(q, s) /\ a = Head(Candidates(q, s))
  BY <1>1 DEF HomeInv, Canonical
<1>3. \A p \in ToSet(s) : IsPath(p) /\ At(p) \in Objects /\ Full[At(p)] = q
  BY <1>1, <1>2 DEF HomeInv
<1>4. \A p \in ToSet(s) : Len(p) \in Nat \ {0}
  BY <1>3, EmptySeq, LenProperties DEF IsPath
<1>5. /\ q \in DOMAIN obj /\ obj[q] \in seen /\ Owned(obj[q]) /\ Full[obj[q]] = q
      /\ seen \subseteq Objects
  <2>1. Closed(Objects)
    BY ObjectsAreClosed DEF HomeInv, ScanInv, Scanned
  <2> QED
    BY <1>2, <2>1 DEF HomeInv, ScanInv
<1>6. QualLevel(q) \in Int
  <2>1. q \in [module : Seq(STRING), name : Seq(STRING)]
    BY <1>5, ObjectsAreNamed DEF Objects
  <2>2. Len(q.module) \in Nat /\ Len(q.name) \in Nat
    BY <2>1
  <2> QED
    BY <2>2 DEF QualLevel
<1>7. s \in Seq(ToSet(s))
  BY <1>1, <1>2 DEF HomeInv
<1>8. a \in ToSet(s) /\ ~IsName(a, q) /\ \A p \in ToSet(s) : Len(a) <= Len(p)
  BY <1>2, <1>4, <1>6, <1>7, CanonicalIs
<1>9. At(a) # Broken /\ Full[At(a)] = q
  BY <1>3, <1>8, ObjectsAreNamed DEF Objects
<1>10. ASSUME Shallow, NEW p \in Paths[Len(a) - 2], Full[At(p)] = q PROVE FALSE
  <2>1. PICK m \in Nat : m = Len(a) /\ m # 0
    BY <1>4, <1>8
  <2>2. m # 1
    <3> SUFFICES ASSUME m = 1 PROVE FALSE
      OBVIOUS
    <3>1. a \in Seq(ToSet(a)) /\ Head(a) = Head(RootName) /\ Len(a) = 1
      BY <1>3, <1>8, <2>1 DEF IsPath
    <3>2. a = <<Head(a)>>
      BY <3>1
    <3>3. a = RootName
      BY <3>1, <3>2, RootIsAt
    <3>4. q = [module |-> RootName, name |-> <<>>]
      BY <1>9, <3>3, RootIsAt DEF HomeInv, ScanInv
    <3> QED
      BY <1>8, <3>3, <3>4 DEF IsName
  <2>3. PICK n \in Nat : n = m - 2 /\ n + 1 = m - 1
    <3>1. m - 2 \in Nat /\ (m - 2) + 1 = m - 1
      BY <2>1, <2>2
    <3> QED
      BY <3>1
  <2>4. PICK d \in [seen -> Nat] : Near(d)
    BY <1>10 DEF NearInv, Scanned
  <2>5. IsPath(p) /\ Len(p) \in 1..(n + 1) /\ At(p) \in seen /\ d[At(p)] <= Len(p)
    BY <1>10, <2>1, <2>3, <2>4, PathsAreNear
  <2>6. PICK x \in seen : x = At(p) /\ Full[x] = q
    BY <1>10, <2>5
  <2>7. Owned(x)
    BY <1>5, <2>6 DEF Owned
  <2>8. Recorded(x, d[x])
    BY <2>4, <2>7 DEF Near
  <2>9. PICK r \in ToSet(s) : Len(r) <= d[x]
    BY <1>1, <1>5, <2>6, <2>8 DEF Recorded
  <2>10. PICK u \in Nat, v \in Nat, w \in Nat : u = Len(r) /\ v = d[x] /\ w = Len(p)
    BY <1>4, <2>4, <2>5, <2>9
  <2>11. m <= u /\ u <= v /\ v <= w /\ w <= n + 1
    BY <1>8, <2>1, <2>5, <2>6, <2>9, <2>10
  <2> QED
    BY <2>1, <2>3, <2>10, <2>11
<1>11. Shallow \/ \E i \in DOMAIN package.submodules : Len(package.submodules[i]) > 1
  <2>1. DOMAIN package.submodules = 1..Len(package.submodules)
    BY LenProperties DEF HomeInv, ScanInv, PackageIsGraph
  <2> QED
    BY <2>1 DEF Shallow
<1> QED
  BY <1>1, <1>9, <1>10, <1>11

\* The name that papyri.json gives an object is a path to an object of its qualified name,
\* and no shorter path through the package leads to one, as DFSCollector walks breadth
\* first and find_canonical takes the shortest alias.  The graph may be of any size and
\* have cycles.  Assumed of it: dir() lists a key once, a configured submodule that is a
\* module has the name it is configured by, and what == confuses is as in TheScanIsComplete.
THEOREM NamesLeadHome ==
  WalkersAreThemselves /\ StandInsStay =>
    (PackageIsGraph /\ KeysAreUnique /\ SubmodulesAtTheirNames /\ Spec => []CanonicalNameLeadsHome)
<1> SUFFICES ASSUME WalkersAreThemselves, StandInsStay
             PROVE  PackageIsGraph /\ KeysAreUnique /\ SubmodulesAtTheirNames /\ Spec =>
                      []CanonicalNameLeadsHome
  OBVIOUS
<1>1. PackageIsGraph /\ KeysAreUnique /\ SubmodulesAtTheirNames /\ Init => HomeInv /\ NearInv
  <2> SUFFICES ASSUME PackageIsGraph, KeysAreUnique, SubmodulesAtTheirNames, Init PROVE HomeInv /\ NearInv
    OBVIOUS
  <2>1. ScanInv
    BY InitScanInv
  <2>2. phase = "start" /\ open = <<>> /\ obj = <<>> /\ aliases = <<>>
    BY DEF Init, ScanInit
  <2>3. HomeInv
    <3>1. DOMAIN <<>> = {}
      OBVIOUS
    <3> QED
      BY <2>1, <2>2, <3>1 DEF HomeInv, Scanned
  <2> QED
    BY <2>2, <2>3 DEF NearInv
<1>2. HomeInv /\ NearInv /\ [Next]_vars => (HomeInv /\ NearInv)'
  BY NextHomeInv, NextNearInv
<1>3. HomeInv /\ NearInv => CanonicalNameLeadsHome
  BY NamesAreShortest
<1> QED
  BY <1>1, <1>2, <1>3, PTL DEF Spec
=============================================================================
