---------------------------- MODULE DocTreeProofs ----------------------------
(***************************************************************************)
(* The tree of pages that `papyri gen' writes, for every library of pages  *)
(* and toctrees, cyclic and malformed ones included: `papyri pack' takes   *)
(* it, it is the listing of the pages unfolded from the root, and a        *)
(* library that packs with --strict is reached from the root throughout.   *)
(***************************************************************************)
EXTENDS DocTree, SequenceTheorems, FiniteSetTheorems, WellFoundedInduction, TLAPS

\* The pages that are listed are the pages that are written, and the tree is
\* begun when all have been visited.
PagesInv ==
  /\ Listed = Written /\ Listed \subseteq Range(Pages)
  /\ seen \in Nat /\ seen <= Len(Pages)
  /\ seen < Len(Pages) => path = <<>> /\ toc = <<>>

\* The calls of _tree in progress, and the nodes made so far, are of pages listed.
NodesInv ==
  /\ path \in Seq(Listed)
  /\ toc \in Seq(Seq(Listed)) /\ \A i \in DOMAIN toc : toc[i] # <<>>

TocInv == PagesInv /\ NodesInv /\ TocPassesPack

\* The first page of a set of pages is one of them.
LEMMA FirstIsOne ==
  ASSUME NEW S, S \subseteq Range(Pages), S # {}
  PROVE  First(S) \in S
<1> DEFINE T == {i \in DOMAIN Pages : Pages[i] \in S}
<1>1. DOMAIN Pages = 1..Len(Pages) /\ Len(Pages) \in Nat
  BY PagesAssumption
<1>2. T \subseteq Nat /\ T # {}
  BY <1>1 DEF Range
<1>3. PICK i \in T : \A j \in T : ~(<<j, i>> \in OpToRel(<, Nat))
  BY <1>2, NatLessThanWellFounded, WFMin
<1>4. \A j \in T : ~(j < i)
  BY <1>2, <1>3 DEF OpToRel
<1>5. i \in DOMAIN Pages /\ Pages[i] \in S /\ \A j \in 1..(i - 1) : Pages[j] \notin S
  BY <1>1, <1>4
<1> QED
  BY <1>5 DEF First

\* The root is a page (toc.py, make_tree).
LEMMA RootIsListed ==
  ASSUME Listed \subseteq Range(Pages), Listed # {}
  PROVE  Root \in Listed
<1>1. CASE <<Index>> \in Listed
  BY <1>1 DEF Root
<1>2. CASE <<Index>> \notin Listed /\ Listed \ ReferredTo # {}
  <2>1. First(Listed \ ReferredTo) \in Listed \ ReferredTo
    BY <1>2, FirstIsOne
  <2> QED
    BY <1>2, <2>1 DEF Root
<1>3. CASE <<Index>> \notin Listed /\ Listed \ ReferredTo = {}
  BY <1>3, FirstIsOne DEF Root
<1> QED
  BY <1>1, <1>2, <1>3

\* A path with one more page.
LEMMA LongerPath ==
  ASSUME NEW S, NEW p \in Seq(S), NEW k \in S
  PROVE  Append(p, k) \in Seq(S) /\ Append(p, k) # <<>>
BY AppendProperties

LEMMA LongerToc ==
  ASSUME NEW S, NEW t \in Seq(Seq(S)), NEW p \in Seq(S), p # <<>>,
         \A i \in DOMAIN t : t[i] # <<>>
  PROVE  /\ Append(t, p) \in Seq(Seq(S))
         /\ \A i \in DOMAIN Append(t, p) : Append(t, p)[i] # <<>>
<1>1. /\ Append(t, p) \in Seq(Seq(S)) /\ Len(Append(t, p)) = Len(t) + 1
      /\ \A i \in 1..Len(t) : Append(t, p)[i] = t[i]
      /\ Append(t, p)[Len(t) + 1] = p
  BY AppendProperties
<1> QED
  BY <1>1

LEMMA InitTocInv == Init => TocInv
<1> SUFFICES ASSUME Init PROVE TocInv
  OBVIOUS
<1>1. Listed = {} /\ Written = {} /\ seen = 0 /\ path = <<>> /\ toc = <<>> /\ outcome = "none"
  BY DEF Init, Listed, Written
<1>2. Len(Pages) \in Nat
  BY PagesAssumption
<1> QED
  BY <1>1, <1>2 DEF TocInv, PagesInv, NodesInv, TocPassesPack

\* Steps that visit no page and make no node.
LEMMA PagesStay ==
  ASSUME TocInv, UNCHANGED <<seen, trees, links, path, toc>>, outcome' # "toc refused"
  PROVE  TocInv'
BY DEF TocInv, PagesInv, NodesInv, TocPassesPack, Listed, Written

LEMMA VisitKeeps == TocInv /\ VisitPage => TocInv'
<1> SUFFICES ASSUME TocInv, VisitPage PROVE TocInv'
  OBVIOUS
<1> DEFINE k == Pages[seen + 1]
<1>1. seen < Len(Pages) /\ seen' = seen + 1 /\ UNCHANGED <<path, toc, outcome>>
  BY DEF VisitPage
<1>2. k \in Range(Pages) /\ Len(Pages) \in Nat
  BY <1>1, PagesAssumption DEF Range, TocInv, PagesInv
<1>3. Listed' \in {Listed, Listed \cup {k}} /\ Written' = Listed'
  BY DEF VisitPage, Extend, TocInv, PagesInv, Listed, Written
<1>4. PagesInv'
  BY <1>1, <1>2, <1>3 DEF TocInv, PagesInv
<1>5. NodesInv'
  BY <1>1 DEF TocInv, PagesInv, NodesInv
<1> QED
  BY <1>1, <1>4, <1>5 DEF TocInv, TocPassesPack

LEMMA StartKeeps == TocInv /\ StartTree => TocInv'
<1> SUFFICES ASSUME TocInv, StartTree PROVE TocInv'
  OBVIOUS
<1>1. /\ path' = <<Root>> /\ toc' = <<path'>> /\ seen = Len(Pages)
      /\ UNCHANGED <<seen, trees, links, outcome>> /\ Listed # {}
  BY DEF StartTree
<1>2. Root \in Listed
  BY <1>1, RootIsListed DEF TocInv, PagesInv
<1>3. Listed' = Listed /\ Written' = Written
  BY <1>1 DEF Listed, Written
<1>4. NodesInv'
  BY <1>1, <1>2, <1>3 DEF NodesInv
<1>5. PagesInv'
  BY <1>1, <1>3, PagesAssumption DEF TocInv, PagesInv
<1> QED
  BY <1>1, <1>4, <1>5 DEF TocInv, TocPassesPack

LEMMA DescendKeeps == TocInv /\ Descend => TocInv'
<1> SUFFICES ASSUME TocInv, Descend PROVE TocInv'
  OBVIOUS
<1> DEFINE k == Resolve(Current, Line)
<1>1. /\ k \in Listed /\ path' = Append(path, k) /\ toc' = Append(toc, path')
      /\ UNCHANGED <<seen, trees, links, outcome>> /\ path # <<>>
  BY DEF Descend, Lists, Looking
<1>2. Listed' = Listed /\ Written' = Written
  BY <1>1 DEF Listed, Written
<1>3. path' \in Seq(Listed) /\ path' # <<>>
  BY <1>1, LongerPath DEF TocInv, NodesInv
<1>4. toc' \in Seq(Seq(Listed)) /\ \A i \in DOMAIN toc' : toc'[i] # <<>>
  BY <1>1, <1>3, LongerToc DEF TocInv, NodesInv
<1>5. PagesInv' /\ NodesInv'
  BY <1>1, <1>2, <1>3, <1>4 DEF TocInv, PagesInv, NodesInv
<1> QED
  BY <1>1, <1>5 DEF TocInv, TocPassesPack

LEMMA ReturnKeeps == TocInv /\ Return => TocInv'
<1> SUFFICES ASSUME TocInv, Return PROVE TocInv'
  OBVIOUS
<1>1. /\ path # <<>> /\ path' = SubSeq(path, 1, Len(path) - 1)
      /\ UNCHANGED <<seen, trees, links, toc, outcome>>
  BY DEF Return, Front
<1>2. path' \in Seq(Listed)
  BY <1>1, SubSeqProperties DEF TocInv, NodesInv
<1>3. PagesInv' /\ NodesInv'
  BY <1>1, <1>2 DEF TocInv, PagesInv, NodesInv, Listed, Written
<1> QED
  BY <1>1, <1>3 DEF TocInv, TocPassesPack

\* pack finds a document for every entry (pack.py, _check_toc_refs).
LEMMA PackAccepts ==
  ASSUME TocInv
  PROVE  TocEntries \subseteq Written
<1> SUFFICES ASSUME NEW i \in DOMAIN toc PROVE Last(toc[i]) \in Written
  BY DEF TocEntries, Range
<1>1. toc[i] \in Seq(Listed) /\ toc[i] # <<>>
  BY DEF TocInv, NodesInv
<1>2. toc[i][Len(toc[i])] \in Listed
  BY <1>1
<1> QED
  BY <1>2 DEF TocInv, PagesInv, Last

LEMMA NextTocInv == TocInv /\ [Next]_vars => TocInv'
<1> SUFFICES ASSUME TocInv, [Next]_vars PROVE TocInv'
  OBVIOUS
<1>1. CASE VisitPage
  BY <1>1, VisitKeeps
<1>2. CASE StartTree
  BY <1>2, StartKeeps
<1>3. CASE SkipLine
  BY <1>3, PagesStay DEF SkipLine, TocInv, TocPassesPack
<1>4. CASE AssertFails \/ TooDeep
  BY <1>4, PagesStay DEF AssertFails, TooDeep
<1>5. CASE Descend
  BY <1>5, DescendKeeps
<1>6. CASE Return
  BY <1>6, ReturnKeeps
<1>7. ASSUME NEW strict \in BOOLEAN, Pack(strict)
      PROVE  TocInv'
  <2>1. outcome' # "toc refused"
    BY <1>7, PackAccepts DEF Pack
  <2> QED
    BY <1>7, <2>1, PagesStay DEF Pack
<1>8. CASE UNCHANGED vars
  BY <1>8, PagesStay DEF vars, TocInv, TocPassesPack
<1> QED
  BY <1>1, <1>2, <1>3, <1>4, <1>5, <1>6, <1>7, <1>8 DEF Next

\* The tree that gen writes has no entry without a document, whatever the
\* pages hold and whichever of them fail to validate (gen.py:1214: the lines
\* of a page are registered once it has validated; toc.py:91, 109: only such
\* pages become nodes).
THEOREM TocIsAccepted == Spec => []TocPassesPack
<1>1. TocInv => TocPassesPack
  BY DEF TocInv
<1> QED
  BY <1>1, InitTocInv, NextTocInv, PTL DEF Spec

-----------------------------------------------------------------------------
(* Recursive functions over the numbers up to n.                            *)

LEMMA LeastOf ==
  ASSUME NEW S, S \subseteq Nat, S # {}
  PROVE  \E i \in S : \A j \in S : i <= j
<1>1. PICK i \in S : \A j \in S : ~(<<j, i>> \in OpToRel(<, Nat))
  BY NatLessThanWellFounded, WFMin
<1>2. \A j \in S : ~(j < i)
  BY <1>1 DEF OpToRel
<1> QED
  BY <1>2

\* A set of numbers that holds 0 and with each number the next holds all up to n.
LEMMA UpToAll ==
  ASSUME NEW n \in Nat, NEW T, 0 \in T, \A j \in 0..n : j < n /\ j \in T => j + 1 \in T
  PROVE  \A j \in 0..n : j \in T
<1> DEFINE U == {j \in 0..n : j \notin T}
<1> SUFFICES ASSUME U # {} PROVE FALSE
  OBVIOUS
<1>1. U \subseteq Nat
  OBVIOUS
<1>2. PICK k \in U : \A j \in U : k <= j
  <2> HIDE DEF U
  <2> QED
    BY <1>1, LeastOf
<1>3. k \in 1..n /\ k \notin T
  OBVIOUS
<1>4. k - 1 \in 0..n /\ k - 1 < n /\ (k - 1) + 1 = k /\ ~(k <= k - 1)
  BY <1>3
<1>5. k - 1 \in T
  BY <1>2, <1>4
<1> QED
  BY <1>3, <1>4, <1>5

\* f follows step from base on, for the first n numbers.
Follows(f, base, step, n) ==
  f[0] = base /\ \A k \in 1..n : f[k] = step[<<k, f[k - 1]>>]

\* What a step takes from values of S to values of S can be done n times.
LEMMA SomeFollows ==
  ASSUME NEW S, NEW n \in Nat, NEW base \in S, NEW step \in [(1..n) \X S -> S]
  PROVE  \E f \in [0..n -> S] : Follows(f, base, step, n)
<1> DEFINE T == {m \in 0..n : \E f \in [0..n -> S] : Follows(f, base, step, m)}
<1>1. 0 \in T
  <2>1. Follows([k \in 0..n |-> base], base, step, 0)
    BY DEF Follows
  <2> QED
    BY <2>1
<1>2. ASSUME NEW j \in 0..n, j < n, j \in T PROVE j + 1 \in T
  <2>1. PICK f \in [0..n -> S] : Follows(f, base, step, j)
    BY <1>2
  <2>2. j + 1 \in 1..n /\ f[j] \in S
    BY <1>2
  <2>3. PICK x : x = step[<<j + 1, f[j]>>]
    OBVIOUS
  <2>4. x \in S
    BY <2>2, <2>3
  <2>5. PICK g : g = [f EXCEPT ![j + 1] = x]
    OBVIOUS
  <2>6. g \in [0..n -> S] /\ g[j + 1] = x /\ \A k \in 0..n : k # j + 1 => g[k] = f[k]
    BY <2>2, <2>4, <2>5
  <2>7. g[0] = base
    BY <1>2, <2>1, <2>6 DEF Follows
  <2>8. ASSUME NEW k \in 1..(j + 1) PROVE g[k] = step[<<k, g[k - 1]>>]
    <3>1. CASE k = j + 1
      <4>1. k - 1 = j /\ g[j] = f[j]
        BY <2>6, <3>1
      <4> QED
        BY <2>3, <2>6, <3>1, <4>1
    <3>2. CASE k # j + 1
      <4>1. k \in 1..j /\ k - 1 \in 0..n /\ k \in 0..n /\ k - 1 # j + 1
        BY <1>2, <3>2
      <4> QED
        BY <2>1, <2>6, <3>2, <4>1 DEF Follows
    <3> QED
      BY <3>1, <3>2
  <2>9. Follows(g, base, step, j + 1)
    BY <2>7, <2>8 DEF Follows
  <2> QED
    BY <2>2, <2>6, <2>9
<1>3. n \in T
  <2> HIDE DEF T
  <2>1. n \in 0..n
    OBVIOUS
  <2> QED
    BY <1>1, <1>2, <2>1, UpToAll
<1> QED
  BY <1>3

-----------------------------------------------------------------------------
(* Parts of paths.                                                          *)

LEMMA PathParts ==
  ASSUME NEW S, NEW p \in Seq(S), p # <<>>
  PROVE  /\ Len(p) \in Nat \ {0} /\ Last(p) = p[Len(p)] /\ Last(p) \in S
         /\ Front(p) \in Seq(S) /\ Len(Front(p)) = Len(p) - 1
         /\ \A i \in 1..(Len(p) - 1) : Front(p)[i] = p[i]
<1>1. Len(p) \in Nat \ {0}
  BY EmptySeq
<1>2. Front(p) = SubSeq(p, 1, Len(p) - 1)
  BY DEF Front
<1>3. \A i \in 1..(Len(p) - 1) : p[i] \in S
  BY <1>1, ElementOfSeq
<1>4. Len(p) - 1 \in Int
  BY <1>1
<1>5. /\ Front(p) \in Seq(S)
      /\ Len(Front(p)) = IF 1 <= Len(p) - 1 THEN Len(p) - 1 - 1 + 1 ELSE 0
      /\ \A i \in 1..(Len(p) - 1 - 1 + 1) : Front(p)[i] = p[1 + i - 1]
  BY <1>2, <1>3, <1>4, SubSeqProperties
<1>6. Last(p) = p[Len(p)] /\ Last(p) \in S
  BY <1>1, ElementOfSeq DEF Last
<1>7. Len(Front(p)) = Len(p) - 1
  <2>1. PICK n \in Nat : n = Len(p) - 1
    BY <1>1
  <2>2. (IF 1 <= n THEN n - 1 + 1 ELSE 0) = n
    OBVIOUS
  <2>3. Len(Front(p)) = IF 1 <= n THEN n - 1 + 1 ELSE 0
    BY <1>5, <2>1
  <2> QED
    BY <2>1, <2>2, <2>3
<1>8. ASSUME NEW i \in 1..(Len(p) - 1) PROVE Front(p)[i] = p[i]
  <2>1. i \in 1..(Len(p) - 1 - 1 + 1) /\ 1 + i - 1 = i
    BY <1>1
  <2> QED
    BY <1>5, <2>1
<1> QED
  BY <1>1, <1>5, <1>6, <1>7, <1>8

LEMMA HeadsOf ==
  ASSUME NEW S, NEW p \in Seq(S), NEW i \in 0..Len(p)
  PROVE  /\ SubSeq(p, 1, i) \in Seq(S) /\ Len(SubSeq(p, 1, i)) = i
         /\ \A j \in 1..i : SubSeq(p, 1, i)[j] = p[j]
<1>1. Len(p) \in Nat /\ i \in Int
  BY LenProperties
<1>2. \A j \in 1..i : p[j] \in S
  BY <1>1, ElementOfSeq
<1> QED
  BY <1>1, <1>2, SubSeqProperties

LEMMA HeadOfAll ==
  ASSUME NEW S, NEW p \in Seq(S)
  PROVE  SubSeq(p, 1, Len(p)) = p
BY SubSeqFull

LEMMA HeadsOfAppend ==
  ASSUME NEW S, NEW p \in Seq(S), NEW x \in S
  PROVE  /\ SubSeq(Append(p, x), 1, Len(p) + 1) = Append(p, x)
         /\ \A i \in 1..Len(p) : SubSeq(Append(p, x), 1, i) = SubSeq(p, 1, i)
<1>1. /\ Append(p, x) \in Seq(S) /\ Len(Append(p, x)) = Len(p) + 1
      /\ \A i \in 1..Len(p) : Append(p, x)[i] = p[i]
  BY AppendProperties
<1>2. SubSeq(Append(p, x), 1, Len(p) + 1) = Append(p, x)
  BY <1>1, HeadOfAll
<1>3. ASSUME NEW i \in 1..Len(p)
      PROVE  SubSeq(Append(p, x), 1, i) = SubSeq(p, 1, i)
  <2>1. i \in 0..Len(p) /\ i \in 0..Len(Append(p, x))
    BY <1>1, LenProperties
  <2>2. PICK s : s = SubSeq(p, 1, i)
    OBVIOUS
  <2>3. PICK t : t = SubSeq(Append(p, x), 1, i)
    OBVIOUS
  <2>4. s \in Seq(S) /\ Len(s) = i /\ \A j \in 1..i : s[j] = p[j]
    BY <2>1, <2>2, HeadsOf
  <2>5. t \in Seq(S) /\ Len(t) = i /\ \A j \in 1..i : t[j] = Append(p, x)[j]
    BY <1>1, <2>1, <2>3, HeadsOf
  <2>6. \A j \in 1..i : t[j] = s[j]
    BY <1>1, <2>4, <2>5
  <2>7. t = s
    BY <2>4, <2>5, <2>6, SeqEqual
  <2> QED
    BY <2>2, <2>3, <2>7
<1> QED
  BY <1>2, <1>3

LEMMA HeadsOfFront ==
  ASSUME NEW S, NEW p \in Seq(S), p # <<>>
  PROVE  \A i \in 1..(Len(p) - 1) : SubSeq(Front(p), 1, i) = SubSeq(p, 1, i)
<1> SUFFICES ASSUME NEW i \in 1..(Len(p) - 1)
             PROVE  SubSeq(Front(p), 1, i) = SubSeq(p, 1, i)
  OBVIOUS
<1>1. PICK f : f = Front(p)
  OBVIOUS
<1>2. /\ f \in Seq(S) /\ Len(f) = Len(p) - 1 /\ Len(p) \in Nat
      /\ \A j \in 1..(Len(p) - 1) : f[j] = p[j]
  BY <1>1, PathParts
<1>3. PICK s : s = SubSeq(p, 1, i)
  OBVIOUS
<1>4. PICK t : t = SubSeq(f, 1, i)
  OBVIOUS
<1>5. s \in Seq(S) /\ Len(s) = i /\ \A j \in 1..i : s[j] = p[j]
  BY <1>2, <1>3, HeadsOf
<1>6. t \in Seq(S) /\ Len(t) = i /\ \A j \in 1..i : t[j] = f[j]
  BY <1>2, <1>4, HeadsOf
<1>7. \A j \in 1..i : t[j] = s[j]
  BY <1>2, <1>5, <1>6
<1>8. t = s
  BY <1>5, <1>6, <1>7, SeqEqual
<1> QED
  BY <1>1, <1>3, <1>4, <1>8

LEMMA EndOfAppend ==
  ASSUME NEW S, NEW p \in Seq(S), NEW x \in S
  PROVE  /\ Append(p, x) \in Seq(S) /\ Append(p, x) # <<>>
         /\ Front(Append(p, x)) = p /\ Last(Append(p, x)) = x
<1>1. /\ Append(p, x) \in Seq(S) /\ Len(Append(p, x)) = Len(p) + 1
      /\ Append(p, x)[Len(p) + 1] = x /\ Append(p, x) # <<>> /\ Len(p) \in Nat
  BY AppendProperties
<1>2. Front(Append(p, x)) = SubSeq(Append(p, x), 1, Len(p))
  BY <1>1 DEF Front
<1>3. SubSeq(Append(p, x), 1, Len(p)) = p
  <2>1. CASE Len(p) = 0
    <3>1. p = <<>>
      BY <2>1, EmptySeq
    <3> QED
      BY <2>1, <3>1, SubSeqEmpty
  <2>2. CASE Len(p) # 0
    <3>1. Len(p) \in 1..Len(p)
      BY <1>1, <2>2
    <3> QED
      BY <3>1, HeadsOfAppend, HeadOfAll
  <2> QED
    BY <2>1, <2>2
<1> QED
  BY <1>1, <1>2, <1>3 DEF Last

-----------------------------------------------------------------------------
(* Lines, and what they mean.                                               *)

LEMMA KeptAreEntries ==
  ASSUME NEW t \in Toctree
  PROVE  Kept(t) \in Seq(Entry)
<1>1. PICK n \in Nat : n = Len(t.entries)
  BY DEF Toctree
<1>2. \A k \in 1..n : t.entries[k] \in Entry
  BY <1>1, ElementOfSeq DEF Toctree
<1> DEFINE R(f) == [k \in 0..Len(t.entries) |->
                      IF k = 0 THEN <<>>
                      ELSE IF Dropped(t, t.entries[k]) THEN f[k - 1] ELSE Append(f[k - 1], t.entries[k])]
           F == CHOOSE f : f = R(f)
           step == [x \in (1..n) \X Seq(Entry) |->
                      IF Dropped(t, t.entries[x[1]]) THEN x[2] ELSE Append(x[2], t.entries[x[1]])]
<1>3. step \in [(1..n) \X Seq(Entry) -> Seq(Entry)]
  BY <1>2, AppendProperties
<1>4. ASSUME NEW k \in 1..n, NEW s \in Seq(Entry)
      PROVE  step[<<k, s>>] = IF Dropped(t, t.entries[k]) THEN s ELSE Append(s, t.entries[k])
  OBVIOUS
<1> HIDE DEF step
<1>5. PICK h \in [0..n -> Seq(Entry)] : Follows(h, <<>>, step, n)
  <2>1. <<>> \in Seq(Entry)
    OBVIOUS
  <2> QED
    BY <1>3, <2>1, SomeFollows
<1>6. ASSUME NEW k \in 0..n
      PROVE  h[k] = IF k = 0 THEN <<>>
                    ELSE IF Dropped(t, t.entries[k]) THEN h[k - 1] ELSE Append(h[k - 1], t.entries[k])
  <2>1. CASE k = 0
    BY <1>5, <2>1 DEF Follows
  <2>2. CASE k # 0
    <3>1. k \in 1..n /\ k - 1 \in 0..n /\ h[k - 1] \in Seq(Entry)
      BY <1>5, <2>2
    <3>2. h[k] = step[<<k, h[k - 1]>>]
      BY <1>5, <3>1 DEF Follows
    <3> QED
      BY <1>4, <2>2, <3>1, <3>2
  <2> QED
    BY <2>1, <2>2
<1>7. h = R(h)
  BY <1>1, <1>5, <1>6
<1>8. F = R(F)
  <2> HIDE DEF R
  <2> QED
    BY <1>7
<1>9. Kept(t) = F[n]
  BY <1>1 DEF Kept
<1> HIDE DEF F
<1>10. ASSUME NEW k \in 0..n
       PROVE  F[k] = IF k = 0 THEN <<>>
                     ELSE IF Dropped(t, t.entries[k]) THEN F[k - 1] ELSE Append(F[k - 1], t.entries[k])
  BY <1>1, <1>8
<1> DEFINE T == {k \in 0..n : F[k] \in Seq(Entry)}
<1>11. 0 \in T
  <2>1. F[0] = <<>> /\ 0 \in 0..n
    BY <1>10
  <2>2. <<>> \in Seq(Entry)
    OBVIOUS
  <2> QED
    BY <2>1, <2>2
<1>12. ASSUME NEW j \in 0..n, j < n, j \in T PROVE j + 1 \in T
  <2>1. j + 1 \in 0..n /\ j + 1 # 0 /\ (j + 1) - 1 = j /\ j + 1 \in 1..n
    BY <1>12
  <2>2. F[j + 1] = IF Dropped(t, t.entries[j + 1]) THEN F[j] ELSE Append(F[j], t.entries[j + 1])
    BY <1>10, <2>1
  <2>3. F[j] \in Seq(Entry) /\ t.entries[j + 1] \in Entry
    BY <1>2, <1>12, <2>1
  <2>4. F[j + 1] \in Seq(Entry)
    BY <2>2, <2>3, AppendProperties
  <2> QED
    BY <2>1, <2>4
<1>13. n \in T
  <2> HIDE DEF T
  <2>1. n \in 0..n
    OBVIOUS
  <2> QED
    BY <1>11, <1>12, <2>1, UpToAll
<1> QED
  BY <1>9, <1>13

LEMMA FlatAreEntries ==
  ASSUME NEW ts \in Seq(Toctree)
  PROVE  Flat(ts) \in Seq(Entry)
<1>1. PICK n \in Nat : n = Len(ts)
  BY LenProperties
<1>2. \A k \in 1..n : Kept(ts[k]) \in Seq(Entry)
  <2>1. \A k \in 1..n : ts[k] \in Toctree
    BY <1>1, ElementOfSeq
  <2> QED
    BY <2>1, KeptAreEntries
<1> DEFINE R(f) == [k \in 0..Len(ts) |-> IF k = 0 THEN <<>> ELSE f[k - 1] \o Kept(ts[k])]
           F == CHOOSE f : f = R(f)
           step == [x \in (1..n) \X Seq(Entry) |-> x[2] \o Kept(ts[x[1]])]
<1>3. step \in [(1..n) \X Seq(Entry) -> Seq(Entry)]
  BY <1>2, ConcatProperties
<1>4. ASSUME NEW k \in 1..n, NEW s \in Seq(Entry)
      PROVE  step[<<k, s>>] = s \o Kept(ts[k])
  OBVIOUS
<1> HIDE DEF step
<1>5. PICK h \in [0..n -> Seq(Entry)] : Follows(h, <<>>, step, n)
  <2>1. <<>> \in Seq(Entry)
    OBVIOUS
  <2> QED
    BY <1>3, <2>1, SomeFollows
<1>6. ASSUME NEW k \in 0..n
      PROVE  h[k] = IF k = 0 THEN <<>> ELSE h[k - 1] \o Kept(ts[k])
  <2>1. CASE k = 0
    BY <1>5, <2>1 DEF Follows
  <2>2. CASE k # 0
    <3>1. k \in 1..n /\ k - 1 \in 0..n /\ h[k - 1] \in Seq(Entry)
      BY <1>5, <2>2
    <3>2. h[k] = step[<<k, h[k - 1]>>]
      BY <1>5, <3>1 DEF Follows
    <3> QED
      BY <1>4, <2>2, <3>1, <3>2
  <2> QED
    BY <2>1, <2>2
<1>7. h = R(h)
  BY <1>1, <1>5, <1>6
<1>8. F = R(F)
  <2> HIDE DEF R
  <2> QED
    BY <1>7
<1>9. Flat(ts) = F[n]
  BY <1>1 DEF Flat
<1> HIDE DEF F
<1>10. ASSUME NEW k \in 0..n
       PROVE  F[k] = IF k = 0 THEN <<>> ELSE F[k - 1] \o Kept(ts[k])
  BY <1>1, <1>8
<1> DEFINE T == {k \in 0..n : F[k] \in Seq(Entry)}
<1>11. 0 \in T
  <2>1. F[0] = <<>> /\ 0 \in 0..n
    BY <1>10
  <2>2. <<>> \in Seq(Entry)
    OBVIOUS
  <2> QED
    BY <2>1, <2>2
<1>12. ASSUME NEW j \in 0..n, j < n, j \in T PROVE j + 1 \in T
  <2>1. j + 1 \in 0..n /\ j + 1 # 0 /\ (j + 1) - 1 = j /\ j + 1 \in 1..n
    BY <1>12
  <2>2. F[j + 1] = F[j] \o Kept(ts[j + 1])
    BY <1>10, <2>1
  <2>3. F[j] \in Seq(Entry) /\ Kept(ts[j + 1]) \in Seq(Entry)
    BY <1>2, <1>12, <2>1
  <2>4. F[j + 1] \in Seq(Entry)
    BY <2>2, <2>3, ConcatProperties
  <2> QED
    BY <2>1, <2>4
<1>13. n \in T
  <2> HIDE DEF T
  <2>1. n \in 0..n
    OBVIOUS
  <2> QED
    BY <1>11, <1>12, <2>1, UpToAll
<1> QED
  BY <1>9, <1>13
LEMMA DotdotsLead ==
  ASSUME NEW s \in Seq(Name)
  PROVE  /\ Dotdots(s) \in 0..Len(s)
         /\ \A j \in 1..Dotdots(s) : s[j] = Up
<1>1. PICK n \in Nat : n = Len(s) /\ DOMAIN s = 1..n
  BY LenProperties
<1> DEFINE D == {i \in DOMAIN s : \A j \in 1..i : s[j] = Up}
           O == {i \in 1..(n + 1) : i = n + 1 \/ s[i] # Up}
<1>2. PICK m \in O : \A j \in O : m <= j
  <2>1. O \subseteq Nat /\ n + 1 \in O
    OBVIOUS
  <2> HIDE DEF O
  <2> QED
    BY <2>1, LeastOf
<1>3. \A j \in 1..(m - 1) : s[j] = Up
  <2> SUFFICES ASSUME NEW j \in 1..(m - 1), s[j] # Up PROVE FALSE
    OBVIOUS
  <2>1. j \in O /\ ~(m <= j)
    OBVIOUS
  <2> QED
    BY <1>2, <2>1
<1>4. D = 1..(m - 1)
  <2>1. \A i \in D : i < m
    <3> SUFFICES ASSUME NEW i \in D, ~(i < m) PROVE FALSE
      BY <1>1
    <3>1. i \in 1..n /\ m \in 1..i
      BY <1>1
    <3>2. s[m] = Up
      BY <3>1
    <3>3. m # n + 1
      BY <3>1
    <3> QED
      BY <3>2, <3>3
  <2>2. \A i \in 1..(m - 1) : i \in D
    <3> SUFFICES ASSUME NEW i \in 1..(m - 1) PROVE i \in D
      OBVIOUS
    <3>1. i \in 1..n /\ \A j \in 1..i : j \in 1..(m - 1)
      OBVIOUS
    <3> QED
      BY <1>1, <1>3, <3>1
  <2>3. D \subseteq 1..n
    BY <1>1
  <2> HIDE DEF D
  <2>4. \A i \in D : i \in 1..(m - 1)
    BY <2>1, <2>3
  <2> QED
    BY <2>2, <2>4
<1>5. Dotdots(s) = Cardinality(1..(m - 1))
  BY <1>4 DEF Dotdots
<1>6. m - 1 \in 0..n
  OBVIOUS
<1>7. Cardinality(1..(m - 1)) = m - 1
  <2>1. PICK l \in Nat : l = m - 1
    BY <1>6
  <2>2. Cardinality(1..l) = IF 1 > l THEN 0 ELSE l - 1 + 1
    BY FS_Interval
  <2> QED
    BY <2>1, <2>2
<1> QED
  BY <1>1, <1>3, <1>5, <1>6, <1>7

LEMMA SegmentsAreNames ==
  ASSUME NEW e \in Entry
  PROVE  Segments(e) \in Seq(Name)
<1>1. e.path \in Seq(Name) /\ Index \in Name
  BY NameAssumption DEF Entry
<1>2. Append(e.path, Index) \in Seq(Name)
  BY <1>1, AppendProperties
<1> QED
  BY <1>1, <1>2 DEF Segments

LEMMA NamesBelow ==
  ASSUME NEW e \in Entry, ~Malformed(e)
  PROVE  \A j \in (Dotdots(Segments(e)) + 1)..Len(Segments(e)) : Segments(e)[j] # Up
<1>1. PICK s \in Seq(Name) : s = Segments(e)
  BY SegmentsAreNames
<1>2. PICK d \in 0..Len(s) : d = Dotdots(s)
  BY DotdotsLead
<1>3. Len(s) \in Nat
  BY LenProperties
<1> SUFFICES ASSUME NEW j \in (d + 1)..Len(s), s[j] = Up PROVE FALSE
  BY <1>1, <1>2
<1>4. PICK b : b = SubSeq(s, d + 1, Len(s))
  OBVIOUS
<1>5. d + 1 \in Int /\ Len(s) \in Int /\ \A i \in (d + 1)..Len(s) : s[i] \in Name
  BY <1>3, ElementOfSeq
<1>6. /\ b \in Seq(Name)
      /\ Len(b) = IF d + 1 <= Len(s) THEN Len(s) - (d + 1) + 1 ELSE 0
      /\ \A i \in 1..(Len(s) - (d + 1) + 1) : b[i] = s[d + 1 + i - 1]
  BY <1>4, <1>5, SubSeqProperties
<1>7. j - d \in 1..(Len(s) - (d + 1) + 1) /\ d + 1 + (j - d) - 1 = j
  BY <1>3
<1>8. b[j - d] = s[j]
  BY <1>6, <1>7
<1>9. j - d \in 1..Len(b)
  BY <1>3, <1>6
<1>10. DOMAIN b = 1..Len(b)
  BY <1>6, LenProperties
<1>11. Up \in Range(b)
  BY <1>8, <1>9, <1>10 DEF Range
<1> QED
  BY <1>1, <1>2, <1>4, <1>11 DEF Malformed, Below

LEMMA DirectoriesUp ==
  ASSUME NEW k \in Seq(Name), k # <<>>, NEW n \in Nat
  PROVE  /\ Directory(k, n) \in Seq(Name)
         /\ Directory(k, 0) = Front(k)
         /\ Directory(k, n + 1) = Step(Directory(k, n), Up)
<1>1. PICK l \in Nat : l = Len(k) /\ l # 0
  BY EmptySeq
<1>2. PICK m \in 0..l : m = IF l > n + 1 THEN l - 1 - n ELSE 0
  <2>1. (IF l > n + 1 THEN l - 1 - n ELSE 0) \in 0..l
    <3>1. l > n + 1 => l - 1 - n \in 0..l
      OBVIOUS
    <3> QED
      BY <3>1
  <2> QED
    BY <2>1
<1>3. PICK d : d = SubSeq(k, 1, m)
  OBVIOUS
<1>4. Directory(k, n) = d
  BY <1>1, <1>2, <1>3 DEF Directory
<1>5. d \in Seq(Name) /\ Len(d) = m /\ \A j \in 1..m : d[j] = k[j]
  BY <1>1, <1>3, HeadsOf
<1>6. Directory(k, 0) = Front(k)
  <2>1. Front(k) = SubSeq(k, 1, l - 1)
    BY <1>1 DEF Front
  <2>2. (IF l > 0 + 1 THEN l - 1 - 0 ELSE 0) = l - 1
    BY <1>1
  <2>3. Directory(k, 0) = SubSeq(k, 1, IF l > 0 + 1 THEN l - 1 - 0 ELSE 0)
    BY <1>1 DEF Directory
  <2> QED
    BY <2>1, <2>2, <2>3
<1>7. Directory(k, n + 1) = Step(d, Up)
  <2>1. Directory(k, n + 1) = SubSeq(k, 1, IF l > n + 1 + 1 THEN l - 1 - (n + 1) ELSE 0)
    BY <1>1 DEF Directory
  <2>2. CASE m = 0
    <3>1. d = <<>>
      BY <1>5, <2>2, EmptySeq
    <3>2. (IF l > n + 1 + 1 THEN l - 1 - (n + 1) ELSE 0) = 0
      BY <1>2, <2>2
    <3>3. SubSeq(k, 1, 0) = <<>>
      BY SubSeqEmpty
    <3> QED
      BY <2>1, <3>1, <3>2, <3>3 DEF Step
  <2>3. CASE m # 0
    <3>1. d # <<>>
      BY <1>5, <2>3
    <3>2. (IF l > n + 1 + 1 THEN l - 1 - (n + 1) ELSE 0) = m - 1
      BY <1>2, <2>3
    <3>3. PICK f : f = Front(d)
      OBVIOUS
    <3>4. f \in Seq(Name) /\ Len(f) = m - 1 /\ \A j \in 1..(m - 1) : f[j] = d[j]
      BY <1>5, <3>1, <3>3, PathParts
    <3>5. PICK c : c = SubSeq(k, 1, m - 1)
      OBVIOUS
    <3>6. c \in Seq(Name) /\ Len(c) = m - 1 /\ \A j \in 1..(m - 1) : c[j] = k[j]
      <4>1. m - 1 \in 0..Len(k)
        BY <1>1, <2>3
      <4> QED
        BY <3>5, <4>1, HeadsOf
    <3>7. \A j \in 1..(m - 1) : f[j] = c[j]
      BY SMTT(30), <1>5, <3>4, <3>6
    <3>8. f = c
      BY <3>4, <3>6, <3>7, SeqEqual
    <3>9. Step(d, Up) = f
      BY <3>1, <3>3 DEF Step
    <3> QED
      BY <2>1, <3>2, <3>5, <3>8, <3>9
  <2> QED
    BY <2>2, <2>3
<1> QED
  BY <1>4, <1>5, <1>6, <1>7
\* Below its leading `..' a line goes down name by name, whichever way it is read.
LEMMA LineSteps ==
  ASSUME NEW k \in Seq(Name), k # <<>>, NEW s \in Seq(Name), NEW d \in 0..Len(s),
         \A j \in 1..d : s[j] = Up, \A j \in (d + 1)..Len(s) : s[j] # Up,
         NEW j \in 0..Len(s), j < Len(s)
  PROVE  LET At(i) == IF i <= d THEN Directory(k, i) ELSE Directory(k, d) \o SubSeq(s, d + 1, i)
         IN  At(j + 1) = Step(At(j), s[j + 1])
<1>1. PICK n \in Nat : n = Len(s)
  BY LenProperties
<1>2. PICK c \in Seq(Name) : c = Directory(k, d)
  BY DirectoriesUp
<1>3. CASE j < d
  <2>1. s[j + 1] = Up /\ j <= d /\ j + 1 <= d /\ j \in Nat
    BY <1>1, <1>3
  <2> QED
    BY <2>1, DirectoriesUp
<1>4. CASE ~(j < d)
  <2>1. j + 1 \in (d + 1)..n /\ ~(j + 1 <= d) /\ d + 1 \in 1..n /\ (j + 1) - 1 = j /\ j \in Int
    BY <1>1, <1>4
  <2>2. s[j + 1] # Up /\ s[j + 1] \in Name
    BY <1>1, <2>1, ElementOfSeq
  <2>3. PICK x \in Name : x = s[j + 1]
    BY <2>2
  <2>4. PICK b : b = SubSeq(s, d + 1, j)
    OBVIOUS
  <2>5. b \in Seq(Name)
    <3>1. \A i \in (d + 1)..j : s[i] \in Name
      BY <1>1, <2>1, ElementOfSeq
    <3>2. d + 1 \in Int
      BY <1>1
    <3> QED
      BY <2>1, <2>4, <3>1, <3>2, SubSeqProperties
  <2>6. SubSeq(s, d + 1, j + 1) = b \o <<x>>
    BY <1>1, <2>1, <2>3, <2>4, SubSeqRecursiveSecond
  <2>7. <<x>> \in Seq(Name)
    OBVIOUS
  <2>8. c \o (b \o <<x>>) = (c \o b) \o <<x>>
    BY <2>5, <2>7, ConcatAssociative
  <2>9. c \o b \in Seq(Name)
    BY <2>5, ConcatProperties
  <2>10. (c \o b) \o <<x>> = Append(c \o b, x)
    BY <2>9, AppendIsConcat
  <2>11. (IF j <= d THEN Directory(k, j) ELSE c \o SubSeq(s, d + 1, j)) = c \o b
    <3>1. CASE j <= d
      <4>1. j = d
        BY <1>1, <1>4, <3>1
      <4>2. b = <<>>
        <5>1. d + 1 \in Int /\ j < d + 1
          BY <1>1, <4>1
        <5> QED
          BY <2>1, <2>4, <5>1, SubSeqEmpty
      <4>3. c \o <<>> = c
        BY ConcatEmptySeq
      <4> QED
        BY <1>2, <3>1, <4>1, <4>2, <4>3
    <3>2. CASE ~(j <= d)
      BY <2>4, <3>2
    <3> QED
      BY <3>1, <3>2
  <2>12. Step(c \o b, x) = Append(c \o b, x)
    BY <2>2, <2>3 DEF Step
  <2> QED
    BY <1>2, <2>1, <2>3, <2>6, <2>8, <2>10, <2>11, <2>12
<1> QED
  BY <1>3, <1>4

\* The key that toc.py makes of a line that is not malformed is of the page it means.
LEMMA ResolvesAsMeant ==
  ASSUME NEW k \in Seq(Name), k # <<>>, NEW e \in Entry, ~Malformed(e)
  PROVE  Resolve(k, e) = Means(k, e)
<1>1. PICK s \in Seq(Name) : s = Segments(e)
  BY SegmentsAreNames
<1>2. PICK n \in Nat : n = Len(s)
  BY LenProperties
<1>3. PICK d \in 0..n : d = Dotdots(s) /\ \A j \in 1..d : s[j] = Up
  BY <1>2, DotdotsLead
<1>4. \A j \in (d + 1)..n : s[j] # Up
  BY <1>1, <1>2, <1>3, NamesBelow
<1> DEFINE At(i) == IF i <= d THEN Directory(k, i) ELSE Directory(k, d) \o SubSeq(s, d + 1, i)
           R(f) == [i \in 0..Len(Segments(e)) |->
                      IF i = 0 THEN Front(k) ELSE Step(f[i - 1], Segments(e)[i])]
           F == CHOOSE f : f = R(f)
           h == [i \in 0..n |-> At(i)]
<1>5. ASSUME NEW j \in 0..n, j < n PROVE At(j + 1) = Step(At(j), s[j + 1])
  <2>1. d \in 0..Len(s) /\ (\A i \in 1..d : s[i] = Up) /\ \A i \in (d + 1)..Len(s) : s[i] # Up
    BY <1>2, <1>3, <1>4
  <2>2. j \in 0..Len(s) /\ j < Len(s)
    BY <1>2, <1>5
  <2> QED
    BY <2>1, <2>2, LineSteps
<1>6. At(0) = Front(k)
  BY <1>3, DirectoriesUp
<1>7. ASSUME NEW i \in 0..n
      PROVE  h[i] = IF i = 0 THEN Front(k) ELSE Step(h[i - 1], s[i])
  <2>1. CASE i = 0
    BY <1>6, <2>1
  <2>2. CASE i # 0
    <3>1. i - 1 \in 0..n /\ i - 1 < n /\ (i - 1) + 1 = i
      BY <2>2
    <3>2. h[i] = At(i) /\ h[i - 1] = At(i - 1)
      BY <3>1
    <3> HIDE DEF At, h
    <3>3. At((i - 1) + 1) = Step(At(i - 1), s[(i - 1) + 1])
      BY <1>5, <3>1
    <3> QED
      BY <2>2, <3>1, <3>2, <3>3
  <2> QED
    BY <2>1, <2>2
<1>8. h = R(h)
  <2>1. h = [i \in 0..n |-> h[i]]
    OBVIOUS
  <2> HIDE DEF h, At
  <2> QED
    BY <1>1, <1>2, <1>7, <2>1
<1>9. F = R(F)
  <2> HIDE DEF R, h, At
  <2> QED
    BY <1>8
<1>10. Means(k, e) = F[n]
  BY <1>1, <1>2 DEF Means
<1> HIDE DEF F, At
<1>11. ASSUME NEW i \in 0..n
       PROVE  F[i] = IF i = 0 THEN Front(k) ELSE Step(F[i - 1], s[i])
  BY <1>1, <1>2, <1>9
<1> DEFINE T == {i \in 0..n : F[i] = At(i)}
<1>12. 0 \in T
  BY <1>6, <1>11
<1>13. ASSUME NEW j \in 0..n, j < n, j \in T PROVE j + 1 \in T
  <2>1. j + 1 \in 0..n /\ j + 1 # 0 /\ (j + 1) - 1 = j
    BY <1>13
  <2>2. F[j + 1] = Step(F[j], s[j + 1])
    BY <1>11, <2>1
  <2>3. F[j] = At(j) /\ At(j + 1) = Step(At(j), s[j + 1])
    BY <1>5, <1>13
  <2> QED
    BY <2>1, <2>2, <2>3
<1>14. F[n] = At(n)
  <2>1. n \in 0..n
    OBVIOUS
  <2>2. \A j \in 0..n : j \in T
    <3> HIDE DEF T
    <3> QED
      BY <1>12, <1>13, UpToAll
  <2> QED
    BY <2>1, <2>2
<1>15. Resolve(k, e) = Directory(k, d) \o SubSeq(s, d + 1, n)
  BY <1>1, <1>2, <1>3 DEF Resolve, Below
<1>16. At(n) = Directory(k, d) \o SubSeq(s, d + 1, n)
  <2>1. CASE n <= d
    <3>1. n = d /\ n < d + 1 /\ d + 1 \in Int
      BY <2>1
    <3>2. SubSeq(s, d + 1, n) = <<>>
      BY <3>1, SubSeqEmpty
    <3>3. Directory(k, d) \o <<>> = Directory(k, d)
      <4>1. Directory(k, d) \in Seq(Name)
        BY DirectoriesUp
      <4> QED
        BY <4>1, ConcatEmptySeq
    <3> QED
      BY <2>1, <3>1, <3>2, <3>3 DEF At
  <2>2. CASE ~(n <= d)
    BY <2>2 DEF At
  <2> QED
    BY <2>1, <2>2
<1> QED
  BY <1>10, <1>14, <1>15, <1>16
-----------------------------------------------------------------------------
(* The tree.  Of a node that has been made, each line has been handled or   *)
(* the call of _tree for that node is still to look at it.                  *)

\* The lines of a page are the toctrees it holds, flattened.
LinesInv ==
  /\ lib \in Libraries
  /\ \A k \in Listed : trees[k] = Flat(lib.holds[k])

\* The calls of _tree in progress are for the nodes down to the one at work.
CallsInv ==
  /\ next \in Seq(Nat \ {0}) /\ Len(next) = Len(path)
  /\ \A i \in 1..Len(path) : SubSeq(path, 1, i) \in Range(toc)

\* What line j of the page at the end of p means is no page or a node below p.
Handled(t, p, j) ==
  LET e == trees[Last(p)][j]
  IN  e.to = "rel" =>
        ~Malformed(e) /\ (Resolve(Last(p), e) \in Listed => Append(p, Resolve(Last(p), e)) \in Range(t))

Ahead(p, j) == \E i \in 1..Len(path) : p = SubSeq(path, 1, i) /\ next[i] <= j

LinesAreHandled ==
  \A p \in Range(toc) : \A j \in 1..Len(trees[Last(p)]) : Handled(toc, p, j) \/ Ahead(p, j)

\* A node was made of a line of the node above it.
IsLineOf(p) ==
  \E j \in 1..Len(trees[Last(Front(p))]) :
    LET e == trees[Last(Front(p))][j]
    IN  e.to = "rel" /\ ~Malformed(e) /\ Resolve(Last(Front(p)), e) = Last(p)

ParentsInv == \A p \in Range(toc) : p = <<Root>> \/ (Front(p) \in Range(toc) /\ IsLineOf(p))

NodesAreNew ==
  /\ \A i, j \in 1..Len(toc) : toc[i] = toc[j] => i = j
  /\ toc # <<>> => toc[1] = <<Root>> /\ seen = Len(Pages)

TreeInv == TocInv /\ LinesInv /\ CallsInv /\ LinesAreHandled /\ ParentsInv /\ NodesAreNew

LEMMA PagesAreKeys ==
  ASSUME TocInv
  PROVE  \A k \in Listed : k \in Seq(Name) /\ k # <<>>
<1>1. \A k \in Range(Pages) : k \in Seq(Name \ {Up}) /\ k # <<>>
  BY PagesAssumption, ElementOfSeq, LenProperties DEF Range, Key
<1>2. \A k \in Seq(Name \ {Up}) : k \in Seq(Name)
  BY SeqMonotonic
<1> QED
  BY <1>1, <1>2 DEF TocInv, PagesInv

LEMMA LinesAreEntries ==
  ASSUME TocInv, LinesInv, NEW k \in Listed
  PROVE  trees[k] \in Seq(Entry)
<1>1. k \in Range(Pages)
  BY DEF TocInv, PagesInv
<1>2. lib.holds[k] \in Seq(Toctree)
  BY <1>1, LibraryAssumption DEF LinesInv
<1> QED
  BY <1>2, FlatAreEntries DEF LinesInv

LEMMA NodesArePaths ==
  ASSUME TocInv, NEW p \in Range(toc)
  PROVE  p \in Seq(Listed) /\ p # <<>> /\ Last(p) \in Listed
<1>1. PICK i \in DOMAIN toc : p = toc[i]
  BY DEF Range
<1>2. p \in Seq(Listed) /\ p # <<>>
  BY <1>1, ElementOfSeq, LenProperties DEF TocInv, NodesInv
<1> QED
  BY <1>2, PathParts

LEMMA RangeOfAppend ==
  ASSUME NEW S, NEW t \in Seq(S), NEW x \in S
  PROVE  Range(Append(t, x)) = Range(t) \cup {x}
<1>1. /\ Append(t, x) \in Seq(S) /\ Len(Append(t, x)) = Len(t) + 1 /\ Len(t) \in Nat
      /\ \A i \in 1..Len(t) : Append(t, x)[i] = t[i]
      /\ Append(t, x)[Len(t) + 1] = x
  BY AppendProperties, LenProperties
<1>2. DOMAIN t = 1..Len(t) /\ DOMAIN Append(t, x) = 1..(Len(t) + 1)
  BY <1>1, LenProperties
<1>3. \A y \in Range(t) : y \in Range(Append(t, x))
  BY <1>1, <1>2 DEF Range
<1>4. x \in Range(Append(t, x))
  BY <1>1, <1>2 DEF Range
<1>5. \A y \in Range(Append(t, x)) : y \in Range(t) \/ y = x
  <2> SUFFICES ASSUME NEW i \in 1..(Len(t) + 1) PROVE Append(t, x)[i] \in Range(t) \/ Append(t, x)[i] = x
    BY <1>2 DEF Range
  <2>1. i \in 1..Len(t) \/ i = Len(t) + 1
    BY <1>1
  <2> QED
    BY <1>1, <1>2, <2>1 DEF Range
<1> QED
  BY <1>3, <1>4, <1>5

LEMMA InitTreeInv == Init => TreeInv
<1> SUFFICES ASSUME Init PROVE TreeInv
  OBVIOUS
<1>1. Listed = {} /\ path = <<>> /\ next = <<>> /\ toc = <<>> /\ lib \in Libraries
  BY DEF Init, Listed
<1>2. Range(toc) = {} /\ Len(path) = 0 /\ Len(next) = 0 /\ Len(toc) = 0 /\ next \in Seq(Nat \ {0})
  BY <1>1 DEF Range
<1> QED
  BY <1>1, <1>2, InitTocInv
     DEF TreeInv, LinesInv, CallsInv, LinesAreHandled, ParentsInv, NodesAreNew

\* Steps that change neither the tree nor the calls.
LEMMA TreeStays ==
  ASSUME TreeInv, TocInv', UNCHANGED <<lib, seen, trees, path, next, toc>>
  PROVE  TreeInv'
<1>1. Listed' = Listed /\ Range(toc)' = Range(toc) /\ ReferredTo' = ReferredTo
  BY DEF Listed, ReferredTo
<1>2. Root' = Root
  BY <1>1 DEF Root
<1>3. LinesInv'
  BY <1>1 DEF TreeInv, LinesInv
<1>4. CallsInv'
  BY <1>1 DEF TreeInv, CallsInv
<1>5. LinesAreHandled'
  BY <1>1 DEF TreeInv, LinesAreHandled, Handled, Ahead
<1>6. ParentsInv'
  BY <1>1, <1>2 DEF TreeInv, ParentsInv, IsLineOf
<1>7. NodesAreNew'
  BY <1>1, <1>2 DEF TreeInv, NodesAreNew
<1> QED
  BY <1>3, <1>4, <1>5, <1>6, <1>7 DEF TreeInv

LEMMA VisitKeepsTree == TreeInv /\ VisitPage => TreeInv'
<1> SUFFICES ASSUME TreeInv, VisitPage PROVE TreeInv'
  OBVIOUS
<1> DEFINE k == Pages[seen + 1]
<1>1. /\ seen < Len(Pages) /\ UNCHANGED <<lib, path, next, toc>>
      /\ trees' = trees \/ trees' = Extend(trees, k, Flat(lib.holds[k]))
  BY DEF VisitPage
<1>2. path = <<>> /\ toc = <<>>
  BY <1>1 DEF TreeInv, TocInv, PagesInv
<1>3. TocInv'
  BY VisitKeeps DEF TreeInv
<1>4. LinesInv'
  BY <1>1 DEF TreeInv, LinesInv, Extend, Listed
<1>5. path' = <<>> /\ toc' = <<>> /\ Len(path') = 0 /\ Len(toc') = 0 /\ Range(toc') = {}
  BY <1>1, <1>2 DEF Range
<1>6. CallsInv'
  BY <1>1, <1>5 DEF TreeInv, CallsInv
<1> QED
  BY <1>3, <1>4, <1>5, <1>6 DEF TreeInv, LinesAreHandled, ParentsInv, NodesAreNew

LEMMA StartKeepsTree == TreeInv /\ StartTree => TreeInv'
<1> SUFFICES ASSUME TreeInv, StartTree PROVE TreeInv'
  OBVIOUS
<1>1. /\ path' = <<Root>> /\ next' = <<1>> /\ toc' = <<<<Root>>>> /\ seen = Len(Pages)
      /\ UNCHANGED <<lib, seen, trees>>
  BY DEF StartTree
<1>2. TocInv'
  BY StartKeeps DEF TreeInv
<1>3. Listed' = Listed /\ ReferredTo' = ReferredTo
  BY <1>1 DEF Listed, ReferredTo
<1>4. Root' = Root
  BY <1>3 DEF Root
<1>5. LinesInv'
  BY <1>1, <1>3 DEF TreeInv, LinesInv
<1>6. PICK p : p = <<Root>>
  OBVIOUS
<1>11. Range(toc') = {p} /\ Len(path') = 1 /\ Len(toc') = 1 /\ path' = p
  BY <1>1, <1>6 DEF Range
<1>12. SubSeq(path', 1, 1) = p
  <2>1. path' \in Seq({Root})
    BY <1>1
  <2> QED
    BY <1>11, <2>1, HeadOfAll
<1>7. CallsInv'
  <2>1. next' \in Seq(Nat \ {0}) /\ Len(next') = 1
    BY <1>1
  <2>2. \A i \in 1..Len(path') : i = 1
    BY <1>11
  <2> QED
    BY <1>11, <1>12, <2>1, <2>2 DEF CallsInv
<1>8. LinesAreHandled'
  <2>1. 1 \in 1..Len(path') /\ next'[1] = 1
    BY <1>1, <1>11
  <2>2. \A q \in Range(toc') : \A j : j \in 1..Len(trees'[Last(q)]) => 1 <= j
    OBVIOUS
  <2> QED
    BY <1>11, <1>12, <2>1, <2>2 DEF LinesAreHandled, Ahead
<1>9. ParentsInv'
  BY <1>4, <1>6, <1>11 DEF ParentsInv
<1>10. NodesAreNew'
  <2>1. toc'[1] = p /\ \A i \in 1..Len(toc') : i = 1
    BY <1>1, <1>6, <1>11
  <2> QED
    BY <1>1, <1>4, <1>6, <2>1 DEF NodesAreNew
<1> QED
  BY <1>2, <1>5, <1>7, <1>8, <1>9, <1>10 DEF TreeInv

\* The call at work.
LEMMA AtWork ==
  ASSUME TreeInv, path # <<>>
  PROVE  /\ Len(path) \in Nat \ {0} /\ Len(next) = Len(path) /\ Last(next) = next[Len(path)]
         /\ Last(next) \in Nat \ {0}
         /\ path \in Range(toc) /\ SubSeq(path, 1, Len(path)) = path
         /\ Current \in Listed /\ trees[Current] \in Seq(Entry)
<1>1. path \in Seq(Listed)
  BY DEF TreeInv, TocInv, NodesInv
<1>2. PICK n \in Nat \ {0} : n = Len(path)
  BY <1>1, EmptySeq
<1>3. SubSeq(path, 1, n) = path
  BY <1>1, <1>2, HeadOfAll
<1>4. next \in Seq(Nat \ {0}) /\ Len(next) = n /\ SubSeq(path, 1, n) \in Range(toc)
  BY <1>2 DEF TreeInv, CallsInv
<1>5. Last(next) = next[n] /\ next[n] \in Nat \ {0}
  BY <1>2, <1>4, ElementOfSeq DEF Last
<1>6. Current \in Listed
  BY <1>1, PathParts DEF Current
<1>7. trees[Current] \in Seq(Entry)
  BY <1>6, LinesAreEntries DEF TreeInv
<1> QED
  BY <1>2, <1>3, <1>4, <1>5, <1>6, <1>7

\* One line further.
LEMMA LineFurther ==
  ASSUME TreeInv, path # <<>>, NEW nx, nx = [next EXCEPT ![Len(next)] = @ + 1]
  PROVE  /\ nx \in Seq(Nat \ {0}) /\ Len(nx) = Len(path) /\ nx[Len(path)] = Last(next) + 1
         /\ \A i \in 1..(Len(path) - 1) : nx[i] = next[i]
<1>1. PICK n \in Nat \ {0} : n = Len(path) /\ Len(next) = n /\ Last(next) = next[n]
  BY AtWork
<1>2. next \in Seq(Nat \ {0}) /\ next[n] \in Nat \ {0}
  BY <1>1, AtWork DEF TreeInv, CallsInv
<1>3. nx = [next EXCEPT ![n] = next[n] + 1]
  BY <1>1
<1>4. n \in 1..Len(next) /\ next[n] + 1 \in Nat \ {0}
  BY <1>1, <1>2
<1>5. nx \in Seq(Nat \ {0}) /\ Len(nx) = n /\ \A i \in 1..n : nx[i] = IF i = n THEN next[n] + 1 ELSE next[i]
  BY <1>1, <1>2, <1>3, <1>4, ExceptSeq
<1> QED
  BY <1>1, <1>4, <1>5

LEMMA SkipKeepsTree == TreeInv /\ SkipLine => TreeInv'
<1> SUFFICES ASSUME TreeInv, SkipLine PROVE TreeInv'
  OBVIOUS
<1>1. /\ path # <<>> /\ UNCHANGED <<lib, seen, trees, links, path, toc, outcome>>
      /\ next' = [next EXCEPT ![Len(next)] = @ + 1]
  BY DEF SkipLine, Looking, NextLine
<1>2. TocInv'
  BY <1>1, PagesStay DEF TreeInv, TocInv, TocPassesPack
<1>3. PICK n \in Nat \ {0} : n = Len(path)
  BY <1>1, AtWork
<1>4. /\ Last(next) = next[n] /\ next[n] \in Nat \ {0}
      /\ path \in Range(toc) /\ SubSeq(path, 1, n) = path
  BY <1>1, <1>3, AtWork
<1>5. /\ next' \in Seq(Nat \ {0}) /\ Len(next') = n /\ next'[n] = next[n] + 1
      /\ \A i \in 1..(n - 1) : next'[i] = next[i]
  BY <1>1, <1>3, <1>4, LineFurther
<1>6. Handled(toc, path, next[n])
  BY <1>4 DEF SkipLine, Handled, Line, Current
<1>7. Listed' = Listed /\ Range(toc)' = Range(toc) /\ ReferredTo' = ReferredTo
  BY <1>1 DEF Listed, ReferredTo
<1>8. Root' = Root
  BY <1>7 DEF Root
<1>9. LinesInv' /\ ParentsInv' /\ NodesAreNew'
  BY <1>1, <1>7, <1>8 DEF TreeInv, LinesInv, ParentsInv, IsLineOf, NodesAreNew
<1>10. CallsInv'
  BY <1>1, <1>3, <1>5 DEF TreeInv, CallsInv
<1>11. LinesAreHandled'
  <2> SUFFICES ASSUME NEW p \in Range(toc), NEW j \in 1..Len(trees[Last(p)])
               PROVE  Handled(toc, p, j) \/ Ahead(p, j)'
    BY <1>1 DEF LinesAreHandled, Handled, Listed
  <2>1. CASE Handled(toc, p, j)
    BY <2>1
  <2>2. CASE Ahead(p, j)
    <3>1. PICK i \in 1..n : p = SubSeq(path, 1, i) /\ next[i] <= j
      BY <1>3, <2>2 DEF Ahead
    <3>2. CASE i = n /\ next[n] = j
      BY <1>4, <1>6, <3>1, <3>2
    <3>3. CASE i = n /\ next[n] # j
      <4>1. j \in Int
        OBVIOUS
      <4>2. next'[i] <= j
        BY <1>4, <1>5, <3>1, <3>3, <4>1
      <4> QED
        BY <1>1, <1>3, <3>1, <4>2 DEF Ahead
    <3>4. CASE i # n
      <4>1. i \in 1..(n - 1)
        BY <3>4
      <4> QED
        BY <1>1, <1>3, <1>5, <3>1, <4>1 DEF Ahead
    <3> QED
      BY <3>2, <3>3, <3>4
  <2> QED
    BY <2>1, <2>2 DEF TreeInv, LinesAreHandled
<1> QED
  BY <1>2, <1>9, <1>10, <1>11 DEF TreeInv

LEMMA ReturnKeepsTree == TreeInv /\ Return => TreeInv'
<1> SUFFICES ASSUME TreeInv, Return PROVE TreeInv'
  OBVIOUS
<1>1. /\ path # <<>> /\ UNCHANGED <<lib, seen, trees, links, toc, outcome>>
      /\ path' = Front(path) /\ next' = Front(next) /\ Last(next) > Len(trees[Current])
  BY DEF Return
<1>2. TocInv'
  BY ReturnKeeps DEF TreeInv
<1>3. PICK n \in Nat \ {0} : n = Len(path)
  BY <1>1, AtWork
<1>4. /\ Last(next) = next[n] /\ next[n] \in Nat \ {0} /\ Len(next) = n
      /\ path \in Range(toc) /\ SubSeq(path, 1, n) = path
  BY <1>1, <1>3, AtWork
<1>5. path \in Seq(Listed) /\ next \in Seq(Nat \ {0}) /\ next # <<>>
  BY <1>3, <1>4, EmptySeq DEF TreeInv, CallsInv, TocInv, NodesInv
<1>6. Len(path') = n - 1 /\ \A i \in 1..(n - 1) : SubSeq(path', 1, i) = SubSeq(path, 1, i)
  BY <1>1, <1>3, <1>5, PathParts, HeadsOfFront
<1>7. next' \in Seq(Nat \ {0}) /\ Len(next') = n - 1 /\ \A i \in 1..(n - 1) : next'[i] = next[i]
  BY <1>1, <1>4, <1>5, PathParts
<1>8. Listed' = Listed /\ Range(toc)' = Range(toc) /\ ReferredTo' = ReferredTo
  BY <1>1 DEF Listed, ReferredTo
<1>9. Root' = Root
  BY <1>8 DEF Root
<1>10. LinesInv' /\ ParentsInv' /\ NodesAreNew'
  BY <1>1, <1>8, <1>9 DEF TreeInv, LinesInv, ParentsInv, IsLineOf, NodesAreNew
<1>11. CallsInv'
  <2>1. \A i \in 1..(n - 1) : SubSeq(path, 1, i) \in Range(toc)
    BY <1>3 DEF TreeInv, CallsInv
  <2> QED
    BY <1>6, <1>7, <1>8, <2>1 DEF CallsInv
<1>12. LinesAreHandled'
  <2> SUFFICES ASSUME NEW p \in Range(toc), NEW j \in 1..Len(trees[Last(p)])
               PROVE  Handled(toc, p, j) \/ Ahead(p, j)'
    BY <1>1 DEF LinesAreHandled, Handled, Listed
  <2>1. CASE Handled(toc, p, j)
    BY <2>1
  <2>2. CASE Ahead(p, j)
    <3>1. PICK i \in 1..n : p = SubSeq(path, 1, i) /\ next[i] <= j
      BY <1>3, <2>2 DEF Ahead
    <3>2. i # n
      <4> SUFFICES ASSUME i = n PROVE FALSE
        OBVIOUS
      <4>1. p = path /\ next[n] <= j
        BY <1>4, <3>1
      <4>2. j \in 1..Len(trees[Current]) /\ next[n] > Len(trees[Current])
        BY <1>1, <1>4, <4>1 DEF Current
      <4>3. Len(trees[Current]) \in Nat
        BY <1>1, AtWork, LenProperties
      <4> QED
        BY <1>4, <4>1, <4>2, <4>3
    <3>3. i \in 1..(n - 1)
      BY <3>2
    <3> QED
      BY <1>6, <1>7, <3>1, <3>3 DEF Ahead
  <2> QED
    BY <2>1, <2>2 DEF TreeInv, LinesAreHandled
<1> QED
  BY <1>2, <1>10, <1>11, <1>12 DEF TreeInv

LEMMA DescendKeepsTree == TreeInv /\ Descend => TreeInv'
<1> SUFFICES ASSUME TreeInv, Descend PROVE TreeInv'
  OBVIOUS
<1>1. PICK k : k = Resolve(Current, Line)
  OBVIOUS
<1>2. PICK q : q = Append(path, k)
  OBVIOUS
<1>3. PICK nx : nx = [next EXCEPT ![Len(next)] = @ + 1]
  OBVIOUS
<1>4. /\ path # <<>> /\ UNCHANGED <<lib, seen, trees, links, outcome>>
      /\ path' = q /\ next' = Append(nx, 1) /\ toc' = Append(toc, q)
  BY <1>1, <1>2, <1>3 DEF Descend, Lists, Looking
<1>5. /\ Last(next) <= Len(trees[Current]) /\ Line.to = "rel" /\ ~Malformed(Line)
      /\ k \in Listed /\ q \notin Range(toc)
  BY <1>1, <1>2 DEF Descend, Lists, Looking
<1>6. TocInv'
  BY DescendKeeps DEF TreeInv
<1>7. PICK n \in Nat \ {0} : n = Len(path)
  BY <1>4, AtWork
<1>8. /\ Last(next) = next[n] /\ next[n] \in Nat \ {0}
      /\ path \in Range(toc) /\ SubSeq(path, 1, n) = path
      /\ Line = trees[Last(path)][next[n]]
  BY <1>4, <1>7, AtWork DEF Line, Current
<1>9. path \in Seq(Listed) /\ toc \in Seq(Seq(Listed))
  BY DEF TreeInv, TocInv, NodesInv
<1>10. /\ q \in Seq(Listed) /\ Len(q) = n + 1 /\ Front(q) = path /\ Last(q) = k
       /\ SubSeq(q, 1, n + 1) = q /\ \A i \in 1..n : SubSeq(q, 1, i) = SubSeq(path, 1, i)
  BY <1>2, <1>5, <1>7, <1>9, EndOfAppend, HeadsOfAppend, AppendProperties
<1>11. /\ nx \in Seq(Nat \ {0}) /\ Len(nx) = n /\ nx[n] = next[n] + 1
       /\ \A i \in 1..(n - 1) : nx[i] = next[i]
  BY <1>3, <1>4, <1>7, <1>8, LineFurther
<1>12. /\ next' \in Seq(Nat \ {0}) /\ Len(next') = n + 1 /\ next'[n + 1] = 1
       /\ \A i \in 1..n : next'[i] = nx[i]
  BY <1>4, <1>11, AppendProperties
<1>13. Range(toc') = Range(toc) \cup {q}
  BY <1>4, <1>9, <1>10, RangeOfAppend
<1>14. Listed' = Listed /\ ReferredTo' = ReferredTo
  BY <1>4 DEF Listed, ReferredTo
<1>15. Root' = Root
  BY <1>14 DEF Root
<1>16. LinesInv'
  BY <1>4, <1>14 DEF TreeInv, LinesInv
<1>17. CallsInv'
  <2>1. \A i \in 1..(n + 1) : SubSeq(q, 1, i) \in Range(toc')
    <3>1. \A i \in 1..n : SubSeq(path, 1, i) \in Range(toc)
      BY <1>7 DEF TreeInv, CallsInv
    <3>2. \A i \in 1..(n + 1) : i \in 1..n \/ i = n + 1
      OBVIOUS
    <3> QED
      BY <1>10, <1>13, <3>1, <3>2
  <2> QED
    BY <1>4, <1>10, <1>12, <2>1 DEF CallsInv
<1>18. Handled(toc', path, next[n])
  <2>1. PICK t : t = toc'
    OBVIOUS
  <2>2. Append(path, k) \in Range(t)
    BY <1>2, <1>13, <2>1
  <2>3. k = Resolve(Last(path), trees[Last(path)][next[n]]) /\ ~Malformed(trees[Last(path)][next[n]])
    BY <1>1, <1>5, <1>8 DEF Current
  <2>4. Handled(t, path, next[n])
    BY <2>2, <2>3 DEF Handled
  <2> QED
    BY <2>1, <2>4
<1>19. LinesAreHandled'
  <2> SUFFICES ASSUME NEW p \in Range(toc'), NEW j \in 1..Len(trees[Last(p)])
               PROVE  Handled(toc', p, j) \/ Ahead(p, j)'
    BY <1>4 DEF LinesAreHandled, Handled, Listed
  <2>1. j \in Int
    OBVIOUS
  <2>2. CASE p = q
    <3>1. n + 1 \in 1..Len(path') /\ p = SubSeq(path', 1, n + 1) /\ next'[n + 1] <= j
      BY <1>4, <1>10, <1>12, <2>1, <2>2
    <3> QED
      BY <3>1 DEF Ahead
  <2>3. CASE p \in Range(toc) /\ Handled(toc, p, j)
    BY <1>13, <2>3 DEF Handled
  <2>4. CASE p \in Range(toc) /\ Ahead(p, j)
    <3>1. PICK i \in 1..n : p = SubSeq(path, 1, i) /\ next[i] <= j
      BY <1>7, <2>4 DEF Ahead
    <3>2. i \in 1..Len(path') /\ p = SubSeq(path', 1, i)
      <4>1. SubSeq(q, 1, i) = SubSeq(path, 1, i) /\ i \in 1..(n + 1)
        BY <1>10, <3>1
      <4>2. path' = q /\ Len(path') = n + 1 /\ p = SubSeq(q, 1, i)
        BY <1>4, <1>10, <3>1, <4>1
      <4> QED
        BY <4>1, <4>2
    <3>3. CASE i = n /\ next[n] = j
      BY <1>8, <1>18, <3>1, <3>3
    <3>4. CASE i = n /\ next[n] # j
      <4>1. next'[i] <= j
        BY <1>8, <1>11, <1>12, <2>1, <3>1, <3>4
      <4> QED
        BY <3>2, <4>1 DEF Ahead
    <3>5. CASE i # n
      <4>1. i \in 1..(n - 1)
        BY <3>5
      <4>2. next'[i] <= j
        BY <1>11, <1>12, <3>1, <4>1
      <4> QED
        BY <3>2, <4>2 DEF Ahead
    <3> QED
      BY <3>3, <3>4, <3>5
  <2> QED
    BY <1>13, <2>2, <2>3, <2>4 DEF TreeInv, LinesAreHandled
<1>20. ParentsInv'
  <2>1. IsLineOf(q)
    <3>1. next[n] \in 1..Len(trees[Last(path)])
      <4>1. Len(trees[Current]) \in Nat
        BY <1>4, AtWork, LenProperties
      <4> QED
        BY <1>5, <1>8, <4>1 DEF Current
    <3> QED
      BY <1>1, <1>5, <1>8, <1>10, <3>1 DEF IsLineOf, Current
  <2>2. \A p : IsLineOf(p)' <=> IsLineOf(p)
    BY <1>4 DEF IsLineOf
  <2> QED
    BY <1>8, <1>10, <1>13, <1>15, <2>1, <2>2 DEF TreeInv, ParentsInv
<1>21. NodesAreNew'
  <2>1. /\ Len(toc) \in Nat /\ Len(toc') = Len(toc) + 1 /\ toc'[Len(toc) + 1] = q
        /\ \A i \in 1..Len(toc) : toc'[i] = toc[i]
    BY <1>4, <1>9, <1>10, AppendProperties, LenProperties
  <2>2. \A i \in 1..Len(toc) : toc[i] \in Range(toc)
    BY <1>9, LenProperties DEF Range
  <2>3. toc # <<>> /\ 1 \in 1..Len(toc)
    <3>1. toc # <<>>
      BY <1>8 DEF Range
    <3> QED
      BY <1>9, <3>1, EmptySeq
  <2>4. \A i \in 1..Len(toc') : i \in 1..Len(toc) \/ i = Len(toc) + 1
    BY <2>1
  <2>5. ASSUME NEW i \in 1..Len(toc'), NEW j \in 1..Len(toc'), toc'[i] = toc'[j]
        PROVE  i = j
    BY <1>5, <2>1, <2>2, <2>4, <2>5 DEF TreeInv, NodesAreNew
  <2> QED
    BY <1>4, <1>15, <2>1, <2>3, <2>5 DEF TreeInv, NodesAreNew
<1> QED
  BY <1>6, <1>16, <1>17, <1>19, <1>20, <1>21 DEF TreeInv

LEMMA NextTreeInv == TreeInv /\ [Next]_vars => TreeInv'
<1> SUFFICES ASSUME TreeInv, [Next]_vars PROVE TreeInv'
  OBVIOUS
<1>1. TocInv'
  BY NextTocInv DEF TreeInv
<1>2. CASE AssertFails \/ TooDeep \/ (\E strict \in BOOLEAN : Pack(strict)) \/ UNCHANGED vars
  <2>1. UNCHANGED <<lib, seen, trees, path, next, toc>>
    BY <1>2 DEF AssertFails, TooDeep, Pack, vars
  <2> QED
    BY <1>1, <2>1, TreeStays
<1> QED
  BY <1>2, VisitKeepsTree, StartKeepsTree, SkipKeepsTree, DescendKeepsTree, ReturnKeepsTree DEF Next
-----------------------------------------------------------------------------
(* The tree and the listing of the pages.                                   *)

LEMMA ChildrenAreLines ==
  ASSUME TocInv, LinesInv, NEW k \in Listed, NEW c
  PROVE  c \in Children(k) <=>
           /\ c \in Listed
           /\ \E j \in 1..Len(trees[k]) : trees[k][j].to = "rel" /\ Means(k, trees[k][j]) = c
<1>1. Written = Listed /\ trees[k] = Flat(lib.holds[k]) /\ DOMAIN trees[k] = 1..Len(trees[k])
  BY LinesAreEntries, LenProperties DEF LinesInv, TocInv, PagesInv
<1>2. \A e : e \in Lines(k) <=> \E j \in 1..Len(trees[k]) : e = trees[k][j] /\ e.to = "rel"
  BY <1>1 DEF Lines, Range
<1> QED
  BY <1>1, <1>2 DEF Children

LEMMA LineOfPage ==
  ASSUME TocInv, LinesInv, NEW k \in Listed, NEW j \in 1..Len(trees[k]), ~Malformed(trees[k][j])
  PROVE  Resolve(k, trees[k][j]) = Means(k, trees[k][j])
<1>1. k \in Seq(Name) /\ k # <<>>
  BY PagesAreKeys
<1>2. trees[k][j] \in Entry
  BY LinesAreEntries, ElementOfSeq
<1> QED
  BY <1>1, <1>2, ResolvesAsMeant

\* A node that a call made is one of the pages that the node above it lists.
LEMMA NodesAreChildren ==
  ASSUME TreeInv, NEW p \in Range(toc), p # <<Root>>
  PROVE  Front(p) \in Range(toc) /\ Last(p) \in Children(Last(Front(p)))
<1>1. Front(p) \in Range(toc) /\ IsLineOf(p)
  BY DEF TreeInv, ParentsInv
<1>2. PICK k : k = Last(Front(p))
  OBVIOUS
<1>3. k \in Listed /\ Last(p) \in Listed
  BY <1>1, <1>2, NodesArePaths DEF TreeInv
<1>4. PICK j \in 1..Len(trees[k]) :
        trees[k][j].to = "rel" /\ ~Malformed(trees[k][j]) /\ Resolve(k, trees[k][j]) = Last(p)
  BY <1>1, <1>2 DEF IsLineOf
<1>5. Means(k, trees[k][j]) = Last(p)
  BY <1>3, <1>4, LineOfPage DEF TreeInv
<1> QED
  BY <1>1, <1>2, <1>3, <1>4, <1>5, ChildrenAreLines DEF TreeInv

\* When no call is in progress, the pages that a node lists are nodes below it.
LEMMA ChildrenAreNodes ==
  ASSUME TreeInv, path = <<>>, NEW p \in Range(toc), NEW c \in Children(Last(p))
  PROVE  Append(p, c) \in Range(toc)
<1>1. Last(p) \in Listed
  BY NodesArePaths DEF TreeInv
<1>2. PICK j \in 1..Len(trees[Last(p)]) :
        trees[Last(p)][j].to = "rel" /\ Means(Last(p), trees[Last(p)][j]) = c
  BY <1>1, ChildrenAreLines DEF TreeInv
<1>3. c \in Listed
  BY <1>1, ChildrenAreLines DEF TreeInv
<1>4. ~Ahead(p, j)
  BY DEF Ahead
<1>5. Handled(toc, p, j)
  BY <1>4 DEF TreeInv, LinesAreHandled
<1>6. ~Malformed(trees[Last(p)][j])
  BY <1>2, <1>5 DEF Handled
<1>7. Resolve(Last(p), trees[Last(p)][j]) = c
  BY <1>1, <1>2, <1>6, LineOfPage DEF TreeInv
<1> QED
  BY <1>2, <1>3, <1>5, <1>7 DEF Handled

LEMMA TreeIsListing == TreeInv => TocFollowsLists
<1> SUFFICES ASSUME TreeInv, Built, Written # {} PROVE TocFollowsLists
  BY DEF TocFollowsLists
<1>1. path = <<>> /\ toc # <<>>
  BY DEF Built, TreeInv, TocInv, PagesInv
<1>2. toc[1] = <<Root>> /\ IsInjective(toc)
  <2>1. DOMAIN toc = 1..Len(toc)
    BY LenProperties DEF TreeInv, TocInv, NodesInv
  <2> QED
    BY <1>1, <2>1 DEF TreeInv, NodesAreNew, IsInjective
<1>3. \A p \in Range(toc) : \A c \in Children(Last(p)) : Append(p, c) \in Range(toc)
  BY <1>1, ChildrenAreNodes
<1>4. \A p \in Range(toc) \ {<<Root>>} :
        Front(p) \in Range(toc) /\ Last(p) \in Children(Last(Front(p)))
  BY NodesAreChildren
<1> QED
  BY <1>2, <1>3, <1>4 DEF TocFollowsLists

\* The tree that gen writes is the listing of its pages unfolded from the root:
\* every page stands, once, below each page that lists it in a line gen keeps
\* (toc.py, make_tree and _tree).
THEOREM TreeFollowsLists == Spec => []TocFollowsLists
<1>1. TreeInv => TocFollowsLists
  BY TreeIsListing
<1> QED
  BY <1>1, InitTreeInv, NextTreeInv, PTL DEF Spec

-----------------------------------------------------------------------------
(* The pages reached from the root.                                         *)

\* A set of pages that holds the root and what each of its pages lists.
Complete(S) == Root \in S /\ \A k \in S : Children(k) \subseteq S

NodesAreReached ==
  toc # <<>> => \A S : Complete(S) => \A p \in Range(toc) : Last(p) \in S

PackedInv ==
  /\ seen < Len(Pages) => outcome = "none"
  /\ outcome = "packed strict" => Written \subseteq TocEntries

NavInv == TreeInv /\ PackedInv /\ NodesAreReached

\* As long as the pages stay, so does what they list.
LEMMA ListingStays ==
  ASSUME UNCHANGED <<lib, trees, links>>
  PROVE  \A S : Complete(S)' <=> Complete(S)
<1>1. Listed' = Listed /\ ReferredTo' = ReferredTo /\ Written' = Written
  BY DEF Listed, ReferredTo, Written
<1>2. Root' = Root
  BY <1>1 DEF Root
<1>3. \A k : Children(k)' = Children(k)
  BY <1>1 DEF Children, Lines
<1> QED
  BY <1>2, <1>3 DEF Complete

LEMMA InitNavInv == Init => NavInv
<1> SUFFICES ASSUME Init PROVE NavInv
  OBVIOUS
<1> QED
  BY InitTreeInv DEF Init, NavInv, PackedInv, NodesAreReached

\* The steps that add no node to the tree.
LEMMA NodesStay ==
  ASSUME NavInv, TreeInv', UNCHANGED <<lib, seen, trees, links, toc>>
  PROVE  NodesAreReached'
BY ListingStays DEF NavInv, NodesAreReached

LEMMA DescendReaches == NavInv /\ Descend => NodesAreReached'
<1> SUFFICES ASSUME NavInv, Descend PROVE NodesAreReached'
  OBVIOUS
<1>1. PICK k : k = Resolve(Current, Line)
  OBVIOUS
<1>2. PICK q : q = Append(path, k)
  OBVIOUS
<1>3. /\ UNCHANGED <<lib, seen, trees, links, outcome>> /\ toc' = Append(toc, q)
      /\ path # <<>> /\ k \in Listed /\ Line.to = "rel" /\ ~Malformed(Line)
      /\ Last(next) <= Len(trees[Current])
  BY <1>1, <1>2 DEF Descend, Lists, Looking
<1>4. /\ path \in Seq(Listed) /\ toc \in Seq(Seq(Listed))
      /\ path \in Range(toc) /\ Current \in Listed /\ trees[Current] \in Seq(Entry)
      /\ Last(next) \in Nat \ {0}
  BY <1>3, AtWork DEF NavInv, TreeInv, TocInv, NodesInv
<1>5. PICK j \in 1..Len(trees[Current]) : j = Last(next)
  BY <1>3, <1>4, LenProperties
<1>6. Line = trees[Current][j]
  BY <1>5 DEF Line
<1>7. Means(Current, Line) = k
  BY <1>1, <1>3, <1>4, <1>5, <1>6, LineOfPage DEF NavInv, TreeInv
<1>8. k \in Children(Current)
  BY <1>3, <1>4, <1>5, <1>6, <1>7, ChildrenAreLines DEF NavInv, TreeInv
<1>9. q \in Seq(Listed) /\ Last(q) = k
  BY <1>2, <1>3, <1>4, EndOfAppend, AppendProperties
<1>10. Range(toc') = Range(toc) \cup {q}
  BY <1>3, <1>4, <1>9, RangeOfAppend
<1>11. toc # <<>>
  BY <1>4 DEF Range
<1> SUFFICES ASSUME NEW S, Complete(S)', NEW p \in Range(toc') PROVE Last(p) \in S
  BY DEF NodesAreReached
<1>12. Complete(S)
  BY <1>3, ListingStays
<1>13. \A r \in Range(toc) : Last(r) \in S
  BY <1>11, <1>12 DEF NavInv, NodesAreReached
<1>14. Last(path) \in S
  BY <1>4, <1>13
<1>15. k \in S
  BY <1>8, <1>12, <1>14 DEF Complete, Current
<1> QED
  BY <1>9, <1>10, <1>13, <1>15

LEMMA NextNavInv == NavInv /\ [Next]_vars => NavInv'
<1> SUFFICES ASSUME NavInv, [Next]_vars PROVE NavInv'
  OBVIOUS
<1>1. TreeInv'
  BY NextTreeInv DEF NavInv
<1>2. CASE VisitPage
  <2>1. /\ seen < Len(Pages) /\ seen' = seen + 1 /\ UNCHANGED <<path, next, toc, outcome>>
    BY <1>2 DEF VisitPage
  <2>2. toc = <<>> /\ outcome = "none"
    BY <2>1 DEF NavInv, TreeInv, TocInv, PagesInv, PackedInv
  <2> QED
    BY <1>1, <2>1, <2>2 DEF NavInv, PackedInv, NodesAreReached
<1>3. CASE StartTree
  <2>1. /\ seen = Len(Pages) /\ outcome = "none" /\ toc' = << <<Root>> >>
        /\ UNCHANGED <<lib, seen, trees, links, outcome>>
    BY <1>3 DEF StartTree
  <2>2. Range(toc') = {<<Root>>}
    BY <2>1 DEF Range
  <2>3. Last(<<Root>>) = Root
    BY DEF Last
  <2>4. NodesAreReached'
    <3> SUFFICES ASSUME NEW S, Complete(S)', NEW p \in Range(toc') PROVE Last(p) \in S
      BY DEF NodesAreReached
    <3>1. Complete(S)
      BY <2>1, ListingStays
    <3> QED
      BY <2>2, <2>3, <3>1 DEF Complete
  <2> QED
    BY <1>1, <2>1, <2>4 DEF NavInv, PackedInv
<1>4. CASE SkipLine \/ Return \/ UNCHANGED vars
  <2>1. UNCHANGED <<lib, seen, trees, links, toc, outcome>>
    BY <1>4 DEF SkipLine, Return, vars
  <2>2. TocEntries' = TocEntries /\ Written' = Written
    BY <2>1 DEF TocEntries, Written
  <2> QED
    BY <1>1, <2>1, <2>2, NodesStay DEF NavInv, PackedInv
<1>5. CASE AssertFails \/ TooDeep
  <2>1. /\ UNCHANGED <<lib, seen, trees, links, toc>> /\ path # <<>>
        /\ outcome' \in {"AssertionError", "RecursionError"}
    BY <1>5 DEF AssertFails, TooDeep, Lists, Looking
  <2>2. ~(seen < Len(Pages))
    BY <2>1 DEF NavInv, TreeInv, TocInv, PagesInv
  <2>3. outcome' # "packed strict"
    BY <2>1
  <2> QED
    BY <1>1, <2>1, <2>2, <2>3, NodesStay DEF NavInv, PackedInv
<1>6. CASE Descend
  <2>1. UNCHANGED <<seen, outcome>> /\ outcome = "none"
    BY <1>6 DEF Descend, Lists, Looking
  <2> QED
    BY <1>1, <1>6, <2>1, DescendReaches DEF NavInv, PackedInv
<1>7. ASSUME NEW strict \in BOOLEAN, Pack(strict) PROVE NavInv'
  <2>1. UNCHANGED <<lib, seen, trees, links, toc>> /\ seen = Len(Pages)
    BY <1>7 DEF Pack, Built
  <2>2. TocEntries' = TocEntries /\ Written' = Written
    BY <2>1 DEF TocEntries, Written
  <2>3. outcome' = "packed strict" => Orphans = {}
    BY <1>7 DEF Pack
  <2>4. outcome' = "packed strict" => Written \subseteq TocEntries
    BY <2>3 DEF Orphans
  <2>5. ~(seen < Len(Pages))
    BY <2>1 DEF NavInv, TreeInv, TocInv, PagesInv
  <2> QED
    BY <1>1, <2>1, <2>2, <2>4, <2>5, NodesStay DEF NavInv, PackedInv
<1> QED
  BY <1>2, <1>3, <1>4, <1>5, <1>6, <1>7 DEF Next

LEMMA FewPages ==
  /\ Len(Pages) \in Nat
  /\ IsFiniteSet(Range(Pages)) /\ Cardinality(Range(Pages)) \in Nat
  /\ Cardinality(Range(Pages)) <= Len(Pages)
<1>1. PICK n \in Nat : n = Len(Pages) /\ DOMAIN Pages = 1..n /\ Pages \in [1..n -> Range(Pages)]
  BY PagesAssumption, LenProperties DEF Range
<1>2. Pages \in Surjection(1..n, Range(Pages))
  BY <1>1 DEF Surjection, Range
<1>3. ExistsSurjection(1..n, Range(Pages))
  BY <1>2 DEF ExistsSurjection
<1>4. Cardinality(Range(Pages)) <= n /\ IsFiniteSet(Range(Pages))
  BY <1>3, FS_SurjCardinalityBound, FS_NatSurjection
<1> QED
  BY <1>1, <1>4, FS_CardinalityType

\* What is reached in as many steps as there are pages is all there is to reach.
LEMMA ClosureIsComplete ==
  ASSUME Listed = Written, Listed \subseteq Range(Pages), Root \in Listed
  PROVE  Complete(Closure({Root}))
<1> DEFINE U == Range(Pages)
           More(X) == X \cup UNION {Children(k) : k \in X}
           R(f) == [n \in 0..Len(Pages) |->
                      IF n = 0 THEN {Root} ELSE f[n - 1] \cup UNION {Children(k) : k \in f[n - 1]}]
           F == CHOOSE f : f = R(f)
<1>1. PICK N \in Nat : N = Len(Pages)
  BY FewPages
<1>2. \A X \in SUBSET U : More(X) \in SUBSET U
  BY DEF Children
<1>3. {Root} \in SUBSET U
  OBVIOUS
<1>4. PICK g \in [0..N -> SUBSET U] : g[0] = {Root} /\ \A n \in 1..N : g[n] = More(g[n - 1])
  <2> DEFINE step == [x \in (1..N) \X SUBSET U |-> More(x[2])]
  <2>1. step \in [(1..N) \X SUBSET U -> SUBSET U]
    <3> HIDE DEF U, More
    <3> QED
      BY <1>2
  <2>2. \A n \in 1..N, X \in SUBSET U : step[<<n, X>>] = More(X)
    <3> HIDE DEF U, More
    <3> QED
      OBVIOUS
  <2>3. PICK g \in [0..N -> SUBSET U] : Follows(g, {Root}, step, N)
    <3> HIDE DEF U, step
    <3> QED
      BY <1>3, <2>1, SomeFollows
  <2>4. \A n \in 1..N : n - 1 \in 0..N
    OBVIOUS
  <2>5. \A n \in 1..N : g[n] = More(g[n - 1])
    <3> HIDE DEF U, step, More
    <3> QED
      BY <2>2, <2>3, <2>4 DEF Follows
  <2> QED
    BY <2>3, <2>5 DEF Follows
<1>5. g = R(g)
  <2>1. g = [n \in 0..N |-> g[n]]
    OBVIOUS
  <2>2. \A n \in 0..N : g[n] = IF n = 0 THEN {Root} ELSE More(g[n - 1])
    <3>1. \A n \in 0..N : n = 0 \/ n \in 1..N
      OBVIOUS
    <3> HIDE DEF More
    <3> QED
      BY <1>4, <3>1
  <2> QED
    BY <1>1, <2>1, <2>2
<1>6. F = R(F)
  <2> HIDE DEF R
  <2> QED
    BY <1>5
<1>7. Closure({Root}) = F[N]
  BY <1>1 DEF Closure
<1> HIDE DEF F
<1>8. F[0] = {Root} /\ \A n \in 0..N : n < N => F[n + 1] = More(F[n])
  <2>1. \A n \in 0..N : F[n] = IF n = 0 THEN {Root} ELSE More(F[n - 1])
    BY <1>1, <1>6
  <2>2. \A n \in 0..N : n < N => n + 1 \in 0..N /\ n + 1 # 0 /\ (n + 1) - 1 = n
    OBVIOUS
  <2> HIDE DEF More
  <2> QED
    BY <2>1, <2>2
<1> DEFINE T == {n \in 0..N : /\ F[n] \in SUBSET U /\ Root \in F[n]
                              /\ More(F[n]) = F[n] \/ Cardinality(F[n]) >= n + 1}
<1>9. 0 \in T
  <2>1. Cardinality({Root}) = 1
    BY FS_Singleton
  <2>2. 0 \in 0..N /\ F[0] \in SUBSET U /\ Root \in F[0] /\ Cardinality(F[0]) = 1
    BY <1>3, <1>8, <2>1
  <2>3. Cardinality(F[0]) >= 0 + 1
    BY <2>2
  <2> HIDE DEF U, More
  <2> QED
    BY <2>2, <2>3
<1>10. ASSUME NEW n \in 0..N, n < N, n \in T PROVE n + 1 \in T
  <2>1. F[n] \in SUBSET U /\ Root \in F[n] /\ F[n + 1] = More(F[n])
    BY <1>8, <1>10
  <2>2. F[n + 1] \in SUBSET U /\ F[n] \subseteq F[n + 1]
    BY <1>2, <2>1
  <2>3. n + 1 \in 0..N
    BY <1>10
  <2> HIDE DEF More
  <2>4. CASE More(F[n]) = F[n]
    BY <2>1, <2>2, <2>3, <2>4
  <2>5. CASE More(F[n]) # F[n]
    <3>1. Cardinality(F[n]) >= n + 1
      BY <1>10, <2>5
    <3>2. /\ IsFiniteSet(F[n + 1]) /\ Cardinality(F[n + 1]) \in Nat
          /\ Cardinality(F[n]) \in Nat /\ Cardinality(F[n]) <= Cardinality(F[n + 1])
          /\ Cardinality(F[n]) # Cardinality(F[n + 1])
      <4>1. IsFiniteSet(F[n + 1])
        BY <2>2, FewPages, FS_Subset
      <4>2. /\ IsFiniteSet(F[n]) /\ Cardinality(F[n]) <= Cardinality(F[n + 1])
            /\ Cardinality(F[n + 1]) = Cardinality(F[n]) => F[n + 1] = F[n]
        BY <2>2, <4>1, FS_Subset
      <4> QED
        BY <2>1, <2>5, <4>1, <4>2, FS_CardinalityType
    <3>3. Cardinality(F[n + 1]) >= (n + 1) + 1
      BY <3>1, <3>2
    <3> QED
      BY <2>1, <2>2, <2>3, <3>3
  <2> QED
    BY <2>4, <2>5
<1>11. N \in T
  <2>1. N \in 0..N
    OBVIOUS
  <2> HIDE DEF T
  <2> QED
    BY <1>9, <1>10, <2>1, UpToAll
<1>12. F[N] \in SUBSET U /\ Root \in F[N]
  BY <1>11
<1>13. ~(Cardinality(F[N]) >= N + 1)
  <2>1. Cardinality(F[N]) \in Nat /\ Cardinality(F[N]) <= Cardinality(U)
    BY <1>12, FewPages, FS_Subset, FS_CardinalityType
  <2> QED
    BY <1>1, <2>1, FewPages
<1>14. More(F[N]) = F[N]
  BY <1>11, <1>13
<1> QED
  BY <1>7, <1>12, <1>14 DEF Complete

LEMMA NoEntries == toc = <<>> => TocEntries = {}
<1>1. toc = <<>> => Range(toc) = {}
  BY DEF Range
<1> QED
  BY <1>1 DEF TocEntries

LEMMA ReachedAreInClosure == NavInv => StrictPackIsNavigable
<1> SUFFICES ASSUME NavInv, outcome = "packed strict", Written # {}
             PROVE  Written \subseteq Closure({Root})
  BY DEF StrictPackIsNavigable
<1>1. Listed = Written /\ Listed \subseteq Range(Pages)
  BY DEF NavInv, TreeInv, TocInv, PagesInv
<1>2. Root \in Listed
  BY <1>1, RootIsListed
<1>3. Complete(Closure({Root}))
  BY <1>1, <1>2, ClosureIsComplete
<1>4. Written \subseteq TocEntries
  BY DEF NavInv, PackedInv
<1>5. toc # <<>>
  BY <1>4, NoEntries
<1>6. \A p \in Range(toc) : Last(p) \in Closure({Root})
  BY <1>3, <1>5 DEF NavInv, NodesAreReached
<1> QED
  BY <1>4, <1>6 DEF TocEntries

\* Of a library that packs with --strict every page is reached from the root
\* through the toctrees of the pages (pack's orphan check, toc.py).
THEOREM StrictPacksAreNavigable == Spec => []StrictPackIsNavigable
<1>1. NavInv => StrictPackIsNavigable
  BY ReachedAreInClosure
<1> QED
  BY <1>1, InitNavInv, NextNavInv, PTL DEF Spec
=============================================================================
