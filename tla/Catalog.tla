------------------------------- MODULE Catalog ------------------------------
(***************************************************************************)
(* What the processed store promises to the viewer's pages, without        *)
(* statements, chunks, files or requests: which content each page shows,   *)
(* which links lead from it, and which artifact a bundle is said to be.    *)
(* An artifact is published in as many parts as there are transactions,    *)
(* and recorded when all of it is there.                                   *)
(***************************************************************************)
EXTENDS GraphStore

CONSTANT Nothing

VARIABLES
    page,   \* the artifact whose content a page shows, or Nothing
    link,   \* who refers to whom
    hash    \* the artifact a bundle is recorded as, or Nothing

vars == <<page, link, hash>>

Init ==
    /\ page = [k \in Key |-> Nothing]
    /\ link = {}
    /\ hash = [b \in Bundle |-> Nothing]

\* The links from the pages of an artifact, and those its content makes.
LinksFrom(a) == {e \in Link : e[1] \in Pages[a]}
LinksOf(a) == {e \in LinksFrom(a) : e[2] \in Refs[a][e[1]]}

Shows(a) == \A k \in Pages[a] : page[k] = a

\* A part of an artifact: some of its pages, or, once all of them show its
\* content, some of its links.  Only a link that its content makes is added,
\* and only one that it does not make is taken away.
Publish(a, ks, add, del) ==
    /\ page' = [k \in Key |-> IF k \in ks THEN a ELSE page[k]]
    /\ link' = (link \cup add) \ del
    /\ add \cup del # {} => Shows(a)'
    /\ UNCHANGED hash

\* A bundle is recorded as an artifact only while it shows it, and has no link
\* left of an earlier content.  A link may be missing: what it points to was
\* withdrawn while the artifact was on its way.
Record(a) ==
    /\ Shows(a)
    /\ link \cap LinksFrom(a) \subseteq LinksOf(a)
    /\ hash' = [hash EXCEPT ![BundleOf[a]] = a]
    /\ UNCHANGED <<page, link>>

\* Bundles go, all of each at once.
Withdraw(bs) ==
    /\ page' = [k \in Key |-> IF Owner[k] \in bs THEN Nothing ELSE page[k]]
    /\ link' = {e \in link : Owner[e[1]] \notin bs /\ Owner[e[2]] \notin bs}
    /\ hash' = [b \in Bundle |-> IF b \in bs THEN Nothing ELSE hash[b]]

Next ==
    \/ \E a \in Archive :
          \/ \E ks \in SUBSET Pages[a], add \in SUBSET LinksOf(a),
                del \in SUBSET (LinksFrom(a) \ LinksOf(a)) :
                Publish(a, ks, add, del)
          \/ Record(a)
    \/ \E bs \in SUBSET Bundle : Withdraw(bs)

Spec == Init /\ [][Next]_vars
=============================================================================
