---------------------------- MODULE MCIngestStore ---------------------------
(***************************************************************************)
(* Small instances of IngestStore: two bundles, of which one has two pages *)
(* and two successive artifacts, and the other a page that refers to the   *)
(* first.                                                                  *)
(***************************************************************************)
EXTENDS IngestRefinement, TLC

CONSTANTS w1, w2, A, B,        \* the bundles
          a1, a2, b1,    \* their pages
          x1, x2, y1,    \* artifacts: x1 and x2 of A, y1 of B
          z,             \* an artifact of A that ingest rejects
          Requests, Crashes, Faults, Leaves

MCBundle == {A, B}
MCKey == {a1, a2, b1}
MCOwner == [k \in MCKey |-> IF k = b1 THEN B ELSE A]
MCArchive == {x1, x2, y1} \cup Malformed
MCBundleOf == [a \in MCArchive |-> IF a = y1 THEN B ELSE A]

\* The second artifact of A has lost the page a2, and still refers to it.
MCPages == [a \in MCArchive |->
              CASE a = x1 -> {a1, a2} [] a = x2 -> {a1} [] a = y1 -> {b1}
                [] OTHER -> {a1}]

\* x1 refers to B, which x2 no longer does; B refers to A.
MCRefs == [a \in MCArchive |-> [k \in MCKey |->
              CASE k \in Asset -> {}
                [] a = x1 /\ k = a1 -> {b1}
                [] a = x1 /\ k = a2 -> {a1}
                [] a = x2 /\ k = a1 -> {a2}
                [] a = y1 /\ k = b1 -> {a1}
                [] OTHER -> {}]]

MCRank == [b \in MCBundle |-> IF b = A THEN 1 ELSE 2]

MCBudget == [s \in {"request", "crash", "fault", "leave"} |->
               CASE s = "request" -> Requests [] s = "crash" -> Crashes
                 [] s = "fault" -> Faults     [] s = "leave" -> Leaves]

AllOps == {"put", "reingest", "delete", "deleteRaw", "clear", "clearRaw"}

Symmetry == Permutations(Worker)
=============================================================================
