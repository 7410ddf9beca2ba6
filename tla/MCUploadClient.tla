--------------------------- MODULE MCUploadClient ---------------------------
(***************************************************************************)
(* Two runs of the command, two artifacts of bundle A and one of B.  The   *)
(* first has the same bundle twice with different content, or a path that  *)
(* does not load; the second uploads what the first has too.               *)
(***************************************************************************)
EXTENDS UploadClient, TLC

CONSTANTS r1, r2, A, B, a1, a2, b1, bad

MCBundleOf == (a1 :> A) @@ (a2 :> A) @@ (b1 :> B)

MCLists == [r \in Run |-> IF r = r1 THEN {<<a1, a2>>, <<bad, b1>>} ELSE {<<a1>>}]
=============================================================================
