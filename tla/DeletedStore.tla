---------------------------- MODULE DeletedStore ----------------------------
(***************************************************************************)
(* IngestStore with a history variable: the bundles that a deletion or a   *)
(* clear has left without a file, and that no request has come for since.  *)
(***************************************************************************)
EXTENDS MCIngestStore

VARIABLE removed

NoFiles(b) == meta[b] = Nothing /\ \A k \in KeysOf(b) : blob[k] = Nothing

HistoryInit == Init /\ removed = {}

HistoryNext ==
    /\ Next
    /\ removed' = {b \in Bundle :
                      /\ \A w \in Worker : b \notin scope'[w]
                      /\ \/ b \in removed
                         \/ /\ \E w \in Worker : RemoveTree(w) /\ b \in scope[w]
                            /\ NoFiles(b)'}

HistorySpec == HistoryInit /\ [][HistoryNext]_<<vars, removed>>

\* clear.ts: "removes every processed blob (per-bundle blob trees + meta.cbor)
\* from the blob store"; blob-store.ts says the same of the deletion of one
\* bundle.  A bundle that was removed has no files until the next request for it.
ClearedStaysEmpty == \A b \in removed : NoFiles(b)
=============================================================================
