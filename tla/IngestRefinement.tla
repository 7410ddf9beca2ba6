-------------------------- MODULE IngestRefinement --------------------------
(***************************************************************************)
(* The store that the server works on is a catalog: each transaction of a  *)
(* batch publishes a part of an artifact, rows before the links that need  *)
(* them, the upsert into `bundles' records it, and the first transaction   *)
(* of a deletion withdraws.  A page shows the content its digest is of.    *)
(***************************************************************************)
EXTENDS IngestStore

Shown == [k \in Key |-> IF HasBlob(node, k) THEN node[k] ELSE Nothing]

C == INSTANCE Catalog WITH page <- Shown

\* Requests that do not overlap on a bundle, do not fail and do not crash
\* implement the catalog, whatever else is deleted and uploaded around them:
\* inserting and deleting the difference to the refs prefetched earlier ends
\* with the links of the new content alone, and none is touched before every
\* page shows that content, wherever a batch is cut.
IsCatalog == C!Spec
=============================================================================
