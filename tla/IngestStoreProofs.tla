-------------------------- MODULE IngestStoreProofs -------------------------
(***************************************************************************)
(* What holds of IngestStore for every set of bundles, keys, artifacts and *)
(* workers, every chunk size and every number of crashes and failures.     *)
(***************************************************************************)
EXTENDS IngestStore, TLAPS

-----------------------------------------------------------------------------
(* The statements of an ingest.                                             *)

\* What Stage returns: a batch in which every page has its row inserted and
\* updated, and which adds links from those pages only (_buildBatchStmts).
LEMMA StageFacts ==
    ASSUME NEW a \in Archive, NEW bs, NEW rs \in SUBSET Link
    PROVE  /\ Stage(a, bs, rs) \in Batch
           /\ Stage(a, bs, rs).upd \subseteq Stage(a, bs, rs).ins
           /\ \A e \in Stage(a, bs, rs).add : e[1] \in Stage(a, bs, rs).upd
  BY GraphAssumption DEF Stage, Batch, Link, OutLinks

\* A transaction takes a part of the batch: a row is updated no earlier than it
\* is inserted, and links come when no statement on nodes is left
\* (_flushGraphStmts over nodeStmts followed by linkStmts).
LEMMA ChunkFacts ==
    ASSUME NEW c \in Batch, NEW d \in Chunks(c)
    PROVE  /\ d \in Batch
           /\ d.ins \subseteq c.ins /\ d.upd \subseteq c.upd
           /\ d.add \subseteq c.add /\ d.del \subseteq c.del
           /\ d.upd \cap (c.ins \ d.ins) = {}
           /\ d.add \cup d.del # {} => d.ins = c.ins /\ d.upd = c.upd
  <1>1. CASE d = c
    BY <1>1 DEF Batch
  <1>2. CASE d \in SubBatches(c) /\ Precedes(d, c)
    BY <1>2 DEF Batch, SubBatches, Precedes
  <1> QED
    BY <1>1, <1>2 DEF Chunks

LEMMA WithoutIsBatch ==
    ASSUME NEW c \in Batch, NEW d \in Batch
    PROVE  Without(c, d) \in Batch
  BY DEF Without, Batch

\* The tables stay tables.
LEMMA RunTyped ==
    ASSUME NEW n \in [Key -> NodeRow], NEW l \in SUBSET Link,
           NEW c \in Batch, NEW a \in Archive
    PROVE  /\ RunNodes(n, c, a) \in [Key -> NodeRow]
           /\ RunLinks(RunNodes(n, c, a), l, c) \in SUBSET Link
  BY DEF RunNodes, MarkBlobs, InsertNodes, RunLinks, NodeRow, Batch

LEMMA DropTyped ==
    ASSUME NEW n \in [Key -> NodeRow], NEW l \in SUBSET Link, NEW b
    PROVE  /\ DropNodes(n, b) \in [Key -> NodeRow]
           /\ DropLinks(l, b) \in SUBSET Link
  BY DEF DropNodes, DropLinks, NodeRow

-----------------------------------------------------------------------------
(* Type correctness.  A step that uses the artifact or the bundle of a      *)
(* request needs to know that the request has one.                          *)

Ingesting == {"archiving", "hashing", "staged", "flushing", "meta",
              "recording", "dropping", "indexing"}

Replaying == {"listing", "listed", "next", "reading"}
Telling == {"warning", "replying", "failing"}

HasArchive(w) == arch[w] \in Archive /\ target[w] = BundleOf[arch[w]]

RawInv == \A b \in Bundle : raw[b] \in Archive => BundleOf[raw[b]] = b

RequestInv ==
    \A w \in Worker :
        /\ pc[w] = "accepted" => kind[w] = "put"
        /\ pc[w] \in Replaying => kind[w] = "reingest"
        /\ pc[w] \in Ingesting \cup Telling => kind[w] \in {"put", "reingest"}
        /\ kind[w] = "put" /\ pc[w] # "idle" => HasArchive(w)
        /\ pc[w] \in Ingesting => HasArchive(w)
        /\ pc[w] \in {"reading", "delRows"} => target[w] \in Bundle

Requests == RequestTypeOK /\ RequestInv

TypeInv == StoreTypeOK /\ ServerTypeOK /\ Requests /\ RawInv

LEMMA InitTypeInv == Init => TypeInv
  BY GraphAssumption, StoreAssumption
  DEF Init, TypeInv, StoreTypeOK, RequestTypeOK, ServerTypeOK, Requests, RawInv,
      RequestInv, HasArchive, Ingesting, Replaying, Telling, NodeRow, Batch, NoStmts, File, Pc,
      Kind, Link

LEMMA NoStmtsIsBatch == NoStmts \in Batch
  BY DEF NoStmts, Batch

\* A request that ends leaves the others as they are.
LEMMA FinishRequests ==
    ASSUME Requests, NEW w \in Worker, Finish(w)
    PROVE  Requests'
  BY NoStmtsIsBatch, StoreAssumption
  DEF Requests, RequestTypeOK, RequestInv, Finish, Goto, Pc, Kind, Ingesting,
      Replaying, Telling, HasArchive

\* So does one that only moves on, to a place that asks nothing of it.
LEMMA GotoRequests ==
    ASSUME Requests, NEW w \in Worker, NEW p \in Pc, Goto(w, p),
           UNCHANGED <<request, work, gone>>, pc[w] # "idle",
           p = "accepted" => kind[w] = "put",
           p \in Replaying => kind[w] = "reingest",
           p \in Ingesting \cup Telling => kind[w] \in {"put", "reingest"},
           p \in Ingesting => HasArchive(w),
           p \in {"reading", "delRows"} => target[w] \in Bundle
    PROVE  Requests'
  BY DEF Requests, RequestTypeOK, RequestInv, Goto, Pc, Kind, Ingesting,
         Replaying, Telling, HasArchive, request, work

\* A supply that is spent is a supply.
LEMMA SpendTyped ==
    ASSUME budget \in [Supply -> Nat], NEW s \in Supply, Spend(s)
    PROVE  budget' \in [Supply -> Nat]
  BY DEF Spend

-----------------------------------------------------------------------------
(* Every step keeps the types.  One step per action: what it does to the     *)
(* files, the tables and the server's own variables, and to the requests.   *)

LEMMA NextTypeInv == TypeInv /\ [Next]_vars => TypeInv'
  <1> SUFFICES ASSUME TypeInv, [Next]_vars PROVE TypeInv'
    OBVIOUS
  <1> USE GraphAssumption, StoreAssumption
  <1>1. ASSUME NEW w \in Worker, NEW a \in Archive, Put(w, a)
        PROVE  TypeInv'
    <2>1. StoreTypeOK' /\ ServerTypeOK' /\ RawInv'
      BY SpendTyped, <1>1
      DEF TypeInv, Put, Arrive, Supply, StoreTypeOK, ServerTypeOK, RawInv,
          Requests, RequestTypeOK, RequestInv, HasArchive, Ingesting,
          Replaying, Telling, store, graph, files, ghosts, request, work,
          NodeRow, File
    <2>2. Requests'
      BY <1>1
      DEF TypeInv, Put, Arrive, Goto, StoreTypeOK, RawInv, Requests,
          RequestTypeOK, RequestInv, HasArchive, Ingesting, Replaying,
          Telling, request, work, Pc, Kind
    <2> QED
      BY <2>1, <2>2 DEF TypeInv
  <1>2. ASSUME NEW w \in Worker, NEW S \in SUBSET Bundle, Reingest(w, S)
        PROVE  TypeInv'
    <2>1. StoreTypeOK' /\ ServerTypeOK' /\ RawInv'
      BY SpendTyped, <1>2
      DEF TypeInv, Reingest, Arrive, Supply, StoreTypeOK, ServerTypeOK,
          RawInv, Requests, RequestTypeOK, RequestInv, HasArchive, Ingesting,
          Replaying, Telling, store, graph, files, ghosts, request, work,
          NodeRow, File
    <2>2. Requests'
      BY <1>2
      DEF TypeInv, Reingest, Arrive, Goto, StoreTypeOK, RawInv, Requests,
          RequestTypeOK, RequestInv, HasArchive, Ingesting, Replaying,
          Telling, request, work, Pc, Kind
    <2> QED
      BY <2>1, <2>2 DEF TypeInv
  <1>3. ASSUME NEW w \in Worker, NEW b \in Bundle, NEW op \in {"delete", "deleteRaw"}, Delete(w, b, op)
        PROVE  TypeInv'
    <2>1. StoreTypeOK' /\ ServerTypeOK' /\ RawInv'
      BY SpendTyped, <1>3
      DEF TypeInv, Delete, Arrive, Supply, StoreTypeOK, ServerTypeOK, RawInv,
          Requests, RequestTypeOK, RequestInv, HasArchive, Ingesting,
          Replaying, Telling, store, graph, files, ghosts, request, work,
          NodeRow, File
    <2>2. Requests'
      BY <1>3
      DEF TypeInv, Delete, Arrive, Goto, StoreTypeOK, RawInv, Requests,
          RequestTypeOK, RequestInv, HasArchive, Ingesting, Replaying,
          Telling, request, work, Pc, Kind
    <2> QED
      BY <2>1, <2>2 DEF TypeInv
  <1>4. ASSUME NEW w \in Worker, Clear(w)
        PROVE  TypeInv'
    <2>1. StoreTypeOK' /\ ServerTypeOK' /\ RawInv'
      BY SpendTyped, <1>4
      DEF TypeInv, Clear, Arrive, Supply, StoreTypeOK, ServerTypeOK, RawInv,
          Requests, RequestTypeOK, RequestInv, HasArchive, Ingesting,
          Replaying, Telling, store, graph, files, ghosts, request, work,
          NodeRow, File
    <2>2. Requests'
      BY <1>4
      DEF TypeInv, Clear, Arrive, Goto, StoreTypeOK, RawInv, Requests,
          RequestTypeOK, RequestInv, HasArchive, Ingesting, Replaying,
          Telling, request, work, Pc, Kind
    <2> QED
      BY <2>1, <2>2 DEF TypeInv
  <1>5. ASSUME NEW w \in Worker, ClearRaw(w)
        PROVE  TypeInv'
    <2>1. StoreTypeOK' /\ ServerTypeOK' /\ RawInv'
      BY SpendTyped, <1>5
      DEF TypeInv, ClearRaw, Arrive, Supply, StoreTypeOK, ServerTypeOK,
          RawInv, Requests, RequestTypeOK, RequestInv, HasArchive, Ingesting,
          Replaying, Telling, store, graph, files, ghosts, request, work,
          NodeRow, File
    <2>2. Requests'
      BY <1>5
      DEF TypeInv, ClearRaw, Arrive, Goto, StoreTypeOK, RawInv, Requests,
          RequestTypeOK, RequestInv, HasArchive, Ingesting, Replaying,
          Telling, request, work, Pc, Kind
    <2> QED
      BY <2>1, <2>2 DEF TypeInv
  <1>6. ASSUME NEW w \in Worker, SendStart(w)
        PROVE  TypeInv'
    <2>1. StoreTypeOK' /\ ServerTypeOK' /\ RawInv'
      BY <1>6
      DEF TypeInv, SendStart, StoreTypeOK, ServerTypeOK, RawInv, Requests,
          RequestTypeOK, RequestInv, HasArchive, Ingesting, Replaying,
          Telling, store, graph, files, ghosts, request, work, NodeRow, File
    <2>2. CASE Finish(w)
      BY <2>1, <2>2, FinishRequests DEF TypeInv
    <2>3. CASE Goto(w, "archiving") /\ kind[w] = "put" /\ UNCHANGED <<request, work, gone>>
      BY <1>6, <2>1, <2>3, GotoRequests
      DEF TypeInv, SendStart, Requests, RequestInv, Ingesting, Replaying, Telling, HasArchive, Pc
    <2>4. CASE Goto(w, "next") /\ kind[w] # "put" /\ UNCHANGED <<request, work, gone>>
      BY <1>6, <2>1, <2>4, GotoRequests
      DEF TypeInv, SendStart, Requests, RequestInv, Ingesting, Replaying, Telling, HasArchive, Pc
    <2> QED
      BY <1>6, <2>2, <2>3, <2>4 DEF SendStart
  <1>7. ASSUME NEW w \in Worker, SendWarning(w)
        PROVE  TypeInv'
    <2>1. StoreTypeOK' /\ ServerTypeOK' /\ RawInv'
      BY <1>7
      DEF TypeInv, SendWarning, StoreTypeOK, ServerTypeOK, RawInv, Requests,
          RequestTypeOK, RequestInv, HasArchive, Ingesting, Replaying,
          Telling, store, graph, files, ghosts, request, work, NodeRow, File
    <2>2. CASE Finish(w)
      BY <2>1, <2>2, FinishRequests DEF TypeInv
    <2>3. CASE Goto(w, "hashing") /\ kind[w] = "put" /\ UNCHANGED <<request, work, gone>>
      BY <1>7, <2>1, <2>3, GotoRequests
      DEF TypeInv, SendWarning, Requests, RequestInv, Ingesting, Replaying, Telling, HasArchive, Pc
    <2>4. CASE Goto(w, "next") /\ kind[w] # "put" /\ UNCHANGED <<request, work, gone>>
      BY <1>7, <2>1, <2>4, GotoRequests
      DEF TypeInv, SendWarning, Requests, RequestInv, Ingesting, Replaying, Telling, HasArchive, Pc
    <2> QED
      BY <1>7, <2>2, <2>3, <2>4 DEF SendWarning
  <1>8. ASSUME NEW w \in Worker, SendDone(w)
        PROVE  TypeInv'
    <2>1. StoreTypeOK' /\ ServerTypeOK' /\ RawInv'
      BY <1>8
      DEF TypeInv, SendDone, StoreTypeOK, ServerTypeOK, RawInv, Requests,
          RequestTypeOK, RequestInv, HasArchive, Ingesting, Replaying,
          Telling, store, graph, files, ghosts, request, work, NodeRow, File
    <2>2. CASE Finish(w)
      BY <2>1, <2>2, FinishRequests DEF TypeInv
    <2>3. CASE Goto(w, "next") /\ kind[w] # "put" /\ UNCHANGED <<request, work, gone>>
      BY <1>8, <2>1, <2>3, GotoRequests
      DEF TypeInv, SendDone, Requests, RequestInv, Ingesting, Replaying, Telling, HasArchive, Pc
    <2> QED
      BY <1>8, <2>2, <2>3 DEF SendDone
  <1>9. ASSUME NEW w \in Worker, SendFailure(w)
        PROVE  TypeInv'
    <2>1. StoreTypeOK' /\ ServerTypeOK' /\ RawInv'
      BY <1>9
      DEF TypeInv, SendFailure, StoreTypeOK, ServerTypeOK, RawInv, Requests,
          RequestTypeOK, RequestInv, HasArchive, Ingesting, Replaying,
          Telling, store, graph, files, ghosts, request, work, NodeRow, File
    <2>2. CASE Finish(w)
      BY <2>1, <2>2, FinishRequests DEF TypeInv
    <2>3. CASE Goto(w, "next") /\ kind[w] # "put" /\ UNCHANGED <<request, work, gone>>
      BY <1>9, <2>1, <2>3, GotoRequests
      DEF TypeInv, SendFailure, Requests, RequestInv, Ingesting, Replaying, Telling, HasArchive, Pc
    <2> QED
      BY <1>9, <2>2, <2>3 DEF SendFailure
  <1>10. ASSUME NEW w \in Worker, ClientLeaves(w)
        PROVE  TypeInv'
    <2>1. StoreTypeOK' /\ ServerTypeOK' /\ RawInv'
      BY SpendTyped, <1>10
      DEF TypeInv, ClientLeaves, Supply, StoreTypeOK, ServerTypeOK, RawInv,
          Requests, RequestTypeOK, RequestInv, HasArchive, Ingesting,
          Replaying, Telling, store, graph, files, ghosts, request, work,
          NodeRow, File
    <2>2. Requests'
      BY <1>10
      DEF TypeInv, ClientLeaves, Goto, StoreTypeOK, RawInv, Requests,
          RequestTypeOK, RequestInv, HasArchive, Ingesting, Replaying,
          Telling, request, work, Pc, Kind
    <2> QED
      BY <2>1, <2>2 DEF TypeInv
  <1>11. ASSUME NEW w \in Worker, ArchiveRaw(w)
        PROVE  TypeInv'
    <2>1. StoreTypeOK' /\ ServerTypeOK' /\ RawInv'
      BY <1>11
      DEF TypeInv, ArchiveRaw, StoreTypeOK, ServerTypeOK, RawInv, Requests,
          RequestTypeOK, RequestInv, HasArchive, Ingesting, Replaying,
          Telling, store, graph, files, ghosts, request, work, NodeRow, File
    <2>2. Requests'
      BY <1>11
      DEF TypeInv, ArchiveRaw, Goto, StoreTypeOK, RawInv, Requests,
          RequestTypeOK, RequestInv, HasArchive, Ingesting, Replaying,
          Telling, request, work, Pc, Kind
    <2> QED
      BY <2>1, <2>2 DEF TypeInv
  <1>12. ASSUME NEW w \in Worker, ArchiveFails(w)
        PROVE  TypeInv'
    <2>1. StoreTypeOK' /\ ServerTypeOK' /\ RawInv'
      BY SpendTyped, <1>12
      DEF TypeInv, ArchiveFails, Supply, StoreTypeOK, ServerTypeOK, RawInv,
          Requests, RequestTypeOK, RequestInv, HasArchive, Ingesting,
          Replaying, Telling, store, graph, files, ghosts, request, work,
          NodeRow, File
    <2>2. Requests'
      BY <1>12
      DEF TypeInv, ArchiveFails, Goto, StoreTypeOK, RawInv, Requests,
          RequestTypeOK, RequestInv, HasArchive, Ingesting, Replaying,
          Telling, request, work, Pc, Kind
    <2> QED
      BY <2>1, <2>2 DEF TypeInv
  <1>13. ASSUME NEW w \in Worker, ListRaw(w)
        PROVE  TypeInv'
    <2>1. StoreTypeOK' /\ ServerTypeOK' /\ RawInv'
      BY <1>13
      DEF TypeInv, ListRaw, StoreTypeOK, ServerTypeOK, RawInv, Requests,
          RequestTypeOK, RequestInv, HasArchive, Ingesting, Replaying,
          Telling, store, graph, files, ghosts, request, work, NodeRow, File
    <2>2. CASE Finish(w)
      BY <2>1, <2>2, FinishRequests DEF TypeInv
    <2>3. CASE /\ pc[w] = "listing"
               /\ todo' = [todo EXCEPT ![w] = {b \in scope[w] : raw[b] # Nothing}]
               /\ Goto(w, "listed")
               /\ UNCHANGED <<request, batch, puts, gone>>
      BY <2>1, <2>3, <1>13
      DEF TypeInv, ListRaw, Goto, Requests, RequestTypeOK, RequestInv,
          HasArchive, Ingesting, Replaying, Telling, request, Pc
    <2> QED
      BY <1>13, <2>2, <2>3 DEF ListRaw
  <1>14. ASSUME NEW w \in Worker, NextEntry(w)
        PROVE  TypeInv'
    <2>1. StoreTypeOK' /\ ServerTypeOK' /\ RawInv'
      BY <1>14
      DEF TypeInv, NextEntry, StoreTypeOK, ServerTypeOK, RawInv, Requests,
          RequestTypeOK, RequestInv, HasArchive, Ingesting, Replaying,
          Telling, store, graph, files, ghosts, request, work, NodeRow, File
    <2>2. CASE Finish(w)
      BY <2>1, <2>2, FinishRequests DEF TypeInv
    <2>3. CASE \E b \in todo[w] :
               /\ target' = [target EXCEPT ![w] = b]
               /\ todo' = [todo EXCEPT ![w] = @ \ {b}]
               /\ Goto(w, "reading")
               /\ UNCHANGED <<kind, scope, arch, batch, puts, gone>>
      BY <2>1, <2>3, <1>14
      DEF TypeInv, NextEntry, Goto, Requests, RequestTypeOK, RequestInv,
          HasArchive, Ingesting, Replaying, Telling, request, Pc
    <2> QED
      BY <1>14, <2>2, <2>3 DEF NextEntry
  <1>15. ASSUME NEW w \in Worker, ReadRaw(w)
        PROVE  TypeInv'
    <2>1. StoreTypeOK' /\ ServerTypeOK' /\ RawInv'
      BY <1>15
      DEF TypeInv, ReadRaw, StoreTypeOK, ServerTypeOK, RawInv, Requests,
          RequestTypeOK, RequestInv, HasArchive, Ingesting, Replaying,
          Telling, store, graph, files, ghosts, request, work, NodeRow, File
    <2>2. Requests'
      <3>1. target[w] \in Bundle /\ kind[w] = "reingest"
        BY <1>15 DEF TypeInv, Requests, RequestInv, Replaying, ReadRaw
      <3>2. UNCHANGED <<kind, scope, target, work, gone>>
        BY <1>15 DEF ReadRaw
      <3>3. \/ /\ raw[target[w]] \in Archive
               /\ arch' = [arch EXCEPT ![w] = raw[target[w]]]
               /\ Goto(w, "hashing")
            \/ arch' = arch /\ Goto(w, "warning")
        BY <1>15 DEF ReadRaw
      <3>4. raw[target[w]] \in Archive => BundleOf[raw[target[w]]] = target[w]
        BY <3>1 DEF TypeInv, RawInv
      <3>5. RequestTypeOK'
        <4>1. RequestTypeOK /\ UNCHANGED <<kind, scope, target, batch, puts, todo, gone>>
          BY <3>2 DEF TypeInv, Requests, work
        <4>2. arch \in [Worker -> Archive \cup {Nothing}] /\ pc \in [Worker -> Pc]
          BY <4>1 DEF RequestTypeOK
        <4>3. arch' \in [Worker -> Archive \cup {Nothing}]
          BY <3>3, <4>2
        <4>4. "hashing" \in Pc /\ "warning" \in Pc
          BY DEF Pc
        <4>5. pc' \in [Worker -> Pc]
          <5>1. pc' = [pc EXCEPT ![w] = pc'[w]] /\ pc'[w] \in {"hashing", "warning"}
            BY <3>3, <4>2 DEF Goto
          <5> QED
            BY <4>2, <4>4, <5>1
        <4> QED
          BY <4>1, <4>3, <4>5 DEF RequestTypeOK
      <3>6. RequestInv'
        BY <1>15, <3>1, <3>2, <3>3, <3>4
        DEF TypeInv, ReadRaw, Goto, Requests, RequestTypeOK, RequestInv,
            HasArchive, Ingesting, Replaying, Telling
      <3> QED
        BY <3>5, <3>6 DEF Requests
    <2> QED
      BY <2>1, <2>2 DEF TypeInv
  <1>16. ASSUME NEW w \in Worker, Prefetch(w)
        PROVE  TypeInv'
    <2>1. StoreTypeOK' /\ ServerTypeOK' /\ RawInv'
      BY <1>16
      DEF TypeInv, Prefetch, StoreTypeOK, ServerTypeOK, RawInv, Requests,
          RequestTypeOK, RequestInv, HasArchive, Ingesting, Replaying,
          Telling, store, graph, files, ghosts, request, work, NodeRow, File
    <2>2. Requests'
      BY StageFacts, <1>16
      DEF TypeInv, Prefetch, ExistingRefs, Goto, StoreTypeOK, RawInv,
          Requests, RequestTypeOK, RequestInv, HasArchive, Ingesting,
          Replaying, Telling, request, work, Pc, Kind
    <2> QED
      BY <2>1, <2>2 DEF TypeInv
  <1>17. ASSUME NEW w \in Worker, Flush(w)
        PROVE  TypeInv'
    <2>1. StoreTypeOK' /\ ServerTypeOK' /\ RawInv'
      <3>1. batch[w] \in Batch /\ arch[w] \in Archive
        BY <1>17 DEF TypeInv, Requests, RequestTypeOK, RequestInv, Flush, Ingesting,
          HasArchive
      <3>2. PICK c \in Chunks(batch[w]) : /\ node' = RunNodes(node, c, arch[w])
                                         /\ link' = RunLinks(node', link, c)
        BY <1>17 DEF Flush
      <3>3. node' \in [Key -> NodeRow] /\ link' \in SUBSET Link
        BY <3>1, <3>2, ChunkFacts, RunTyped DEF TypeInv, StoreTypeOK
      <3> QED
        BY <1>17, <3>3
        DEF TypeInv, Flush, StoreTypeOK, ServerTypeOK, RawInv, files, ghosts
    <2>2. Requests'
      BY ChunkFacts, WithoutIsBatch, <1>17
      DEF TypeInv, Flush, Goto, StoreTypeOK, RawInv, Requests, RequestTypeOK,
          RequestInv, HasArchive, Ingesting, Replaying, Telling, request,
          work, Pc, Kind
    <2> QED
      BY <2>1, <2>2 DEF TypeInv
  <1>18. ASSUME NEW w \in Worker, FlushFails(w)
        PROVE  TypeInv'
    <2>1. StoreTypeOK' /\ ServerTypeOK' /\ RawInv'
      BY SpendTyped, <1>18
      DEF TypeInv, FlushFails, Abandon, Supply, StoreTypeOK, ServerTypeOK,
          RawInv, Requests, RequestTypeOK, RequestInv, HasArchive, Ingesting,
          Replaying, Telling, store, graph, files, ghosts, request, work,
          NodeRow, File
    <2>2. Requests'
      BY NoStmtsIsBatch, <1>18
      DEF TypeInv, FlushFails, Abandon, Goto, StoreTypeOK, RawInv, Requests,
          RequestTypeOK, RequestInv, HasArchive, Ingesting, Replaying,
          Telling, request, work, Pc, Kind
    <2> QED
      BY <2>1, <2>2 DEF TypeInv
  <1>19. ASSUME NEW w \in Worker, NEW k \in Key, PutBlob(w, k)
        PROVE  TypeInv'
    <2>1. StoreTypeOK' /\ ServerTypeOK' /\ RawInv'
      BY <1>19
      DEF TypeInv, PutBlob, StoreTypeOK, ServerTypeOK, RawInv, Requests,
          RequestTypeOK, RequestInv, HasArchive, Ingesting, Replaying,
          Telling, store, graph, files, ghosts, request, work, NodeRow, File
    <2>2. Requests'
      BY <1>19
      DEF TypeInv, PutBlob, Goto, StoreTypeOK, RawInv, Requests,
          RequestTypeOK, RequestInv, HasArchive, Ingesting, Replaying,
          Telling, request, work, Pc, Kind
    <2> QED
      BY <2>1, <2>2 DEF TypeInv
  <1>20. ASSUME NEW w \in Worker, NEW k \in Key, PutBlobFails(w, k)
        PROVE  TypeInv'
    <2>1. StoreTypeOK' /\ ServerTypeOK' /\ RawInv'
      BY SpendTyped, <1>20
      DEF TypeInv, PutBlobFails, Abandon, Supply, StoreTypeOK, ServerTypeOK,
          RawInv, Requests, RequestTypeOK, RequestInv, HasArchive, Ingesting,
          Replaying, Telling, store, graph, files, ghosts, request, work,
          NodeRow, File
    <2>2. Requests'
      BY NoStmtsIsBatch, <1>20
      DEF TypeInv, PutBlobFails, Abandon, Goto, StoreTypeOK, RawInv, Requests,
          RequestTypeOK, RequestInv, HasArchive, Ingesting, Replaying,
          Telling, request, work, Pc, Kind
    <2> QED
      BY <2>1, <2>2 DEF TypeInv
  <1>21. ASSUME NEW w \in Worker, PutMeta(w)
        PROVE  TypeInv'
    <2>1. StoreTypeOK' /\ ServerTypeOK' /\ RawInv'
      BY <1>21
      DEF TypeInv, PutMeta, StoreTypeOK, ServerTypeOK, RawInv, Requests,
          RequestTypeOK, RequestInv, HasArchive, Ingesting, Replaying,
          Telling, store, graph, files, ghosts, request, work, NodeRow, File
    <2>2. Requests'
      BY <1>21
      DEF TypeInv, PutMeta, Goto, StoreTypeOK, RawInv, Requests,
          RequestTypeOK, RequestInv, HasArchive, Ingesting, Replaying,
          Telling, request, work, Pc, Kind
    <2> QED
      BY <2>1, <2>2 DEF TypeInv
  <1>22. ASSUME NEW w \in Worker, PutMetaFails(w)
        PROVE  TypeInv'
    <2>1. StoreTypeOK' /\ ServerTypeOK' /\ RawInv'
      BY SpendTyped, <1>22
      DEF TypeInv, PutMetaFails, Abandon, Supply, StoreTypeOK, ServerTypeOK,
          RawInv, Requests, RequestTypeOK, RequestInv, HasArchive, Ingesting,
          Replaying, Telling, store, graph, files, ghosts, request, work,
          NodeRow, File
    <2>2. Requests'
      BY NoStmtsIsBatch, <1>22
      DEF TypeInv, PutMetaFails, Abandon, Goto, StoreTypeOK, RawInv, Requests,
          RequestTypeOK, RequestInv, HasArchive, Ingesting, Replaying,
          Telling, request, work, Pc, Kind
    <2> QED
      BY <2>1, <2>2 DEF TypeInv
  <1>23. ASSUME NEW w \in Worker, Record(w)
        PROVE  TypeInv'
    <2>1. StoreTypeOK' /\ ServerTypeOK' /\ RawInv'
      BY <1>23
      DEF TypeInv, Record, StoreTypeOK, ServerTypeOK, RawInv, Requests,
          RequestTypeOK, RequestInv, HasArchive, Ingesting, Replaying,
          Telling, store, graph, files, ghosts, request, work, NodeRow, File
    <2>2. Requests'
      BY <1>23
      DEF TypeInv, Record, Goto, StoreTypeOK, RawInv, Requests, RequestTypeOK,
          RequestInv, HasArchive, Ingesting, Replaying, Telling, request,
          work, Pc, Kind
    <2> QED
      BY <2>1, <2>2 DEF TypeInv
  <1>24. ASSUME NEW w \in Worker, DropIndex(w)
        PROVE  TypeInv'
    <2>1. StoreTypeOK' /\ ServerTypeOK' /\ RawInv'
      BY <1>24
      DEF TypeInv, DropIndex, StoreTypeOK, ServerTypeOK, RawInv, Requests,
          RequestTypeOK, RequestInv, HasArchive, Ingesting, Replaying,
          Telling, store, graph, files, ghosts, request, work, NodeRow, File
    <2>2. Requests'
      BY <1>24
      DEF TypeInv, DropIndex, Goto, StoreTypeOK, RawInv, Requests,
          RequestTypeOK, RequestInv, HasArchive, Ingesting, Replaying,
          Telling, request, work, Pc, Kind
    <2> QED
      BY <2>1, <2>2 DEF TypeInv
  <1>25. ASSUME NEW w \in Worker, FillIndex(w)
        PROVE  TypeInv'
    <2>1. StoreTypeOK' /\ ServerTypeOK' /\ RawInv'
      BY <1>25
      DEF TypeInv, FillIndex, StoreTypeOK, ServerTypeOK, RawInv, Requests,
          RequestTypeOK, RequestInv, HasArchive, Ingesting, Replaying,
          Telling, store, graph, files, ghosts, request, work, NodeRow, File
    <2>2. Requests'
      BY <1>25
      DEF TypeInv, FillIndex, Goto, StoreTypeOK, RawInv, Requests,
          RequestTypeOK, RequestInv, HasArchive, Ingesting, Replaying,
          Telling, request, work, Pc, Kind
    <2> QED
      BY <2>1, <2>2 DEF TypeInv
  <1>26. ASSUME NEW w \in Worker, CommitFails(w)
        PROVE  TypeInv'
    <2>1. StoreTypeOK' /\ ServerTypeOK' /\ RawInv'
      BY SpendTyped, <1>26
      DEF TypeInv, CommitFails, Abandon, Supply, StoreTypeOK, ServerTypeOK,
          RawInv, Requests, RequestTypeOK, RequestInv, HasArchive, Ingesting,
          Replaying, Telling, store, graph, files, ghosts, request, work,
          NodeRow, File
    <2>2. Requests'
      BY NoStmtsIsBatch, <1>26
      DEF TypeInv, CommitFails, Abandon, Goto, StoreTypeOK, RawInv, Requests,
          RequestTypeOK, RequestInv, HasArchive, Ingesting, Replaying,
          Telling, request, work, Pc, Kind
    <2> QED
      BY <2>1, <2>2 DEF TypeInv
  <1>27. ASSUME NEW w \in Worker, DeleteRows(w)
        PROVE  TypeInv'
    <2>1. StoreTypeOK' /\ ServerTypeOK' /\ RawInv'
      BY DropTyped, <1>27
      DEF TypeInv, DeleteRows, Cleanse, StoreTypeOK, ServerTypeOK, RawInv, Requests,
          RequestTypeOK, RequestInv, HasArchive, Ingesting, Replaying,
          Telling, store, graph, files, ghosts, request, work, NodeRow, File
    <2>2. Requests'
      BY <1>27
      DEF TypeInv, DeleteRows, KeysOf, Goto, StoreTypeOK, RawInv, Requests,
          RequestTypeOK, RequestInv, HasArchive, Ingesting, Replaying,
          Telling, request, work, Pc, Kind
    <2> QED
      BY <2>1, <2>2 DEF TypeInv
  <1>28. ASSUME NEW w \in Worker, ClearRows(w)
        PROVE  TypeInv'
    <2>1. StoreTypeOK' /\ ServerTypeOK' /\ RawInv'
      BY <1>28
      DEF TypeInv, ClearRows, Cleanse, StoreTypeOK, ServerTypeOK, RawInv, Requests,
          RequestTypeOK, RequestInv, HasArchive, Ingesting, Replaying,
          Telling, store, graph, files, ghosts, request, work, NodeRow, File
    <2>2. Requests'
      BY <1>28
      DEF TypeInv, ClearRows, Goto, StoreTypeOK, RawInv, Requests,
          RequestTypeOK, RequestInv, HasArchive, Ingesting, Replaying,
          Telling, request, work, Pc, Kind
    <2> QED
      BY <2>1, <2>2 DEF TypeInv
  <1>29. ASSUME NEW w \in Worker, NEW k \in Key, RemoveBlob(w, k)
        PROVE  TypeInv'
    <2>1. StoreTypeOK' /\ ServerTypeOK' /\ RawInv'
      BY <1>29
      DEF TypeInv, RemoveBlob, StoreTypeOK, ServerTypeOK, RawInv, Requests,
          RequestTypeOK, RequestInv, HasArchive, Ingesting, Replaying,
          Telling, store, graph, files, ghosts, request, work, NodeRow, File
    <2>2. Requests'
      BY <1>29
      DEF TypeInv, RemoveBlob, Goto, StoreTypeOK, RawInv, Requests,
          RequestTypeOK, RequestInv, HasArchive, Ingesting, Replaying,
          Telling, request, work, Pc, Kind
    <2> QED
      BY <2>1, <2>2 DEF TypeInv
  <1>30. ASSUME NEW w \in Worker, RemoveTree(w)
        PROVE  TypeInv'
    <2>1. StoreTypeOK' /\ ServerTypeOK' /\ RawInv'
      BY <1>30
      DEF TypeInv, RemoveTree, StoreTypeOK, ServerTypeOK, RawInv, Requests,
          RequestTypeOK, RequestInv, HasArchive, Ingesting, Replaying,
          Telling, store, graph, files, ghosts, request, work, NodeRow, File
    <2>2. CASE Finish(w)
      BY <2>1, <2>2, FinishRequests DEF TypeInv
    <2>3. CASE /\ todo' = [todo EXCEPT ![w] = scope[w]]
               /\ Goto(w, "delRaw")
               /\ UNCHANGED <<request, batch, puts, gone>>
      BY <2>1, <2>3, <1>30
      DEF TypeInv, RemoveTree, Goto, Requests, RequestTypeOK, RequestInv,
          HasArchive, Ingesting, Replaying, Telling, request, Pc
    <2> QED
      BY <1>30, <2>2, <2>3 DEF RemoveTree
  <1>31. ASSUME NEW w \in Worker, RemoveFails(w)
        PROVE  TypeInv'
    <2>1. StoreTypeOK' /\ ServerTypeOK' /\ RawInv'
      BY SpendTyped, <1>31
      DEF TypeInv, RemoveFails, Supply, StoreTypeOK, ServerTypeOK, RawInv,
          Requests, RequestTypeOK, RequestInv, HasArchive, Ingesting,
          Replaying, Telling, store, graph, files, ghosts, request, work,
          NodeRow, File
    <2> QED
      BY <2>1, <1>31, FinishRequests DEF TypeInv, RemoveFails
  <1>32. ASSUME NEW w \in Worker, ReadFails(w)
        PROVE  TypeInv'
    <2>1. StoreTypeOK' /\ ServerTypeOK' /\ RawInv'
      BY SpendTyped, <1>32
      DEF TypeInv, ReadFails, Supply, StoreTypeOK, ServerTypeOK, RawInv,
          store, graph, files, ghosts
    <2> QED
      BY <2>1, <1>32, FinishRequests DEF TypeInv, ReadFails
  <1>33. ASSUME NEW w \in Worker, NEW b \in Bundle, RemoveRaw(w, b)
        PROVE  TypeInv'
    <2>1. StoreTypeOK' /\ ServerTypeOK' /\ RawInv'
      BY <1>33
      DEF TypeInv, RemoveRaw, StoreTypeOK, ServerTypeOK, RawInv, Requests,
          RequestTypeOK, RequestInv, HasArchive, Ingesting, Replaying,
          Telling, store, graph, files, ghosts, request, work, NodeRow, File
    <2>2. CASE Finish(w)
      BY <2>1, <2>2, FinishRequests DEF TypeInv
    <2>3. CASE /\ todo' = [todo EXCEPT ![w] = @ \ {b}]
               /\ UNCHANGED <<pc, request, batch, puts, gone>>
      BY <2>1, <2>3, <1>33
      DEF TypeInv, RemoveRaw, Goto, Requests, RequestTypeOK, RequestInv,
          HasArchive, Ingesting, Replaying, Telling, request, Pc
    <2> QED
      BY <1>33, <2>2, <2>3 DEF RemoveRaw
  <1>34. ASSUME NEW o \in orphans, OrphanPut(o)
        PROVE  TypeInv'
    BY <1>34 DEF TypeInv, OrphanPut, StoreTypeOK, ServerTypeOK, RawInv, Requests,
      RequestTypeOK, RequestInv, HasArchive, graph, request, work, ghosts, File
  <1>35. ASSUME NEW w \in Worker, Reject(w)
        PROVE  TypeInv'
    <2>1. StoreTypeOK' /\ ServerTypeOK' /\ RawInv'
      BY <1>35
      DEF TypeInv, Reject, StoreTypeOK, ServerTypeOK, RawInv, store, graph,
          files, ghosts
    <2>2. Requests'
      BY <2>1, <1>35
      DEF TypeInv, Reject, Goto, Requests, RequestTypeOK, RequestInv,
          HasArchive, Ingesting, Replaying, Telling, request, work, store, Pc
    <2> QED
      BY <2>1, <2>2 DEF TypeInv
  <1>36. CASE Crash
    <2>1. StoreTypeOK' /\ ServerTypeOK' /\ RawInv'
      BY <1>36, SpendTyped
      DEF TypeInv, Crash, StoreTypeOK, ServerTypeOK, RawInv, Requests,
          RequestTypeOK, Supply, graph, File
    <2>2. Requests'
      BY <1>36, NoStmtsIsBatch
      DEF Crash, Requests, RequestTypeOK, RequestInv, Ingesting, Replaying, Telling, Pc, Kind
    <2> QED
      BY <2>1, <2>2 DEF TypeInv
  <1>37. CASE UNCHANGED vars
    BY <1>37 DEF TypeInv, vars, store, graph, files, request, work, ghosts,
      StoreTypeOK, ServerTypeOK, RawInv, Requests, RequestTypeOK, RequestInv,
      HasArchive
  <1> QED
    BY <1>1, <1>2, <1>3, <1>4, <1>5, <1>6, <1>7, <1>8, <1>9, <1>10, <1>11,
       <1>12, <1>13, <1>14, <1>15, <1>16, <1>17, <1>18, <1>19, <1>20, <1>21,
       <1>22, <1>23, <1>24, <1>25, <1>26, <1>27, <1>28, <1>29, <1>30, <1>31,
       <1>32, <1>33, <1>34, <1>35, <1>36, <1>37
    DEF Next, Request, Step, Fault

\* Type correctness: no interleaving of requests, crash or failure makes a row,
\* a file or a request something the code does not expect.
THEOREM TypeCorrect == Spec => []TypeOK
  <1>1. TypeInv => TypeOK
    BY DEF TypeInv, Requests, TypeOK
  <1> QED
    BY InitTypeInv, NextTypeInv, <1>1, PTL DEF Spec

-----------------------------------------------------------------------------
(* Links.  A handler that is among the transactions of its batch has the    *)
(* drain, so that nobody drops the rows it has inserted; what its batch     *)
(* still updates has a row by then, and what it still links has its blob.   *)

FlushInv ==
    \A w \in Worker :
        /\ pc[w] = "flushing" /\ batch[w] # NoStmts => drain = w
        /\ pc[w] = "staged" =>
              /\ batch[w].upd \subseteq batch[w].ins
              /\ \A e \in batch[w].add : e[1] \in batch[w].upd
        /\ pc[w] = "flushing" =>
              /\ \A k \in batch[w].upd : k \in batch[w].ins \/ node[k] # NoRow
              /\ \A e \in batch[w].add :
                    e[1] \in batch[w].upd \/ HasBlob(node, e[1])

LinkInv == LinkEndsExist /\ LinkSourceUploaded /\ FlushInv

LEMMA InitLinkInv == Init => LinkInv
  BY DEF Init, LinkInv, LinkEndsExist, LinkSourceUploaded, FlushInv

\* What a transaction does to the rows: none is lost, a page stays a page, and
\* what it inserts and updates is there.
LEMMA RunNodesFacts ==
    ASSUME NEW n \in [Key -> NodeRow], NEW c \in Batch, NEW a \in Archive,
           NEW m, m = RunNodes(n, c, a)
    PROVE  /\ \A k \in Key : n[k] # NoRow => m[k] # NoRow
           /\ \A k \in Key : HasBlob(n, k) => HasBlob(m, k)
           /\ \A k \in c.ins : m[k] # NoRow
           /\ \A k \in c.upd : k \in c.ins \/ n[k] # NoRow => HasBlob(m, k)
  <1>1. /\ a # NoRow /\ Stub # NoRow /\ NoRow \notin Archive
        /\ c.ins \subseteq Key /\ c.upd \subseteq Key
    BY GraphAssumption DEF Batch
  <1>2. \A k \in Key : InsertNodes(n, c.ins)[k] =
                          IF k \in c.ins /\ n[k] = NoRow THEN Stub ELSE n[k]
    BY DEF InsertNodes
  <1>3. \A k \in Key : m[k] =
           IF k \in c.upd /\ InsertNodes(n, c.ins)[k] # NoRow
           THEN a ELSE InsertNodes(n, c.ins)[k]
    BY DEF RunNodes, MarkBlobs
  <1>4. \A k \in Key : m[k] = IF k \in c.upd /\ (k \in c.ins \/ n[k] # NoRow)
                              THEN a
                              ELSE IF k \in c.ins /\ n[k] = NoRow THEN Stub
                                                                  ELSE n[k]
    BY <1>1, <1>2, <1>3
  <1>5. \A k \in Key : n[k] # NoRow => m[k] # NoRow
    BY <1>1, <1>4
  <1>6. \A k \in Key : HasBlob(n, k) => HasBlob(m, k)
    BY <1>1, <1>4 DEF HasBlob
  <1>7. \A k \in c.ins : m[k] # NoRow
    BY <1>1, <1>4
  <1>8. \A k \in c.upd : k \in c.ins \/ n[k] # NoRow => HasBlob(m, k)
    BY <1>1, <1>4 DEF HasBlob
  <1> QED
    BY <1>5, <1>6, <1>7, <1>8

\* A transaction adds a link only between two rows.
LEMMA RunLinksFacts ==
    ASSUME NEW m, NEW l, NEW c, NEW e \in RunLinks(m, l, c)
    PROVE  \/ e \in l
           \/ e \in c.add /\ m[e[1]] # NoRow /\ m[e[2]] # NoRow
  BY DEF RunLinks

\* A step of one request that leaves the rows and the links alone, and takes
\* or releases only its own drain, keeps the invariant.
LEMMA FrameLinks ==
    ASSUME TypeInv, LinkInv, NEW w \in Worker, UNCHANGED <<node, link>>,
           drain' # drain => drain \in {w, Nothing},
           \A v \in Worker \ {w} : pc'[v] = pc[v] /\ batch'[v] = batch[v],
           pc'[w] \notin {"staged", "flushing"}
    PROVE  LinkInv'
  BY StoreAssumption
  DEF LinkInv, LinkEndsExist, LinkSourceUploaded, FlushInv, HasBlob

LEMMA NextLinkInv == TypeInv /\ LinkInv /\ [Next]_vars => LinkInv'
  <1> SUFFICES ASSUME TypeInv, LinkInv, [Next]_vars PROVE LinkInv'
    OBVIOUS
  <1>1. ASSUME NEW w \in Worker, NEW a \in Archive, Put(w, a)
        PROVE  LinkInv'
    BY <1>1, FrameLinks
    DEF Put, Arrive, Goto, TypeInv, Requests, RequestTypeOK, store, graph,
        files, request, work
  <1>2. ASSUME NEW w \in Worker, NEW S \in SUBSET Bundle, Reingest(w, S)
        PROVE  LinkInv'
    BY <1>2, FrameLinks
    DEF Reingest, Arrive, Goto, TypeInv, Requests, RequestTypeOK, store,
        graph, files, request, work
  <1>3. ASSUME NEW w \in Worker, NEW b \in Bundle, NEW op \in {"delete", "deleteRaw"}, Delete(w, b, op)
        PROVE  LinkInv'
    BY <1>3, FrameLinks
    DEF Delete, Arrive, Goto, TypeInv, Requests, RequestTypeOK, store, graph,
        files, request, work
  <1>4. ASSUME NEW w \in Worker, Clear(w)
        PROVE  LinkInv'
    BY <1>4, FrameLinks
    DEF Clear, Arrive, Goto, TypeInv, Requests, RequestTypeOK, store, graph,
        files, request, work
  <1>5. ASSUME NEW w \in Worker, ClearRaw(w)
        PROVE  LinkInv'
    BY <1>5, FrameLinks
    DEF ClearRaw, Arrive, Goto, TypeInv, Requests, RequestTypeOK, store,
        graph, files, request, work
  <1>6. ASSUME NEW w \in Worker, SendStart(w)
        PROVE  LinkInv'
    BY <1>6, FrameLinks
    DEF SendStart, Finish, Goto, TypeInv, Requests, RequestTypeOK, store,
        graph, files, request, work
  <1>7. ASSUME NEW w \in Worker, SendWarning(w)
        PROVE  LinkInv'
    BY <1>7, FrameLinks
    DEF SendWarning, Finish, Goto, TypeInv, Requests, RequestTypeOK, store,
        graph, files, request, work
  <1>8. ASSUME NEW w \in Worker, SendDone(w)
        PROVE  LinkInv'
    BY <1>8, FrameLinks
    DEF SendDone, Finish, Goto, TypeInv, Requests, RequestTypeOK, store,
        graph, files, request, work
  <1>9. ASSUME NEW w \in Worker, SendFailure(w)
        PROVE  LinkInv'
    BY <1>9, FrameLinks
    DEF SendFailure, Finish, Goto, TypeInv, Requests, RequestTypeOK, store,
        graph, files, request, work
  <1>10. ASSUME NEW w \in Worker, ClientLeaves(w)
        PROVE  LinkInv'
    BY <1>10 DEF ClientLeaves, store, graph, work, LinkInv, LinkEndsExist,
      LinkSourceUploaded, FlushInv, HasBlob
  <1>11. ASSUME NEW w \in Worker, ArchiveRaw(w)
        PROVE  LinkInv'
    BY <1>11, FrameLinks
    DEF ArchiveRaw, Goto, TypeInv, Requests, RequestTypeOK, store, graph,
        files, request, work
  <1>12. ASSUME NEW w \in Worker, ArchiveFails(w)
        PROVE  LinkInv'
    BY <1>12, FrameLinks
    DEF ArchiveFails, Goto, TypeInv, Requests, RequestTypeOK, store, graph,
        files, request, work
  <1>13. ASSUME NEW w \in Worker, ListRaw(w)
        PROVE  LinkInv'
    BY <1>13, FrameLinks
    DEF ListRaw, Finish, Goto, TypeInv, Requests, RequestTypeOK, store, graph,
        files, request, work
  <1>14. ASSUME NEW w \in Worker, NextEntry(w)
        PROVE  LinkInv'
    BY <1>14, FrameLinks
    DEF NextEntry, Finish, Goto, TypeInv, Requests, RequestTypeOK, store,
        graph, files, request, work
  <1>15. ASSUME NEW w \in Worker, ReadRaw(w)
        PROVE  LinkInv'
    BY <1>15, FrameLinks
    DEF ReadRaw, Goto, TypeInv, Requests, RequestTypeOK, store, graph, files,
        request, work
  <1>16. ASSUME NEW w \in Worker, Prefetch(w)
        PROVE  LinkInv'
    <2>1. arch[w] \in Archive /\ ExistingRefs(link, target[w]) \in SUBSET Link
      BY <1>16 DEF TypeInv, StoreTypeOK, Requests, RequestInv, HasArchive,
        Ingesting, Prefetch, ExistingRefs
    <2> DEFINE fresh == hash[target[w]] = Nothing
               bs == IF fresh THEN {} ELSE ExistingBlobs(node, target[w])
               rs == IF fresh THEN {} ELSE ExistingRefs(link, target[w])
    <2>2. /\ batch' = [batch EXCEPT ![w] = Stage(arch[w], bs, rs)]
          /\ rs \in SUBSET Link
      BY <1>16, <2>1 DEF Prefetch
    <2> HIDE DEF bs, rs
    <2>3. /\ batch'[w].upd \subseteq batch'[w].ins
          /\ \A e \in batch'[w].add : e[1] \in batch'[w].upd
      BY <2>1, <2>2, StageFacts DEF TypeInv, Requests, RequestTypeOK
    <2> QED
      BY <1>16, <2>2, <2>3
      DEF Prefetch, Goto, TypeInv, Requests, RequestTypeOK, store, graph,
          LinkInv, LinkEndsExist, LinkSourceUploaded, FlushInv
  <1>17. ASSUME NEW w \in Worker, Flush(w)
        PROVE  LinkInv'
    <2>1. batch[w] \in Batch /\ arch[w] \in Archive
      BY <1>17 DEF TypeInv, Requests, RequestTypeOK, RequestInv, Flush, Ingesting,
        HasArchive
    <2>2. PICK c \in Chunks(batch[w]) :
              LET rest == Without(batch[w], c) IN
              /\ node' = RunNodes(node, c, arch[w])
              /\ link' = RunLinks(node', link, c)
              /\ batch' = [batch EXCEPT ![w] = rest]
              /\ drain' = IF rest = NoStmts THEN Nothing ELSE w
      BY <1>17 DEF Flush
    <2>3. c \in Batch
      BY <2>1, ChunkFacts
    <2>4. /\ \A k \in c.upd : k \in c.ins \/ node[k] # NoRow
          /\ \A e \in c.add : e[1] \in c.upd \/ HasBlob(node, e[1])
      BY <1>17, <2>1, <2>2, ChunkFacts DEF Flush, LinkInv, FlushInv
    <2>5. /\ \A k \in Key : node[k] # NoRow => node'[k] # NoRow
          /\ \A k \in Key : HasBlob(node, k) => HasBlob(node', k)
          /\ \A k \in c.ins : node'[k] # NoRow
          /\ \A k \in c.upd : HasBlob(node', k)
          /\ \A e \in link' :
                \/ e \in link
                \/ e \in c.add /\ node'[e[1]] # NoRow /\ node'[e[2]] # NoRow
      <3>1. node \in [Key -> NodeRow] /\ node' = RunNodes(node, c, arch[w])
        BY <2>2 DEF TypeInv, StoreTypeOK
      <3>2. /\ \A k \in Key : node[k] # NoRow => node'[k] # NoRow
            /\ \A k \in Key : HasBlob(node, k) => HasBlob(node', k)
            /\ \A k \in c.ins : node'[k] # NoRow
            /\ \A k \in c.upd :
                  k \in c.ins \/ node[k] # NoRow => HasBlob(node', k)
        BY <2>1, <2>3, <3>1, RunNodesFacts
      <3>3. \A e \in link' :
               \/ e \in link
               \/ e \in c.add /\ node'[e[1]] # NoRow /\ node'[e[2]] # NoRow
        <4>1. link' = RunLinks(node', link, c)
          BY <2>2
        <4> QED
          BY <4>1, RunLinksFacts
      <3> QED
        BY <2>4, <3>2, <3>3
    <2>6. LinkEndsExist' /\ LinkSourceUploaded'
      BY <2>3, <2>4, <2>5
      DEF LinkInv, LinkEndsExist, LinkSourceUploaded, TypeInv, StoreTypeOK, Link,
          Batch
    <2>7. FlushInv'
      <3> SUFFICES ASSUME NEW v \in Worker PROVE FlushInv!(v)'
        BY DEF FlushInv
      <3>1. CASE v # w
        <4>1. pc'[v] = pc[v] /\ batch'[v] = batch[v]
          BY <1>17, <2>2, <3>1 DEF Flush, Goto, TypeInv, Requests, RequestTypeOK
        <4>2. ~(pc[v] = "flushing" /\ batch[v] # NoStmts)
          BY <1>17, <3>1, StoreAssumption DEF Flush, Free, LinkInv, FlushInv
        <4> QED
          BY <4>1, <4>2 DEF LinkInv, FlushInv, NoStmts
      <3>2. CASE v = w
        <4>1. pc'[w] = "flushing" /\ batch'[w] = Without(batch[w], c)
          BY <1>17, <2>2 DEF Flush, Goto, TypeInv, Requests, RequestTypeOK
        <4>2. \A k \in batch[w].upd \ c.upd :
                 k \in batch[w].ins \ c.ins \/ node'[k] # NoRow
          BY <1>17, <2>1, <2>2, <2>5 DEF Flush, LinkInv, FlushInv, Batch
        <4>3. \A e \in batch[w].add \ c.add :
                 e[1] \in batch[w].upd \ c.upd \/ HasBlob(node', e[1])
          BY <1>17, <2>1, <2>2, <2>5
          DEF Flush, LinkInv, FlushInv, Batch, Link
        <4>4. batch'[w] # NoStmts => drain' = w
          BY <2>2, <4>1
        <4> QED
          BY <3>2, <4>1, <4>2, <4>3, <4>4 DEF Without, HasBlob
      <3> QED
        BY <3>1, <3>2
    <2> QED
      BY <2>6, <2>7 DEF LinkInv
  <1>18. ASSUME NEW w \in Worker, FlushFails(w)
        PROVE  LinkInv'
    BY <1>18, FrameLinks
    DEF FlushFails, Abandon, Goto, TypeInv, Requests, RequestTypeOK, store,
        graph, files, request, work, Free
  <1>19. ASSUME NEW w \in Worker, NEW k \in Key, PutBlob(w, k)
        PROVE  LinkInv'
    <2>1. UNCHANGED <<node, link, drain, batch>>
      BY <1>19 DEF PutBlob, graph
    <2>2. \A v \in Worker : pc'[v] # pc[v] => pc'[v] = "meta"
      BY <1>19 DEF PutBlob, Goto, TypeInv, Requests, RequestTypeOK
    <2> QED
      BY <2>1, <2>2
      DEF LinkInv, LinkEndsExist, LinkSourceUploaded, FlushInv, HasBlob
  <1>20. ASSUME NEW w \in Worker, NEW k \in Key, PutBlobFails(w, k)
        PROVE  LinkInv'
    BY <1>20, FrameLinks
    DEF PutBlobFails, Abandon, Goto, TypeInv, Requests, RequestTypeOK, store,
        graph, files, request, work, Free
  <1>21. ASSUME NEW w \in Worker, PutMeta(w)
        PROVE  LinkInv'
    BY <1>21, FrameLinks
    DEF PutMeta, Goto, TypeInv, Requests, RequestTypeOK, store, graph, files,
        request, work
  <1>22. ASSUME NEW w \in Worker, PutMetaFails(w)
        PROVE  LinkInv'
    BY <1>22, FrameLinks
    DEF PutMetaFails, Abandon, Goto, TypeInv, Requests, RequestTypeOK, store,
        graph, files, request, work, Free
  <1>23. ASSUME NEW w \in Worker, Record(w)
        PROVE  LinkInv'
    BY <1>23, FrameLinks
    DEF Record, Goto, TypeInv, Requests, RequestTypeOK, store, graph, files,
        request, work, Free
  <1>24. ASSUME NEW w \in Worker, DropIndex(w)
        PROVE  LinkInv'
    BY <1>24, FrameLinks
    DEF DropIndex, Goto, TypeInv, Requests, RequestTypeOK, store, graph,
        files, request, work
  <1>25. ASSUME NEW w \in Worker, FillIndex(w)
        PROVE  LinkInv'
    BY <1>25, FrameLinks
    DEF FillIndex, Goto, TypeInv, Requests, RequestTypeOK, store, graph,
        files, request, work
  <1>26. ASSUME NEW w \in Worker, CommitFails(w)
        PROVE  LinkInv'
    BY <1>26, FrameLinks
    DEF CommitFails, Abandon, Goto, TypeInv, Requests, RequestTypeOK, store,
        graph, files, request, work, Free
  <1>27. ASSUME NEW w \in Worker, DeleteRows(w)
        PROVE  LinkInv'
    <2>1. LinkEndsExist' /\ LinkSourceUploaded'
      BY <1>27 DEF DeleteRows, DropNodes, DropLinks, LinkInv, LinkEndsExist,
        LinkSourceUploaded, HasBlob, TypeInv, StoreTypeOK, Link
    <2>2. \A v \in Worker : pc[v] = "flushing" => batch[v] = NoStmts
      BY <1>27, StoreAssumption DEF DeleteRows, Free, LinkInv, FlushInv
    <2>3. /\ UNCHANGED <<batch, drain>>
          /\ \A v \in Worker : pc'[v] # pc[v] => pc'[v] = "delBlobs"
      BY <1>27 DEF DeleteRows, Goto, TypeInv, Requests, RequestTypeOK
    <2>4. FlushInv'
      BY <2>2, <2>3 DEF LinkInv, FlushInv, NoStmts
    <2> QED
      BY <2>1, <2>4 DEF LinkInv
  <1>28. ASSUME NEW w \in Worker, ClearRows(w)
        PROVE  LinkInv'
    <2>1. LinkEndsExist' /\ LinkSourceUploaded'
      BY <1>28 DEF ClearRows, LinkInv, LinkEndsExist, LinkSourceUploaded,
        HasBlob, TypeInv, StoreTypeOK, Link
    <2>2. \A v \in Worker : pc[v] = "flushing" => batch[v] = NoStmts
      BY <1>28, StoreAssumption DEF ClearRows, Free, LinkInv, FlushInv
    <2>3. /\ UNCHANGED <<batch, drain>>
          /\ \A v \in Worker : pc'[v] # pc[v] => pc'[v] = "delBlobs"
      BY <1>28 DEF ClearRows, Goto, TypeInv, Requests, RequestTypeOK
    <2>4. FlushInv'
      BY <2>2, <2>3 DEF LinkInv, FlushInv, NoStmts
    <2> QED
      BY <2>1, <2>4 DEF LinkInv
  <1>29. ASSUME NEW w \in Worker, NEW k \in Key, RemoveBlob(w, k)
        PROVE  LinkInv'
    BY <1>29 DEF RemoveBlob, store, graph, LinkInv, LinkEndsExist,
      LinkSourceUploaded, FlushInv, HasBlob
  <1>30. ASSUME NEW w \in Worker, RemoveTree(w)
        PROVE  LinkInv'
    BY <1>30, FrameLinks
    DEF RemoveTree, Finish, Goto, TypeInv, Requests, RequestTypeOK, store,
        graph, files, request, work
  <1>31. ASSUME NEW w \in Worker, RemoveFails(w)
        PROVE  LinkInv'
    BY <1>31, FrameLinks
    DEF RemoveFails, Finish, Goto, TypeInv, Requests, RequestTypeOK, store,
        graph, files, request, work
  <1>32. ASSUME NEW w \in Worker, ReadFails(w)
        PROVE  LinkInv'
    BY <1>32, FrameLinks
    DEF ReadFails, Finish, Goto, TypeInv, Requests, RequestTypeOK, store,
        graph, files, request, work
  <1>33. ASSUME NEW w \in Worker, NEW b \in Bundle, RemoveRaw(w, b)
        PROVE  LinkInv'
    BY <1>33, FrameLinks
    DEF RemoveRaw, Finish, Goto, TypeInv, Requests, RequestTypeOK, store,
        graph, files, request, work
  <1>34. ASSUME NEW o \in orphans, OrphanPut(o)
        PROVE  LinkInv'
    BY <1>34 DEF OrphanPut, graph, work, LinkInv, LinkEndsExist,
      LinkSourceUploaded, FlushInv, HasBlob
  <1>35. ASSUME NEW w \in Worker, Reject(w)
        PROVE  LinkInv'
    BY <1>35, FrameLinks
    DEF Reject, Goto, TypeInv, Requests, RequestTypeOK, store, graph, files,
        request, work
  <1>36. CASE Crash
    BY <1>36 DEF Crash, graph, LinkInv, LinkEndsExist, LinkSourceUploaded,
      FlushInv, HasBlob
  <1>37. CASE UNCHANGED vars
    BY <1>37 DEF vars, store, graph, work, LinkInv, LinkEndsExist,
      LinkSourceUploaded, FlushInv, HasBlob
  <1> QED
    BY <1>1, <1>2, <1>3, <1>4, <1>5, <1>6, <1>7, <1>8, <1>9, <1>10, <1>11,
       <1>12, <1>13, <1>14, <1>15, <1>16, <1>17, <1>18, <1>19, <1>20, <1>21,
       <1>22, <1>23, <1>24, <1>25, <1>26, <1>27, <1>28, <1>29, <1>30, <1>31,
       <1>32, <1>33, <1>34, <1>35, <1>36, <1>37
    DEF Next, Request, Step, Fault

\* Both ends of a link have a row, whatever overlaps, fails or crashes: every
\* artifact, number of requests and size of the chunks.
THEOREM LinksJoinRows == Spec => []LinkEndsExist
  <1>1. LinkInv => LinkEndsExist
    BY DEF LinkInv
  <1> QED
    BY InitTypeInv, NextTypeInv, InitLinkInv, NextLinkInv, <1>1, PTL DEF Spec

\* And every link starts at a page that was uploaded.
THEOREM LinksStartAtPages == Spec => []LinkSourceUploaded
  <1>1. LinkInv => LinkSourceUploaded
    BY DEF LinkInv
  <1> QED
    BY InitTypeInv, NextTypeInv, InitLinkInv, NextLinkInv, <1>1, PTL DEF Spec
-----------------------------------------------------------------------------
(* A step of a request.                                                     *)

Actor(w) == Request(w) \/ Step(w) \/ Fault(w) \/ ClientLeaves(w)

\* It leaves the other requests as they are.
OthersStay(w) ==
    \A v \in Worker \ {w} :
        /\ pc'[v] = pc[v] /\ kind'[v] = kind[v] /\ scope'[v] = scope[v]
        /\ arch'[v] = arch[v] /\ target'[v] = target[v]
        /\ batch'[v] = batch[v] /\ puts'[v] = puts[v] /\ todo'[v] = todo[v]

LEMMA ActorMeansOthersStay ==
    ASSUME TypeInv, NEW w \in Worker, Actor(w)
    PROVE  OthersStay(w)
  <1> USE DEF OthersStay, TypeInv, Requests, RequestTypeOK
  <1>1. ASSUME NEW a \in Archive, Put(w, a) PROVE OthersStay(w)
    BY <1>1
    DEF Put, Arrive, Goto, request, work
  <1>2. ASSUME NEW S \in SUBSET Bundle, Reingest(w, S) PROVE OthersStay(w)
    BY <1>2
    DEF Reingest, Arrive, Goto, request, work
  <1>3. ASSUME NEW b \in Bundle, NEW op \in {"delete", "deleteRaw"}, Delete(w, b, op) PROVE OthersStay(w)
    BY <1>3
    DEF Delete, Arrive, Goto, request, work
  <1>4. ASSUME Clear(w) PROVE OthersStay(w)
    BY <1>4
    DEF Clear, Arrive, Goto, request, work
  <1>5. ASSUME ClearRaw(w) PROVE OthersStay(w)
    BY <1>5
    DEF ClearRaw, Arrive, Goto, request, work
  <1>6. ASSUME SendStart(w) PROVE OthersStay(w)
    BY <1>6
    DEF SendStart, Finish, Goto, request, work
  <1>7. ASSUME SendWarning(w) PROVE OthersStay(w)
    BY <1>7
    DEF SendWarning, Finish, Goto, request, work
  <1>8. ASSUME SendDone(w) PROVE OthersStay(w)
    BY <1>8
    DEF SendDone, Finish, Goto, request, work
  <1>9. ASSUME SendFailure(w) PROVE OthersStay(w)
    BY <1>9
    DEF SendFailure, Finish, Goto, request, work
  <1>10. ASSUME ClientLeaves(w) PROVE OthersStay(w)
    BY <1>10
    DEF ClientLeaves, request, work
  <1>11. ASSUME ArchiveRaw(w) PROVE OthersStay(w)
    BY <1>11
    DEF ArchiveRaw, Goto, request, work
  <1>12. ASSUME ArchiveFails(w) PROVE OthersStay(w)
    BY <1>12
    DEF ArchiveFails, Goto, request, work
  <1>13. ASSUME ListRaw(w) PROVE OthersStay(w)
    BY <1>13
    DEF ListRaw, Finish, Goto, request, work
  <1>14. ASSUME NextEntry(w) PROVE OthersStay(w)
    BY <1>14
    DEF NextEntry, Finish, Goto, request, work
  <1>15. ASSUME ReadRaw(w) PROVE OthersStay(w)
    BY <1>15
    DEF ReadRaw, Goto, request, work
  <1>16. ASSUME ReadFails(w) PROVE OthersStay(w)
    BY <1>16
    DEF ReadFails, Finish, Goto, request, work
  <1>17. ASSUME Reject(w) PROVE OthersStay(w)
    BY <1>17
    DEF Reject, Goto, request, work
  <1>18. ASSUME Prefetch(w) PROVE OthersStay(w)
    BY <1>18
    DEF Prefetch, Goto, request, work
  <1>19. ASSUME Flush(w) PROVE OthersStay(w)
    BY <1>19
    DEF Flush, Goto, request, work
  <1>20. ASSUME FlushFails(w) PROVE OthersStay(w)
    BY <1>20
    DEF FlushFails, Abandon, Goto, request, work
  <1>21. ASSUME NEW k \in Key, PutBlob(w, k) PROVE OthersStay(w)
    BY <1>21
    DEF PutBlob, Goto, request, work
  <1>22. ASSUME NEW k \in Key, PutBlobFails(w, k) PROVE OthersStay(w)
    BY <1>22
    DEF PutBlobFails, Abandon, Goto, request, work
  <1>23. ASSUME PutMeta(w) PROVE OthersStay(w)
    BY <1>23
    DEF PutMeta, Goto, request, work
  <1>24. ASSUME PutMetaFails(w) PROVE OthersStay(w)
    BY <1>24
    DEF PutMetaFails, Abandon, Goto, request, work
  <1>25. ASSUME Record(w) PROVE OthersStay(w)
    BY <1>25
    DEF Record, Goto, request, work
  <1>26. ASSUME DropIndex(w) PROVE OthersStay(w)
    BY <1>26
    DEF DropIndex, Goto, request, work
  <1>27. ASSUME FillIndex(w) PROVE OthersStay(w)
    BY <1>27
    DEF FillIndex, Goto, request, work
  <1>28. ASSUME CommitFails(w) PROVE OthersStay(w)
    BY <1>28
    DEF CommitFails, Abandon, Goto, request, work
  <1>29. ASSUME DeleteRows(w) PROVE OthersStay(w)
    BY <1>29
    DEF DeleteRows, Goto, request, work
  <1>30. ASSUME ClearRows(w) PROVE OthersStay(w)
    BY <1>30
    DEF ClearRows, Goto, request, work
  <1>31. ASSUME NEW k \in Key, RemoveBlob(w, k) PROVE OthersStay(w)
    BY <1>31
    DEF RemoveBlob, Goto, request, work
  <1>32. ASSUME RemoveTree(w) PROVE OthersStay(w)
    BY <1>32
    DEF RemoveTree, Finish, Goto, request, work
  <1>33. ASSUME RemoveFails(w) PROVE OthersStay(w)
    BY <1>33
    DEF RemoveFails, Finish, Goto, request, work
  <1>34. ASSUME NEW b \in Bundle, RemoveRaw(w, b) PROVE OthersStay(w)
    BY <1>34
    DEF RemoveRaw, Finish, Goto, request, work
  <1> QED
    BY <1>1, <1>2, <1>3, <1>4, <1>5, <1>6, <1>7, <1>8, <1>9, <1>10, <1>11,
       <1>12, <1>13, <1>14, <1>15, <1>16, <1>17, <1>18, <1>19, <1>20, <1>21,
       <1>22, <1>23, <1>24, <1>25, <1>26, <1>27, <1>28, <1>29, <1>30, <1>31,
       <1>32, <1>33, <1>34
    DEF Actor, Request, Step, Fault

-----------------------------------------------------------------------------
(* What a request says of its bundles.  The one it ingests is in its scope,  *)
(* its batch is about the pages of its artifact only, and what it still has *)
(* to remove belongs to the bundles it deletes.                             *)

ScopeOK(w) ==
    /\ pc[w] = "idle" => scope[w] = {} /\ target[w] = Nothing /\ todo[w] = {}
    /\ target[w] \in Bundle => target[w] \in scope[w]
    /\ todo[w] \subseteq scope[w]
    /\ pc[w] = "delRows" => scope[w] = {target[w]}
    /\ pc[w] = "clrRows" => scope[w] = Bundle
    /\ pc[w] = "delBlobs" => \A k \in puts[w] : Owner[k] \in scope[w]
    /\ pc[w] \notin {"staged", "flushing"} => batch[w] = NoStmts
    /\ pc[w] \notin {"staged", "flushing", "delBlobs"} => puts[w] = {}
    /\ pc[w] \in {"staged", "flushing"} =>
          /\ puts[w] \subseteq Pages[arch[w]]
          /\ batch[w].upd \subseteq Pages[arch[w]]
          /\ \A e \in batch[w].add \cup batch[w].del : e[1] \in Pages[arch[w]]

ScopeInv == \A w \in Worker : ScopeOK(w)

LEMMA InitScopeInv == Init => ScopeInv
  BY StoreAssumption DEF Init, ScopeInv, ScopeOK

\* The statements of an ingest are about its pages.
LEMMA StagePages ==
    ASSUME NEW a \in Archive, NEW bs, NEW rs
    PROVE  /\ Stage(a, bs, rs).upd = Pages[a]
           /\ \A e \in Stage(a, bs, rs).add \cup Stage(a, bs, rs).del :
                 e[1] \in Pages[a]
  BY DEF Stage

\* A request that ends has no scope, ...
LEMMA FinishScope ==
    ASSUME TypeInv, NEW w \in Worker, Finish(w)
    PROVE  ScopeOK(w)'
  BY StoreAssumption
  DEF Finish, Goto, ScopeOK, TypeInv, Requests, RequestTypeOK

\* ... one that has nothing staged may move on, ...
LEMMA MoveScope ==
    ASSUME ScopeInv, NEW w \in Worker,
           pc[w] \notin {"staged", "flushing", "delBlobs"},
           scope'[w] = scope[w], target'[w] = target[w],
           batch'[w] = batch[w], puts'[w] = puts[w], todo'[w] \subseteq scope[w],
           pc'[w] \notin {"idle", "staged", "flushing",
                          "delRows", "clrRows", "delBlobs"}
    PROVE  ScopeOK(w)'
  BY DEF ScopeInv, ScopeOK

\* ... and one that arrives finds its worker with nothing left over.
LEMMA ArriveScope ==
    ASSUME TypeInv, ScopeInv, NEW w \in Worker, NEW op, NEW S \in SUBSET Bundle,
           Arrive(w, op, S), pc'[w] \notin {"idle", "staged", "flushing", "delBlobs"},
           pc'[w] = "delRows" => S = {target'[w]},
           pc'[w] = "clrRows" => S = Bundle,
           target'[w] \in S \/ target'[w] = target[w],
           puts'[w] = puts[w], todo'[w] \in {todo[w], S}
    PROVE  ScopeOK(w)'
  BY StoreAssumption
  DEF Arrive, ScopeInv, ScopeOK, TypeInv, Requests, RequestTypeOK

LEMMA ActorScope ==
    ASSUME TypeInv, ScopeInv, NEW w \in Worker, Actor(w)
    PROVE  ScopeInv'
  <1>0. \A v \in Worker \ {w} : ScopeOK(v)'
    BY ActorMeansOthersStay DEF OthersStay, ScopeInv, ScopeOK
  <1> SUFFICES ScopeOK(w)'
    BY <1>0 DEF ScopeInv
  <1> USE StoreAssumption, GraphAssumption
  <1>1. ASSUME NEW a \in Archive, Put(w, a) PROVE ScopeOK(w)'
    <2>1. /\ Arrive(w, "put", {BundleOf[a]}) /\ {BundleOf[a]} \in SUBSET Bundle
          /\ pc'[w] = "accepted" /\ target'[w] = BundleOf[a]
          /\ puts'[w] = puts[w] /\ todo'[w] = todo[w]
      BY <1>1 DEF Put, Goto, TypeInv, Requests, RequestTypeOK
    <2> QED
      BY <2>1, ArriveScope
  <1>2. ASSUME NEW S \in SUBSET Bundle, Reingest(w, S) PROVE ScopeOK(w)'
    <2>1. /\ Arrive(w, "reingest", S) /\ S \in SUBSET Bundle
          /\ pc'[w] = "listing" /\ target'[w] = target[w]
          /\ puts'[w] = puts[w] /\ todo'[w] = todo[w]
      BY <1>2 DEF Reingest, Goto, TypeInv, Requests, RequestTypeOK
    <2> QED
      BY <2>1, ArriveScope
  <1>3. ASSUME NEW b \in Bundle, NEW op \in {"delete", "deleteRaw"}, Delete(w, b, op) PROVE ScopeOK(w)'
    <2>1. /\ Arrive(w, op, {b}) /\ {b} \in SUBSET Bundle
          /\ pc'[w] = "delRows" /\ target'[w] = b
          /\ puts'[w] = puts[w] /\ todo'[w] = todo[w]
      BY <1>3 DEF Delete, Goto, TypeInv, Requests, RequestTypeOK
    <2> QED
      BY <2>1, ArriveScope
  <1>4. ASSUME Clear(w) PROVE ScopeOK(w)'
    <2>1. /\ Arrive(w, "clear", Bundle) /\ Bundle \in SUBSET Bundle
          /\ pc'[w] = "clrRows" /\ target'[w] = target[w]
          /\ puts'[w] = puts[w] /\ todo'[w] = todo[w]
      BY <1>4 DEF Clear, Goto, TypeInv, Requests, RequestTypeOK
    <2> QED
      BY <2>1, ArriveScope
  <1>5. ASSUME ClearRaw(w) PROVE ScopeOK(w)'
    <2>1. /\ Arrive(w, "clearRaw", Bundle) /\ Bundle \in SUBSET Bundle
          /\ pc'[w] = "delRaw" /\ target'[w] = target[w]
          /\ puts'[w] = puts[w] /\ todo'[w] = Bundle
      BY <1>5 DEF ClearRaw, Goto, TypeInv, Requests, RequestTypeOK
    <2> QED
      BY <2>1, ArriveScope
  <1>6. ASSUME SendStart(w) PROVE ScopeOK(w)'
    <2>1. CASE Finish(w)
      BY <2>1, FinishScope
    <2>2. CASE /\ pc'[w] \in {"archiving", "hashing", "next"}
               /\ UNCHANGED <<request, work>>
      BY <1>6, <2>2, MoveScope DEF SendStart, request, work, ScopeInv, ScopeOK
    <2> QED
      BY <1>6, <2>1, <2>2 DEF SendStart, Goto, TypeInv, Requests, RequestTypeOK
  <1>7. ASSUME SendWarning(w) PROVE ScopeOK(w)'
    <2>1. CASE Finish(w)
      BY <2>1, FinishScope
    <2>2. CASE /\ pc'[w] \in {"archiving", "hashing", "next"}
               /\ UNCHANGED <<request, work>>
      BY <1>7, <2>2, MoveScope DEF SendWarning, request, work, ScopeInv, ScopeOK
    <2> QED
      BY <1>7, <2>1, <2>2 DEF SendWarning, Goto, TypeInv, Requests, RequestTypeOK
  <1>8. ASSUME SendDone(w) PROVE ScopeOK(w)'
    <2>1. CASE Finish(w)
      BY <2>1, FinishScope
    <2>2. CASE /\ pc'[w] \in {"archiving", "hashing", "next"}
               /\ UNCHANGED <<request, work>>
      BY <1>8, <2>2, MoveScope DEF SendDone, request, work, ScopeInv, ScopeOK
    <2> QED
      BY <1>8, <2>1, <2>2 DEF SendDone, Goto, TypeInv, Requests, RequestTypeOK
  <1>9. ASSUME SendFailure(w) PROVE ScopeOK(w)'
    <2>1. CASE Finish(w)
      BY <2>1, FinishScope
    <2>2. CASE /\ pc'[w] \in {"archiving", "hashing", "next"}
               /\ UNCHANGED <<request, work>>
      BY <1>9, <2>2, MoveScope DEF SendFailure, request, work, ScopeInv, ScopeOK
    <2> QED
      BY <1>9, <2>1, <2>2 DEF SendFailure, Goto, TypeInv, Requests, RequestTypeOK
  <1>10. ASSUME ClientLeaves(w) PROVE ScopeOK(w)'
    BY <1>10 DEF ClientLeaves, request, work, ScopeInv, ScopeOK
  <1>11. ASSUME ArchiveRaw(w) PROVE ScopeOK(w)'
    <2>1. /\ pc'[w] # pc[w]
          /\ pc'[w] \in {"hashing", "warning", "failing", "recording", "dropping",
                         "indexing", "replying"}
          /\ UNCHANGED <<scope, target, batch, puts, todo>>
      BY <1>11 DEF ArchiveRaw, Goto, request, work, TypeInv, Requests,
               RequestTypeOK
    <2> QED
      BY <1>11, <2>1, MoveScope DEF ArchiveRaw, ScopeInv, ScopeOK
  <1>12. ASSUME ArchiveFails(w) PROVE ScopeOK(w)'
    <2>1. /\ pc'[w] # pc[w]
          /\ pc'[w] \in {"hashing", "warning", "failing", "recording", "dropping",
                         "indexing", "replying"}
          /\ UNCHANGED <<scope, target, batch, puts, todo>>
      BY <1>12 DEF ArchiveFails, Goto, request, work, TypeInv, Requests,
               RequestTypeOK
    <2> QED
      BY <1>12, <2>1, MoveScope DEF ArchiveFails, ScopeInv, ScopeOK
  <1>13. ASSUME ListRaw(w) PROVE ScopeOK(w)'
    <2>1. CASE Finish(w)
      BY <2>1, FinishScope
    <2>2. CASE /\ todo'[w] = {b \in scope[w] : raw[b] # Nothing}
               /\ pc'[w] = "listed"
               /\ UNCHANGED <<request, batch, puts>>
      BY <1>13, <2>2, MoveScope DEF ListRaw, request
    <2> QED
      BY <1>13, <2>1, <2>2 DEF ListRaw, Goto, TypeInv, Requests, RequestTypeOK
  <1>14. ASSUME NextEntry(w) PROVE ScopeOK(w)'
    <2>1. CASE Finish(w)
      BY <2>1, FinishScope
    <2>2. CASE \E b \in todo[w] :
                  /\ target'[w] = b /\ todo'[w] = todo[w] \ {b}
                  /\ pc'[w] = "reading"
                  /\ UNCHANGED <<scope, batch, puts>>
      BY <1>14, <2>2 DEF NextEntry, ScopeInv, ScopeOK
    <2> QED
      BY <1>14, <2>1, <2>2 DEF NextEntry, Goto, TypeInv, Requests, RequestTypeOK
  <1>15. ASSUME ReadRaw(w) PROVE ScopeOK(w)'
    <2>1. /\ pc'[w] # pc[w]
          /\ pc'[w] \in {"hashing", "warning", "failing", "recording", "dropping",
                         "indexing", "replying"}
          /\ UNCHANGED <<scope, target, batch, puts, todo>>
      BY <1>15 DEF ReadRaw, Goto, request, work, TypeInv, Requests, RequestTypeOK
    <2> QED
      BY <1>15, <2>1, MoveScope DEF ReadRaw, ScopeInv, ScopeOK
  <1>16. ASSUME ReadFails(w) PROVE ScopeOK(w)'
    BY <1>16, FinishScope DEF ReadFails
  <1>17. ASSUME Reject(w) PROVE ScopeOK(w)'
    <2>1. /\ pc'[w] # pc[w]
          /\ pc'[w] \in {"hashing", "warning", "failing", "recording", "dropping",
                         "indexing", "replying"}
          /\ UNCHANGED <<scope, target, batch, puts, todo>>
      BY <1>17 DEF Reject, Goto, request, work, TypeInv, Requests, RequestTypeOK
    <2> QED
      BY <1>17, <2>1, MoveScope DEF Reject, ScopeInv, ScopeOK
  <1>18. ASSUME Prefetch(w) PROVE ScopeOK(w)'
    <2> DEFINE fresh == hash[target[w]] = Nothing
               bs == IF fresh THEN {} ELSE ExistingBlobs(node, target[w])
               rs == IF fresh THEN {} ELSE ExistingRefs(link, target[w])
    <2>1. batch' = [batch EXCEPT ![w] = Stage(arch[w], bs, rs)]
      BY <1>18 DEF Prefetch
    <2> HIDE DEF bs, rs
    <2>2. /\ batch'[w].upd = Pages[arch[w]]
          /\ \A e \in batch'[w].add \cup batch'[w].del : e[1] \in Pages[arch[w]]
      <3>1. arch[w] \in Archive
        BY <1>18 DEF Prefetch, TypeInv, Requests, RequestInv, HasArchive, Ingesting
      <3>2. batch'[w] = Stage(arch[w], bs, rs)
        BY <2>1 DEF TypeInv, Requests, RequestTypeOK
      <3> QED
        BY <3>1, <3>2, StagePages
    <2>3. /\ pc'[w] = "staged" /\ puts'[w] = Pages[arch[w]]
          /\ UNCHANGED <<scope, target, todo, arch>>
      BY <1>18 DEF Prefetch, Goto, request, TypeInv, Requests, RequestTypeOK
    <2> QED
      BY <1>18, <2>2, <2>3 DEF Prefetch, ScopeInv, ScopeOK
  <1>19. ASSUME Flush(w) PROVE ScopeOK(w)'
    <2>1. PICK c \in Chunks(batch[w]) :
             batch' = [batch EXCEPT ![w] = Without(batch[w], c)]
      BY <1>19 DEF Flush
    <2>2. /\ pc'[w] = "flushing" /\ batch'[w] = Without(batch[w], c)
          /\ UNCHANGED <<scope, target, todo, arch, puts>>
      BY <1>19, <2>1 DEF Flush, Goto, request, TypeInv, Requests, RequestTypeOK
    <2> QED
      BY <1>19, <2>2 DEF Flush, ScopeInv, ScopeOK, Without
  <1>20. ASSUME FlushFails(w) PROVE ScopeOK(w)'
    <2>1. /\ pc'[w] = "failing" /\ batch'[w] = NoStmts /\ puts'[w] = {}
          /\ UNCHANGED <<scope, target, todo>>
      BY <1>20 DEF FlushFails, Abandon, Goto, request, TypeInv, Requests,
               RequestTypeOK
    <2> QED
      BY <1>20, <2>1 DEF FlushFails, ScopeInv, ScopeOK
  <1>21. ASSUME NEW k \in Key, PutBlob(w, k) PROVE ScopeOK(w)'
    <2>1. /\ pc'[w] = IF puts[w] = {k} THEN "meta" ELSE "flushing"
          /\ puts'[w] = puts[w] \ {k}
          /\ UNCHANGED <<scope, target, todo, arch, batch>>
      BY <1>21 DEF PutBlob, Goto, request, TypeInv, Requests, RequestTypeOK
    <2> QED
      BY <1>21, <2>1 DEF PutBlob, ScopeInv, ScopeOK, NoStmts
  <1>22. ASSUME NEW k \in Key, PutBlobFails(w, k) PROVE ScopeOK(w)'
    <2>1. /\ pc'[w] = "failing" /\ batch'[w] = NoStmts /\ puts'[w] = {}
          /\ UNCHANGED <<scope, target, todo>>
      BY <1>22 DEF PutBlobFails, Abandon, Goto, request, TypeInv, Requests,
               RequestTypeOK
    <2> QED
      BY <1>22, <2>1 DEF PutBlobFails, ScopeInv, ScopeOK
  <1>23. ASSUME PutMeta(w) PROVE ScopeOK(w)'
    <2>1. /\ pc'[w] # pc[w]
          /\ pc'[w] \in {"hashing", "warning", "failing", "recording", "dropping",
                         "indexing", "replying"}
          /\ UNCHANGED <<scope, target, batch, puts, todo>>
      BY <1>23 DEF PutMeta, Goto, request, work, TypeInv, Requests, RequestTypeOK
    <2> QED
      BY <1>23, <2>1, MoveScope DEF PutMeta, ScopeInv, ScopeOK
  <1>24. ASSUME PutMetaFails(w) PROVE ScopeOK(w)'
    <2>1. /\ pc'[w] = "failing" /\ batch'[w] = NoStmts /\ puts'[w] = {}
          /\ UNCHANGED <<scope, target, todo>>
      BY <1>24 DEF PutMetaFails, Abandon, Goto, request, TypeInv, Requests,
               RequestTypeOK
    <2> QED
      BY <1>24, <2>1 DEF PutMetaFails, ScopeInv, ScopeOK
  <1>25. ASSUME Record(w) PROVE ScopeOK(w)'
    <2>1. /\ pc'[w] # pc[w]
          /\ pc'[w] \in {"hashing", "warning", "failing", "recording", "dropping",
                         "indexing", "replying"}
          /\ UNCHANGED <<scope, target, batch, puts, todo>>
      BY <1>25 DEF Record, Goto, request, work, TypeInv, Requests, RequestTypeOK
    <2> QED
      BY <1>25, <2>1, MoveScope DEF Record, ScopeInv, ScopeOK
  <1>26. ASSUME DropIndex(w) PROVE ScopeOK(w)'
    <2>1. /\ pc'[w] # pc[w]
          /\ pc'[w] \in {"hashing", "warning", "failing", "recording", "dropping",
                         "indexing", "replying"}
          /\ UNCHANGED <<scope, target, batch, puts, todo>>
      BY <1>26 DEF DropIndex, Goto, request, work, TypeInv, Requests,
               RequestTypeOK
    <2> QED
      BY <1>26, <2>1, MoveScope DEF DropIndex, ScopeInv, ScopeOK
  <1>27. ASSUME FillIndex(w) PROVE ScopeOK(w)'
    <2>1. /\ pc'[w] # pc[w]
          /\ pc'[w] \in {"hashing", "warning", "failing", "recording", "dropping",
                         "indexing", "replying"}
          /\ UNCHANGED <<scope, target, batch, puts, todo>>
      BY <1>27 DEF FillIndex, Goto, request, work, TypeInv, Requests,
               RequestTypeOK
    <2> QED
      BY <1>27, <2>1, MoveScope DEF FillIndex, ScopeInv, ScopeOK
  <1>28. ASSUME CommitFails(w) PROVE ScopeOK(w)'
    <2>1. /\ pc'[w] = "failing" /\ batch'[w] = NoStmts /\ puts'[w] = {}
          /\ UNCHANGED <<scope, target, todo>>
      BY <1>28 DEF CommitFails, Abandon, Goto, request, TypeInv, Requests,
               RequestTypeOK
    <2> QED
      BY <1>28, <2>1 DEF CommitFails, ScopeInv, ScopeOK
  <1>29. ASSUME DeleteRows(w) PROVE ScopeOK(w)'
    <2>1. /\ pc'[w] = "delBlobs" /\ puts'[w] = KeysOf(target[w])
          /\ UNCHANGED <<scope, target, todo, batch>>
      BY <1>29 DEF DeleteRows, Goto, request, TypeInv, Requests, RequestTypeOK
    <2>2. /\ scope[w] = {target[w]} /\ todo[w] \subseteq scope[w] /\ batch[w] = NoStmts
          /\ target[w] \in Bundle => target[w] \in scope[w]
      BY <1>29 DEF DeleteRows, ScopeInv, ScopeOK
    <2>3. \A k \in puts'[w] : Owner[k] \in scope'[w]
      BY <2>1, <2>2 DEF KeysOf
    <2> QED
      BY <2>1, <2>2, <2>3 DEF ScopeOK
  <1>30. ASSUME ClearRows(w) PROVE ScopeOK(w)'
    <2>1. /\ pc'[w] = "delBlobs" /\ puts'[w] = Key
          /\ UNCHANGED <<scope, target, todo, batch>>
      BY <1>30 DEF ClearRows, Goto, request, TypeInv, Requests, RequestTypeOK
    <2> QED
      BY SMTT(30), <1>30, <2>1 DEF ClearRows, ScopeInv, ScopeOK, KeysOf
  <1>31. ASSUME NEW k \in Key, RemoveBlob(w, k) PROVE ScopeOK(w)'
    <2>1. /\ puts'[w] = puts[w] \ {k}
          /\ UNCHANGED <<pc, scope, target, todo, batch>>
      BY <1>31 DEF RemoveBlob, request, TypeInv, Requests, RequestTypeOK
    <2> QED
      BY <1>31, <2>1 DEF RemoveBlob, ScopeInv, ScopeOK
  <1>32. ASSUME RemoveTree(w) PROVE ScopeOK(w)'
    <2>1. CASE Finish(w)
      BY <2>1, FinishScope
    <2>2. CASE /\ todo'[w] = scope[w] /\ pc'[w] = "delRaw"
               /\ UNCHANGED <<request, batch, puts>>
      BY <1>32, <2>2 DEF RemoveTree, request, ScopeInv, ScopeOK
    <2> QED
      BY <1>32, <2>1, <2>2 DEF RemoveTree, Goto, TypeInv, Requests, RequestTypeOK
  <1>33. ASSUME RemoveFails(w) PROVE ScopeOK(w)'
    BY <1>33, FinishScope DEF RemoveFails
  <1>34. ASSUME NEW b \in Bundle, RemoveRaw(w, b) PROVE ScopeOK(w)'
    <2>1. CASE Finish(w)
      BY <2>1, FinishScope
    <2>2. CASE /\ todo'[w] = todo[w] \ {b}
               /\ UNCHANGED <<pc, request, batch, puts>>
      BY <1>34, <2>2 DEF RemoveRaw, request, ScopeInv, ScopeOK
    <2> QED
      BY <1>34, <2>1, <2>2 DEF RemoveRaw, TypeInv, Requests, RequestTypeOK
  <1> QED
    BY <1>1, <1>2, <1>3, <1>4, <1>5, <1>6, <1>7, <1>8, <1>9, <1>10, <1>11,
       <1>12, <1>13, <1>14, <1>15, <1>16, <1>17, <1>18, <1>19, <1>20, <1>21,
       <1>22, <1>23, <1>24, <1>25, <1>26, <1>27, <1>28, <1>29, <1>30, <1>31,
       <1>32, <1>33, <1>34
    DEF Actor, Request, Step, Fault

LEMMA NextScopeInv == TypeInv /\ ScopeInv /\ [Next]_vars => ScopeInv'
  <1>1. ASSUME ScopeInv, NEW o \in orphans, OrphanPut(o) PROVE ScopeInv'
    BY <1>1 DEF OrphanPut, request, work, ScopeInv, ScopeOK
  <1>2. ASSUME Crash PROVE ScopeInv'
    BY <1>2, StoreAssumption DEF Crash, ScopeInv, ScopeOK
  <1>3. ASSUME ScopeInv, UNCHANGED vars PROVE ScopeInv'
    BY <1>3 DEF vars, request, work, ScopeInv, ScopeOK
  <1> QED
    BY <1>1, <1>2, <1>3, ActorScope DEF Next, Actor

-----------------------------------------------------------------------------
(* The footprint of a step: the bundle that is ingested or archived, or the *)
(* bundles that are deleted.                                                *)

Deleting == {"delRows", "clrRows", "delBlobs", "delRaw"}

Touch(w) == IF pc[w] \in Deleting THEN scope[w] ELSE {target[w]}

LEMMA TouchInScope ==
    ASSUME ScopeInv, NEW w \in Worker, NEW b \in Bundle, b \in Touch(w)
    PROVE  b \in scope[w]
  BY DEF Touch, ScopeInv, ScopeOK

\* What a transaction does to a row: an upload's own pages get its content, and
\* what is only referred to gets a row if it has none.
LEMMA RunNodesValue ==
    ASSUME NEW n \in [Key -> NodeRow], NEW c \in Batch, NEW a \in Archive,
           NEW k \in Key
    PROVE  RunNodes(n, c, a)[k] =
              IF k \in c.upd /\ (k \in c.ins \/ n[k] # NoRow)
              THEN a
              ELSE IF k \in c.ins /\ n[k] = NoRow THEN Stub ELSE n[k]
  <1>1. Stub # NoRow
    BY GraphAssumption
  <1>2. InsertNodes(n, c.ins)[k] =
           IF k \in c.ins /\ n[k] = NoRow THEN Stub ELSE n[k]
    BY DEF InsertNodes
  <1>3. RunNodes(n, c, a)[k] =
           IF k \in c.upd /\ InsertNodes(n, c.ins)[k] # NoRow
           THEN a ELSE InsertNodes(n, c.ins)[k]
    BY DEF RunNodes, MarkBlobs
  <1> QED
    BY <1>1, <1>2, <1>3

LEMMA ActorFootprint ==
    ASSUME TypeInv, ScopeInv, NEW w \in Worker, Actor(w),
           NEW z \in Bundle, z \notin Touch(w)
    PROVE  Untouched(z)
  <1>1. ASSUME NEW a \in Archive, Put(w, a) PROVE Untouched(z)
    BY <1>1 DEF Put, Arrive, Untouched, store, graph, files
  <1>2. ASSUME NEW S \in SUBSET Bundle, Reingest(w, S) PROVE Untouched(z)
    BY <1>2 DEF Reingest, Arrive, Untouched, store, graph, files
  <1>3. ASSUME NEW b \in Bundle, NEW op \in {"delete", "deleteRaw"}, Delete(w, b, op) PROVE Untouched(z)
    BY <1>3 DEF Delete, Arrive, Untouched, store, graph, files
  <1>4. ASSUME Clear(w) PROVE Untouched(z)
    BY <1>4 DEF Clear, Arrive, Untouched, store, graph, files
  <1>5. ASSUME ClearRaw(w) PROVE Untouched(z)
    BY <1>5 DEF ClearRaw, Arrive, Untouched, store, graph, files
  <1>6. ASSUME SendStart(w) PROVE Untouched(z)
    BY <1>6 DEF SendStart, Untouched, store, graph, files
  <1>7. ASSUME SendWarning(w) PROVE Untouched(z)
    BY <1>7 DEF SendWarning, Untouched, store, graph, files
  <1>8. ASSUME SendDone(w) PROVE Untouched(z)
    BY <1>8 DEF SendDone, Untouched, store, graph, files
  <1>9. ASSUME SendFailure(w) PROVE Untouched(z)
    BY <1>9 DEF SendFailure, Untouched, store, graph, files
  <1>10. ASSUME ClientLeaves(w) PROVE Untouched(z)
    BY <1>10 DEF ClientLeaves, Untouched, store, graph, files
  <1>11. ASSUME ArchiveRaw(w) PROVE Untouched(z)
    BY <1>11 DEF ArchiveRaw, Touch, Deleting, Untouched, graph, files, store,
             TypeInv, StoreTypeOK
  <1>12. ASSUME ArchiveFails(w) PROVE Untouched(z)
    BY <1>12 DEF ArchiveFails, Touch, Deleting, Untouched, graph, files, store,
             TypeInv, StoreTypeOK
  <1>13. ASSUME ListRaw(w) PROVE Untouched(z)
    BY <1>13 DEF ListRaw, Untouched, store, graph, files
  <1>14. ASSUME NextEntry(w) PROVE Untouched(z)
    BY <1>14 DEF NextEntry, Untouched, store, graph, files
  <1>15. ASSUME ReadRaw(w) PROVE Untouched(z)
    BY <1>15 DEF ReadRaw, Untouched, store, graph, files
  <1>16. ASSUME ReadFails(w) PROVE Untouched(z)
    BY <1>16 DEF ReadFails, Untouched, store, graph, files
  <1>17. ASSUME Reject(w) PROVE Untouched(z)
    BY <1>17 DEF Reject, Untouched, store, graph, files
  <1>18. ASSUME Prefetch(w) PROVE Untouched(z)
    BY <1>18 DEF Prefetch, Untouched, store, graph, files
  <1>19. ASSUME Flush(w) PROVE Untouched(z)
    <2>1. /\ batch[w] \in Batch /\ arch[w] \in Archive
          /\ \A k \in Pages[arch[w]] : Owner[k] = target[w]
          /\ z # target[w]
      BY <1>19, GraphAssumption
      DEF Flush, Touch, Deleting, TypeInv, Requests, RequestTypeOK, RequestInv,
          Ingesting, HasArchive
    <2>2. PICK c \in Chunks(batch[w]) : /\ node' = RunNodes(node, c, arch[w])
                                       /\ link' = RunLinks(node', link, c)
      BY <1>19 DEF Flush
    <2>3. /\ c \in Batch
          /\ \A k \in KeysOf(z) : k \notin c.upd
          /\ \A k \in KeysOf(z), d \in Key : <<k, d>> \notin c.add \cup c.del
      <3>1. /\ c \in Batch /\ c.upd \subseteq batch[w].upd
            /\ c.add \subseteq batch[w].add /\ c.del \subseteq batch[w].del
        BY <2>1, ChunkFacts
      <3>2. /\ batch[w].upd \subseteq Pages[arch[w]]
            /\ \A e \in batch[w].add \cup batch[w].del : e[1] \in Pages[arch[w]]
        BY <1>19 DEF Flush, ScopeInv, ScopeOK
      <3> QED
        BY <2>1, <3>1, <3>2 DEF KeysOf
    <2>4. \A k \in KeysOf(z) : HasBlob(node, k) \/ HasBlob(node', k) => node'[k] = node[k]
      <3> TAKE k \in KeysOf(z)
      <3>1. k \in Key /\ node \in [Key -> NodeRow]
        BY DEF KeysOf, TypeInv, StoreTypeOK
      <3>2. node'[k] = IF k \in c.ins /\ node[k] = NoRow THEN Stub ELSE node[k]
        BY <2>1, <2>2, <2>3, <3>1, RunNodesValue
      <3> QED
        BY <3>2, GraphAssumption DEF HasBlob
    <2>5. \A k \in KeysOf(z), d \in Key : <<k, d>> \in link' <=> <<k, d>> \in link
      BY <2>2, <2>3 DEF RunLinks
    <2> QED
      BY <1>19, <2>4, <2>5 DEF Flush, Untouched, files
  <1>20. ASSUME FlushFails(w) PROVE Untouched(z)
    BY <1>20 DEF FlushFails, Untouched, store, graph, files
  <1>21. ASSUME NEW k \in Key, PutBlob(w, k) PROVE Untouched(z)
    <2>1. Owner[k] = target[w] /\ Owner[k] \in Touch(w)
      BY <1>21, GraphAssumption
      DEF PutBlob, Touch, Deleting, ScopeInv, ScopeOK, TypeInv, Requests,
          RequestInv, HasArchive, Ingesting
    <2> QED
      BY <1>21, <2>1
      DEF PutBlob, Untouched, KeysOf, graph, files, TypeInv, StoreTypeOK
  <1>22. ASSUME NEW k \in Key, PutBlobFails(w, k) PROVE Untouched(z)
    <2>1. Owner[k] = target[w] /\ Owner[k] \in Touch(w)
      BY <1>22, GraphAssumption
      DEF PutBlobFails, Touch, Deleting, ScopeInv, ScopeOK, TypeInv, Requests,
          RequestInv, HasArchive, Ingesting
    <2> QED
      BY <1>22, <2>1
      DEF PutBlobFails, Untouched, KeysOf, graph, files, TypeInv, StoreTypeOK
  <1>23. ASSUME PutMeta(w) PROVE Untouched(z)
    BY <1>23 DEF PutMeta, Touch, Deleting, Untouched, graph, files, store,
             TypeInv, StoreTypeOK
  <1>24. ASSUME PutMetaFails(w) PROVE Untouched(z)
    BY <1>24 DEF PutMetaFails, Touch, Deleting, Untouched, graph, files, store,
             TypeInv, StoreTypeOK
  <1>25. ASSUME Record(w) PROVE Untouched(z)
    BY <1>25 DEF Record, Touch, Deleting, Untouched, graph, files, store, TypeInv,
             StoreTypeOK
  <1>26. ASSUME DropIndex(w) PROVE Untouched(z)
    BY <1>26 DEF DropIndex, Touch, Deleting, Untouched, graph, files, store,
             TypeInv, StoreTypeOK
  <1>27. ASSUME FillIndex(w) PROVE Untouched(z)
    BY <1>27 DEF FillIndex, Touch, Deleting, Untouched, graph, files, store,
             TypeInv, StoreTypeOK
  <1>28. ASSUME CommitFails(w) PROVE Untouched(z)
    BY <1>28 DEF CommitFails, Untouched, store, graph, files
  <1>29. ASSUME DeleteRows(w) PROVE Untouched(z)
    <2>1. z # target[w]
      BY <1>29 DEF DeleteRows, Touch, Deleting, ScopeInv, ScopeOK
    <2>2. \A k \in KeysOf(z) : node'[k] = node[k]
      BY <1>29, <2>1 DEF DeleteRows, DropNodes, KeysOf
    <2>3. \A k \in KeysOf(z), d \in Key :
             /\ <<k, d>> \in link' => <<k, d>> \in link
             /\ <<k, d>> \in link => <<k, d>> \in link' \/ node'[d] = NoRow
      BY <1>29, <2>1 DEF DeleteRows, DropNodes, DropLinks, KeysOf
    <2>4. /\ hash'[z] = hash[z] /\ index'[z] = index[z]
          /\ UNCHANGED <<blob, meta, raw>>
      BY <1>29, <2>1 DEF DeleteRows, files, TypeInv, StoreTypeOK
    <2> QED
      BY <2>2, <2>3, <2>4 DEF Untouched
  <1>30. ASSUME ClearRows(w) PROVE Untouched(z)
    <2> QED
      BY <1>30 DEF ClearRows, Touch, Deleting, ScopeInv, ScopeOK
  <1>31. ASSUME NEW k \in Key, RemoveBlob(w, k) PROVE Untouched(z)
    <2>1. Owner[k] \in Touch(w)
      BY <1>31 DEF RemoveBlob, Touch, Deleting, ScopeInv, ScopeOK
    <2> QED
      BY <1>31, <2>1
      DEF RemoveBlob, Untouched, KeysOf, graph, files, TypeInv, StoreTypeOK
  <1>32. ASSUME RemoveTree(w) PROVE Untouched(z)
    BY <1>32 DEF RemoveTree, Touch, Deleting, Untouched, graph, files, store,
             TypeInv, StoreTypeOK
  <1>33. ASSUME RemoveFails(w) PROVE Untouched(z)
    BY <1>33 DEF RemoveFails, Untouched, store, graph, files
  <1>34. ASSUME NEW b \in Bundle, RemoveRaw(w, b) PROVE Untouched(z)
    <2>1. b \in scope[w] /\ UNCHANGED <<graph, files>> /\ raw' = [raw EXCEPT ![b] = Nothing]
      BY <1>34 DEF RemoveRaw, ScopeInv, ScopeOK
    <2> QED
      BY <1>34, <2>1 DEF RemoveRaw, Touch, Deleting, Untouched, graph, files, TypeInv,
         StoreTypeOK
  <1> QED
    BY <1>1, <1>2, <1>3, <1>4, <1>5, <1>6, <1>7, <1>8, <1>9, <1>10, <1>11,
       <1>12, <1>13, <1>14, <1>15, <1>16, <1>17, <1>18, <1>19, <1>20, <1>21,
       <1>22, <1>23, <1>24, <1>25, <1>26, <1>27, <1>28, <1>29, <1>30, <1>31,
       <1>32, <1>33, <1>34
    DEF Actor, Request, Step, Fault

\* No step touches a bundle that no request is at work on, whatever overlaps,
\* fails or crashes: the files of the bundle, its rows, the content of its pages
\* and their links stay, for every artifact and every way a batch is cut into
\* transactions (_flushGraphStmts, deleteBundle, clearAll).
THEOREM BystandersUntouched == Spec => BystanderUntouched
  <1> DEFINE Bystanders == \A b \in Bundle :
          Quiet(b) /\ (\A w \in Worker : b \notin scope'[w]) => Untouched(b)
  <1>1. TypeInv /\ ScopeInv /\ [Next]_vars => [Bystanders]_vars
    <2> SUFFICES ASSUME TypeInv, ScopeInv, Next, NEW b \in Bundle, Quiet(b)
                 PROVE  Untouched(b)
      OBVIOUS
    <2>1. ASSUME NEW w \in Worker, Actor(w) PROVE Untouched(b)
      <3>1. b \notin Touch(w)
        BY TouchInScope DEF Quiet, Unattended
      <3> QED
        BY <2>1, <3>1, ActorFootprint
    <2>2. ASSUME NEW o \in orphans, OrphanPut(o) PROVE Untouched(b)
      BY <2>2 DEF OrphanPut, Quiet, Late, Untouched, KeysOf, graph, TypeInv, StoreTypeOK
    <2>3. ASSUME Crash PROVE Untouched(b)
      <3>1. \A k \in KeysOf(b) : ~Writing(k)
        <4> SUFFICES ASSUME NEW k \in KeysOf(b), NEW w \in Worker,
                            pc[w] = "flushing", k \in puts[w]
                     PROVE  FALSE
          BY DEF Writing, Quiet, Unattended, Late, KeysOf
        <4>1. Owner[k] = target[w] /\ target[w] \in scope[w]
          BY GraphAssumption
          DEF TypeInv, Requests, RequestInv, HasArchive, Ingesting, ScopeInv,
              ScopeOK
        <4> QED
          BY <4>1 DEF Quiet, Unattended, KeysOf
      <3>2. ~WritingMeta(b) /\ ~WritingRaw(b)
        BY DEF WritingMeta, WritingRaw, Quiet, Unattended, ScopeInv, ScopeOK
      <3>3. \A k \in KeysOf(b) : blob'[k] = blob[k]
        BY <2>3, <3>1 DEF Crash, KeysOf
      <3>4. meta'[b] = meta[b] /\ raw'[b] = raw[b] /\ UNCHANGED graph
        BY <2>3, <3>2 DEF Crash
      <3> QED
        BY <3>3, <3>4 DEF Untouched, graph
    <2> QED
      BY <2>1, <2>2, <2>3 DEF Next, Actor
  <1>2. [][Bystanders]_vars => BystanderUntouched
    BY DEF BystanderUntouched
  <1> QED
    BY InitTypeInv, NextTypeInv, InitScopeInv, NextScopeInv, <1>1, <1>2, PTL DEF Spec

-----------------------------------------------------------------------------
(* Where no two requests are at work on one bundle at one time.             *)

ExclInv == \A v, w \in Worker : v # w => scope[v] \cap scope[w] = {}

\* A write that outlives its ingest is to a bundle that is half-written: a
\* deletion or an upload that comes after it does not make the bundle whole.
OrphanInv == \A o \in orphans : Owner[o[1]] \in tainted

\* What a step of a request may do to its scope, to the writes that outlive an
\* ingest and to the record of what is half-written.
Books(w) ==
    /\ \/ scope'[w] \subseteq scope[w]
       \/ \A b \in scope'[w] : Unattended(b)
    /\ \A o \in orphans' \ orphans : Owner[o[1]] \in tainted'
    /\ \A b \in tainted \ tainted' : b \in scope[w] /\ ~Late(b)
    /\ \A b \in Bundle \ Touch(w) : /\ b \in tainted' <=> b \in tainted
                                    /\ b \in unarchived' <=> b \in unarchived

LEMMA ActorBooks ==
    ASSUME TypeInv, ScopeInv, Exclusive, NEW w \in Worker, Actor(w)
    PROVE  Books(w)
  <1>1. ASSUME NEW a \in Archive, Put(w, a) PROVE Books(w)
    BY <1>1
    DEF Put, Arrive, Goto, Books, Touch, Deleting, request, ghosts,
        TypeInv, Requests, RequestTypeOK
  <1>2. ASSUME NEW S \in SUBSET Bundle, Reingest(w, S) PROVE Books(w)
    BY <1>2
    DEF Reingest, Arrive, Goto, Books, Touch, Deleting, request,
        ghosts, TypeInv, Requests, RequestTypeOK
  <1>3. ASSUME NEW b \in Bundle, NEW op \in {"delete", "deleteRaw"}, Delete(w, b, op) PROVE Books(w)
    BY <1>3
    DEF Delete, Arrive, Goto, Books, Touch, Deleting, request,
        ghosts, TypeInv, Requests, RequestTypeOK
  <1>4. ASSUME Clear(w) PROVE Books(w)
    BY <1>4
    DEF Clear, Arrive, Goto, Books, Touch, Deleting, request,
        ghosts, TypeInv, Requests, RequestTypeOK
  <1>5. ASSUME ClearRaw(w) PROVE Books(w)
    BY <1>5
    DEF ClearRaw, Arrive, Goto, Books, Touch, Deleting, request,
        ghosts, TypeInv, Requests, RequestTypeOK
  <1>6. ASSUME SendStart(w) PROVE Books(w)
    BY <1>6
    DEF SendStart, Finish, Goto, Books, Touch, Deleting, request,
        ghosts, TypeInv, Requests, RequestTypeOK
  <1>7. ASSUME SendWarning(w) PROVE Books(w)
    BY <1>7
    DEF SendWarning, Finish, Goto, Books, Touch, Deleting, request,
        ghosts, TypeInv, Requests, RequestTypeOK
  <1>8. ASSUME SendDone(w) PROVE Books(w)
    BY <1>8
    DEF SendDone, Finish, Goto, Books, Touch, Deleting, request,
        ghosts, TypeInv, Requests, RequestTypeOK
  <1>9. ASSUME SendFailure(w) PROVE Books(w)
    BY <1>9
    DEF SendFailure, Finish, Goto, Books, Touch, Deleting, request,
        ghosts, TypeInv, Requests, RequestTypeOK
  <1>10. ASSUME ClientLeaves(w) PROVE Books(w)
    BY <1>10
    DEF ClientLeaves, Books, Touch, Deleting, request, ghosts,
        TypeInv, Requests, RequestTypeOK
  <1>11. ASSUME ArchiveRaw(w) PROVE Books(w)
    BY <1>11
    DEF ArchiveRaw, Goto, Books, Touch, Deleting, request, ghosts,
        TypeInv, Requests, RequestTypeOK
  <1>12. ASSUME ArchiveFails(w) PROVE Books(w)
    BY <1>12
    DEF ArchiveFails, Goto, Books, Touch, Deleting, request, ghosts,
        TypeInv, Requests, RequestTypeOK
  <1>13. ASSUME ListRaw(w) PROVE Books(w)
    BY <1>13
    DEF ListRaw, Finish, Goto, Books, Touch, Deleting, request,
        ghosts, TypeInv, Requests, RequestTypeOK
  <1>14. ASSUME NextEntry(w) PROVE Books(w)
    BY <1>14
    DEF NextEntry, Finish, Goto, Books, Touch, Deleting, request,
        ghosts, TypeInv, Requests, RequestTypeOK
  <1>15. ASSUME ReadRaw(w) PROVE Books(w)
    BY <1>15
    DEF ReadRaw, Goto, Books, Touch, Deleting, request, ghosts,
        TypeInv, Requests, RequestTypeOK
  <1>16. ASSUME ReadFails(w) PROVE Books(w)
    BY <1>16
    DEF ReadFails, Finish, Goto, Books, Touch, Deleting, request,
        ghosts, TypeInv, Requests, RequestTypeOK
  <1>17. ASSUME Reject(w) PROVE Books(w)
    BY <1>17
    DEF Reject, Goto, Books, Touch, Deleting, request, ghosts,
        TypeInv, Requests, RequestTypeOK
  <1>18. ASSUME Prefetch(w) PROVE Books(w)
    BY <1>18
    DEF Prefetch, Goto, Books, Touch, Deleting, request, ghosts,
        TypeInv, Requests, RequestTypeOK
  <1>19. ASSUME Flush(w) PROVE Books(w)
    BY <1>19
    DEF Flush, Goto, Books, Touch, Deleting, request, ghosts,
        TypeInv, Requests, RequestTypeOK
  <1>20. ASSUME FlushFails(w) PROVE Books(w)
    <2>1. /\ target[w] \in scope[w] /\ target[w] \in Bundle
          /\ pc'[w] = "failing" /\ pc[w] \notin Deleting
      BY <1>20, GraphAssumption
      DEF FlushFails, Abandon, Goto, ScopeInv, ScopeOK, RequestInv,
          HasArchive, Ingesting, Deleting, TypeInv, Requests, RequestTypeOK
    <2>2. \A k2 \in puts[w] : Owner[k2] = target[w]
      BY <1>20, GraphAssumption
      DEF FlushFails, ScopeInv, ScopeOK, RequestInv, HasArchive, Ingesting,
          TypeInv, Requests, RequestTypeOK
    <2>3. /\ orphans' = orphans \cup {<<k2, arch[w]>> : k2 \in puts[w]}
          /\ tainted' = tainted \cup {target[w]}
          /\ UNCHANGED <<scope, unarchived>>
      BY <1>20 DEF FlushFails, Abandon, request
    <2> QED
      BY <2>1, <2>2, <2>3 DEF Books, Touch
  <1>21. ASSUME NEW k \in Key, PutBlob(w, k) PROVE Books(w)
    BY <1>21
    DEF PutBlob, Goto, Books, Touch, Deleting, request, ghosts,
        TypeInv, Requests, RequestTypeOK
  <1>22. ASSUME NEW k \in Key, PutBlobFails(w, k) PROVE Books(w)
    <2>1. /\ target[w] \in scope[w] /\ target[w] \in Bundle
          /\ pc'[w] = "failing" /\ pc[w] \notin Deleting
      BY <1>22, GraphAssumption
      DEF PutBlobFails, Abandon, Goto, ScopeInv, ScopeOK, RequestInv,
          HasArchive, Ingesting, Deleting, TypeInv, Requests, RequestTypeOK
    <2>2. \A k2 \in puts[w] \ {k} : Owner[k2] = target[w]
      BY <1>22, GraphAssumption
      DEF PutBlobFails, ScopeInv, ScopeOK, RequestInv, HasArchive, Ingesting,
          TypeInv, Requests, RequestTypeOK
    <2>3. /\ orphans' = orphans \cup {<<k2, arch[w]>> : k2 \in puts[w] \ {k}}
          /\ tainted' = tainted \cup {target[w]}
          /\ UNCHANGED <<scope, unarchived>>
      BY <1>22 DEF PutBlobFails, Abandon, request
    <2> QED
      BY <2>1, <2>2, <2>3 DEF Books, Touch
  <1>23. ASSUME PutMeta(w) PROVE Books(w)
    BY <1>23
    DEF PutMeta, Goto, Books, Touch, Deleting, request, ghosts,
        TypeInv, Requests, RequestTypeOK
  <1>24. ASSUME PutMetaFails(w) PROVE Books(w)
    <2>1. /\ target[w] \in scope[w] /\ target[w] \in Bundle
          /\ pc'[w] = "failing" /\ pc[w] \notin Deleting
      BY <1>24, GraphAssumption
      DEF PutMetaFails, Abandon, Goto, ScopeInv, ScopeOK, RequestInv,
          HasArchive, Ingesting, Deleting, TypeInv, Requests, RequestTypeOK
    <2>2. \A k2 \in {} : Owner[k2] = target[w]
      BY <1>24, GraphAssumption
      DEF PutMetaFails, ScopeInv, ScopeOK, RequestInv, HasArchive, Ingesting,
          TypeInv, Requests, RequestTypeOK
    <2>3. /\ orphans' = orphans \cup {<<k2, arch[w]>> : k2 \in {}}
          /\ tainted' = tainted \cup {target[w]}
          /\ UNCHANGED <<scope, unarchived>>
      BY <1>24 DEF PutMetaFails, Abandon, request
    <2> QED
      BY <2>1, <2>2, <2>3 DEF Books, Touch
  <1>25. ASSUME Record(w) PROVE Books(w)
    BY <1>25
    DEF Record, Goto, Books, Touch, Deleting, request, ghosts,
        TypeInv, Requests, RequestTypeOK
  <1>26. ASSUME DropIndex(w) PROVE Books(w)
    BY <1>26
    DEF DropIndex, Goto, Books, Touch, Deleting, request, ghosts,
        TypeInv, Requests, RequestTypeOK
  <1>27. ASSUME FillIndex(w) PROVE Books(w)
    BY <1>27
    DEF FillIndex, Goto, Books, Touch, Deleting, request, ghosts,
        TypeInv, Requests, RequestTypeOK
  <1>28. ASSUME CommitFails(w) PROVE Books(w)
    <2>1. /\ target[w] \in scope[w] /\ target[w] \in Bundle
          /\ pc'[w] = "failing" /\ pc[w] \notin Deleting
      BY <1>28, GraphAssumption
      DEF CommitFails, Abandon, Goto, ScopeInv, ScopeOK, RequestInv,
          HasArchive, Ingesting, Deleting, TypeInv, Requests, RequestTypeOK
    <2>2. \A k2 \in {} : Owner[k2] = target[w]
      BY <1>28, GraphAssumption
      DEF CommitFails, ScopeInv, ScopeOK, RequestInv, HasArchive, Ingesting,
          TypeInv, Requests, RequestTypeOK
    <2>3. /\ orphans' = orphans \cup {<<k2, arch[w]>> : k2 \in {}}
          /\ tainted' = tainted \cup {target[w]}
          /\ UNCHANGED <<scope, unarchived>>
      BY <1>28 DEF CommitFails, Abandon, request
    <2> QED
      BY <2>1, <2>2, <2>3 DEF Books, Touch
  <1>29. ASSUME DeleteRows(w) PROVE Books(w)
    BY <1>29
    DEF DeleteRows, Cleanse, Goto, Books, Touch, Deleting, request, ghosts,
        TypeInv, Requests, RequestTypeOK
  <1>30. ASSUME ClearRows(w) PROVE Books(w)
    BY <1>30
    DEF ClearRows, Cleanse, Goto, Books, Touch, Deleting, request, ghosts,
        TypeInv, Requests, RequestTypeOK
  <1>31. ASSUME NEW k \in Key, RemoveBlob(w, k) PROVE Books(w)
    BY <1>31
    DEF RemoveBlob, Goto, Books, Touch, Deleting, request, ghosts,
        TypeInv, Requests, RequestTypeOK
  <1>32. ASSUME RemoveTree(w) PROVE Books(w)
    BY <1>32
    DEF RemoveTree, Finish, Goto, Books, Touch, Deleting, request,
        ghosts, TypeInv, Requests, RequestTypeOK
  <1>33. ASSUME RemoveFails(w) PROVE Books(w)
    BY <1>33
    DEF RemoveFails, Finish, Goto, Books, Touch, Deleting, request,
        ghosts, TypeInv, Requests, RequestTypeOK
  <1>34. ASSUME NEW b \in Bundle, RemoveRaw(w, b) PROVE Books(w)
    BY <1>34
    DEF RemoveRaw, Finish, Goto, Books, Touch, Deleting, request,
        ghosts, TypeInv, Requests, RequestTypeOK
  <1> QED
    BY <1>1, <1>2, <1>3, <1>4, <1>5, <1>6, <1>7, <1>8, <1>9, <1>10, <1>11,
       <1>12, <1>13, <1>14, <1>15, <1>16, <1>17, <1>18, <1>19, <1>20, <1>21,
       <1>22, <1>23, <1>24, <1>25, <1>26, <1>27, <1>28, <1>29, <1>30, <1>31,
       <1>32, <1>33, <1>34
    DEF Actor, Request, Step, Fault

LEMMA InitExclInv == Init => ExclInv /\ OrphanInv
  BY DEF Init, ExclInv, OrphanInv

LEMMA ActorExclInv ==
    ASSUME TypeInv, ScopeInv, Exclusive, ExclInv, OrphanInv,
           NEW w \in Worker, Actor(w)
    PROVE  ExclInv' /\ OrphanInv'
  <1>1. Books(w) /\ OthersStay(w)
    BY ActorBooks, ActorMeansOthersStay
  <1>2. ExclInv'
    BY <1>1 DEF Books, OthersStay, ExclInv, Unattended
  <1>3. OrphanInv'
    BY <1>1 DEF Books, OrphanInv, Late
  <1> QED
    BY <1>2, <1>3

LEMMA NextExclInv ==
    ASSUME TypeInv, ScopeInv, Exclusive, ExclInv, OrphanInv, [Next]_vars
    PROVE  ExclInv' /\ OrphanInv'
  <1>1. ASSUME NEW o \in orphans, OrphanPut(o) PROVE ExclInv' /\ OrphanInv'
    BY <1>1 DEF OrphanPut, request, ghosts, ExclInv, OrphanInv
  <1>2. ASSUME Crash PROVE ExclInv' /\ OrphanInv'
    BY <1>2 DEF Crash, ExclInv, OrphanInv
  <1>3. ASSUME UNCHANGED vars PROVE ExclInv' /\ OrphanInv'
    BY <1>3 DEF vars, request, ghosts, ExclInv, OrphanInv
  <1> QED
    BY <1>1, <1>2, <1>3, ActorExclInv DEF Next, Actor
=============================================================================
