----------------------------- MODULE IngestStore ----------------------------
(***************************************************************************)
(* The viewer's server process at work on its store: uploads               *)
(* (viewer/src/pages/api/bundle.ts), re-ingests from the raw archive       *)
(* (api/reingest.ts), bundle deletions and clears (api/delete-bundle.ts,   *)
(* api/clear.ts, api/clear-raw.ts), over Ingester.ingestBundle             *)
(* (ingest/src/ingest.ts), the blob and raw directories and the SQLite     *)
(* graph.                                                                  *)
(*                                                                         *)
(* One Node process serves every request.  Its SQLite calls are            *)
(* synchronous, so a handler that only awaits them is not interrupted by   *)
(* another one; it is at every file operation, at every event it sends to  *)
(* its client and at the hashing of the artifact.  An action is what runs  *)
(* between two such points, except where several transactions run there:   *)
(* those are one action each, since the process may die between them, and  *)
(* `drain' names the handler that is among them and keeps the others out.  *)
(***************************************************************************)
EXTENDS GraphStore

CONSTANTS
    Worker,      \* the requests that may be in progress at one time
    Nothing,     \* no row, no file, no artifact
    Torn,        \* a file cut short by a crash or by a failed write
    Malformed,   \* the artifacts that decode and that ingest rejects
    Rank,        \* the order rawStore.list() sorts bundles in
    Ops,         \* the kinds of request the environment makes
    Exclusive,   \* TRUE: no two requests on one bundle at one time
    Budget       \* how many requests, crashes, faults and departures happen

Kind == {"put", "reingest", "delete", "deleteRaw", "clear", "clearRaw"}
Supply == {"request", "crash", "fault", "leave"}

ASSUME StoreAssumption ==
    /\ Nothing \notin Archive /\ Torn \notin Archive /\ Nothing # Torn
    /\ Nothing \notin Worker /\ Nothing \notin Bundle
    /\ Malformed \subseteq Archive
    /\ Rank \in [Bundle -> Nat]
    /\ \A b, c \in Bundle : Rank[b] = Rank[c] => b = c
    /\ Ops \subseteq Kind
    /\ Exclusive \in BOOLEAN
    /\ Budget \in [Supply -> Nat]

VARIABLES
    node, link,  \* the tables `nodes' and `links'
    hash,        \* the table `bundles': content_hash, Nothing without a row
    index,       \* the table `node_index': whose rows a bundle has
    blob, meta,  \* the files of the blob store, and each bundle's meta.cbor
    raw          \* the files of the raw archive

VARIABLES
    pc,          \* where the request is
    kind,        \* what it is
    scope,       \* the bundles it may touch
    arch,        \* the artifact it ingests
    target,      \* the bundle it works on
    batch,       \* its graph statements that have not run
    puts,        \* its blobs that are not written, or not yet removed
    todo,        \* the archive entries it has not come to
    gone,        \* its client closed the connection
    drain,       \* the handler between two transactions, or Nothing
    orphans,     \* blob writes that outlive the ingest that began them
    budget       \* what the environment may still do

VARIABLES
    tainted,     \* ghost: bundles a crash or a failure has left half-written,
                 \*    until a deletion begins that no late write can undo
    unarchived   \* ghost: bundles whose last raw archive write failed

graph == <<node, link, hash, index>>
files == <<blob, meta>>
store == <<graph, files, raw>>
request == <<kind, scope, arch, target>>
work == <<batch, puts, todo>>
ghosts == <<tainted, unarchived>>
vars == <<store, pc, request, work, gone, drain, orphans, budget, ghosts>>

Pc == {"idle", "accepted", "listed", "archiving", "warning", "hashing",
       "staged", "flushing", "meta", "recording", "dropping", "indexing",
       "replying", "failing", "listing", "next", "reading",
       "delRows", "clrRows", "delBlobs", "delRaw"}

File == Archive \cup {Nothing, Torn}

StoreTypeOK ==
    /\ node \in [Key -> NodeRow]
    /\ link \in SUBSET Link
    /\ hash \in [Bundle -> Archive \cup {Nothing}]
    /\ index \in [Bundle -> Archive \cup {Nothing}]
    /\ blob \in [Key -> File]
    /\ meta \in [Bundle -> File]
    /\ raw \in [Bundle -> File]

RequestTypeOK ==
    /\ pc \in [Worker -> Pc]
    /\ kind \in [Worker -> Kind]
    /\ scope \in [Worker -> SUBSET Bundle]
    /\ arch \in [Worker -> Archive \cup {Nothing}]
    /\ target \in [Worker -> Bundle \cup {Nothing}]
    /\ batch \in [Worker -> Batch]
    /\ puts \in [Worker -> SUBSET Key]
    /\ todo \in [Worker -> SUBSET Bundle]
    /\ gone \in [Worker -> BOOLEAN]

ServerTypeOK ==
    /\ drain \in Worker \cup {Nothing}
    /\ orphans \in SUBSET (Key \X Archive)
    /\ budget \in [Supply -> Nat]
    /\ tainted \in SUBSET Bundle
    /\ unarchived \in SUBSET Bundle

TypeOK == StoreTypeOK /\ RequestTypeOK /\ ServerTypeOK

\* A store that has just been created, and a server that has just started.
Init ==
    /\ node = [k \in Key |-> NoRow]
    /\ link = {}
    /\ hash = [b \in Bundle |-> Nothing]
    /\ index = [b \in Bundle |-> Nothing]
    /\ blob = [k \in Key |-> Nothing]
    /\ meta = [b \in Bundle |-> Nothing]
    /\ raw = [b \in Bundle |-> Nothing]
    /\ pc = [w \in Worker |-> "idle"]
    /\ kind = [w \in Worker |-> "put"]
    /\ scope = [w \in Worker |-> {}]
    /\ arch = [w \in Worker |-> Nothing]
    /\ target = [w \in Worker |-> Nothing]
    /\ batch = [w \in Worker |-> NoStmts]
    /\ puts = [w \in Worker |-> {}]
    /\ todo = [w \in Worker |-> {}]
    /\ gone = [w \in Worker |-> FALSE]
    /\ drain = Nothing
    /\ orphans = {}
    /\ budget = Budget
    /\ tainted = {}
    /\ unarchived = {}

-----------------------------------------------------------------------------
Goto(w, p) == pc' = [pc EXCEPT ![w] = p]

\* The request is over: its worker forgets it.
Finish(w) ==
    /\ Goto(w, "idle")
    /\ kind' = [kind EXCEPT ![w] = "put"]
    /\ scope' = [scope EXCEPT ![w] = {}]
    /\ arch' = [arch EXCEPT ![w] = Nothing]
    /\ target' = [target EXCEPT ![w] = Nothing]
    /\ batch' = [batch EXCEPT ![w] = NoStmts]
    /\ puts' = [puts EXCEPT ![w] = {}]
    /\ todo' = [todo EXCEPT ![w] = {}]
    /\ gone' = [gone EXCEPT ![w] = FALSE]

\* One more request, crash, fault or departure, if the bound allows it.
Spend(s) == budget[s] > 0 /\ budget' = [budget EXCEPT ![s] = @ - 1]

\* A failed ingest of the bundle has blobs that it is still writing.
Late(b) == \E o \in orphans : Owner[o[1]] = b

\* No request is at work on the bundle, and then no left-over write either.
Unattended(b) == \A w \in Worker : b \notin scope[w]
Quiet(b) == Unattended(b) /\ ~Late(b)

Free(w) == drain \in {w, Nothing}

-----------------------------------------------------------------------------
(* Requests arrive.  An upload has been authorised and its artifact decoded *)
(* by then: what is refused before that changes nothing.                    *)

Arrive(w, op, S) ==
    /\ pc[w] = "idle"
    /\ op \in Ops
    /\ Exclusive => \A b \in S : Unattended(b)
    /\ Spend("request")
    /\ kind' = [kind EXCEPT ![w] = op]
    /\ scope' = [scope EXCEPT ![w] = S]
    /\ UNCHANGED <<store, batch, gone, drain, orphans, ghosts>>

Put(w, a) ==
    /\ Arrive(w, "put", {BundleOf[a]})
    /\ Goto(w, "accepted")
    /\ arch' = [arch EXCEPT ![w] = a]
    /\ target' = [target EXCEPT ![w] = BundleOf[a]]
    /\ UNCHANGED <<puts, todo>>

\* ?pkg and ?ver choose the bundles; without them it is all of them.
Reingest(w, S) ==
    /\ Arrive(w, "reingest", S)
    /\ Goto(w, "listing")
    /\ UNCHANGED <<arch, target, puts, todo>>

\* ?raw=1 deletes the archive entry too.
Delete(w, b, op) ==
    /\ Arrive(w, op, {b})
    /\ Goto(w, "delRows")
    /\ target' = [target EXCEPT ![w] = b]
    /\ UNCHANGED <<arch, puts, todo>>

Clear(w) ==
    /\ Arrive(w, "clear", Bundle)
    /\ Goto(w, "clrRows")
    /\ UNCHANGED <<arch, target, puts, todo>>

ClearRaw(w) ==
    /\ Arrive(w, "clearRaw", Bundle)
    /\ Goto(w, "delRaw")
    /\ todo' = [todo EXCEPT ![w] = Bundle]
    /\ UNCHANGED <<arch, target, puts>>

-----------------------------------------------------------------------------
(* Events on the response stream.  A write rejects once the client is gone; *)
(* outside the progress callback that ends the request.                     *)

\* "start": the first thing an upload does, and the second a re-ingest does.
SendStart(w) ==
    /\ pc[w] \in {"accepted", "listed"}
    /\ IF gone[w]
       THEN Finish(w)
       ELSE /\ Goto(w, IF kind[w] = "put" THEN "archiving" ELSE "next")
            /\ UNCHANGED <<request, work, gone>>
    /\ UNCHANGED <<store, drain, orphans, budget, ghosts>>

\* "warning": an upload goes on to ingest, a re-ingest to its next entry.
SendWarning(w) ==
    /\ pc[w] = "warning"
    /\ IF gone[w]
       THEN Finish(w)
       ELSE /\ Goto(w, IF kind[w] = "put" THEN "hashing" ELSE "next")
            /\ UNCHANGED <<request, work, gone>>
    /\ UNCHANGED <<store, drain, orphans, budget, ghosts>>

\* "done" or "ingested".
SendDone(w) ==
    /\ pc[w] = "replying"
    /\ IF gone[w] \/ kind[w] = "put"
       THEN Finish(w)
       ELSE /\ Goto(w, "next")
            /\ UNCHANGED <<request, work, gone>>
    /\ UNCHANGED <<store, drain, orphans, budget, ghosts>>

\* "error" of an upload; "warning" of a re-ingest, which goes on.
SendFailure(w) ==
    /\ pc[w] = "failing"
    /\ IF gone[w] \/ kind[w] = "put"
       THEN Finish(w)
       ELSE /\ Goto(w, "next")
            /\ UNCHANGED <<request, work, gone>>
    /\ UNCHANGED <<store, drain, orphans, budget, ghosts>>

\* The client closes the connection.
ClientLeaves(w) ==
    /\ pc[w] # "idle" /\ kind[w] \in {"put", "reingest"} /\ ~gone[w]
    /\ Spend("leave")
    /\ gone' = [gone EXCEPT ![w] = TRUE]
    /\ UNCHANGED <<store, pc, request, work, drain, orphans, ghosts>>

-----------------------------------------------------------------------------
(* The raw archive.                                                         *)

\* Mutant of ArchiveRaw: an archive that is there is not overwritten.
ArchiveRawOnce(w) ==
    /\ pc[w] = "archiving"
    /\ raw' = [raw EXCEPT ![target[w]] = IF @ = Nothing THEN arch[w] ELSE @]
    /\ unarchived' = unarchived \ {target[w]}
    /\ Goto(w, "hashing")
    /\ UNCHANGED <<graph, files, request, work, gone, drain, orphans, budget,
                   tainted>>

ArchiveRaw(w) ==
    /\ pc[w] = "archiving"
    /\ raw' = [raw EXCEPT ![target[w]] = arch[w]]
    /\ unarchived' = unarchived \ {target[w]}
    /\ Goto(w, "hashing")
    /\ UNCHANGED <<graph, files, request, work, gone, drain, orphans, budget,
                   tainted>>

\* mkdir, the archive or its sidecar fails: the old file, a piece of the new
\* one or the new one is left.  The upload is told and goes on.
ArchiveFails(w) ==
    /\ pc[w] = "archiving"
    /\ Spend("fault")
    /\ \E f \in {raw[target[w]], Torn, arch[w]} :
          raw' = [raw EXCEPT ![target[w]] = f]
    /\ unarchived' = unarchived \cup {target[w]}
    /\ Goto(w, "warning")
    /\ UNCHANGED <<graph, files, request, work, gone, drain, orphans, tainted>>

\* Mutant of ListRaw: a bundle that has a row in `bundles' is left out.
ListRawMissingOnly(w) ==
    /\ pc[w] = "listing"
    /\ LET entries == {b \in scope[w] : raw[b] # Nothing /\ hash[b] = Nothing} IN
       IF entries = {}
       THEN /\ Goto(w, "next") /\ UNCHANGED <<request, work, gone>>
       ELSE /\ todo' = [todo EXCEPT ![w] = entries]
            /\ Goto(w, "listed")
            /\ UNCHANGED <<request, batch, puts, gone>>
    /\ UNCHANGED <<store, drain, orphans, budget, ghosts>>

\* rawStore.list(), filtered by ?pkg and ?ver; an empty list is answered
\* with "done" at once.
ListRaw(w) ==
    /\ pc[w] = "listing"
    /\ LET entries == {b \in scope[w] : raw[b] # Nothing} IN
       IF entries = {}
       THEN Finish(w)
       ELSE /\ todo' = [todo EXCEPT ![w] = entries]
            /\ Goto(w, "listed")
            /\ UNCHANGED <<request, batch, puts, gone>>
    /\ UNCHANGED <<store, drain, orphans, budget, ghosts>>

\* Mutant of NextEntry: the entry stays in the list.
NextEntryAgain(w) ==
    /\ pc[w] = "next"
    /\ \/ /\ todo[w] = {}
          /\ Finish(w)
       \/ \E b \in todo[w] :
             /\ \A c \in todo[w] : Rank[b] <= Rank[c]
             /\ target' = [target EXCEPT ![w] = b]
             /\ Goto(w, "reading")
             /\ UNCHANGED <<kind, scope, arch, todo, batch, puts, gone>>
    /\ UNCHANGED <<store, drain, orphans, budget, ghosts>>

\* The entries are taken in the order of the list.
NextEntry(w) ==
    /\ pc[w] = "next"
    /\ \/ /\ todo[w] = {}
          /\ Finish(w)
       \/ \E b \in todo[w] :
             /\ \A c \in todo[w] : Rank[b] <= Rank[c]
             /\ target' = [target EXCEPT ![w] = b]
             /\ todo' = [todo EXCEPT ![w] = @ \ {b}]
             /\ Goto(w, "reading")
             /\ UNCHANGED <<kind, scope, arch, batch, puts, gone>>
    /\ UNCHANGED <<store, drain, orphans, budget, ghosts>>

\* Mutant of ReadRaw: only a missing entry is skipped, not one that is cut short.
ReadRawUnchecked(w) ==
    /\ pc[w] = "reading"
    /\ arch' = [arch EXCEPT ![w] = raw[target[w]]]
    /\ Goto(w, IF raw[target[w]] = Nothing THEN "warning" ELSE "hashing")
    /\ UNCHANGED <<store, kind, scope, target, work, gone, drain, orphans,
                   budget, ghosts>>

\* rawStore.get() and the decoding of what it returns: an entry that has gone
\* since the listing, or does not decode, is a warning.
ReadRaw(w) ==
    /\ pc[w] = "reading"
    /\ IF raw[target[w]] \in Archive
       THEN /\ arch' = [arch EXCEPT ![w] = raw[target[w]]]
            /\ Goto(w, "hashing")
       ELSE /\ Goto(w, "warning")
            /\ UNCHANGED arch
    /\ UNCHANGED <<store, kind, scope, target, work, gone, drain, orphans,
                   budget, ghosts>>

\* readdir, or readFile for another reason than a missing file, fails: the
\* re-ingest ends with "error", whatever is left in its list.
ReadFails(w) ==
    /\ pc[w] \in {"listing", "reading"}
    /\ Spend("fault")
    /\ Finish(w)
    /\ UNCHANGED <<store, drain, orphans, ghosts>>

-----------------------------------------------------------------------------
(* Ingester.ingestBundle.                                                   *)

\* assertBundle or assertSafeUrls throws: nothing is written, but an upload has
\* replaced the archive entry by then.
Reject(w) ==
    /\ pc[w] = "hashing" /\ arch[w] \in Malformed
    /\ Goto(w, "failing")
    /\ UNCHANGED <<store, request, work, gone, drain, orphans, budget, ghosts>>

\* Phases 1 and 2: what the tables hold for this bundle, unless `bundles' has
\* no row of it, and from that the statements and the blobs to write.
Prefetch(w) ==
    /\ pc[w] = "hashing" /\ arch[w] \notin Malformed /\ Free(w)
    /\ LET b == target[w]
           fresh == hash[b] = Nothing
           blobs == IF fresh THEN {} ELSE ExistingBlobs(node, b)
           refs  == IF fresh THEN {} ELSE ExistingRefs(link, b)
       IN  batch' = [batch EXCEPT ![w] = Stage(arch[w], blobs, refs)]
    /\ puts' = [puts EXCEPT ![w] = Pages[arch[w]]]
    /\ Goto(w, "staged")
    /\ UNCHANGED <<store, request, todo, gone, drain, orphans, budget, ghosts>>

\* Phase 3, the graph: one transaction of the chunked batch.  Between the
\* prefetch and the first of them the progress events are sent.
Flush(w) ==
    /\ pc[w] \in {"staged", "flushing"} /\ batch[w] # NoStmts /\ Free(w)
    /\ \E c \in Chunks(batch[w]) :
          LET rest == Without(batch[w], c) IN
          /\ node' = RunNodes(node, c, arch[w])
          /\ link' = RunLinks(node', link, c)
          /\ batch' = [batch EXCEPT ![w] = rest]
          /\ drain' = IF rest = NoStmts THEN Nothing ELSE w
    /\ Goto(w, "flushing")
    /\ UNCHANGED <<hash, index, files, raw, request, puts, todo, gone, orphans,
                   budget, ghosts>>

\* Promise.all has rejected: ingestBundle throws, the writes of its blobs go on.
Abandon(w, ks) ==
    /\ orphans' = orphans \cup {<<k, arch[w]>> : k \in ks}
    /\ puts' = [puts EXCEPT ![w] = {}]
    /\ batch' = [batch EXCEPT ![w] = NoStmts]
    /\ drain' = IF drain = w THEN Nothing ELSE drain
    /\ tainted' = tainted \cup {target[w]}
    /\ Goto(w, "failing")

\* A transaction fails and is rolled back.
FlushFails(w) ==
    /\ pc[w] \in {"staged", "flushing"} /\ batch[w] # NoStmts /\ Free(w)
    /\ Spend("fault")
    /\ Abandon(w, puts[w])
    /\ UNCHANGED <<store, request, todo, gone, unarchived>>

\* Mutant of PutBlob: ingest goes on when the first blob is written.
PutBlobRace(w, k) ==
    /\ pc[w] = "flushing" /\ batch[w] = NoStmts /\ k \in puts[w]
    /\ blob' = [blob EXCEPT ![k] = arch[w]]
    /\ puts' = [puts EXCEPT ![w] = {}]
    /\ Goto(w, "meta")
    /\ UNCHANGED <<graph, meta, raw, request, batch, todo, gone, drain, orphans,
                   budget, ghosts>>

\* Phase 3, the blobs: they are written in any order; the last one ends it.
PutBlob(w, k) ==
    /\ pc[w] = "flushing" /\ batch[w] = NoStmts /\ k \in puts[w]
    /\ blob' = [blob EXCEPT ![k] = arch[w]]
    /\ puts' = [puts EXCEPT ![w] = @ \ {k}]
    /\ Goto(w, IF puts[w] = {k} THEN "meta" ELSE "flushing")
    /\ UNCHANGED <<graph, meta, raw, request, batch, todo, gone, drain, orphans,
                   budget, ghosts>>

PutBlobFails(w, k) ==
    /\ pc[w] = "flushing" /\ batch[w] = NoStmts /\ k \in puts[w]
    /\ Spend("fault")
    /\ \E f \in {blob[k], Torn} : blob' = [blob EXCEPT ![k] = f]
    /\ Abandon(w, puts[w] \ {k})
    /\ UNCHANGED <<graph, meta, raw, request, todo, gone, unarchived>>

OrphanPut(o) ==
    /\ o \in orphans
    /\ blob' = [blob EXCEPT ![o[1]] = o[2]]
    /\ orphans' = orphans \ {o}
    /\ UNCHANGED <<graph, meta, raw, pc, request, work, gone, drain, budget,
                   ghosts>>

PutMeta(w) ==
    /\ pc[w] = "meta"
    /\ meta' = [meta EXCEPT ![target[w]] = arch[w]]
    /\ Goto(w, "recording")
    /\ UNCHANGED <<graph, blob, raw, request, work, gone, drain, orphans,
                   budget, ghosts>>

PutMetaFails(w) ==
    /\ pc[w] = "meta"
    /\ Spend("fault")
    /\ \E f \in {meta[target[w]], Torn} :
          meta' = [meta EXCEPT ![target[w]] = f]
    /\ Abandon(w, {})
    /\ UNCHANGED <<graph, blob, raw, request, todo, gone, unarchived>>

\* The upsert into `bundles'.
Record(w) ==
    /\ pc[w] = "recording" /\ Free(w)
    /\ hash' = [hash EXCEPT ![target[w]] = arch[w]]
    /\ drain' = w
    /\ Goto(w, "dropping")
    /\ UNCHANGED <<node, link, index, files, raw, request, work, gone, orphans,
                   budget, ghosts>>

\* Mutant of FillIndex: there is nothing to insert.
FillIndexNot(w) ==
    /\ pc[w] = "indexing" /\ drain = w
    /\ drain' = Nothing
    /\ Goto(w, "replying")
    /\ UNCHANGED <<graph, files, raw, request, work, gone, orphans, budget,
                   ghosts>>

\* _populateNodeIndex deletes the bundle's rows ...
DropIndex(w) ==
    /\ pc[w] = "dropping" /\ drain = w
    /\ index' = [index EXCEPT ![target[w]] = Nothing]
    /\ Goto(w, "indexing")
    /\ UNCHANGED <<node, link, hash, files, raw, request, work, gone, drain,
                   orphans, budget, ghosts>>

\* ... and inserts the new ones in one transaction.
FillIndex(w) ==
    /\ pc[w] = "indexing" /\ drain = w
    /\ index' = [index EXCEPT ![target[w]] = arch[w]]
    /\ drain' = Nothing
    /\ Goto(w, "replying")
    /\ UNCHANGED <<node, link, hash, files, raw, request, work, gone, orphans,
                   budget, ghosts>>

\* A statement of the three fails, or a node that JSON.stringify rejects.
CommitFails(w) ==
    /\ pc[w] \in {"recording", "dropping", "indexing"} /\ Free(w)
    /\ Spend("fault")
    /\ Abandon(w, {})
    /\ UNCHANGED <<store, request, todo, gone, unarchived>>

-----------------------------------------------------------------------------
(* deleteBundle, and the two clears.                                        *)

\* A deletion or a clear makes good what a crash or a failure has left, unless
\* blobs are still being written: nothing waits for those.
Cleanse(bs) == tainted' = tainted \ {b \in bs : ~Late(b)}

DeleteRows(w) ==
    /\ pc[w] = "delRows" /\ Free(w)
    /\ LET b == target[w] IN
       /\ node' = DropNodes(node, b)
       /\ link' = DropLinks(link, b)
       /\ hash' = [hash EXCEPT ![b] = Nothing]
       /\ index' = [index EXCEPT ![b] = Nothing]
       /\ puts' = [puts EXCEPT ![w] = KeysOf(b)]
    /\ Goto(w, "delBlobs")
    /\ Cleanse(scope[w])
    /\ UNCHANGED <<files, raw, request, batch, todo, gone, drain, orphans,
                   budget, unarchived>>

\* Mutant of ClearRows: `node_index' is forgotten.
ClearRowsButIndex(w) ==
    /\ pc[w] = "clrRows" /\ Free(w)
    /\ node' = [k \in Key |-> NoRow]
    /\ link' = {}
    /\ hash' = [b \in Bundle |-> Nothing]
    /\ puts' = [puts EXCEPT ![w] = Key]
    /\ Goto(w, "delBlobs")
    /\ Cleanse(scope[w])
    /\ UNCHANGED <<index, files, raw, request, batch, todo, gone, drain,
                   orphans, budget, unarchived>>

\* GraphDb.clear().
ClearRows(w) ==
    /\ pc[w] = "clrRows" /\ Free(w)
    /\ node' = [k \in Key |-> NoRow]
    /\ link' = {}
    /\ hash' = [b \in Bundle |-> Nothing]
    /\ index' = [b \in Bundle |-> Nothing]
    /\ puts' = [puts EXCEPT ![w] = Key]
    /\ Goto(w, "delBlobs")
    /\ Cleanse(scope[w])
    /\ UNCHANGED <<files, raw, request, batch, todo, gone, drain, orphans,
                   budget, unarchived>>

\* The recursive removal of a directory comes to each name once: a blob that
\* is written after that stays.
RemoveBlob(w, k) ==
    /\ pc[w] = "delBlobs" /\ k \in puts[w]
    /\ blob' = [blob EXCEPT ![k] = Nothing]
    /\ puts' = [puts EXCEPT ![w] = @ \ {k}]
    /\ UNCHANGED <<graph, meta, raw, pc, request, batch, todo, gone, drain,
                   orphans, budget, ghosts>>

\* The removal is complete.  deleteBundle with raw goes on to the archive.
RemoveTree(w) ==
    /\ pc[w] = "delBlobs" /\ puts[w] = {}
    /\ meta' = [b \in Bundle |-> IF b \in scope[w] THEN Nothing ELSE meta[b]]
    /\ IF kind[w] = "deleteRaw"
       THEN /\ todo' = [todo EXCEPT ![w] = scope[w]]
            /\ Goto(w, "delRaw")
            /\ UNCHANGED <<request, batch, puts, gone>>
       ELSE Finish(w)
    /\ UNCHANGED <<graph, blob, raw, drain, orphans, budget, ghosts>>

\* rm fails: the request answers 500 and what is left stays.
RemoveFails(w) ==
    /\ pc[w] \in {"delBlobs", "delRaw"}
    /\ Spend("fault")
    /\ tainted' = IF pc[w] = "delBlobs" THEN tainted \cup scope[w] ELSE tainted
    /\ Finish(w)
    /\ UNCHANGED <<store, drain, orphans, unarchived>>

\* rawStore.delete() of one entry, rawStore.clear() of all.
RemoveRaw(w, b) ==
    /\ pc[w] = "delRaw" /\ b \in todo[w]
    /\ raw' = [raw EXCEPT ![b] = Nothing]
    /\ IF todo[w] = {b}
       THEN Finish(w)
       ELSE /\ todo' = [todo EXCEPT ![w] = @ \ {b}]
            /\ UNCHANGED <<pc, request, batch, puts, gone>>
    /\ UNCHANGED <<graph, files, drain, orphans, budget, ghosts>>

-----------------------------------------------------------------------------
(* The process dies and is started again.  Committed transactions and       *)
(* finished files stay; a file that was being written may be cut short.     *)

Writing(k) ==
    \/ \E w \in Worker : pc[w] = "flushing" /\ batch[w] = NoStmts /\ k \in puts[w]
    \/ \E o \in orphans : o[1] = k
WritingMeta(b) == \E w \in Worker : pc[w] = "meta" /\ target[w] = b
WritingRaw(b) == \E w \in Worker : pc[w] = "archiving" /\ target[w] = b

Crash ==
    /\ Spend("crash")
    /\ \E ks \in SUBSET {k \in Key : Writing(k)} :
          blob' = [k \in Key |-> IF k \in ks THEN Torn ELSE blob[k]]
    /\ \E bs \in SUBSET {b \in Bundle : WritingMeta(b)} :
          meta' = [b \in Bundle |-> IF b \in bs THEN Torn ELSE meta[b]]
    /\ \E bs \in SUBSET {b \in Bundle : WritingRaw(b)} :
          raw' = [b \in Bundle |-> IF b \in bs THEN Torn ELSE raw[b]]
    /\ pc' = [w \in Worker |-> "idle"]
    /\ kind' = [w \in Worker |-> "put"]
    /\ scope' = [w \in Worker |-> {}]
    /\ arch' = [w \in Worker |-> Nothing]
    /\ target' = [w \in Worker |-> Nothing]
    /\ batch' = [w \in Worker |-> NoStmts]
    /\ puts' = [w \in Worker |-> {}]
    /\ todo' = [w \in Worker |-> {}]
    /\ gone' = [w \in Worker |-> FALSE]
    /\ drain' = Nothing
    /\ orphans' = {}
    /\ tainted' = tainted \cup UNION {scope[w] : w \in Worker}
    /\ UNCHANGED <<graph, unarchived>>

-----------------------------------------------------------------------------
Request(w) ==
    \/ \E a \in Archive : Put(w, a)
    \/ \E S \in {Bundle} \cup {{b} : b \in Bundle} : Reingest(w, S)
    \/ \E b \in Bundle, op \in {"delete", "deleteRaw"} : Delete(w, b, op)
    \/ Clear(w)
    \/ ClearRaw(w)

Step(w) ==
    \/ SendStart(w) \/ SendWarning(w) \/ SendDone(w) \/ SendFailure(w)
    \/ ArchiveRaw(w) \/ ListRaw(w) \/ NextEntry(w) \/ ReadRaw(w)
    \/ Reject(w) \/ Prefetch(w) \/ Flush(w) \/ \E k \in Key : PutBlob(w, k)
    \/ PutMeta(w) \/ Record(w) \/ DropIndex(w) \/ FillIndex(w)
    \/ DeleteRows(w) \/ ClearRows(w) \/ \E k \in Key : RemoveBlob(w, k)
    \/ RemoveTree(w) \/ \E b \in Bundle : RemoveRaw(w, b)

Fault(w) ==
    \/ ArchiveFails(w) \/ ReadFails(w)
    \/ FlushFails(w) \/ \E k \in Key : PutBlobFails(w, k)
    \/ PutMetaFails(w) \/ CommitFails(w) \/ RemoveFails(w)

Next ==
    \/ \E w \in Worker : Request(w) \/ Step(w) \/ Fault(w) \/ ClientLeaves(w)
    \/ \E o \in orphans : OrphanPut(o)
    \/ Crash

Spec == Init /\ [][Next]_vars

\* The event loop comes back to every handler that can go on, and a client
\* reads its response or leaves.
FairSpec == Spec /\ \A w \in Worker : WF_vars(Step(w))
                 /\ WF_vars(\E o \in orphans : OrphanPut(o))

-----------------------------------------------------------------------------
(* Safety, whatever overlaps, fails or crashes.                             *)

\* Both ends of a link have a row: no deletion, clear or ingest, however they
\* overlap or break off, leaves a link that a join would lose
\* (delete-bundle.ts deletes links by both ends; insLink takes its ids from
\* subqueries).
LinkEndsExist ==
    \A e \in link : node[e[1]] # NoRow /\ node[e[2]] # NoRow

\* Only a page that was uploaded links anywhere: has_blob = 1 is set before the
\* page's links are inserted, in whatever chunk a crash cuts the batch, and a
\* deletion takes the links with the page (getBackrefs selects has_blob = 1
\* sources, and a prefetch looks for old refs of those only).
LinkSourceUploaded ==
    \A e \in link : HasBlob(node, e[1])

\* A step leaves a bundle alone: its files, its rows in `bundles' and
\* `node_index', the content of its pages; and a link of its pages only goes
\* together with the row it points to.
Untouched(b) ==
    /\ hash'[b] = hash[b] /\ index'[b] = index[b]
    /\ meta'[b] = meta[b] /\ raw'[b] = raw[b]
    /\ \A k \in KeysOf(b) :
          /\ blob'[k] = blob[k]
          /\ HasBlob(node, k) \/ HasBlob(node', k) => node'[k] = node[k]
          /\ \A d \in Key : /\ <<k, d>> \in link' => <<k, d>> \in link
                            /\ <<k, d>> \in link =>
                                  \/ <<k, d>> \in link'
                                  \/ node'[d] = NoRow

\* No step touches a bundle that no request is at work on.  (INSERT OR IGNORE
\* never resets a page another bundle refers to.)
BystanderUntouched ==
    [][\A b \in Bundle :
          Quiet(b) /\ (\A w \in Worker : b \notin scope'[w]) => Untouched(b)]_vars

-----------------------------------------------------------------------------
(* Safety of a bundle that one request at a time works on (Exclusive), that *)
(* no request is at work on now, and that is whole: no crash or failure has *)
(* left it half-written since the last deletion that began with no late     *)
(* write of its blobs under way.  What a late write does to a bundle that   *)
(* is not whole is excepted here; ClearedStaysEmpty (DeletedStore) shows    *)
(* it.                                                                      *)

Sound(b) == Unattended(b) /\ b \notin tainted

\* A bundle without a row in `bundles' has nothing in the store that a first
\* upload would have to reconcile with: what ingestBundle relies on when it
\* skips its two queries.
FreshBundleIsEmpty ==
    \A b \in Bundle : Sound(b) /\ hash[b] = Nothing =>
        /\ index[b] = Nothing /\ meta[b] = Nothing
        /\ \A k \in KeysOf(b) : /\ ~HasBlob(node, k)
                                /\ blob[k] = Nothing
                                /\ OutLinks(link, k) = {}

\* The content hash that GET /api/bundle answers a client with is that of the
\* artifact the store serves: every page of it, the index and meta.cbor.
HashIsServed ==
    \A b \in Bundle : Sound(b) /\ hash[b] # Nothing =>
        /\ index[b] = hash[b] /\ meta[b] = hash[b]
        /\ \A k \in Pages[hash[b]] : node[k] = hash[b] /\ blob[k] = hash[b]

\* A page has a row with has_blob = 1 if and only if its blob is there, and the
\* row's digest is that of the blob.
RowMatchesBlob ==
    \A b \in Bundle : Sound(b) => \A k \in KeysOf(b) :
        IF HasBlob(node, k) THEN blob[k] = node[k] ELSE blob[k] = Nothing

\* The links of a page are among those its current content makes: adding and
\* deleting the difference to the prefetched refs leaves no link of an earlier
\* content behind.
NoPhantomLinks ==
    \A b \in Bundle : Sound(b) => \A k \in KeysOf(b) :
        HasBlob(node, k) => OutLinks(link, k) \subseteq Refs[node[k]][k]

\* And they are all of those, as long as nothing is deleted.
NoMissingLinks ==
    \A b \in Bundle : Sound(b) => \A k \in KeysOf(b) :
        HasBlob(node, k) => Refs[node[k]][k] \subseteq OutLinks(link, k)

\* A re-ingest of the bundle would change nothing: the raw archive has what the
\* store serves, unless the entry was dropped, its last write failed, or the
\* last upload was rejected.
RawIsServed ==
    \A b \in Bundle : Sound(b) /\ b \notin unarchived /\ hash[b] # Nothing =>
        raw[b] \in {hash[b], Nothing} \cup Malformed

\* When a re-ingest that nobody left has come to the end of its list, the store
\* serves the raw archive: every entry in its scope that can be read, unless a
\* failure was reported for it.
ReingestCoversArchive ==
    \A w \in Worker : kind[w] = "reingest" /\ pc[w] = "next" /\ todo[w] = {} =>
        \A b \in scope[w] \ tainted :
            raw[b] \in Archive \ Malformed =>
                hash[b] = raw[b] /\ index[b] = raw[b]

-----------------------------------------------------------------------------
(* Liveness.                                                                *)

\* Every request is answered or given up on in the end, whatever fails and
\* whether or not its client stays.
EveryRequestEnds ==
    \A w \in Worker : pc[w] # "idle" ~> pc[w] = "idle"

-----------------------------------------------------------------------------
(* What the documents say, and the code does not do.                        *)

\* PLAN.md: "Everything in the viewer's graphstore + blob store is a derived
\* projection, rebuildable via POST /api/reingest": an archive entry that is
\* there, and was written, is one that ingest accepts.
ArchiveIsIngestible ==
    \A b \in Bundle : Sound(b) /\ b \notin unarchived /\ hash[b] # Nothing =>
        raw[b] \notin Malformed

=============================================================================
