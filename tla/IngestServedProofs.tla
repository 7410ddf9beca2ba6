--------------------------- MODULE IngestServedProofs -------------------------
(***************************************************************************)
(* What the store serves.  Where no two requests are at work on one bundle *)
(* at one time, the tables, the files and the raw archive of a bundle      *)
(* agree whenever nothing is at work on it.  And the store implements the  *)
(* catalog: as long as no bundle is left half-written, each step of the    *)
(* server is a step of the catalog or changes nothing that it has.         *)
(***************************************************************************)
EXTENDS IngestStoreProofs, IngestRefinement

-----------------------------------------------------------------------------
(* Tables, files and index.  A bundle that nothing is writing and that no   *)
(* failure has left half-written is in agreement; one that is being written *)
(* will be, when its batch is empty and its blobs are there; one that is    *)
(* being deleted has no rows, and no blobs but those still to be removed.   *)

Storing == {"staged", "flushing", "meta", "recording", "dropping", "indexing"}

AtWork(w, b) ==
    \/ target[w] = b /\ pc[w] \in Storing
    \/ b \in scope[w] /\ pc[w] = "delBlobs"

Matches(k) == IF HasBlob(node, k) THEN blob[k] = node[k] ELSE blob[k] = Nothing

LinksAreRefs(k) ==
    \A d \in Key : <<k, d>> \in link => HasBlob(node, k) /\ d \in Refs[node[k]][k]

IsEmpty(b) ==
    /\ index[b] = Nothing /\ meta[b] = Nothing
    /\ \A k \in KeysOf(b) : ~HasBlob(node, k)

Serves(b, a) ==
    /\ BundleOf[a] = b /\ index[b] = a /\ meta[b] = a
    /\ \A k \in Pages[a] : node[k] = a /\ blob[k] = a

Agreement(b) ==
    /\ \A k \in KeysOf(b) : Matches(k) /\ LinksAreRefs(k)
    /\ hash[b] = Nothing => IsEmpty(b)
    /\ hash[b] # Nothing => Serves(b, hash[b])

RestInv ==
    \A b \in Bundle : b \notin tainted /\ (\A w \in Worker : ~AtWork(w, b)) =>
        Agreement(b)

IngestOK(w) ==
    pc[w] \in Storing /\ target[w] \notin tainted =>
        /\ \A k \in KeysOf(target[w]) \ Pages[arch[w]] :
              Matches(k) /\ LinksAreRefs(k)
        /\ \A k \in Pages[arch[w]] :
              /\ k \in batch[w].upd \/ node[k] = arch[w]
              /\ k \in puts[w] \/ blob[k] = arch[w]
              /\ \A d \in Key : <<k, d>> \in link =>
                    d \in Refs[arch[w]][k] \/ <<k, d>> \in batch[w].del
        /\ \A e \in batch[w].add : e[2] \in Refs[arch[w]][e[1]]
        /\ pc[w] \in {"recording", "dropping", "indexing"} =>
              meta[target[w]] = arch[w]
        /\ pc[w] \in {"dropping", "indexing"} => hash[target[w]] = arch[w]

DeleteOK(w) ==
    pc[w] = "delBlobs" => \A b \in scope[w] :
        /\ hash[b] = Nothing /\ index[b] = Nothing
        /\ \A k \in KeysOf(b) : /\ ~HasBlob(node, k)
                                /\ k \in puts[w] \/ blob[k] = Nothing \/ b \in tainted

ServedInv == RestInv /\ \A w \in Worker : IngestOK(w) /\ DeleteOK(w)

Serving == /\ TypeInv /\ LinkInv /\ ScopeInv
           /\ ExclInv /\ OrphanInv /\ ServedInv

\* None of this is about anything but the bundle itself.
LEMMA AgreementStays ==
    ASSUME TypeInv, NEW b \in Bundle, Untouched(b), Agreement(b)
    PROVE  Agreement(b)'
  <1>1. \A k \in KeysOf(b) : Matches(k)'
    BY DEF Agreement, Untouched, Matches, HasBlob
  <1>2. \A k \in KeysOf(b) : LinksAreRefs(k)'
    BY DEF Agreement, Untouched, LinksAreRefs, HasBlob
  <1>3. IsEmpty(b) => IsEmpty(b)'
    BY DEF Untouched, IsEmpty, HasBlob
  <1>4. ASSUME hash[b] # Nothing, Serves(b, hash[b])
        PROVE  Serves(b, hash[b])'
    <2>1. hash[b] \in Archive /\ hash'[b] = hash[b]
      BY <1>4 DEF TypeInv, StoreTypeOK, Untouched
    <2>2. \A k \in Pages[hash[b]] : k \in KeysOf(b) /\ HasBlob(node, k)
      BY <1>4, <2>1, GraphAssumption DEF Serves, KeysOf, HasBlob
    <2> QED
      BY <1>4, <2>1, <2>2 DEF Untouched, Serves
  <1> QED
    BY <1>1, <1>2, <1>3, <1>4 DEF Agreement, Untouched

LEMMA IngestStays ==
    ASSUME TypeInv, NEW w \in Worker, IngestOK(w),
           pc[w] \in Storing /\ target[w] \notin tainted => Untouched(target[w]),
           pc[w] \in Storing => (target[w] \in tainted' <=> target[w] \in tainted),
           pc'[w] = pc[w], arch'[w] = arch[w], target'[w] = target[w],
           batch'[w] = batch[w], puts'[w] = puts[w]
    PROVE  IngestOK(w)'
  <1> SUFFICES ASSUME pc[w] \in Storing, target[w] \notin tainted
               PROVE  IngestOK(w)'
    BY DEF IngestOK
  <1>1. /\ arch[w] \in Archive /\ Untouched(target[w])
        /\ \A k \in Pages[arch[w]] : k \in KeysOf(target[w])
    BY GraphAssumption
    DEF TypeInv, Requests, RequestInv, HasArchive, Ingesting, Storing, KeysOf
  <1>2. \A k \in KeysOf(target[w]) : Matches(k) => Matches(k)'
    BY <1>1 DEF Untouched, Matches, HasBlob
  <1>3. \A k \in KeysOf(target[w]) : LinksAreRefs(k) => LinksAreRefs(k)'
    BY <1>1 DEF Untouched, LinksAreRefs, HasBlob
  <1>4. \A k \in Pages[arch[w]] :
           /\ node[k] = arch[w] => node'[k] = arch[w]
           /\ blob'[k] = blob[k]
           /\ \A d \in Key : <<k, d>> \in link' => <<k, d>> \in link
    BY <1>1 DEF Untouched, HasBlob
  <1>5. hash'[target[w]] = hash[target[w]] /\ meta'[target[w]] = meta[target[w]]
    BY <1>1 DEF Untouched
  <1> QED
    BY <1>2, <1>3, <1>4, <1>5 DEF IngestOK

LEMMA DeleteStays ==
    ASSUME TypeInv, NEW w \in Worker, DeleteOK(w),
           pc[w] = "delBlobs" => \A b \in scope[w] :
               Untouched(b) /\ (b \in tainted => b \in tainted'),
           pc'[w] = pc[w], scope'[w] = scope[w], puts'[w] = puts[w]
    PROVE  DeleteOK(w)'
  BY DEF DeleteOK, Untouched, HasBlob

\* A bundle of a request that is not writing it is in agreement: nobody else
\* is writing it.
LEMMA InScopeAtRest ==
    ASSUME Serving, NEW w \in Worker, NEW b \in Bundle,
           b \in scope[w], b \notin tainted, ~AtWork(w, b)
    PROVE  Agreement(b)
  BY DEF Serving, ServedInv, RestInv, AtWork, ExclInv, ScopeInv, ScopeOK

\* So a step of a request has to be looked at for the bundles it touches only.
Own(w) ==
    /\ \A b \in Bundle : b \in Touch(w) /\ b \notin tainted' /\ ~AtWork(w, b)' =>
          Agreement(b)'
    /\ IngestOK(w)' /\ DeleteOK(w)'

LEMMA OwnSuffices ==
    ASSUME Exclusive, Serving, NEW w \in Worker, Actor(w), Own(w)
    PROVE  ServedInv'
  <1>1. OthersStay(w) /\ Books(w)
    BY ActorMeansOthersStay, ActorBooks DEF Serving
  <1>2. \A b \in Bundle : b \notin Touch(w) => Untouched(b)
    BY ActorFootprint DEF Serving
  <1>3. RestInv'
    <2> SUFFICES ASSUME NEW b \in Bundle, b \notin tainted',
                        \A v \in Worker : ~AtWork(v, b)'
                 PROVE  Agreement(b)'
      BY DEF RestInv
    <2>1. CASE b \in Touch(w)
      BY <2>1 DEF Own
    <2>2. CASE b \notin Touch(w)
      <3>1. b \notin tainted /\ Untouched(b)
        BY <1>1, <1>2, <2>2 DEF Books
      <3>2. \A v \in Worker \ {w} : ~AtWork(v, b)
        BY <1>1 DEF OthersStay, AtWork
      <3>3. ~AtWork(w, b)
        BY <2>2 DEF AtWork, Touch, Deleting, Storing
      <3>4. Agreement(b)
        BY <3>1, <3>2, <3>3 DEF Serving, ServedInv, RestInv
      <3> QED
        BY <3>1, <3>4, AgreementStays DEF Serving
    <2> QED
      BY <2>1, <2>2
  <1>4. ASSUME NEW v \in Worker \ {w} PROVE IngestOK(v)' /\ DeleteOK(v)'
    <2>1. \A b \in Bundle : b \in scope[v] => b \notin Touch(w)
      BY TouchInScope DEF Serving, ExclInv
    <2>2. \A b \in Bundle : b \in scope[v] => Untouched(b)
      BY <1>2, <2>1
    <2>3. pc[v] \in Storing => target[v] \in Bundle /\ target[v] \in scope[v]
      BY GraphAssumption
      DEF Serving, ScopeInv, ScopeOK, TypeInv, Requests, RequestInv,
          HasArchive, Ingesting, Storing
    <2>4. IngestOK(v)'
      <3>1. pc[v] \in Storing => (target[v] \in tainted' <=> target[v] \in tainted)
        BY <1>1, <2>1, <2>3 DEF Books
      <3>2. pc[v] \in Storing => Untouched(target[v])
        BY <2>2, <2>3
      <3>3. /\ pc'[v] = pc[v] /\ arch'[v] = arch[v] /\ target'[v] = target[v]
            /\ batch'[v] = batch[v] /\ puts'[v] = puts[v]
        BY <1>1 DEF OthersStay
      <3> QED
        BY <3>1, <3>2, <3>3, IngestStays DEF Serving, ServedInv
    <2>5. DeleteOK(v)'
      <3>1. scope[v] \in SUBSET Bundle
        BY DEF Serving, TypeInv, Requests, RequestTypeOK
      <3>2. pc'[v] = pc[v] /\ scope'[v] = scope[v] /\ puts'[v] = puts[v]
        BY <1>1 DEF OthersStay
      <3>3. DeleteOK(v) /\ TypeInv
        BY DEF Serving, ServedInv
      <3> QED
        BY <1>1, <2>1, <2>2, <3>1, <3>2, <3>3, DeleteStays DEF Books
    <2> QED
      BY <2>4, <2>5
  <1> QED
    BY <1>3, <1>4 DEF ServedInv, Own

-----------------------------------------------------------------------------
(* One step per action.  Most of them leave the tables and the files alone. *)

LEMMA CalmOwn ==
    ASSUME Serving, NEW w \in Worker, UNCHANGED <<graph, files, tainted>>,
           pc[w] \notin Storing \cup {"delBlobs"},
           pc'[w] \notin Storing \cup {"delBlobs"}
    PROVE  Own(w)
  <1>1. ASSUME NEW b \in Bundle, b \in Touch(w), b \notin tainted'
        PROVE  Agreement(b)'
    <2>1. b \in scope[w] /\ ~AtWork(w, b) /\ b \notin tainted
      BY <1>1, TouchInScope DEF Serving, AtWork
    <2>2. Agreement(b)
      BY <2>1, InScopeAtRest
    <2> QED
      BY <2>2 DEF Agreement, Matches, LinksAreRefs, IsEmpty, Serves, HasBlob,
           graph, files
  <1> QED
    BY <1>1 DEF Own, IngestOK, DeleteOK

\* A request that fails in the middle of an ingest says so.
LEMMA FailOwn ==
    ASSUME NEW w \in Worker, \A b \in Touch(w) : b \in tainted',
           pc'[w] \notin Storing \cup {"delBlobs"}
    PROVE  Own(w)
  BY DEF Own, IngestOK, DeleteOK

\* In the middle of an ingest there is one bundle to look at.
LEMMA IngestOwn ==
    ASSUME NEW w \in Worker, pc[w] \notin Deleting, pc'[w] \in Storing,
           target'[w] = target[w], IngestOK(w)'
    PROVE  Own(w)
  BY DEF Own, DeleteOK, Touch, AtWork, Storing

\* What is known of it.
LEMMA IngestKnows ==
    ASSUME Serving, NEW w \in Worker, pc[w] \in Storing \cup {"hashing"}
    PROVE  /\ arch[w] \in Archive /\ target[w] \in Bundle
           /\ BundleOf[arch[w]] = target[w] /\ target[w] \in scope[w]
           /\ Pages[arch[w]] \subseteq KeysOf(target[w])
           /\ pc[w] \notin Deleting
           /\ IngestOK(w)
  BY GraphAssumption
  DEF Serving, ServedInv, ScopeInv, ScopeOK, TypeInv, Requests, RequestInv,
      HasArchive, Ingesting, Storing, KeysOf, Deleting

\* The statements for a bundle in agreement: every page is written, and a link
\* that is in the way is deleted, whether the prefetch was skipped or not.
LEMMA StageWhole ==
    ASSUME Serving, NEW a \in Archive, NEW b \in Bundle, BundleOf[a] = b,
           Agreement(b), NEW bs, NEW rs,
           bs = IF hash[b] = Nothing THEN {} ELSE ExistingBlobs(node, b),
           rs = IF hash[b] = Nothing THEN {} ELSE ExistingRefs(link, b),
           NEW s, s = Stage(a, bs, rs)
    PROVE  /\ s.upd = Pages[a]
           /\ \A e \in s.add : e[2] \in Refs[a][e[1]]
           /\ \A k \in Pages[a], d \in Key :
                 <<k, d>> \in link => d \in Refs[a][k] \/ <<k, d>> \in s.del
  <1> DEFINE old(k) == IF k \in bs \ Asset THEN OutLinks(rs, k) ELSE {}
  <1>1. /\ s.upd = Pages[a]
        /\ s.add = {e \in Link : /\ e[1] \in Pages[a]
                                 /\ e[2] \in Refs[a][e[1]] \ old(e[1])}
        /\ s.del = {e \in Link : /\ e[1] \in Pages[a]
                                 /\ e[2] \in old(e[1]) \ Refs[a][e[1]]}
    BY DEF Stage
  <1>2. ASSUME NEW k \in Pages[a], NEW d \in Key, <<k, d>> \in link
        PROVE  d \in old(k)
    <2>1. k \in KeysOf(b) /\ k \in Key
      BY GraphAssumption DEF KeysOf
    <2>2. HasBlob(node, k) /\ d \in Refs[node[k]][k]
      BY <1>2, <2>1 DEF Agreement, LinksAreRefs
    <2>3. hash[b] # Nothing
      BY <2>1, <2>2 DEF Agreement, IsEmpty
    <2>4. k \in bs
      BY <2>1, <2>2, <2>3 DEF ExistingBlobs
    <2>5. k \notin Asset
      BY <2>2, GraphAssumption DEF HasBlob
    <2>6. <<k, d>> \in rs
      BY <1>2, <2>1, <2>3 DEF ExistingRefs, KeysOf
    <2>7. d \in OutLinks(rs, k)
      <3>1. <<k, d>> \in {f \in rs : f[1] = k}
        BY <2>6
      <3> QED
        BY <3>1 DEF OutLinks
    <2> QED
      BY <2>4, <2>5, <2>7
  <1>3. ASSUME NEW k \in Pages[a], NEW d \in Key, <<k, d>> \in link
        PROVE  d \in Refs[a][k] \/ <<k, d>> \in s.del
    <2>1. d \in old(k) /\ <<k, d>> \in Link
      BY <1>2, <1>3, GraphAssumption DEF Link
    <2> HIDE DEF old
    <2> QED
      BY <1>1, <2>1
  <1> HIDE DEF old
  <1> QED
    BY <1>1, <1>3

LEMMA PrefetchOwn ==
    ASSUME Exclusive, Serving, NEW w \in Worker, Prefetch(w)
    PROVE  Own(w)
  <1> DEFINE a == arch[w]
             b == target[w]
             fresh == hash[b] = Nothing
             bs == IF fresh THEN {} ELSE ExistingBlobs(node, b)
             rs == IF fresh THEN {} ELSE ExistingRefs(link, b)
             s == Stage(a, bs, rs)
  <1>1. pc[w] = "hashing" /\ batch' = [batch EXCEPT ![w] = s]
    BY DEF Prefetch
  <1>2. /\ a \in Archive /\ b \in Bundle /\ BundleOf[a] = b
        /\ b \in scope[w] /\ pc[w] \notin Deleting
    BY <1>1, IngestKnows
  <1>3. /\ batch'[w] = s /\ puts'[w] = Pages[a] /\ pc'[w] = "staged"
        /\ arch'[w] = a /\ target'[w] = b /\ UNCHANGED <<graph, files, tainted>>
    BY <1>1
    DEF Prefetch, Goto, Serving, TypeInv, Requests, RequestTypeOK, request,
        store, ghosts
  <1>4. ASSUME b \notin tainted PROVE IngestOK(w)'
    <2>1. Agreement(b)
      BY <1>1, <1>2, <1>4, InScopeAtRest DEF AtWork, Storing
    <2>2. /\ s.upd = Pages[a]
          /\ \A e \in s.add : e[2] \in Refs[a][e[1]]
          /\ \A k \in Pages[a], d \in Key :
                <<k, d>> \in link => d \in Refs[a][k] \/ <<k, d>> \in s.del
      <3> HIDE DEF s, bs, rs, a, b
      <3> QED
        BY <1>2, <2>1, StageWhole DEF s, bs, rs
    <2>3. \A k \in KeysOf(b) : Matches(k)' /\ LinksAreRefs(k)'
      BY <1>3, <2>1
      DEF Agreement, Matches, LinksAreRefs, HasBlob, graph, files
    <2> HIDE DEF s
    <2> QED
      BY <1>3, <2>2, <2>3 DEF IngestOK, graph
  <1>5. IngestOK(w)'
    BY <1>3, <1>4 DEF IngestOK
  <1> QED
    BY <1>2, <1>3, <1>5, IngestOwn DEF Storing

\* A transaction: what it does not do, the batch still has.
LEMMA FlushOwn ==
    ASSUME Exclusive, Serving, NEW w \in Worker, Flush(w)
    PROVE  Own(w)
  <1> DEFINE a == arch[w]
             b == target[w]
  <1>1. /\ a \in Archive /\ b \in Bundle /\ Pages[a] \subseteq KeysOf(b)
        /\ pc[w] \notin Deleting /\ IngestOK(w) /\ batch[w] \in Batch
    BY IngestKnows
    DEF Flush, Storing, Serving, TypeInv, Requests, RequestTypeOK
  <1>2. PICK c \in Chunks(batch[w]) : /\ node' = RunNodes(node, c, a)
                                     /\ link' = RunLinks(node', link, c)
                                     /\ batch' = [batch EXCEPT ![w] = Without(batch[w], c)]
    BY DEF Flush
  <1>3. /\ batch'[w] = Without(batch[w], c) /\ pc'[w] = "flushing"
        /\ UNCHANGED <<puts, arch, target, files, hash, tainted>>
    BY <1>2
    DEF Flush, Goto, Serving, TypeInv, Requests, RequestTypeOK, request, ghosts
  <1>4. /\ c \in Batch /\ c.upd \subseteq batch[w].upd
        /\ c.add \subseteq batch[w].add
    BY <1>1, ChunkFacts
  <1>5. /\ batch[w].upd \subseteq Pages[a]
        /\ \A e \in batch[w].add : e[1] \in Pages[a]
        /\ \A k \in c.upd : k \in c.ins \/ node[k] # NoRow
    <2>1. /\ batch[w].upd \subseteq Pages[a]
          /\ \A e \in batch[w].add : e[1] \in Pages[a]
      BY DEF Flush, Serving, ScopeInv, ScopeOK
    <2>2. \A k \in batch[w].upd : k \in batch[w].ins \/ node[k] # NoRow
      BY DEF Flush, Serving, LinkInv, FlushInv
    <2>3. c.upd \cap (batch[w].ins \ c.ins) = {}
      BY <1>1, ChunkFacts
    <2> QED
      BY <1>4, <2>1, <2>2, <2>3
  <1>6. \A k \in Key :
           node'[k] = IF k \in c.upd THEN a
                      ELSE IF k \in c.ins /\ node[k] = NoRow THEN Stub
                                                             ELSE node[k]
    BY <1>1, <1>2, <1>4, <1>5, RunNodesValue DEF Serving, TypeInv, StoreTypeOK
  <1>7. \A k \in KeysOf(b) \ Pages[a] : /\ Matches(k) => Matches(k)'
                                        /\ LinksAreRefs(k) => LinksAreRefs(k)'
    <2> SUFFICES ASSUME NEW k \in KeysOf(b) \ Pages[a]
                 PROVE  /\ Matches(k) => Matches(k)'
                        /\ LinksAreRefs(k) => LinksAreRefs(k)'
      OBVIOUS
    <2>1. HasBlob(node, k) \/ HasBlob(node', k) => node'[k] = node[k]
      BY <1>4, <1>5, <1>6, GraphAssumption DEF HasBlob, KeysOf
    <2>2. \A d \in Key : <<k, d>> \in link' => <<k, d>> \in link
      BY <1>2, <1>4, <1>5 DEF RunLinks
    <2>3. blob'[k] = blob[k]
      BY <1>3 DEF files
    <2> QED
      BY <2>1, <2>2, <2>3 DEF Matches, LinksAreRefs, HasBlob
  <1>8. ASSUME b \notin tainted PROVE IngestOK(w)'
    <2>1. \A k \in Pages[a] : k \in batch'[w].upd \/ node'[k] = a
      <3>1. \A k \in Pages[a] : k \in batch[w].upd \/ node[k] = a
        BY <1>1, <1>8 DEF IngestOK, Flush, Storing
      <3> QED
        BY <1>1, <1>3, <1>6, <3>1, GraphAssumption DEF Without, KeysOf
    <2>2. \A k \in Pages[a] : k \in puts'[w] \/ blob'[k] = a
      BY <1>1, <1>3, <1>8 DEF IngestOK, Flush, Storing, files
    <2>3. \A k \in Pages[a], d \in Key : <<k, d>> \in link' =>
             d \in Refs[a][k] \/ <<k, d>> \in batch'[w].del
      <3>1. \A k \in Pages[a], d \in Key : <<k, d>> \in link =>
               d \in Refs[a][k] \/ <<k, d>> \in batch[w].del
        BY <1>1, <1>8 DEF IngestOK, Flush, Storing
      <3>2. \A e \in c.add : e[2] \in Refs[a][e[1]]
        BY <1>1, <1>4, <1>8 DEF IngestOK, Flush, Storing
      <3>3. \A e \in link' : (e \in link \/ e \in c.add) /\ e \notin c.del
        BY <1>2 DEF RunLinks
      <3> QED
        BY <1>3, <3>1, <3>2, <3>3 DEF Without
    <2>4. \A e \in batch'[w].add : e[2] \in Refs[a][e[1]]
      BY <1>1, <1>3, <1>8 DEF IngestOK, Flush, Storing, Without
    <2>5. \A k \in KeysOf(b) \ Pages[a] : Matches(k)' /\ LinksAreRefs(k)'
      BY <1>1, <1>7, <1>8 DEF IngestOK, Flush, Storing
    <2> QED
      BY <1>3, <2>1, <2>2, <2>3, <2>4, <2>5 DEF IngestOK
  <1>9. IngestOK(w)'
    BY <1>3, <1>8 DEF IngestOK
  <1> QED
    BY <1>1, <1>3, <1>9, IngestOwn DEF Storing

LEMMA PutBlobOwn ==
    ASSUME Serving, NEW w \in Worker, NEW k \in Key, PutBlob(w, k)
    PROVE  Own(w)
  <1>1. /\ IngestOK(w) /\ pc[w] \notin Deleting /\ k \in Pages[arch[w]]
        /\ Pages[arch[w]] \subseteq KeysOf(target[w])
    BY IngestKnows DEF PutBlob, Storing, Serving, ScopeInv, ScopeOK
  <1>2. /\ pc'[w] \in {"meta", "flushing"} /\ puts'[w] = puts[w] \ {k}
        /\ UNCHANGED <<arch, target, batch, graph, meta, tainted>>
        /\ blob'[k] = arch[w]
        /\ \A j \in Key : j # k => blob'[j] = blob[j]
    BY DEF PutBlob, Goto, Serving, TypeInv, StoreTypeOK, Requests,
           RequestTypeOK, request, ghosts
  <1>3. \A j \in KeysOf(target[w]) \ Pages[arch[w]] :
           /\ Matches(j) => Matches(j)'
           /\ LinksAreRefs(j) => LinksAreRefs(j)'
    BY <1>1, <1>2 DEF Matches, LinksAreRefs, HasBlob, graph, KeysOf
  <1>4. \A j \in Pages[arch[w]] : j \in puts[w] \/ blob[j] = arch[w] =>
           j \in puts'[w] \/ blob'[j] = arch[w]
    BY <1>1, <1>2 DEF KeysOf
  <1>5. IngestOK(w)'
    BY <1>1, <1>2, <1>3, <1>4 DEF IngestOK, PutBlob, Storing, graph
  <1> QED
    BY <1>1, <1>2, <1>5, IngestOwn DEF Storing

\* meta.cbor and the row of `bundles' come after the last blob.
LEMMA PutMetaOwn ==
    ASSUME Serving, NEW w \in Worker, PutMeta(w)
    PROVE  Own(w)
  <1>1. IngestOK(w) /\ pc[w] \notin Deleting /\ target[w] \in Bundle
    BY IngestKnows DEF PutMeta, Storing
  <1>2. /\ pc'[w] = "recording" /\ meta'[target[w]] = arch[w]
        /\ UNCHANGED <<arch, target, batch, puts, graph, blob, tainted>>
    BY <1>1 DEF PutMeta, Goto, Serving, TypeInv, StoreTypeOK, Requests,
           RequestTypeOK, request, work, ghosts
  <1>3. IngestOK(w)'
    BY <1>1, <1>2 DEF IngestOK, PutMeta, Storing, graph, Matches, LinksAreRefs, HasBlob
  <1> QED
    BY <1>1, <1>2, <1>3, IngestOwn DEF Storing

LEMMA RecordOwn ==
    ASSUME Serving, NEW w \in Worker, Record(w)
    PROVE  Own(w)
  <1>1. IngestOK(w) /\ pc[w] \notin Deleting /\ target[w] \in Bundle
    BY IngestKnows DEF Record, Storing
  <1>2. /\ pc'[w] = "dropping" /\ hash'[target[w]] = arch[w]
        /\ UNCHANGED <<arch, target, batch, puts, node, link, files, tainted>>
    BY <1>1 DEF Record, Goto, Serving, TypeInv, StoreTypeOK, Requests,
           RequestTypeOK, request, work, ghosts
  <1>3. IngestOK(w)'
    BY <1>1, <1>2 DEF IngestOK, Record, Storing, files, Matches, LinksAreRefs, HasBlob
  <1> QED
    BY <1>1, <1>2, <1>3, IngestOwn DEF Storing

LEMMA DropIndexOwn ==
    ASSUME Serving, NEW w \in Worker, DropIndex(w)
    PROVE  Own(w)
  <1>1. IngestOK(w) /\ pc[w] \notin Deleting
    BY IngestKnows DEF DropIndex, Storing
  <1>2. /\ pc'[w] = "indexing"
        /\ UNCHANGED <<arch, target, batch, puts, node, link, hash, files, tainted>>
    BY DEF DropIndex, Goto, Serving, TypeInv, Requests, RequestTypeOK, request,
           work, ghosts
  <1>3. IngestOK(w)'
    BY <1>1, <1>2 DEF IngestOK, DropIndex, Storing, files, Matches, LinksAreRefs, HasBlob
  <1> QED
    BY <1>1, <1>2, <1>3, IngestOwn DEF Storing

\* The last statement of an ingest: the bundle is what the artifact is.
LEMMA FillIndexOwn ==
    ASSUME Serving, NEW w \in Worker, FillIndex(w)
    PROVE  Own(w)
  <1>0. PICK a, b : a = arch[w] /\ b = target[w]
    OBVIOUS
  <1>1. /\ IngestOK(w) /\ pc[w] \notin Deleting /\ a \in Archive
        /\ b \in Bundle /\ BundleOf[a] = b /\ Pages[a] \subseteq KeysOf(b)
        /\ batch[w] = NoStmts /\ puts[w] = {} /\ pc[w] = "indexing"
    BY <1>0, IngestKnows
    DEF FillIndex, Storing, Serving, ScopeInv, ScopeOK
  <1>2. /\ pc'[w] = "replying" /\ index'[b] = a
        /\ UNCHANGED <<node, link, hash, files, tainted>>
    BY <1>0, <1>1 DEF FillIndex, Goto, Serving, TypeInv, StoreTypeOK, Requests,
           RequestTypeOK, ghosts
  <1>3. ASSUME b \notin tainted PROVE Agreement(b)'
    <2>1. /\ \A k \in Pages[a] : node[k] = a /\ blob[k] = a
          /\ \A k \in Pages[a], d \in Key : <<k, d>> \in link => d \in Refs[a][k]
          /\ meta[b] = a /\ hash[b] = a
          /\ \A k \in KeysOf(b) \ Pages[a] : Matches(k) /\ LinksAreRefs(k)
      BY <1>0, <1>1, <1>3 DEF IngestOK, Storing, NoStmts
    <2>2. \A k \in Pages[a] : Matches(k) /\ LinksAreRefs(k)
      BY <1>1, <2>1 DEF Matches, LinksAreRefs, HasBlob
    <2>3. \A k \in KeysOf(b) : Matches(k)' /\ LinksAreRefs(k)'
      BY <1>2, <2>1, <2>2 DEF Matches, LinksAreRefs, HasBlob, files
    <2>4. hash'[b] = a /\ a # Nothing /\ Serves(b, a)'
      BY <1>1, <1>2, <2>1, StoreAssumption DEF Serves, files
    <2> QED
      BY <2>3, <2>4 DEF Agreement, Serves
  <1> QED
    BY <1>0, <1>1, <1>2, <1>3 DEF Own, IngestOK, DeleteOK, Touch, Storing

-----------------------------------------------------------------------------
(* Deletions.                                                               *)

LEMMA DeleteRowsOwn ==
    ASSUME Serving, NEW w \in Worker, DeleteRows(w)
    PROVE  Own(w)
  <1>1. scope[w] = {target[w]} /\ target[w] \in Bundle
    BY DEF DeleteRows, Serving, ScopeInv, ScopeOK, TypeInv, Requests, RequestInv
  <1>2. /\ pc'[w] = "delBlobs" /\ puts'[w] = KeysOf(target[w])
        /\ scope' = scope /\ pc[w] = "delRows"
        /\ hash'[target[w]] = Nothing /\ index'[target[w]] = Nothing
        /\ node' = DropNodes(node, target[w])
    BY <1>1 DEF DeleteRows, Goto, Serving, TypeInv, StoreTypeOK, Requests,
           RequestTypeOK, request
  <1>3. \A k \in KeysOf(target[w]) : ~HasBlob(node', k)
    BY <1>2, GraphAssumption DEF DropNodes, KeysOf, HasBlob
  <1>4. DeleteOK(w)'
    BY <1>1, <1>2, <1>3 DEF DeleteOK, HasBlob
  <1> QED
    BY <1>2, <1>4 DEF Own, IngestOK, Storing, AtWork, Touch, Deleting

LEMMA ClearRowsOwn ==
    ASSUME Serving, NEW w \in Worker, ClearRows(w)
    PROVE  Own(w)
  <1>1. /\ pc'[w] = "delBlobs" /\ puts'[w] = Key
        /\ scope'[w] = scope[w] /\ pc[w] = "clrRows"
        /\ \A b \in Bundle : hash'[b] = Nothing /\ index'[b] = Nothing
        /\ \A k \in Key : node'[k] = NoRow
        /\ scope[w] \in SUBSET Bundle
    BY DEF ClearRows, Goto, Serving, TypeInv, Requests, RequestTypeOK, request
  <1>2. DeleteOK(w)'
    BY <1>1, GraphAssumption DEF DeleteOK, HasBlob, KeysOf
  <1> QED
    BY <1>1, <1>2 DEF Own, IngestOK, Storing, AtWork, Touch, Deleting

LEMMA RemoveBlobOwn ==
    ASSUME Serving, NEW w \in Worker, NEW k \in Key, RemoveBlob(w, k)
    PROVE  Own(w)
  <1>1. /\ puts'[w] = puts[w] \ {k} /\ UNCHANGED <<pc, scope, graph, tainted>>
        /\ pc[w] = "delBlobs"
        /\ \A j \in Key : blob'[j] = IF j = k THEN Nothing ELSE blob[j]
    BY DEF RemoveBlob, Serving, TypeInv, StoreTypeOK, Requests, RequestTypeOK,
           request, ghosts
  <1>2. DeleteOK(w)'
    BY <1>1 DEF DeleteOK, Serving, ServedInv, HasBlob, KeysOf, graph
  <1> QED
    BY <1>1, <1>2 DEF Own, IngestOK, Storing, AtWork, Touch, Deleting

\* When a deletion is through, its bundles are as good as never uploaded,
\* whatever state a crash had left them in, but for those that had late writes
\* when it began.
LEMMA RemoveTreeOwn ==
    ASSUME Serving, NEW w \in Worker, RemoveTree(w)
    PROVE  Own(w)
  <1>1. /\ pc[w] = "delBlobs" /\ puts[w] = {} /\ pc'[w] \in {"delRaw", "idle"}
        /\ UNCHANGED <<graph, blob, tainted>> /\ DeleteOK(w)
        /\ \A b \in scope[w] : meta'[b] = Nothing
    BY DEF RemoveTree, Finish, Goto, Serving, ServedInv, TypeInv, Requests,
           RequestTypeOK, ghosts
  <1>2. ASSUME NEW b \in Bundle, b \in scope[w], b \notin tainted'
        PROVE  Agreement(b)'
    <2>1. /\ hash[b] = Nothing /\ index[b] = Nothing
          /\ \A k \in KeysOf(b) : ~HasBlob(node, k) /\ blob[k] = Nothing
      BY <1>1, <1>2 DEF DeleteOK
    <2>2. \A k \in KeysOf(b) : Matches(k)'
      BY <1>1, <2>1 DEF Matches, HasBlob, graph
    <2>3. \A k \in KeysOf(b) : LinksAreRefs(k)'
      BY <1>1, <2>1 DEF LinksAreRefs, graph, Serving, LinkInv, LinkSourceUploaded
    <2>4. hash'[b] = Nothing /\ IsEmpty(b)'
      BY <1>1, <1>2, <2>1 DEF IsEmpty, HasBlob, graph
    <2> QED
      BY <2>2, <2>3, <2>4 DEF Agreement
  <1> QED
    BY <1>1, <1>2 DEF Own, IngestOK, DeleteOK, Storing, Touch, Deleting

LEMMA ActorServed ==
    ASSUME Exclusive, Serving, NEW w \in Worker, Actor(w)
    PROVE  ServedInv'
  <1> SUFFICES Own(w)
    BY OwnSuffices
  <1>1. ASSUME NEW a \in Archive, Put(w, a) PROVE Own(w)
    BY <1>1, CalmOwn DEF Put, Arrive, Goto, Serving, TypeInv, Requests,
                      RequestTypeOK, Storing, store, graph, files, ghosts
  <1>2. ASSUME NEW S \in SUBSET Bundle, Reingest(w, S) PROVE Own(w)
    BY <1>2, CalmOwn DEF Reingest, Arrive, Goto, Serving, TypeInv, Requests,
                      RequestTypeOK, Storing, store, graph, files, ghosts
  <1>3. ASSUME NEW b \in Bundle, NEW op \in {"delete", "deleteRaw"}, Delete(w, b, op) PROVE Own(w)
    BY <1>3, CalmOwn DEF Delete, Arrive, Goto, Serving, TypeInv, Requests,
                      RequestTypeOK, Storing, store, graph, files, ghosts
  <1>4. ASSUME Clear(w) PROVE Own(w)
    BY <1>4, CalmOwn DEF Clear, Arrive, Goto, Serving, TypeInv, Requests,
                      RequestTypeOK, Storing, store, graph, files, ghosts
  <1>5. ASSUME ClearRaw(w) PROVE Own(w)
    BY <1>5, CalmOwn DEF ClearRaw, Arrive, Goto, Serving, TypeInv, Requests,
                      RequestTypeOK, Storing, store, graph, files, ghosts
  <1>6. ASSUME SendStart(w) PROVE Own(w)
    BY <1>6, CalmOwn DEF SendStart, Finish, Goto, Serving, TypeInv, Requests,
                      RequestTypeOK, Storing, store, graph, files, ghosts
  <1>7. ASSUME SendWarning(w) PROVE Own(w)
    BY <1>7, CalmOwn DEF SendWarning, Finish, Goto, Serving, TypeInv, Requests,
                      RequestTypeOK, Storing, store, graph, files, ghosts
  <1>8. ASSUME SendDone(w) PROVE Own(w)
    BY <1>8, CalmOwn DEF SendDone, Finish, Goto, Serving, TypeInv, Requests,
                      RequestTypeOK, Storing, store, graph, files, ghosts
  <1>9. ASSUME SendFailure(w) PROVE Own(w)
    BY <1>9, CalmOwn DEF SendFailure, Finish, Goto, Serving, TypeInv, Requests,
                      RequestTypeOK, Storing, store, graph, files, ghosts
  <1>10. ASSUME ClientLeaves(w) PROVE Own(w)
    <2>1. UNCHANGED <<store, pc, request, work, tainted>>
      BY <1>10 DEF ClientLeaves, ghosts
    <2>2. IngestOK(w)' /\ DeleteOK(w)'
      BY <2>1 DEF Serving, ServedInv, IngestOK, DeleteOK, Matches, LinksAreRefs,
         HasBlob, store, graph, files, request, work
    <2>3. ASSUME NEW b \in Bundle, b \in Touch(w), b \notin tainted', ~AtWork(w, b)'
          PROVE  Agreement(b)'
      <3>1. b \in scope[w] /\ b \notin tainted /\ ~AtWork(w, b)
        BY <2>1, <2>3, TouchInScope DEF Serving, AtWork, request
      <3>2. Agreement(b)
        BY <3>1, InScopeAtRest
      <3> QED
        BY <2>1, <3>2 DEF Agreement, Matches, LinksAreRefs, IsEmpty, Serves,
           HasBlob, store, graph, files
    <2> QED
      BY <2>2, <2>3 DEF Own
  <1>11. ASSUME ArchiveRaw(w) PROVE Own(w)
    BY <1>11, CalmOwn DEF ArchiveRaw, Goto, Serving, TypeInv, Requests,
                      RequestTypeOK, Storing, store, graph, files, ghosts
  <1>12. ASSUME ArchiveFails(w) PROVE Own(w)
    BY <1>12, CalmOwn DEF ArchiveFails, Goto, Serving, TypeInv, Requests,
                      RequestTypeOK, Storing, store, graph, files, ghosts
  <1>13. ASSUME ListRaw(w) PROVE Own(w)
    BY <1>13, CalmOwn DEF ListRaw, Finish, Goto, Serving, TypeInv, Requests,
                      RequestTypeOK, Storing, store, graph, files, ghosts
  <1>14. ASSUME NextEntry(w) PROVE Own(w)
    BY <1>14, CalmOwn DEF NextEntry, Finish, Goto, Serving, TypeInv, Requests,
                      RequestTypeOK, Storing, store, graph, files, ghosts
  <1>15. ASSUME ReadRaw(w) PROVE Own(w)
    BY <1>15, CalmOwn DEF ReadRaw, Goto, Serving, TypeInv, Requests,
                      RequestTypeOK, Storing, store, graph, files, ghosts
  <1>16. ASSUME ReadFails(w) PROVE Own(w)
    BY <1>16, CalmOwn DEF ReadFails, Finish, Goto, Serving, TypeInv, Requests,
                      RequestTypeOK, Storing, store, graph, files, ghosts
  <1>17. ASSUME Reject(w) PROVE Own(w)
    BY <1>17, CalmOwn DEF Reject, Goto, Serving, TypeInv, Requests, RequestTypeOK,
                      Storing, store, graph, files, ghosts
  <1>18. ASSUME Prefetch(w) PROVE Own(w)
    BY <1>18, PrefetchOwn
  <1>19. ASSUME Flush(w) PROVE Own(w)
    BY <1>19, FlushOwn
  <1>20. ASSUME FlushFails(w) PROVE Own(w)
    <2>1. /\ pc[w] \notin Deleting /\ pc'[w] = "failing"
          /\ target[w] \in tainted'
      BY <1>20 DEF FlushFails, Abandon, Goto, Serving, Deleting, TypeInv,
               Requests, RequestTypeOK
    <2> QED
      BY <2>1, FailOwn DEF Touch, Storing
  <1>21. ASSUME NEW k \in Key, PutBlob(w, k) PROVE Own(w)
    BY <1>21, PutBlobOwn
  <1>22. ASSUME NEW k \in Key, PutBlobFails(w, k) PROVE Own(w)
    <2>1. /\ pc[w] \notin Deleting /\ pc'[w] = "failing"
          /\ target[w] \in tainted'
      BY <1>22 DEF PutBlobFails, Abandon, Goto, Serving, Deleting, TypeInv,
               Requests, RequestTypeOK
    <2> QED
      BY <2>1, FailOwn DEF Touch, Storing
  <1>23. ASSUME PutMeta(w) PROVE Own(w)
    BY <1>23, PutMetaOwn
  <1>24. ASSUME PutMetaFails(w) PROVE Own(w)
    <2>1. /\ pc[w] \notin Deleting /\ pc'[w] = "failing"
          /\ target[w] \in tainted'
      BY <1>24 DEF PutMetaFails, Abandon, Goto, Serving, Deleting, TypeInv,
               Requests, RequestTypeOK
    <2> QED
      BY <2>1, FailOwn DEF Touch, Storing
  <1>25. ASSUME Record(w) PROVE Own(w)
    BY <1>25, RecordOwn
  <1>26. ASSUME DropIndex(w) PROVE Own(w)
    BY <1>26, DropIndexOwn
  <1>27. ASSUME FillIndex(w) PROVE Own(w)
    BY <1>27, FillIndexOwn
  <1>28. ASSUME CommitFails(w) PROVE Own(w)
    <2>1. /\ pc[w] \notin Deleting /\ pc'[w] = "failing"
          /\ target[w] \in tainted'
      BY <1>28 DEF CommitFails, Abandon, Goto, Serving, Deleting, TypeInv,
               Requests, RequestTypeOK
    <2> QED
      BY <2>1, FailOwn DEF Touch, Storing
  <1>29. ASSUME DeleteRows(w) PROVE Own(w)
    BY <1>29, DeleteRowsOwn
  <1>30. ASSUME ClearRows(w) PROVE Own(w)
    BY <1>30, ClearRowsOwn
  <1>31. ASSUME NEW k \in Key, RemoveBlob(w, k) PROVE Own(w)
    BY <1>31, RemoveBlobOwn
  <1>32. ASSUME RemoveTree(w) PROVE Own(w)
    BY <1>32, RemoveTreeOwn
  <1>33. ASSUME RemoveFails(w) PROVE Own(w)
    <2>1. /\ pc'[w] = "idle" /\ UNCHANGED <<graph, files>>
          /\ pc[w] = "delBlobs" => \A b \in Touch(w) : b \in tainted'
          /\ pc[w] # "delBlobs" => pc[w] = "delRaw" /\ tainted' = tainted
      BY <1>33 DEF RemoveFails, Finish, Goto, Serving, TypeInv, Requests,
         RequestTypeOK, store, Touch, Deleting
    <2> QED
      BY <2>1, FailOwn, CalmOwn DEF Storing
  <1>34. ASSUME NEW b \in Bundle, RemoveRaw(w, b) PROVE Own(w)
    BY <1>34, CalmOwn DEF RemoveRaw, Finish, Goto, Serving, TypeInv, Requests,
                      RequestTypeOK, Storing, store, graph, files, ghosts
  <1> QED
    BY <1>1, <1>2, <1>3, <1>4, <1>5, <1>6, <1>7, <1>8, <1>9, <1>10, <1>11,
       <1>12, <1>13, <1>14, <1>15, <1>16, <1>17, <1>18, <1>19, <1>20, <1>21,
       <1>22, <1>23, <1>24, <1>25, <1>26, <1>27, <1>28, <1>29, <1>30, <1>31,
       <1>32, <1>33, <1>34
    DEF Actor, Request, Step, Fault

LEMMA NextServed ==
    ASSUME Exclusive, Serving, [Next]_vars
    PROVE  ServedInv'
  <1>1. ASSUME NEW o \in orphans, OrphanPut(o) PROVE ServedInv'
    <2>1. /\ UNCHANGED <<graph, meta, raw, pc, request, work, ghosts>>
          /\ \A k \in Key : k # o[1] => blob'[k] = blob[k]
          /\ Owner[o[1]] \in tainted
      BY <1>1 DEF OrphanPut, Serving, OrphanInv, TypeInv, StoreTypeOK
    <2>2. \A b \in Bundle : b # Owner[o[1]] => Untouched(b)
      BY <2>1 DEF Untouched, KeysOf, graph
    <2>3. RestInv'
      <3> SUFFICES ASSUME NEW b \in Bundle, b \notin tainted',
                          \A v \in Worker : ~AtWork(v, b)'
                   PROVE  Agreement(b)'
        BY DEF RestInv
      <3>1. b \notin tainted /\ \A v \in Worker : ~AtWork(v, b)
        BY <2>1 DEF AtWork, request, ghosts
      <3>2. Agreement(b) /\ Untouched(b)
        BY <2>1, <2>2, <3>1 DEF Serving, ServedInv, RestInv
      <3> QED
        BY <3>2, AgreementStays DEF Serving
    <2>4. ASSUME NEW w \in Worker PROVE IngestOK(w)' /\ DeleteOK(w)'
      <3>1. IngestOK(w) /\ DeleteOK(w) /\ TypeInv
        BY DEF Serving, ServedInv
      <3>2. pc[w] \in Storing => target[w] \in Bundle
        BY GraphAssumption
        DEF Serving, TypeInv, Requests, RequestInv, HasArchive, Ingesting,
            Storing
      <3>3. pc[w] \in Storing /\ target[w] \notin tainted => Untouched(target[w])
        BY <2>1, <2>2, <3>2
      <3>4. DeleteOK(w)'
        BY <2>1, <3>1 DEF DeleteOK, HasBlob, KeysOf, graph, request, work, ghosts
      <3>5. /\ pc'[w] = pc[w] /\ arch'[w] = arch[w] /\ target'[w] = target[w]
            /\ batch'[w] = batch[w] /\ puts'[w] = puts[w] /\ scope'[w] = scope[w]
            /\ tainted' = tainted
        BY <2>1 DEF request, work, ghosts
      <3> QED
        BY <3>1, <3>3, <3>4, <3>5, IngestStays
    <2> QED
      BY <2>3, <2>4 DEF ServedInv
  <1>2. ASSUME Crash PROVE ServedInv'
    <2>1. /\ \A w \in Worker : pc'[w] = "idle"
          /\ \A w \in Worker : scope[w] \subseteq tainted'
          /\ tainted \subseteq tainted' /\ UNCHANGED graph
      BY <1>2 DEF Crash
    <2>2. ASSUME NEW b \in Bundle, b \notin tainted' PROVE Agreement(b)'
      <3>1. b \notin tainted /\ \A w \in Worker : b \notin scope[w]
        BY <2>1, <2>2
      <3>2. \A k \in KeysOf(b) : ~Writing(k)
        <4> SUFFICES ASSUME NEW k \in KeysOf(b), Writing(k) PROVE FALSE
          OBVIOUS
        <4>1. ASSUME NEW w \in Worker, pc[w] = "flushing", k \in puts[w]
              PROVE  FALSE
          <5>1. Owner[k] = target[w] /\ target[w] \in scope[w]
            BY <4>1, IngestKnows DEF Storing, Serving, ScopeInv, ScopeOK, KeysOf
          <5> QED
            BY <3>1, <5>1 DEF KeysOf
        <4>2. ASSUME NEW o \in orphans, o[1] = k PROVE FALSE
          BY <3>1, <4>2 DEF Serving, OrphanInv, KeysOf
        <4> QED
          BY <4>1, <4>2 DEF Writing
      <3>3. ~WritingMeta(b) /\ ~WritingRaw(b)
        BY <3>1 DEF WritingMeta, WritingRaw, Serving, ScopeInv, ScopeOK
      <3>4. \A k \in KeysOf(b) : blob'[k] = blob[k]
        BY <1>2, <3>2 DEF Crash, KeysOf
      <3>5. meta'[b] = meta[b] /\ raw'[b] = raw[b]
        BY <1>2, <3>3 DEF Crash
      <3>6. Untouched(b)
        BY <2>1, <3>4, <3>5 DEF Untouched, graph
      <3>7. Agreement(b)
        BY <3>1 DEF Serving, ServedInv, RestInv, AtWork, ScopeInv, ScopeOK
      <3> QED
        BY <3>6, <3>7, AgreementStays DEF Serving
    <2> QED
      BY <2>1, <2>2 DEF ServedInv, RestInv, IngestOK, DeleteOK, Storing
  <1>3. ASSUME UNCHANGED vars PROVE ServedInv'
    BY <1>3 DEF vars, store, graph, files, request, work, ghosts, Serving,
       ServedInv, RestInv, AtWork, Agreement, IsEmpty, Serves, IngestOK, DeleteOK,
       Matches, LinksAreRefs, HasBlob
  <1> QED
    BY <1>1, <1>2, <1>3, ActorServed DEF Next, Actor

LEMMA InitServing == Init => Serving
  <1>1. Init => ServedInv
    BY GraphAssumption
    DEF Init, ServedInv, RestInv, Agreement, IsEmpty, Matches, LinksAreRefs,
        HasBlob, KeysOf, IngestOK, DeleteOK, Storing
  <1> QED
    BY <1>1, InitTypeInv, InitLinkInv, InitScopeInv, InitExclInv DEF Serving

LEMMA ServingAlways == Exclusive => (Spec => []Serving)
  <1> SUFFICES ASSUME Exclusive PROVE Spec => []Serving
    OBVIOUS
  <1>1. Serving /\ [Next]_vars => Serving'
    <2> SUFFICES ASSUME Serving, [Next]_vars PROVE Serving'
      OBVIOUS
    <2>1. TypeInv' /\ LinkInv' /\ ScopeInv'
      BY NextTypeInv, NextLinkInv, NextScopeInv DEF Serving
    <2>2. ExclInv' /\ OrphanInv'
      BY NextExclInv DEF Serving
    <2>3. ServedInv'
      BY NextServed
    <2> QED
      BY <2>1, <2>2, <2>3 DEF Serving
  <1> QED
    BY <1>1, InitServing, PTL DEF Spec

\* A bundle that nothing is at work on and no failure has left half-written is
\* in agreement.
LEMMA SoundAgrees ==
    ASSUME Serving, NEW b \in Bundle, Sound(b)
    PROVE  Agreement(b)
  BY DEF Serving, ServedInv, RestInv, Sound, Unattended, AtWork, ScopeInv, ScopeOK

\* Where requests on one bundle do not overlap, a row with has_blob = 1 and a
\* blob with its digest come and go together, whatever artifacts are uploaded
\* over one another, re-ingested and deleted, and whatever fails or crashes
\* elsewhere (ingestBundle, deleteBundle, clearAll).
THEOREM RowsMatchBlobs == Exclusive => (Spec => []RowMatchesBlob)
  <1>1. Serving => RowMatchesBlob
    BY SoundAgrees DEF RowMatchesBlob, Agreement, Matches
  <1> QED
    BY ServingAlways, <1>1, PTL

\* The hash that GET /api/bundle answers is of what the store serves.
THEOREM HashesAreServed == Exclusive => (Spec => []HashIsServed)
  <1>1. Serving => HashIsServed
    BY SoundAgrees DEF HashIsServed, Agreement, Serves
  <1> QED
    BY ServingAlways, <1>1, PTL

\* An ingest that finds no row in `bundles' may skip its queries: the store has
\* no page, blob or link of such a bundle.
THEOREM FreshBundlesAreEmpty == Exclusive => (Spec => []FreshBundleIsEmpty)
  <1>1. ASSUME Serving, NEW b \in Bundle, Sound(b), hash[b] = Nothing
        PROVE  /\ index[b] = Nothing /\ meta[b] = Nothing
               /\ \A k \in KeysOf(b) : /\ ~HasBlob(node, k)
                                       /\ blob[k] = Nothing
                                       /\ OutLinks(link, k) = {}
    <2>1. IsEmpty(b) /\ \A k \in KeysOf(b) : Matches(k)
      BY <1>1, SoundAgrees DEF Agreement
    <2>2. \A k \in KeysOf(b) : OutLinks(link, k) = {}
      BY <1>1, <2>1 DEF IsEmpty, OutLinks, Serving, LinkInv, LinkSourceUploaded
    <2> QED
      BY <2>1, <2>2 DEF IsEmpty, Matches
  <1>2. Serving => FreshBundleIsEmpty
    BY <1>1 DEF FreshBundleIsEmpty
  <1> QED
    BY ServingAlways, <1>2, PTL

\* Adding and deleting the difference to the prefetched refs leaves no link of
\* an earlier content behind (_buildBatchStmts).
THEOREM LinksAreOfTheContent == Exclusive => (Spec => []NoPhantomLinks)
  <1>1. ASSUME Serving, NEW b \in Bundle, Sound(b), NEW k \in KeysOf(b),
               HasBlob(node, k), NEW d \in OutLinks(link, k)
        PROVE  d \in Refs[node[k]][k]
    <2>1. PICK e \in link : e[1] = k /\ e[2] = d
      BY DEF OutLinks
    <2>2. e \in Key \X Key
      BY <1>1 DEF Serving, TypeInv, StoreTypeOK, Link
    <2>3. d \in Key /\ <<k, d>> \in link
      BY <2>1, <2>2
    <2> QED
      BY <1>1, <2>3, SoundAgrees DEF Agreement, LinksAreRefs
  <1>2. Serving => NoPhantomLinks
    BY <1>1 DEF NoPhantomLinks
  <1> QED
    BY ServingAlways, <1>2, PTL

-----------------------------------------------------------------------------
(* The raw archive.  From the hashing of an artifact to its row in          *)
(* `bundles' the archive has it, unless the upload could not write it.      *)

Fed == {"hashing", "staged", "flushing", "meta",
        "recording", "dropping", "indexing"}

FedOK(w) ==
    /\ pc[w] \in Fed /\ (kind[w] = "reingest" \/ target[w] \notin unarchived) =>
          raw[target[w]] = arch[w]
    /\ pc[w] = "warning" /\ kind[w] = "put" => target[w] \in unarchived
    /\ pc[w] = "archiving" => kind[w] = "put"
    /\ pc[w] \in Deleting => kind[w] # "reingest"

\* Where a request is before its row in `bundles' is written.
Ahead(w, b) == target[w] = b /\ pc[w] \in Fed \ {"dropping", "indexing"}

RawAgrees(b) == hash[b] # Nothing => raw[b] \in {hash[b], Nothing} \cup Malformed

ArchiveInv ==
    /\ \A w \in Worker : FedOK(w)
    /\ \A b \in Bundle : /\ b \notin tainted \cup unarchived
                         /\ \A w \in Worker : ~Ahead(w, b)
                         => RawAgrees(b)

\* A re-ingest has come past an entry of its list: what can be read of it is
\* what the store serves.
Covered(b) ==
    raw[b] \in Archive \ Malformed => hash[b] = raw[b] /\ index[b] = raw[b]

CoverOK(w) ==
    kind[w] = "reingest" /\ pc[w] \notin {"idle", "listing"} =>
        \A b \in scope[w] :
            \/ b \in tainted \cup todo[w]
            \/ b = target[w] /\ pc[w] \in Fed \cup {"reading"}
            \/ Covered(b)

CoverInv == \A w \in Worker : CoverOK(w)

\* Again a step has to be looked at for its own bundles only.
OwnRaw(w) ==
    /\ \A b \in Bundle : /\ b \in Touch(w) /\ b \notin (tainted \cup unarchived)'
                         /\ ~Ahead(w, b)'
                         => RawAgrees(b)'
    /\ FedOK(w)' /\ CoverOK(w)'

LEMMA OwnRawSuffices ==
    ASSUME Exclusive, Serving, ArchiveInv, CoverInv,
           NEW w \in Worker, Actor(w), OwnRaw(w)
    PROVE  ArchiveInv' /\ CoverInv'
  <1>1. OthersStay(w) /\ Books(w)
    BY ActorMeansOthersStay, ActorBooks DEF Serving
  <1>2. \A b \in Bundle : b \notin Touch(w) => Untouched(b)
    BY ActorFootprint DEF Serving
  <1>3. ASSUME NEW b \in Bundle, b \notin (tainted \cup unarchived)',
               \A v \in Worker : ~Ahead(v, b)'
        PROVE  RawAgrees(b)'
    <2>1. CASE b \in Touch(w)
      BY <1>3, <2>1 DEF OwnRaw
    <2>2. CASE b \notin Touch(w)
      <3>1. b \notin tainted \cup unarchived /\ Untouched(b)
        BY <1>1, <1>2, <1>3, <2>2 DEF Books
      <3>2. \A v \in Worker \ {w} : ~Ahead(v, b)
        BY <1>1, <1>3 DEF OthersStay, Ahead
      <3>3. ~Ahead(w, b)
        BY <2>2 DEF Ahead, Touch, Deleting, Fed
      <3>4. RawAgrees(b)
        BY <3>1, <3>2, <3>3 DEF ArchiveInv
      <3> QED
        BY <3>1, <3>4 DEF RawAgrees, Untouched
    <2> QED
      BY <2>1, <2>2
  <1>4. ASSUME NEW v \in Worker \ {w} PROVE FedOK(v)' /\ CoverOK(v)'
    <2>1. \A b \in Bundle : b \in scope[v] => b \notin Touch(w)
      BY TouchInScope DEF Serving, ExclInv
    <2>2. \A b \in Bundle : b \in scope[v] =>
             /\ Untouched(b)
             /\ b \in tainted' <=> b \in tainted
             /\ b \in unarchived' <=> b \in unarchived
      BY <1>1, <1>2, <2>1 DEF Books
    <2>3. scope[v] \in SUBSET Bundle
      BY DEF Serving, TypeInv, Requests, RequestTypeOK
    <2>4. /\ pc'[v] = pc[v] /\ kind'[v] = kind[v] /\ arch'[v] = arch[v]
          /\ target'[v] = target[v] /\ todo'[v] = todo[v] /\ scope'[v] = scope[v]
      BY <1>1 DEF OthersStay
    <2>5. /\ pc[v] \in Fed => target[v] \in Bundle
          /\ pc[v] = "warning" /\ kind[v] = "put" => target[v] \in Bundle
          /\ target[v] \in Bundle => target[v] \in scope[v]
      BY GraphAssumption
      DEF Serving, ScopeInv, ScopeOK, TypeInv, Requests, RequestInv, HasArchive,
          Ingesting, Fed
    <2>6. FedOK(v)'
      <3>1. FedOK(v)
        BY DEF ArchiveInv
      <3>2. target[v] \in Bundle =>
               /\ raw'[target[v]] = raw[target[v]]
               /\ target[v] \in unarchived' <=> target[v] \in unarchived
        BY <2>2, <2>5 DEF Untouched
      <3> QED
        BY <2>4, <2>5, <3>1, <3>2 DEF FedOK
    <2>7. CoverOK(v)'
      <3>1. \A b \in scope[v] : Covered(b) => Covered(b)'
        BY <2>2, <2>3 DEF Untouched, Covered
      <3>2. CoverOK(v)
        BY DEF CoverInv
      <3> QED
        BY <2>2, <2>3, <2>4, <3>1, <3>2 DEF CoverOK
    <2> QED
      BY <2>6, <2>7
  <1> QED
    BY <1>3, <1>4 DEF ArchiveInv, CoverInv, OwnRaw

\* A step that leaves the archive and the tables alone and is not near them.
LEMMA CalmRaw ==
    ASSUME Serving, ArchiveInv, Exclusive, NEW w \in Worker, Actor(w),
           UNCHANGED <<raw, hash>>, UNCHANGED ghosts,
           pc[w] \notin Fed \ {"dropping", "indexing"}, FedOK(w)', CoverOK(w)'
    PROVE  OwnRaw(w)
  <1>1. ASSUME NEW b \in Bundle, b \in Touch(w), b \notin (tainted \cup unarchived)'
        PROVE  RawAgrees(b)'
    <2>1. \A v \in Worker : ~Ahead(v, b)
      BY <1>1, TouchInScope
      DEF Serving, ExclInv, ScopeInv, ScopeOK, Ahead
    <2>2. RawAgrees(b)
      BY <1>1, <2>1 DEF ArchiveInv, ghosts
    <2> QED
      BY <2>2 DEF RawAgrees
  <1> QED
    BY <1>1 DEF OwnRaw

LEMMA CoverKept ==
    ASSUME CoverInv, NEW w \in Worker, pc[w] \notin {"idle", "listing"},
           UNCHANGED <<raw, hash, index, kind, scope, target, todo>>,
           tainted \subseteq tainted',
           \/ pc[w] \notin Fed \cup {"reading"}
           \/ pc'[w] \in Fed \cup {"reading"}
           \/ target[w] \in tainted'
    PROVE  CoverOK(w)'
  BY DEF CoverInv, CoverOK, Covered

LEMMA ActorArchive ==
    ASSUME Exclusive, Serving, ArchiveInv, CoverInv, NEW w \in Worker, Actor(w)
    PROVE  ArchiveInv' /\ CoverInv'
  <1> SUFFICES OwnRaw(w)
    BY OwnRawSuffices
  <1>0. FedOK(w) /\ CoverOK(w)
    BY DEF ArchiveInv, CoverInv
  <1> USE StoreAssumption
  <1>1. ASSUME NEW a \in Archive, Put(w, a) PROVE OwnRaw(w)
    <2>1. /\ pc[w] = "idle" /\ pc'[w] = "accepted" /\ kind'[w] # "reingest"
          /\ UNCHANGED <<raw, hash, ghosts>>
      BY <1>1 DEF Put, Arrive, Goto, Serving, TypeInv, StoreTypeOK, Requests,
               RequestTypeOK, store, graph, ghosts
    <2>2. FedOK(w)' /\ CoverOK(w)'
      BY <2>1 DEF FedOK, CoverOK, Fed, Deleting
    <2> QED
      BY <1>1, <2>1, <2>2, CalmRaw DEF Actor, Request, Fed
  <1>2. ASSUME NEW S \in SUBSET Bundle, Reingest(w, S) PROVE OwnRaw(w)
    <2>1. /\ pc[w] = "idle" /\ pc'[w] = "listing" /\ kind'[w] = "reingest"
          /\ UNCHANGED <<raw, hash, ghosts>>
      BY <1>2 DEF Reingest, Arrive, Goto, Serving, TypeInv, StoreTypeOK,
               Requests, RequestTypeOK, store, graph, ghosts
    <2>2. FedOK(w)' /\ CoverOK(w)'
      BY <2>1 DEF FedOK, CoverOK, Fed, Deleting
    <2> QED
      BY <1>2, <2>1, <2>2, CalmRaw DEF Actor, Request, Fed
  <1>3. ASSUME NEW b \in Bundle, NEW op \in {"delete", "deleteRaw"}, Delete(w, b, op) PROVE OwnRaw(w)
    <2>1. /\ pc[w] = "idle" /\ pc'[w] = "delRows" /\ kind'[w] # "reingest"
          /\ UNCHANGED <<raw, hash, ghosts>>
      BY <1>3 DEF Delete, Arrive, Goto, Serving, TypeInv, StoreTypeOK, Requests,
               RequestTypeOK, store, graph, ghosts
    <2>2. FedOK(w)' /\ CoverOK(w)'
      BY <2>1 DEF FedOK, CoverOK, Fed, Deleting
    <2> QED
      BY <1>3, <2>1, <2>2, CalmRaw DEF Actor, Request, Fed
  <1>4. ASSUME Clear(w) PROVE OwnRaw(w)
    <2>1. /\ pc[w] = "idle" /\ pc'[w] = "clrRows" /\ kind'[w] # "reingest"
          /\ UNCHANGED <<raw, hash, ghosts>>
      BY <1>4 DEF Clear, Arrive, Goto, Serving, TypeInv, StoreTypeOK, Requests,
               RequestTypeOK, store, graph, ghosts
    <2>2. FedOK(w)' /\ CoverOK(w)'
      BY <2>1 DEF FedOK, CoverOK, Fed, Deleting
    <2> QED
      BY <1>4, <2>1, <2>2, CalmRaw DEF Actor, Request, Fed
  <1>5. ASSUME ClearRaw(w) PROVE OwnRaw(w)
    <2>1. /\ pc[w] = "idle" /\ pc'[w] = "delRaw" /\ kind'[w] # "reingest"
          /\ UNCHANGED <<raw, hash, ghosts>>
      BY <1>5 DEF ClearRaw, Arrive, Goto, Serving, TypeInv, StoreTypeOK,
               Requests, RequestTypeOK, store, graph, ghosts
    <2>2. FedOK(w)' /\ CoverOK(w)'
      BY <2>1 DEF FedOK, CoverOK, Fed, Deleting
    <2> QED
      BY <1>5, <2>1, <2>2, CalmRaw DEF Actor, Request, Fed
  <1>6. ASSUME SendStart(w) PROVE OwnRaw(w)
    <2>1. UNCHANGED <<raw, hash, index, ghosts>> /\ pc[w] \notin Fed \cup {"reading", "idle", "listing"}
      BY <1>6 DEF SendStart, store, graph, Fed
    <2>2. CASE pc'[w] = "idle"
      BY <1>6, <2>1, <2>2, CalmRaw DEF Actor, Step, FedOK, CoverOK, Fed, Deleting
    <2>3. CASE /\ \/ pc'[w] = "next"
                  \/ pc'[w] = "archiving" /\ kind[w] = "put"
                  \/ pc'[w] = "hashing" /\ kind[w] = "put" /\ pc[w] = "warning"
               /\ UNCHANGED <<request, todo>>
      <3>1. CoverOK(w)'
        BY <2>1, <2>3, CoverKept DEF request, ghosts
      <3>2. FedOK(w)'
        BY <1>0, <2>1, <2>3 DEF FedOK, request, ghosts, Fed, Deleting
      <3> QED
        BY <1>6, <2>1, <3>1, <3>2, CalmRaw DEF Actor, Step
    <2> QED
      BY <1>6, <2>2, <2>3
      DEF SendStart, Finish, Goto, work, Serving, RequestInv, TypeInv,
          Requests, RequestTypeOK
  <1>7. ASSUME SendWarning(w) PROVE OwnRaw(w)
    <2>1. UNCHANGED <<raw, hash, index, ghosts>> /\ pc[w] \notin Fed \cup {"reading", "idle", "listing"}
      BY <1>7 DEF SendWarning, store, graph, Fed
    <2>2. CASE pc'[w] = "idle"
      BY <1>7, <2>1, <2>2, CalmRaw DEF Actor, Step, FedOK, CoverOK, Fed, Deleting
    <2>3. CASE /\ \/ pc'[w] = "next"
                  \/ pc'[w] = "archiving" /\ kind[w] = "put"
                  \/ pc'[w] = "hashing" /\ kind[w] = "put" /\ pc[w] = "warning"
               /\ UNCHANGED <<request, todo>>
      <3>1. CoverOK(w)'
        BY <2>1, <2>3, CoverKept DEF request, ghosts
      <3>2. FedOK(w)'
        BY <1>0, <2>1, <2>3 DEF FedOK, request, ghosts, Fed, Deleting
      <3> QED
        BY <1>7, <2>1, <3>1, <3>2, CalmRaw DEF Actor, Step
    <2> QED
      BY <1>7, <2>2, <2>3
      DEF SendWarning, Finish, Goto, work, Serving, RequestInv, TypeInv,
          Requests, RequestTypeOK
  <1>8. ASSUME SendDone(w) PROVE OwnRaw(w)
    <2>1. UNCHANGED <<raw, hash, index, ghosts>> /\ pc[w] \notin Fed \cup {"reading", "idle", "listing"}
      BY <1>8 DEF SendDone, store, graph, Fed
    <2>2. CASE pc'[w] = "idle"
      BY <1>8, <2>1, <2>2, CalmRaw DEF Actor, Step, FedOK, CoverOK, Fed, Deleting
    <2>3. CASE /\ \/ pc'[w] = "next"
                  \/ pc'[w] = "archiving" /\ kind[w] = "put"
                  \/ pc'[w] = "hashing" /\ kind[w] = "put" /\ pc[w] = "warning"
               /\ UNCHANGED <<request, todo>>
      <3>1. CoverOK(w)'
        BY <2>1, <2>3, CoverKept DEF request, ghosts
      <3>2. FedOK(w)'
        BY <1>0, <2>1, <2>3 DEF FedOK, request, ghosts, Fed, Deleting
      <3> QED
        BY <1>8, <2>1, <3>1, <3>2, CalmRaw DEF Actor, Step
    <2> QED
      BY <1>8, <2>2, <2>3
      DEF SendDone, Finish, Goto, work, Serving, RequestInv, TypeInv,
          Requests, RequestTypeOK
  <1>9. ASSUME SendFailure(w) PROVE OwnRaw(w)
    <2>1. UNCHANGED <<raw, hash, index, ghosts>> /\ pc[w] \notin Fed \cup {"reading", "idle", "listing"}
      BY <1>9 DEF SendFailure, store, graph, Fed
    <2>2. CASE pc'[w] = "idle"
      BY <1>9, <2>1, <2>2, CalmRaw DEF Actor, Step, FedOK, CoverOK, Fed, Deleting
    <2>3. CASE /\ \/ pc'[w] = "next"
                  \/ pc'[w] = "archiving" /\ kind[w] = "put"
                  \/ pc'[w] = "hashing" /\ kind[w] = "put" /\ pc[w] = "warning"
               /\ UNCHANGED <<request, todo>>
      <3>1. CoverOK(w)'
        BY <2>1, <2>3, CoverKept DEF request, ghosts
      <3>2. FedOK(w)'
        BY <1>0, <2>1, <2>3 DEF FedOK, request, ghosts, Fed, Deleting
      <3> QED
        BY <1>9, <2>1, <3>1, <3>2, CalmRaw DEF Actor, Step
    <2> QED
      BY <1>9, <2>2, <2>3
      DEF SendFailure, Finish, Goto, work, Serving, RequestInv, TypeInv,
          Requests, RequestTypeOK
  <1>10. ASSUME ClientLeaves(w) PROVE OwnRaw(w)
    <2>1. UNCHANGED <<store, pc, request, todo, ghosts>>
      BY <1>10 DEF ClientLeaves, work
    <2>2. FedOK(w)' /\ CoverOK(w)'
      BY <1>0, <2>1 DEF FedOK, CoverOK, Covered, store, graph, request, ghosts
    <2>3. ASSUME NEW b \in Bundle, b \in Touch(w),
                 b \notin (tainted \cup unarchived)', ~Ahead(w, b)'
          PROVE  RawAgrees(b)'
      <3>1. b \in scope[w] /\ ~Ahead(w, b) /\ b \notin tainted \cup unarchived
        BY <2>1, <2>3, TouchInScope DEF Serving, Ahead, request, ghosts
      <3>2. \A v \in Worker : ~Ahead(v, b)
        BY <3>1 DEF Serving, ExclInv, ScopeInv, ScopeOK, Ahead
      <3> QED
        BY <2>1, <3>1, <3>2 DEF ArchiveInv, RawAgrees, store, graph
    <2> QED
      BY <2>2, <2>3 DEF OwnRaw
  <1>11. ASSUME ArchiveRaw(w) PROVE OwnRaw(w)
    <2>1. /\ pc[w] = "archiving" /\ pc'[w] = "hashing" /\ kind[w] = "put"
          /\ UNCHANGED request /\ raw'[target[w]] = arch[w]
      BY <1>11, <1>0, GraphAssumption
      DEF ArchiveRaw, Goto, Serving, TypeInv, StoreTypeOK, Requests,
          RequestTypeOK, RequestInv, HasArchive, Ingesting, FedOK
    <2> QED
      BY <2>1 DEF OwnRaw, FedOK, CoverOK, Touch, Deleting, Ahead, Fed, request
  <1>12. ASSUME ArchiveFails(w) PROVE OwnRaw(w)
    <2>1. /\ pc[w] = "archiving" /\ pc'[w] = "warning" /\ kind[w] = "put"
          /\ UNCHANGED request /\ target[w] \in unarchived'
      BY <1>12, <1>0
      DEF ArchiveFails, Goto, Serving, TypeInv, Requests, RequestTypeOK, FedOK
    <2> QED
      BY <2>1 DEF OwnRaw, FedOK, CoverOK, Touch, Deleting, Ahead, Fed, request
  <1>13. ASSUME ListRaw(w) PROVE OwnRaw(w)
    <2>1. UNCHANGED <<raw, hash, index, ghosts>> /\ pc[w] = "listing"
      BY <1>13 DEF ListRaw, store, graph
    <2>2. CASE pc'[w] = "idle"
      BY <1>13, <2>1, <2>2, CalmRaw DEF Actor, Step, FedOK, CoverOK, Fed, Deleting
    <2>3. CASE /\ pc'[w] = "listed" /\ UNCHANGED request
               /\ todo'[w] = {b \in scope[w] : raw[b] # Nothing}
      BY <1>13, <2>1, <2>3, CalmRaw
      DEF Actor, Step, FedOK, CoverOK, Covered, Fed, Deleting, request
    <2> QED
      BY <1>13, <2>2, <2>3 DEF ListRaw, Finish, Goto, Serving, TypeInv, Requests,
         RequestTypeOK
  <1>14. ASSUME NextEntry(w) PROVE OwnRaw(w)
    <2>1. UNCHANGED <<raw, hash, index, ghosts>> /\ pc[w] = "next"
      BY <1>14 DEF NextEntry, store, graph
    <2>2. CASE pc'[w] = "idle"
      BY <1>14, <2>1, <2>2, CalmRaw DEF Actor, Step, FedOK, CoverOK, Fed, Deleting
    <2>3. CASE \E b \in todo[w] :
                  /\ pc'[w] = "reading" /\ target'[w] = b
                  /\ todo'[w] = todo[w] \ {b} /\ UNCHANGED <<kind, scope>>
      <3>1. FedOK(w)' /\ CoverOK(w)'
        BY <1>0, <2>1, <2>3 DEF FedOK, CoverOK, Covered, Fed, Deleting, ghosts
      <3> QED
        BY <1>14, <2>1, <3>1, CalmRaw DEF Actor, Step, Fed
    <2> QED
      BY <1>14, <2>2, <2>3 DEF NextEntry, Finish, Goto, Serving, TypeInv, Requests,
         RequestTypeOK
  <1>15. ASSUME ReadRaw(w) PROVE OwnRaw(w)
    <2>1. /\ UNCHANGED <<raw, hash, index, ghosts, kind, scope, target, todo>>
          /\ pc[w] = "reading" /\ kind[w] = "reingest"
          /\ \/ pc'[w] = "hashing" /\ arch'[w] = raw[target[w]]
             \/ pc'[w] = "warning" /\ raw[target[w]] \notin Archive
      BY <1>15 DEF ReadRaw, Goto, store, graph, work, Serving, TypeInv, Requests,
         RequestTypeOK, RequestInv, Replaying
    <2>2. FedOK(w)' /\ CoverOK(w)'
      BY <1>0, <2>1 DEF FedOK, CoverOK, Covered, Fed, Deleting, ghosts
    <2> QED
      BY <1>15, <2>1, <2>2, CalmRaw DEF Actor, Step, Fed
  <1>16. ASSUME ReadFails(w) PROVE OwnRaw(w)
    <2>1. /\ UNCHANGED <<raw, hash, ghosts>> /\ pc'[w] = "idle"
          /\ pc[w] \in {"listing", "reading"}
      BY <1>16 DEF ReadFails, Finish, Goto, store, graph, Serving, TypeInv, Requests,
         RequestTypeOK
    <2> QED
      BY <1>16, <2>1, CalmRaw DEF Actor, Fault, FedOK, CoverOK, Fed, Deleting
  <1>17. ASSUME Reject(w) PROVE OwnRaw(w)
    <2>1. /\ UNCHANGED <<raw, hash, index, ghosts, request, todo>>
          /\ pc[w] = "hashing" /\ arch[w] \in Malformed /\ pc'[w] = "failing"
      BY <1>17 DEF Reject, Goto, store, graph, work, Serving, TypeInv, Requests,
         RequestTypeOK
    <2>2. FedOK(w)'
      BY <2>1 DEF FedOK, Fed, Deleting
    <2>3. CoverOK(w)'
      BY <1>0, <2>1 DEF FedOK, CoverOK, Covered, Fed, ghosts, request
    <2>4. target[w] \notin unarchived => raw[target[w]] \in Malformed
      BY <1>0, <2>1 DEF FedOK, Fed
    <2> QED
      BY <2>1, <2>2, <2>3, <2>4 DEF OwnRaw, RawAgrees, Touch, Deleting, ghosts
  <1>18. ASSUME Prefetch(w) PROVE OwnRaw(w)
    <2>1. /\ UNCHANGED <<raw, hash, index, kind, scope, arch, target, todo>>
          /\ UNCHANGED <<tainted, unarchived>>
          /\ pc[w] \in Fed /\ pc'[w] \in {"staged"}
      BY <1>18 DEF Prefetch, Goto, store, graph, request, work, ghosts, Fed,
               Serving, TypeInv, Requests, RequestTypeOK
    <2>2. FedOK(w)' /\ CoverOK(w)'
      BY <1>0, <2>1, CoverKept DEF FedOK, Fed, Deleting
    <2> QED
      BY <2>1, <2>2 DEF OwnRaw, Touch, Ahead, Fed, Deleting
  <1>19. ASSUME Flush(w) PROVE OwnRaw(w)
    <2>1. /\ UNCHANGED <<raw, hash, index, kind, scope, arch, target, todo>>
          /\ UNCHANGED <<tainted, unarchived>>
          /\ pc[w] \in Fed /\ pc'[w] \in {"flushing"}
      BY <1>19 DEF Flush, Goto, store, graph, request, work, ghosts, Fed, Serving,
               TypeInv, Requests, RequestTypeOK
    <2>2. FedOK(w)' /\ CoverOK(w)'
      BY <1>0, <2>1, CoverKept DEF FedOK, Fed, Deleting
    <2> QED
      BY <2>1, <2>2 DEF OwnRaw, Touch, Ahead, Fed, Deleting
  <1>20. ASSUME FlushFails(w) PROVE OwnRaw(w)
    <2>1. /\ UNCHANGED <<raw, hash, index, kind, scope, target, todo>>
          /\ target[w] \in tainted' /\ tainted \subseteq tainted'
          /\ pc[w] \notin Deleting \cup {"idle", "listing"}
          /\ pc'[w] = "failing"
      BY <1>20 DEF FlushFails, Abandon, Goto, store, graph, request, Deleting,
               Serving, TypeInv, Requests, RequestTypeOK
    <2>2. FedOK(w)' /\ CoverOK(w)'
      BY <2>1, CoverKept DEF FedOK, Fed, Deleting
    <2> QED
      BY <2>1, <2>2 DEF OwnRaw, Touch
  <1>21. ASSUME NEW k \in Key, PutBlob(w, k) PROVE OwnRaw(w)
    <2>1. /\ UNCHANGED <<raw, hash, index, kind, scope, arch, target, todo>>
          /\ UNCHANGED <<tainted, unarchived>>
          /\ pc[w] \in Fed /\ pc'[w] \in {"flushing", "meta"}
      BY <1>21 DEF PutBlob, Goto, store, graph, request, work, ghosts, Fed,
               Serving, TypeInv, Requests, RequestTypeOK
    <2>2. FedOK(w)' /\ CoverOK(w)'
      BY <1>0, <2>1, CoverKept DEF FedOK, Fed, Deleting
    <2> QED
      BY <2>1, <2>2 DEF OwnRaw, Touch, Ahead, Fed, Deleting
  <1>22. ASSUME NEW k \in Key, PutBlobFails(w, k) PROVE OwnRaw(w)
    <2>1. /\ UNCHANGED <<raw, hash, index, kind, scope, target, todo>>
          /\ target[w] \in tainted' /\ tainted \subseteq tainted'
          /\ pc[w] \notin Deleting \cup {"idle", "listing"}
          /\ pc'[w] = "failing"
      BY <1>22 DEF PutBlobFails, Abandon, Goto, store, graph, request, Deleting,
               Serving, TypeInv, Requests, RequestTypeOK
    <2>2. FedOK(w)' /\ CoverOK(w)'
      BY <2>1, CoverKept DEF FedOK, Fed, Deleting
    <2> QED
      BY <2>1, <2>2 DEF OwnRaw, Touch
  <1>23. ASSUME PutMeta(w) PROVE OwnRaw(w)
    <2>1. /\ UNCHANGED <<raw, hash, index, kind, scope, arch, target, todo>>
          /\ UNCHANGED <<tainted, unarchived>>
          /\ pc[w] \in Fed /\ pc'[w] \in {"recording"}
      BY <1>23 DEF PutMeta, Goto, store, graph, request, work, ghosts, Fed,
               Serving, TypeInv, Requests, RequestTypeOK
    <2>2. FedOK(w)' /\ CoverOK(w)'
      BY <1>0, <2>1, CoverKept DEF FedOK, Fed, Deleting
    <2> QED
      BY <2>1, <2>2 DEF OwnRaw, Touch, Ahead, Fed, Deleting
  <1>24. ASSUME PutMetaFails(w) PROVE OwnRaw(w)
    <2>1. /\ UNCHANGED <<raw, hash, index, kind, scope, target, todo>>
          /\ target[w] \in tainted' /\ tainted \subseteq tainted'
          /\ pc[w] \notin Deleting \cup {"idle", "listing"}
          /\ pc'[w] = "failing"
      BY <1>24 DEF PutMetaFails, Abandon, Goto, store, graph, request, Deleting,
               Serving, TypeInv, Requests, RequestTypeOK
    <2>2. FedOK(w)' /\ CoverOK(w)'
      BY <2>1, CoverKept DEF FedOK, Fed, Deleting
    <2> QED
      BY <2>1, <2>2 DEF OwnRaw, Touch
  <1>25. ASSUME Record(w) PROVE OwnRaw(w)
    <2>1. /\ UNCHANGED <<raw, index, kind, scope, arch, target, todo>>
          /\ UNCHANGED <<tainted, unarchived>> /\ target[w] \in Bundle
          /\ pc[w] = "recording" /\ pc'[w] = "dropping"
          /\ hash' = [hash EXCEPT ![target[w]] = arch[w]]
      BY <1>25, IngestKnows
      DEF Record, Goto, Storing, store, graph, request, work, ghosts, Serving,
          TypeInv, Requests, RequestTypeOK
    <2>2. \A b \in scope[w] : b # target[w] /\ Covered(b) => Covered(b)'
      BY <2>1 DEF Covered, Serving, TypeInv, StoreTypeOK, Requests, RequestTypeOK
    <2>3. FedOK(w)' /\ CoverOK(w)'
      BY <1>0, <2>1, <2>2 DEF FedOK, CoverOK, Fed, Deleting
    <2>4. target[w] \notin unarchived => RawAgrees(target[w])'
      BY <1>0, <2>1 DEF FedOK, RawAgrees, Fed, Serving, TypeInv, StoreTypeOK
    <2> QED
      BY <2>1, <2>3, <2>4 DEF OwnRaw, Touch, Deleting
  <1>26. ASSUME DropIndex(w) PROVE OwnRaw(w)
    <2>1. /\ UNCHANGED <<raw, hash, kind, scope, arch, target, todo>>
          /\ UNCHANGED ghosts /\ target[w] \in Bundle
          /\ pc[w] = "dropping" /\ pc'[w] = "indexing"
          /\ index' = [index EXCEPT ![target[w]] = Nothing]
      BY <1>26, IngestKnows
      DEF DropIndex, Goto, Storing, request, work, Serving, TypeInv, Requests,
          RequestTypeOK
    <2>2. \A b \in scope[w] : b # target[w] /\ Covered(b) => Covered(b)'
      BY <2>1 DEF Covered, Serving, TypeInv, StoreTypeOK, Requests, RequestTypeOK
    <2>3. FedOK(w)' /\ CoverOK(w)'
      BY <1>0, <2>1, <2>2 DEF FedOK, CoverOK, Fed, Deleting, ghosts
    <2> QED
      BY <1>26, <2>1, <2>3, CalmRaw DEF Actor, Step, Fed
  <1>27. ASSUME FillIndex(w) PROVE OwnRaw(w)
    <2>1. /\ UNCHANGED <<raw, hash, kind, scope, arch, target, todo>>
          /\ UNCHANGED ghosts /\ target[w] \in Bundle
          /\ pc[w] = "indexing" /\ pc'[w] = "replying"
          /\ index' = [index EXCEPT ![target[w]] = arch[w]]
      BY <1>27, IngestKnows
      DEF FillIndex, Goto, Storing, request, work, Serving, TypeInv, Requests,
          RequestTypeOK
    <2>2. \A b \in scope[w] : b # target[w] /\ Covered(b) => Covered(b)'
      BY <2>1 DEF Covered, Serving, TypeInv, StoreTypeOK, Requests, RequestTypeOK
    <2>3. target[w] \notin tainted => hash[target[w]] = arch[w]
      BY <2>1 DEF Serving, ServedInv, IngestOK, Storing
    <2>4. /\ hash'[target[w]] = hash[target[w]] /\ raw'[target[w]] = raw[target[w]]
          /\ index'[target[w]] = arch[w]
      BY <2>1 DEF Serving, TypeInv, StoreTypeOK
    <2>5. FedOK(w)'
      BY <2>1 DEF FedOK, Fed, Deleting
    <2>6. CoverOK(w)'
      <3> SUFFICES ASSUME kind[w] = "reingest", NEW b \in scope[w],
                          b \notin tainted \cup todo[w]
                   PROVE  Covered(b)'
        BY <2>1 DEF CoverOK, ghosts
      <3>1. CASE b # target[w]
        BY <1>0, <2>1, <2>2, <3>1 DEF CoverOK
      <3>2. CASE b = target[w]
        <4>1. raw[b] = arch[w]
          BY <1>0, <2>1, <3>2 DEF FedOK, Fed
        <4>2. hash'[b] = arch[w] /\ index'[b] = arch[w] /\ raw'[b] = arch[w]
          BY <2>3, <2>4, <3>2, <4>1
        <4> QED
          BY <4>2 DEF Covered
      <3> QED
        BY <3>1, <3>2
    <2> QED
      BY <1>27, <2>1, <2>5, <2>6, CalmRaw DEF Actor, Step, Fed
  <1>28. ASSUME CommitFails(w) PROVE OwnRaw(w)
    <2>1. /\ UNCHANGED <<raw, hash, index, kind, scope, target, todo>>
          /\ target[w] \in tainted' /\ tainted \subseteq tainted'
          /\ pc[w] \notin Deleting \cup {"idle", "listing"}
          /\ pc'[w] = "failing"
      BY <1>28 DEF CommitFails, Abandon, Goto, store, graph, request, Deleting,
               Serving, TypeInv, Requests, RequestTypeOK
    <2>2. FedOK(w)' /\ CoverOK(w)'
      BY <2>1, CoverKept DEF FedOK, Fed, Deleting
    <2> QED
      BY <2>1, <2>2 DEF OwnRaw, Touch
  <1>29. ASSUME DeleteRows(w) PROVE OwnRaw(w)
    <2>1. /\ UNCHANGED <<kind, scope, target>>
          /\ pc[w] \in Deleting /\ pc'[w] = "delBlobs"
          /\ \A b \in Touch(w) : b \in Bundle => hash'[b] = Nothing
      BY <1>29 DEF DeleteRows, Goto, request, Deleting, Touch, Serving, ScopeInv,
               ScopeOK, TypeInv, StoreTypeOK, Requests, RequestTypeOK
    <2> QED
      BY <1>0, <2>1 DEF OwnRaw, FedOK, CoverOK, RawAgrees, Fed, Deleting
  <1>30. ASSUME ClearRows(w) PROVE OwnRaw(w)
    <2>1. /\ UNCHANGED <<kind, scope, target>>
          /\ pc[w] \in Deleting /\ pc'[w] = "delBlobs"
          /\ \A b \in Touch(w) : b \in Bundle => hash'[b] = Nothing
      BY <1>30 DEF ClearRows, Goto, request, Deleting, Touch, Serving, ScopeInv,
               ScopeOK, TypeInv, StoreTypeOK, Requests, RequestTypeOK
    <2> QED
      BY <1>0, <2>1 DEF OwnRaw, FedOK, CoverOK, RawAgrees, Fed, Deleting
  <1>31. ASSUME NEW k \in Key, RemoveBlob(w, k) PROVE OwnRaw(w)
    <2>1. UNCHANGED <<pc, kind, raw, hash, ghosts>> /\ pc[w] = "delBlobs"
      BY <1>31 DEF RemoveBlob, graph, request
    <2>2. FedOK(w)' /\ CoverOK(w)'
      BY <1>0, <2>1 DEF FedOK, CoverOK, Fed, Deleting
    <2> QED
      BY <1>31, <2>1, <2>2, CalmRaw DEF Actor, Step, Fed
  <1>32. ASSUME RemoveTree(w) PROVE OwnRaw(w)
    <2>1. /\ pc[w] = "delBlobs" /\ pc'[w] \in {"delRaw", "idle"}
          /\ kind'[w] # "reingest" /\ UNCHANGED <<hash, raw>>
      BY <1>32, <1>0 DEF RemoveTree, Finish, Goto, graph, request, FedOK, Deleting,
         Serving, TypeInv, Requests, RequestTypeOK
    <2>2. \A b \in Touch(w) : hash[b] = Nothing
      BY <2>1 DEF Serving, ServedInv, DeleteOK, Touch, Deleting
    <2> QED
      BY <2>1, <2>2 DEF OwnRaw, FedOK, CoverOK, RawAgrees, Fed, Deleting
  <1>33. ASSUME RemoveFails(w) PROVE OwnRaw(w)
    <2>1. /\ pc[w] \in {"delBlobs", "delRaw"} /\ pc'[w] = "idle"
          /\ UNCHANGED <<hash, raw, unarchived>>
          /\ pc[w] = "delBlobs" => tainted' = tainted \cup scope[w]
          /\ pc[w] # "delBlobs" => tainted' = tainted
      BY <1>33 DEF RemoveFails, Finish, Goto, store, graph, Serving, TypeInv,
         Requests, RequestTypeOK
    <2>2. FedOK(w)' /\ CoverOK(w)'
      BY <2>1 DEF FedOK, CoverOK, Fed, Deleting
    <2>3. CASE pc[w] = "delBlobs"
      BY <2>1, <2>2, <2>3 DEF OwnRaw, Touch, Deleting
    <2>4. CASE pc[w] # "delBlobs"
      BY <1>33, <2>1, <2>2, <2>4, CalmRaw DEF Actor, Fault, Fed, ghosts
    <2> QED
      BY <2>3, <2>4
  <1>34. ASSUME NEW b \in Bundle, RemoveRaw(w, b) PROVE OwnRaw(w)
    <2>1. /\ pc[w] = "delRaw" /\ pc'[w] \in {"delRaw", "idle"}
          /\ kind'[w] # "reingest" /\ UNCHANGED <<hash, ghosts>>
          /\ \A c \in Bundle : raw'[c] \in {raw[c], Nothing}
      BY <1>34, <1>0 DEF RemoveRaw, Finish, Goto, graph, request, FedOK, Deleting,
         Serving, TypeInv, StoreTypeOK, Requests, RequestTypeOK
    <2>2. FedOK(w)' /\ CoverOK(w)'
      BY <2>1 DEF FedOK, CoverOK, Fed, Deleting
    <2>3. ASSUME NEW c \in Bundle, c \in Touch(w), c \notin (tainted \cup unarchived)'
          PROVE  RawAgrees(c)'
      <3>1. \A v \in Worker : ~Ahead(v, c)
        BY <2>1, <2>3, TouchInScope
        DEF Serving, ExclInv, ScopeInv, ScopeOK, Ahead, Fed
      <3> QED
        BY <2>1, <2>3, <3>1 DEF ArchiveInv, RawAgrees, ghosts
    <2> QED
      BY <2>2, <2>3 DEF OwnRaw
  <1> QED
    BY <1>1, <1>2, <1>3, <1>4, <1>5, <1>6, <1>7, <1>8, <1>9, <1>10, <1>11,
       <1>12, <1>13, <1>14, <1>15, <1>16, <1>17, <1>18, <1>19, <1>20, <1>21,
       <1>22, <1>23, <1>24, <1>25, <1>26, <1>27, <1>28, <1>29, <1>30, <1>31,
       <1>32, <1>33, <1>34
    DEF Actor, Request, Step, Fault

LEMMA NextArchive ==
    ASSUME Exclusive, Serving, ArchiveInv, CoverInv, [Next]_vars
    PROVE  ArchiveInv' /\ CoverInv'
  <1>1. ASSUME NEW o \in orphans, OrphanPut(o) PROVE ArchiveInv' /\ CoverInv'
    BY <1>1 DEF OrphanPut, graph, request, work, ghosts, ArchiveInv, CoverInv,
       FedOK, RawAgrees, Ahead, CoverOK, Covered
  <1>2. ASSUME Crash PROVE ArchiveInv' /\ CoverInv'
    <2>1. /\ \A w \in Worker : pc'[w] = "idle"
          /\ \A w \in Worker : scope[w] \subseteq tainted'
          /\ tainted \subseteq tainted' /\ UNCHANGED <<hash, unarchived>>
      BY <1>2 DEF Crash, graph
    <2>2. ASSUME NEW b \in Bundle, b \notin (tainted \cup unarchived)'
          PROVE  RawAgrees(b)'
      <3>1. \A w \in Worker : target[w] # b
        BY <2>1, <2>2 DEF Serving, ScopeInv, ScopeOK
      <3>2. raw'[b] = raw[b]
        BY <1>2, <3>1 DEF Crash, WritingRaw
      <3>3. RawAgrees(b)
        BY <2>1, <2>2, <3>1 DEF ArchiveInv, Ahead
      <3> QED
        BY <2>1, <3>2, <3>3 DEF RawAgrees
    <2> QED
      BY <2>1, <2>2 DEF ArchiveInv, CoverInv, FedOK, CoverOK, Fed, Deleting
  <1>3. ASSUME UNCHANGED vars PROVE ArchiveInv' /\ CoverInv'
    BY <1>3 DEF vars, store, graph, request, work, ghosts, ArchiveInv, CoverInv,
       FedOK, RawAgrees, Ahead, CoverOK, Covered
  <1> QED
    BY <1>1, <1>2, <1>3, ActorArchive DEF Next, Actor

LEMMA ArchiveAlways == Exclusive => (Spec => [](Serving /\ ArchiveInv /\ CoverInv))
  <1> SUFFICES ASSUME Exclusive PROVE Spec => [](Serving /\ ArchiveInv /\ CoverInv)
    OBVIOUS
  <1>1. Init => ArchiveInv /\ CoverInv
    BY DEF Init, ArchiveInv, CoverInv, FedOK, RawAgrees, CoverOK, Fed, Deleting
  <1>2. Serving /\ ArchiveInv /\ CoverInv /\ [Next]_vars => ArchiveInv' /\ CoverInv'
    BY NextArchive
  <1> QED
    BY <1>1, <1>2, ServingAlways, PTL DEF Spec

\* The archive has what the store serves, unless the entry was dropped, its last
\* write failed or the last upload was rejected: archiving first, outside the
\* ingest, does not let the two drift apart (api/bundle.ts, api/reingest.ts).
THEOREM ArchivesAreServed == Exclusive => (Spec => []RawIsServed)
  <1>1. ASSUME Serving, ArchiveInv, NEW b \in Bundle, Sound(b),
               b \notin unarchived, hash[b] # Nothing
        PROVE  raw[b] \in {hash[b], Nothing} \cup Malformed
    <2>1. \A w \in Worker : target[w] # b
      BY <1>1 DEF Serving, ScopeInv, ScopeOK, Sound, Unattended
    <2> QED
      BY <1>1, <2>1 DEF ArchiveInv, RawAgrees, Ahead, Sound
  <1>2. Serving /\ ArchiveInv => RawIsServed
    BY <1>1 DEF RawIsServed
  <1> QED
    BY ArchiveAlways, <1>2, PTL

\* A re-ingest that comes to the end of its list has brought the store up to
\* the archive, except for the entries it reported.
THEOREM ReingestsCoverTheArchive == Exclusive => (Spec => []ReingestCoversArchive)
  <1>1. CoverInv => ReingestCoversArchive
    BY DEF CoverInv, CoverOK, Covered, ReingestCoversArchive, Fed
  <1> QED
    BY ArchiveAlways, <1>1, PTL

-----------------------------------------------------------------------------
(* Where nothing is ever deleted, no link is missing either.                *)

NothingDeleted ==
    \A w \in Worker : kind[w] \in {"put", "reingest"} /\ pc[w] \notin Deleting

Complete(k) ==
    HasBlob(node, k) => \A d \in Refs[node[k]][k] : <<k, d>> \in link

\* What an ingest still has to link, its batch links, between rows that are
\* there or that the batch inserts.
LinksOK(w) ==
    pc[w] \in Storing /\ target[w] \notin tainted =>
        /\ \A k \in KeysOf(target[w]) \ Pages[arch[w]] : Complete(k)
        /\ \A k \in Pages[arch[w]] : \A d \in Refs[arch[w]][k] :
              <<k, d>> \in link \/ <<k, d>> \in batch[w].add
        /\ \A e \in batch[w].add : e[2] \in batch[w].ins \/ node[e[2]] # NoRow
        /\ \A e \in batch[w].del : e[2] \notin Refs[arch[w]][e[1]]

CompleteInv ==
    /\ NothingDeleted
    /\ \A b \in Bundle : b \notin tainted /\ (\A w \in Worker : ~AtWork(w, b)) =>
          \A k \in KeysOf(b) : Complete(k)
    /\ \A w \in Worker : LinksOK(w)

OwnLinks(w) ==
    /\ \A d \in Key : node[d] # NoRow => node'[d] # NoRow
    /\ kind'[w] \in {"put", "reingest"} /\ pc'[w] \notin Deleting
    /\ \A b \in Bundle : b \in Touch(w) /\ b \notin tainted' /\ ~AtWork(w, b)' =>
          \A k \in KeysOf(b) : Complete(k)'
    /\ LinksOK(w)'

LEMMA OwnLinksSuffices ==
    ASSUME Exclusive, Serving, CompleteInv, NEW w \in Worker, Actor(w), OwnLinks(w)
    PROVE  CompleteInv'
  <1>1. OthersStay(w) /\ Books(w)
    BY ActorMeansOthersStay, ActorBooks DEF Serving
  <1>2. \A b \in Bundle : b \notin Touch(w) => Untouched(b)
    BY ActorFootprint DEF Serving
  <1>3. \A k, d \in Key : <<k, d>> \in link => node[d] # NoRow /\ node'[d] # NoRow
    BY DEF OwnLinks, Serving, LinkInv, LinkEndsExist
  <1>4. \A b \in Bundle : b \notin Touch(w) =>
           \A k \in KeysOf(b), d \in Key :
              <<k, d>> \in link' <=> <<k, d>> \in link
    <2> SUFFICES ASSUME NEW b \in Bundle, b \notin Touch(w), NEW k \in KeysOf(b), NEW d \in Key
                 PROVE  <<k, d>> \in link' <=> <<k, d>> \in link
      OBVIOUS
    <2>1. Untouched(b) /\ k \in Key
      BY <1>2 DEF KeysOf
    <2> QED
      BY <1>3, <2>1 DEF Untouched
  <1>6. ASSUME NEW b \in Bundle, b \notin Touch(w), NEW k \in KeysOf(b), Complete(k)
        PROVE  Complete(k)'
    <2> SUFFICES ASSUME HasBlob(node', k), NEW d \in Refs[node'[k]][k]
                 PROVE  <<k, d>> \in link'
      BY DEF Complete, HasBlob
    <2>1. node'[k] = node[k] /\ node[k] \in Archive /\ k \in Key
      BY <1>2, <1>6 DEF Untouched, HasBlob, KeysOf
    <2>2. d \in Key
      BY <2>1, GraphAssumption
    <2> QED
      BY <1>4, <1>6, <2>1, <2>2 DEF Complete, HasBlob
  <1>7. NothingDeleted'
    BY <1>1 DEF OwnLinks, OthersStay, CompleteInv, NothingDeleted
  <1>8. ASSUME NEW b \in Bundle, b \notin tainted', \A v \in Worker : ~AtWork(v, b)',
               NEW k \in KeysOf(b)
        PROVE  Complete(k)'
    <2>1. CASE b \in Touch(w)
      BY <1>8, <2>1 DEF OwnLinks
    <2>2. CASE b \notin Touch(w)
      <3>1. b \notin tainted /\ \A v \in Worker \ {w} : ~AtWork(v, b)
        BY <1>1, <1>8, <2>2 DEF Books, OthersStay, AtWork
      <3>2. ~AtWork(w, b)
        BY <2>2 DEF AtWork, Touch, Deleting, Storing
      <3> QED
        BY <1>6, <2>2, <3>1, <3>2 DEF CompleteInv
    <2> QED
      BY <2>1, <2>2
  <1>9. ASSUME NEW v \in Worker \ {w} PROVE LinksOK(v)'
    <2> SUFFICES ASSUME pc'[v] \in Storing, target'[v] \notin tainted'
                 PROVE  LinksOK(v)'
      BY DEF LinksOK
    <2>1. /\ pc'[v] = pc[v] /\ arch'[v] = arch[v] /\ target'[v] = target[v]
          /\ batch'[v] = batch[v]
      BY <1>1 DEF OthersStay
    <2>2. /\ target[v] \in Bundle /\ target[v] \in scope[v] /\ arch[v] \in Archive
          /\ Pages[arch[v]] \subseteq KeysOf(target[v]) /\ batch[v] \in Batch
      BY <2>1, IngestKnows DEF Serving, TypeInv, Requests, RequestTypeOK
    <2>3. target[v] \notin Touch(w)
      BY <2>2, TouchInScope DEF Serving, ExclInv
    <2>4. target[v] \notin tainted
      BY <1>1, <2>1, <2>2, <2>3 DEF Books
    <2>5. LinksOK(v)
      BY DEF CompleteInv
    <2>6. \A k \in KeysOf(target[v]) \ Pages[arch[v]] : Complete(k)'
      BY <1>6, <2>1, <2>2, <2>3, <2>4, <2>5 DEF LinksOK
    <2>7. \A k \in Pages[arch[v]] : \A d \in Refs[arch[v]][k] :
             <<k, d>> \in link' \/ <<k, d>> \in batch[v].add
      <3>1. \A k \in Pages[arch[v]] : \A d \in Refs[arch[v]][k] : d \in Key
        BY <2>2, GraphAssumption DEF KeysOf
      <3> QED
        BY <1>4, <2>1, <2>2, <2>3, <2>4, <2>5, <3>1 DEF LinksOK
    <2>8. \A e \in batch[v].add : e[2] \in batch[v].ins \/ node'[e[2]] # NoRow
      BY <2>1, <2>2, <2>4, <2>5 DEF LinksOK, OwnLinks, Batch, Link
    <2>9. \A e \in batch[v].del : e[2] \notin Refs[arch[v]][e[1]]
      BY <2>1, <2>4, <2>5 DEF LinksOK
    <2> QED
      BY <2>1, <2>6, <2>7, <2>8, <2>9 DEF LinksOK
  <1>10. LinksOK(w)'
    BY DEF OwnLinks
  <1> QED
    BY <1>7, <1>8, <1>9, <1>10 DEF CompleteInv

LEMMA CalmLinks ==
    ASSUME Serving, CompleteInv, NEW w \in Worker, UNCHANGED <<node, link, tainted>>,
           kind'[w] \in {"put", "reingest"},
           pc[w] \notin Storing, pc'[w] \notin Storing \cup Deleting
    PROVE  OwnLinks(w)
  <1>1. ASSUME NEW b \in Bundle, b \in Touch(w), b \notin tainted'
        PROVE  \A k \in KeysOf(b) : Complete(k)'
    <2>1. \A v \in Worker : ~AtWork(v, b)
      BY <1>1, TouchInScope
      DEF CompleteInv, NothingDeleted, Deleting, Serving, ExclInv, ScopeInv,
          ScopeOK, AtWork
    <2> QED
      BY <1>1, <2>1 DEF CompleteInv, Complete, HasBlob
  <1> QED
    BY <1>1 DEF OwnLinks, LinksOK

\* In the middle of an ingest, after the last statement on the tables or on the
\* way to a failure.
LEMMA KeepLinks ==
    ASSUME Serving, CompleteInv, NEW w \in Worker, UNCHANGED <<node, link>>,
           kind'[w] = kind[w], pc[w] \in Storing,
           \/ /\ pc'[w] \in Storing /\ arch'[w] = arch[w] /\ target'[w] = target[w]
              /\ batch'[w] = batch[w] /\ tainted' = tainted
           \/ pc'[w] = "failing" /\ target[w] \in tainted'
    PROVE  OwnLinks(w)
  <1>1. target[w] \in Bundle /\ pc[w] \notin Deleting
    BY IngestKnows
  <1>2. LinksOK(w)'
    BY DEF CompleteInv, LinksOK, Complete, HasBlob, Storing
  <1>3. kind'[w] \in {"put", "reingest"} /\ pc'[w] \notin Deleting
    BY DEF CompleteInv, NothingDeleted, Storing, Deleting
  <1>4. \A b \in Touch(w) : b \in tainted' \/ AtWork(w, b)'
    BY <1>1 DEF Touch, AtWork
  <1> QED
    BY <1>2, <1>3, <1>4 DEF OwnLinks

\* The statements of an ingest link what is not linked yet, and unlink nothing
\* that the new content links.
LEMMA StageLinks ==
    ASSUME NEW a \in Archive, NEW bs, NEW rs, rs \subseteq link,
           link \subseteq Link, NEW s, s = Stage(a, bs, rs)
    PROVE  /\ \A k \in Pages[a] : \A d \in Refs[a][k] :
                 <<k, d>> \in link \/ <<k, d>> \in s.add
           /\ \A e \in s.add : e[2] \in s.ins
           /\ \A e \in s.del : e[2] \notin Refs[a][e[1]]
  <1> DEFINE old(k) == IF k \in bs \ Asset THEN OutLinks(rs, k) ELSE {}
  <1>1. /\ s.ins = Pages[a] \cup {e[2] : e \in s.add}
        /\ s.add = {e \in Link : /\ e[1] \in Pages[a]
                                 /\ e[2] \in Refs[a][e[1]] \ old(e[1])}
        /\ s.del = {e \in Link : /\ e[1] \in Pages[a]
                                 /\ e[2] \in old(e[1]) \ Refs[a][e[1]]}
    BY DEF Stage
  <1>2. ASSUME NEW k \in Pages[a], NEW d \in Refs[a][k], <<k, d>> \notin link
        PROVE  <<k, d>> \in s.add
    <2>1. <<k, d>> \in Link
      BY GraphAssumption DEF Link
    <2>2. d \notin OutLinks(rs, k)
      <3> SUFFICES ASSUME NEW e \in rs, e[1] = k, e[2] = d PROVE FALSE
        BY DEF OutLinks
      <3>1. e = <<k, d>>
        BY DEF Link
      <3> QED
        BY <1>2, <3>1
    <2>3. d \notin old(k)
      BY <2>2
    <2> HIDE DEF old
    <2> QED
      BY <1>1, <2>1, <2>3
  <1> HIDE DEF old
  <1> QED
    BY <1>1, <1>2

LEMMA PrefetchLinks ==
    ASSUME Exclusive, Serving, CompleteInv, NEW w \in Worker, Prefetch(w)
    PROVE  OwnLinks(w)
  <1> DEFINE a == arch[w]
             b == target[w]
             fresh == hash[b] = Nothing
             bs == IF fresh THEN {} ELSE ExistingBlobs(node, b)
             rs == IF fresh THEN {} ELSE ExistingRefs(link, b)
             s == Stage(a, bs, rs)
  <1>1. pc[w] = "hashing" /\ batch' = [batch EXCEPT ![w] = s]
    BY DEF Prefetch
  <1>2. /\ a \in Archive /\ b \in Bundle /\ b \in scope[w] /\ pc[w] \notin Deleting
    BY <1>1, IngestKnows
  <1>3. /\ batch'[w] = s /\ pc'[w] = "staged" /\ arch'[w] = a /\ target'[w] = b
        /\ UNCHANGED <<node, link, tainted, kind>>
    BY <1>1
    DEF Prefetch, Goto, Serving, TypeInv, Requests, RequestTypeOK, request,
        store, graph, ghosts
  <1>4. /\ \A k \in Pages[a] : \A d \in Refs[a][k] :
              <<k, d>> \in link \/ <<k, d>> \in s.add
        /\ \A e \in s.add : e[2] \in s.ins
        /\ \A e \in s.del : e[2] \notin Refs[a][e[1]]
    <2>1. rs \subseteq link /\ link \subseteq Link
      BY DEF ExistingRefs, Serving, TypeInv, StoreTypeOK
    <2> HIDE DEF s, bs, rs, a
    <2> QED
      BY <1>2, <2>1, StageLinks DEF s
  <1>5. ASSUME b \notin tainted PROVE \A k \in KeysOf(b) : Complete(k)'
    <2>1. \A v \in Worker : ~AtWork(v, b)
      BY <1>1, <1>2 DEF Serving, ExclInv, ScopeInv, ScopeOK, AtWork, Storing
    <2> QED
      BY <1>2, <1>3, <1>5, <2>1 DEF CompleteInv, Complete, HasBlob
  <1>6. LinksOK(w)'
    <2> HIDE DEF s
    <2> QED
      BY <1>3, <1>4, <1>5 DEF LinksOK
  <1> QED
    BY <1>2, <1>3, <1>6
    DEF OwnLinks, Touch, AtWork, Storing, Deleting, CompleteInv, NothingDeleted

LEMMA FlushLinks ==
    ASSUME Exclusive, Serving, CompleteInv, NEW w \in Worker, Flush(w)
    PROVE  OwnLinks(w)
  <1> DEFINE a == arch[w]
             b == target[w]
  <1>1. /\ a \in Archive /\ b \in Bundle /\ Pages[a] \subseteq KeysOf(b)
        /\ pc[w] \notin Deleting /\ batch[w] \in Batch /\ pc[w] \in Storing
    BY IngestKnows
    DEF Flush, Storing, Serving, TypeInv, Requests, RequestTypeOK
  <1>2. PICK c \in Chunks(batch[w]) : /\ node' = RunNodes(node, c, a)
                                     /\ link' = RunLinks(node', link, c)
                                     /\ batch' = [batch EXCEPT ![w] = Without(batch[w], c)]
    BY DEF Flush
  <1>3. /\ batch'[w] = Without(batch[w], c) /\ pc'[w] = "flushing"
        /\ UNCHANGED <<arch, target, kind, tainted>>
    BY <1>2
    DEF Flush, Goto, Serving, TypeInv, Requests, RequestTypeOK, request, ghosts
  <1>4. /\ c \in Batch /\ c.upd \subseteq batch[w].upd /\ c.ins \subseteq batch[w].ins
        /\ c.add \subseteq batch[w].add /\ c.del \subseteq batch[w].del
        /\ c.upd \cap (batch[w].ins \ c.ins) = {}
        /\ c.add # {} => c.ins = batch[w].ins /\ c.upd = batch[w].upd
    BY <1>1, ChunkFacts
  <1>5. /\ batch[w].upd \subseteq Pages[a]
        /\ \A e \in batch[w].add \cup batch[w].del : e[1] \in Pages[a]
    BY DEF Flush, Serving, ScopeInv, ScopeOK
  <1>6. /\ \A k \in batch[w].upd : k \in batch[w].ins \/ node[k] # NoRow
        /\ \A e \in batch[w].add : e[1] \in batch[w].upd \/ HasBlob(node, e[1])
    BY DEF Flush, Serving, LinkInv, FlushInv
  <1>7. /\ \A k \in Key : node[k] # NoRow => node'[k] # NoRow
        /\ \A k \in Key : HasBlob(node, k) => HasBlob(node', k)
        /\ \A k \in c.ins : node'[k] # NoRow
        /\ \A k \in c.upd : HasBlob(node', k)
    <2>1. /\ \A k \in Key : node[k] # NoRow => node'[k] # NoRow
          /\ \A k \in Key : HasBlob(node, k) => HasBlob(node', k)
          /\ \A k \in c.ins : node'[k] # NoRow
          /\ \A k \in c.upd : k \in c.ins \/ node[k] # NoRow => HasBlob(node', k)
      BY <1>1, <1>2, <1>4, RunNodesFacts DEF Serving, TypeInv, StoreTypeOK
    <2> QED
      BY <1>4, <1>6, <2>1
  <1>8. ASSUME b \notin tainted PROVE LinksOK(w)'
    <2>1. /\ \A k \in KeysOf(b) \ Pages[a] : Complete(k)
          /\ \A k \in Pages[a] : \A d \in Refs[a][k] :
                <<k, d>> \in link \/ <<k, d>> \in batch[w].add
          /\ \A e \in batch[w].add : e[2] \in batch[w].ins \/ node[e[2]] # NoRow
          /\ \A e \in batch[w].del : e[2] \notin Refs[a][e[1]]
      BY <1>1, <1>8 DEF CompleteInv, LinksOK
    <2>2. \A e \in c.add : node'[e[1]] # NoRow /\ node'[e[2]] # NoRow
      <3> TAKE e \in c.add
      <3>1. e \in batch[w].add /\ e[1] \in Key /\ e[2] \in Key
        BY <1>4 DEF Batch, Link
      <3>2. node'[e[2]] # NoRow
        BY <1>4, <1>7, <2>1, <3>1
      <3>3. HasBlob(node', e[1])
        BY <1>4, <1>6, <1>7, <3>1
      <3> QED
        BY <3>2, <3>3, GraphAssumption DEF HasBlob
    <2>3. \A e \in Link : e \in link \/ e \in c.add => e \in link' \/ e \in c.del
      BY <1>2, <2>2 DEF RunLinks
    <2>4. \A k \in KeysOf(b) \ Pages[a] : Complete(k)'
      <3> SUFFICES ASSUME NEW k \in KeysOf(b) \ Pages[a], HasBlob(node', k),
                          NEW d \in Refs[node'[k]][k]
                   PROVE  <<k, d>> \in link'
        BY DEF Complete, HasBlob
      <3>1. k \in Key /\ k \notin c.upd
        BY <1>4, <1>5 DEF KeysOf
      <3>2. node'[k] = IF k \in c.ins /\ node[k] = NoRow THEN Stub ELSE node[k]
        BY <1>1, <1>2, <1>4, <3>1, RunNodesValue DEF Serving, TypeInv, StoreTypeOK
      <3>3. node'[k] = node[k] /\ node[k] \in Archive
        BY <3>2, GraphAssumption DEF HasBlob
      <3>4. <<k, d>> \in link
        BY <2>1, <3>3 DEF Complete, HasBlob
      <3>5. <<k, d>> \notin c.del
        BY <1>4, <1>5
      <3> QED
        BY <1>2, <3>4, <3>5 DEF RunLinks
    <2>5. \A k \in Pages[a] : \A d \in Refs[a][k] :
             <<k, d>> \in link' \/ <<k, d>> \in batch'[w].add
      <3> TAKE k \in Pages[a]
      <3> TAKE d \in Refs[a][k]
      <3>1. <<k, d>> \in Link
        BY <1>1, GraphAssumption DEF Link, KeysOf
      <3>2. <<k, d>> \notin c.del
        BY <1>4, <2>1
      <3> QED
        BY <1>3, <2>1, <2>3, <3>1, <3>2 DEF Without
    <2>6. \A e \in batch'[w].add : e[2] \in batch'[w].ins \/ node'[e[2]] # NoRow
      BY <1>1, <1>3, <1>7, <2>1 DEF Without, Batch, Link
    <2>7. \A e \in batch'[w].del : e[2] \notin Refs[a][e[1]]
      BY <1>3, <2>1 DEF Without
    <2> QED
      BY <1>3, <2>4, <2>5, <2>6, <2>7 DEF LinksOK
  <1>9. LinksOK(w)'
    BY <1>3, <1>8 DEF LinksOK
  <1> QED
    BY <1>1, <1>3, <1>7, <1>9
    DEF OwnLinks, Touch, AtWork, Storing, Deleting, CompleteInv, NothingDeleted

LEMMA FillIndexLinks ==
    ASSUME Serving, CompleteInv, NEW w \in Worker, FillIndex(w)
    PROVE  OwnLinks(w)
  <1>1. /\ IngestOK(w) /\ LinksOK(w) /\ pc[w] \notin Deleting /\ pc[w] = "indexing"
        /\ batch[w] = NoStmts
    BY IngestKnows
    DEF FillIndex, Storing, CompleteInv, Serving, ScopeInv, ScopeOK
  <1>2. pc'[w] = "replying" /\ UNCHANGED <<node, link, tainted, kind>>
    BY DEF FillIndex, Goto, Serving, TypeInv, Requests, RequestTypeOK, request,
           ghosts
  <1>3. ASSUME target[w] \notin tainted
        PROVE  \A k \in KeysOf(target[w]) : Complete(k)'
    <2>1. /\ \A k \in KeysOf(target[w]) \ Pages[arch[w]] : Complete(k)
          /\ \A k \in Pages[arch[w]] : \A d \in Refs[arch[w]][k] : <<k, d>> \in link
          /\ \A k \in Pages[arch[w]] : node[k] = arch[w]
      BY <1>1, <1>3 DEF IngestOK, LinksOK, Storing, NoStmts
    <2> QED
      BY <1>2, <2>1 DEF Complete, HasBlob
  <1> QED
    BY <1>1, <1>2, <1>3
    DEF OwnLinks, LinksOK, Touch, Storing, Deleting, CompleteInv, NothingDeleted

LEMMA ActorComplete ==
    ASSUME Exclusive, Ops \subseteq {"put", "reingest"}, Serving, CompleteInv,
           NEW w \in Worker, Actor(w)
    PROVE  CompleteInv'
  <1> SUFFICES OwnLinks(w)
    BY OwnLinksSuffices
  <1>0. kind[w] \in {"put", "reingest"} /\ pc[w] \notin Deleting
    BY DEF CompleteInv, NothingDeleted
  <1>1. ASSUME NEW a \in Archive, Put(w, a) PROVE OwnLinks(w)
    BY <1>1, <1>0, CalmLinks DEF Put, Arrive, Goto, Serving, TypeInv, Requests,
                              RequestTypeOK, Storing, Deleting, store, graph,
                              request, ghosts
  <1>2. ASSUME NEW S \in SUBSET Bundle, Reingest(w, S) PROVE OwnLinks(w)
    BY <1>2, <1>0, CalmLinks DEF Reingest, Arrive, Goto, Serving, TypeInv,
                              Requests, RequestTypeOK, Storing, Deleting,
                              store, graph, request, ghosts
  <1>3. ASSUME NEW b \in Bundle, NEW op \in {"delete", "deleteRaw"}, Delete(w, b, op) PROVE OwnLinks(w)
    BY <1>3 DEF Delete, Arrive
  <1>4. ASSUME Clear(w) PROVE OwnLinks(w)
    BY <1>4 DEF Clear, Arrive
  <1>5. ASSUME ClearRaw(w) PROVE OwnLinks(w)
    BY <1>5 DEF ClearRaw, Arrive
  <1>6. ASSUME SendStart(w) PROVE OwnLinks(w)
    BY <1>6, <1>0, CalmLinks DEF SendStart, Finish, Goto, Serving, TypeInv,
                              Requests, RequestTypeOK, Storing, Deleting,
                              store, graph, request, ghosts
  <1>7. ASSUME SendWarning(w) PROVE OwnLinks(w)
    BY <1>7, <1>0, CalmLinks DEF SendWarning, Finish, Goto, Serving, TypeInv,
                              Requests, RequestTypeOK, Storing, Deleting,
                              store, graph, request, ghosts
  <1>8. ASSUME SendDone(w) PROVE OwnLinks(w)
    BY <1>8, <1>0, CalmLinks DEF SendDone, Finish, Goto, Serving, TypeInv,
                              Requests, RequestTypeOK, Storing, Deleting,
                              store, graph, request, ghosts
  <1>9. ASSUME SendFailure(w) PROVE OwnLinks(w)
    BY <1>9, <1>0, CalmLinks DEF SendFailure, Finish, Goto, Serving, TypeInv,
                              Requests, RequestTypeOK, Storing, Deleting,
                              store, graph, request, ghosts
  <1>10. ASSUME ClientLeaves(w) PROVE OwnLinks(w)
    <2>1. UNCHANGED <<store, pc, request, work, tainted>>
      BY <1>10 DEF ClientLeaves, ghosts
    <2>2. CASE pc[w] \in Storing
      BY <2>1, <2>2, KeepLinks DEF store, graph, request, work
    <2>3. CASE pc[w] \notin Storing
      BY <1>0, <2>1, <2>3, CalmLinks DEF store, graph, request, Deleting
    <2> QED
      BY <2>2, <2>3
  <1>11. ASSUME ArchiveRaw(w) PROVE OwnLinks(w)
    BY <1>11, <1>0, CalmLinks DEF ArchiveRaw, Goto, Serving, TypeInv, Requests,
                              RequestTypeOK, Storing, Deleting, store, graph,
                              request, ghosts
  <1>12. ASSUME ArchiveFails(w) PROVE OwnLinks(w)
    BY <1>12, <1>0, CalmLinks DEF ArchiveFails, Goto, Serving, TypeInv, Requests,
                              RequestTypeOK, Storing, Deleting, store, graph,
                              request, ghosts
  <1>13. ASSUME ListRaw(w) PROVE OwnLinks(w)
    BY <1>13, <1>0, CalmLinks DEF ListRaw, Finish, Goto, Serving, TypeInv,
                              Requests, RequestTypeOK, Storing, Deleting,
                              store, graph, request, ghosts
  <1>14. ASSUME NextEntry(w) PROVE OwnLinks(w)
    BY <1>14, <1>0, CalmLinks DEF NextEntry, Finish, Goto, Serving, TypeInv,
                              Requests, RequestTypeOK, Storing, Deleting,
                              store, graph, request, ghosts
  <1>15. ASSUME ReadRaw(w) PROVE OwnLinks(w)
    BY <1>15, <1>0, CalmLinks DEF ReadRaw, Goto, Serving, TypeInv, Requests,
                              RequestTypeOK, Storing, Deleting, store, graph,
                              request, ghosts
  <1>16. ASSUME ReadFails(w) PROVE OwnLinks(w)
    BY <1>16, <1>0, CalmLinks DEF ReadFails, Finish, Goto, Serving, TypeInv,
                              Requests, RequestTypeOK, Storing, Deleting,
                              store, graph, request, ghosts
  <1>17. ASSUME Reject(w) PROVE OwnLinks(w)
    BY <1>17, <1>0, CalmLinks DEF Reject, Goto, Serving, TypeInv, Requests,
                              RequestTypeOK, Storing, Deleting, store, graph,
                              request, ghosts
  <1>18. ASSUME Prefetch(w) PROVE OwnLinks(w)
    BY <1>18, PrefetchLinks
  <1>19. ASSUME Flush(w) PROVE OwnLinks(w)
    BY <1>19, FlushLinks
  <1>20. ASSUME FlushFails(w) PROVE OwnLinks(w)
    BY <1>20, KeepLinks DEF FlushFails, Abandon, Goto, Serving, TypeInv, Requests,
                        RequestTypeOK, Storing, store, graph, request
  <1>21. ASSUME NEW k \in Key, PutBlob(w, k) PROVE OwnLinks(w)
    BY <1>21, KeepLinks DEF PutBlob, Goto, Serving, TypeInv, Requests,
                        RequestTypeOK, Storing, graph, request, work, ghosts
  <1>22. ASSUME NEW k \in Key, PutBlobFails(w, k) PROVE OwnLinks(w)
    BY <1>22, KeepLinks DEF PutBlobFails, Abandon, Goto, Serving, TypeInv,
                        Requests, RequestTypeOK, Storing, store, graph,
                        request
  <1>23. ASSUME PutMeta(w) PROVE OwnLinks(w)
    BY <1>23, KeepLinks DEF PutMeta, Goto, Serving, TypeInv, Requests,
                        RequestTypeOK, Storing, graph, request, work, ghosts
  <1>24. ASSUME PutMetaFails(w) PROVE OwnLinks(w)
    BY <1>24, KeepLinks DEF PutMetaFails, Abandon, Goto, Serving, TypeInv,
                        Requests, RequestTypeOK, Storing, store, graph,
                        request
  <1>25. ASSUME Record(w) PROVE OwnLinks(w)
    BY <1>25, KeepLinks DEF Record, Goto, Serving, TypeInv, Requests,
                        RequestTypeOK, Storing, graph, request, work, ghosts
  <1>26. ASSUME DropIndex(w) PROVE OwnLinks(w)
    BY <1>26, KeepLinks DEF DropIndex, Goto, Serving, TypeInv, Requests,
                        RequestTypeOK, Storing, graph, request, work, ghosts
  <1>27. ASSUME FillIndex(w) PROVE OwnLinks(w)
    BY <1>27, FillIndexLinks
  <1>28. ASSUME CommitFails(w) PROVE OwnLinks(w)
    BY <1>28, KeepLinks DEF CommitFails, Abandon, Goto, Serving, TypeInv,
                        Requests, RequestTypeOK, Storing, store, graph,
                        request
  <1>29. ASSUME DeleteRows(w) PROVE OwnLinks(w)
    BY <1>29, <1>0 DEF DeleteRows, Deleting
  <1>30. ASSUME ClearRows(w) PROVE OwnLinks(w)
    BY <1>30, <1>0 DEF ClearRows, Deleting
  <1>31. ASSUME NEW k \in Key, RemoveBlob(w, k) PROVE OwnLinks(w)
    BY <1>31, <1>0 DEF RemoveBlob, Deleting
  <1>32. ASSUME RemoveTree(w) PROVE OwnLinks(w)
    BY <1>32, <1>0 DEF RemoveTree, Deleting
  <1>33. ASSUME RemoveFails(w) PROVE OwnLinks(w)
    BY <1>33, <1>0 DEF RemoveFails, Deleting
  <1>34. ASSUME NEW b \in Bundle, RemoveRaw(w, b) PROVE OwnLinks(w)
    BY <1>34, <1>0 DEF RemoveRaw, Deleting
  <1> QED
    BY <1>1, <1>2, <1>3, <1>4, <1>5, <1>6, <1>7, <1>8, <1>9, <1>10, <1>11,
       <1>12, <1>13, <1>14, <1>15, <1>16, <1>17, <1>18, <1>19, <1>20, <1>21,
       <1>22, <1>23, <1>24, <1>25, <1>26, <1>27, <1>28, <1>29, <1>30, <1>31,
       <1>32, <1>33, <1>34
    DEF Actor, Request, Step, Fault

LEMMA NextComplete ==
    ASSUME Exclusive, Ops \subseteq {"put", "reingest"}, Serving, CompleteInv,
           [Next]_vars
    PROVE  CompleteInv'
  <1>1. ASSUME NEW o \in orphans, OrphanPut(o) PROVE CompleteInv'
    BY <1>1 DEF OrphanPut, graph, request, work, ghosts, CompleteInv,
       NothingDeleted, AtWork, LinksOK, Complete, HasBlob
  <1>2. ASSUME Crash PROVE CompleteInv'
    <2>1. /\ \A w \in Worker : pc'[w] = "idle" /\ kind'[w] = "put"
          /\ \A w \in Worker : scope[w] \subseteq tainted'
          /\ tainted \subseteq tainted' /\ UNCHANGED <<node, link>>
      BY <1>2 DEF Crash, graph
    <2>2. ASSUME NEW b \in Bundle, b \notin tainted', NEW k \in KeysOf(b)
          PROVE  Complete(k)'
      <3>1. \A w \in Worker : ~AtWork(w, b)
        BY <2>1, <2>2 DEF Serving, ScopeInv, ScopeOK, AtWork
      <3> QED
        BY <2>1, <2>2, <3>1 DEF CompleteInv, Complete, HasBlob
    <2> QED
      BY <2>1, <2>2 DEF CompleteInv, NothingDeleted, LinksOK, Storing, Deleting
  <1>3. ASSUME UNCHANGED vars PROVE CompleteInv'
    BY <1>3 DEF vars, store, graph, request, work, ghosts, CompleteInv,
       NothingDeleted, AtWork, LinksOK, Complete, HasBlob
  <1> QED
    BY <1>1, <1>2, <1>3, ActorComplete DEF Next, Actor

\* And as long as nothing is deleted, no link that the content makes is missing,
\* whichever chunk of which batch inserts the rows it joins.
THEOREM LinksAreComplete ==
    Exclusive /\ Ops \subseteq {"put", "reingest"} => (Spec => []NoMissingLinks)
  <1> SUFFICES ASSUME Exclusive, Ops \subseteq {"put", "reingest"}
               PROVE  Spec => []NoMissingLinks
    OBVIOUS
  <1>1. Init => CompleteInv
    BY GraphAssumption
    DEF Init, CompleteInv, NothingDeleted, Complete, HasBlob, LinksOK, Storing,
        Deleting, KeysOf
  <1>2. Serving /\ CompleteInv /\ [Next]_vars => CompleteInv'
    BY NextComplete
  <1>3. ASSUME Serving, CompleteInv, NEW b \in Bundle, Sound(b),
               NEW k \in KeysOf(b), HasBlob(node, k), NEW d \in Refs[node[k]][k]
        PROVE  d \in OutLinks(link, k)
    <2>1. \A w \in Worker : ~AtWork(w, b)
      BY <1>3 DEF Serving, ScopeInv, ScopeOK, Sound, Unattended, AtWork
    <2>2. <<k, d>> \in link
      BY <1>3, <2>1 DEF CompleteInv, Complete, Sound
    <2>3. <<k, d>> \in {f \in link : f[1] = k}
      BY <2>2
    <2> QED
      BY <2>3 DEF OutLinks
  <1>4. Serving /\ CompleteInv => NoMissingLinks
    BY <1>3 DEF NoMissingLinks
  <1> QED
    BY <1>1, <1>2, <1>4, ServingAlways, PTL DEF Spec
-----------------------------------------------------------------------------
(* A batch deletes no link that the artifact makes.                         *)

UnlinkInv ==
    \A w \in Worker : pc[w] \in {"staged", "flushing"} =>
        \A e \in batch[w].del : e[2] \notin Refs[arch[w]][e[1]]

\* A step of a request goes to a state with statements to run from one with as
\* many or more, or from the prefetch.
LEMMA HowStaged ==
    ASSUME TypeInv, NEW w \in Worker, Actor(w), pc'[w] \in {"staged", "flushing"}
    PROVE  \/ Prefetch(w)
           \/ /\ pc[w] \in {"staged", "flushing"} /\ arch'[w] = arch[w]
              /\ batch'[w].del \subseteq batch[w].del
  <1> DEFINE Goal == \/ Prefetch(w)
                     \/ /\ pc[w] \in {"staged", "flushing"} /\ arch'[w] = arch[w]
                        /\ batch'[w].del \subseteq batch[w].del
  <1> USE DEF TypeInv, Requests, RequestTypeOK
  <1>1. ASSUME NEW a \in Archive, Put(w, a) PROVE Goal
    BY <1>1
    DEF Put, Arrive, Goto, request, work
  <1>2. ASSUME NEW S \in SUBSET Bundle, Reingest(w, S) PROVE Goal
    BY <1>2
    DEF Reingest, Arrive, Goto, request, work
  <1>3. ASSUME NEW b \in Bundle, NEW op \in {"delete", "deleteRaw"}, Delete(w, b, op) PROVE Goal
    BY <1>3
    DEF Delete, Arrive, Goto, request, work
  <1>4. ASSUME Clear(w) PROVE Goal
    BY <1>4
    DEF Clear, Arrive, Goto, request, work
  <1>5. ASSUME ClearRaw(w) PROVE Goal
    BY <1>5
    DEF ClearRaw, Arrive, Goto, request, work
  <1>6. ASSUME SendStart(w) PROVE Goal
    BY <1>6
    DEF SendStart, Finish, Goto, request, work
  <1>7. ASSUME SendWarning(w) PROVE Goal
    BY <1>7
    DEF SendWarning, Finish, Goto, request, work
  <1>8. ASSUME SendDone(w) PROVE Goal
    BY <1>8
    DEF SendDone, Finish, Goto, request, work
  <1>9. ASSUME SendFailure(w) PROVE Goal
    BY <1>9
    DEF SendFailure, Finish, Goto, request, work
  <1>10. ASSUME ClientLeaves(w) PROVE Goal
    BY <1>10
    DEF ClientLeaves, request, work
  <1>11. ASSUME ArchiveRaw(w) PROVE Goal
    BY <1>11
    DEF ArchiveRaw, Goto, request, work
  <1>12. ASSUME ArchiveFails(w) PROVE Goal
    BY <1>12
    DEF ArchiveFails, Goto, request, work
  <1>13. ASSUME ListRaw(w) PROVE Goal
    BY <1>13
    DEF ListRaw, Finish, Goto, request, work
  <1>14. ASSUME NextEntry(w) PROVE Goal
    BY <1>14
    DEF NextEntry, Finish, Goto, request, work
  <1>15. ASSUME ReadRaw(w) PROVE Goal
    BY <1>15
    DEF ReadRaw, Goto, request, work
  <1>16. ASSUME ReadFails(w) PROVE Goal
    BY <1>16
    DEF ReadFails, Finish, Goto, request, work
  <1>17. ASSUME Reject(w) PROVE Goal
    BY <1>17
    DEF Reject, Goto, request, work
  <1>18. ASSUME Prefetch(w) PROVE Goal
    BY <1>18
  <1>19. ASSUME Flush(w) PROVE Goal
    BY <1>19 DEF Flush, Goto, Without, request, work
  <1>20. ASSUME FlushFails(w) PROVE Goal
    BY <1>20
    DEF FlushFails, Abandon, Goto, request, work
  <1>21. ASSUME NEW k \in Key, PutBlob(w, k) PROVE Goal
    BY <1>21
    DEF PutBlob, Goto, request, work
  <1>22. ASSUME NEW k \in Key, PutBlobFails(w, k) PROVE Goal
    BY <1>22
    DEF PutBlobFails, Abandon, Goto, request, work
  <1>23. ASSUME PutMeta(w) PROVE Goal
    BY <1>23
    DEF PutMeta, Goto, request, work
  <1>24. ASSUME PutMetaFails(w) PROVE Goal
    BY <1>24
    DEF PutMetaFails, Abandon, Goto, request, work
  <1>25. ASSUME Record(w) PROVE Goal
    BY <1>25
    DEF Record, Goto, request, work
  <1>26. ASSUME DropIndex(w) PROVE Goal
    BY <1>26
    DEF DropIndex, Goto, request, work
  <1>27. ASSUME FillIndex(w) PROVE Goal
    BY <1>27
    DEF FillIndex, Goto, request, work
  <1>28. ASSUME CommitFails(w) PROVE Goal
    BY <1>28
    DEF CommitFails, Abandon, Goto, request, work
  <1>29. ASSUME DeleteRows(w) PROVE Goal
    BY <1>29
    DEF DeleteRows, Goto, request, work
  <1>30. ASSUME ClearRows(w) PROVE Goal
    BY <1>30
    DEF ClearRows, Goto, request, work
  <1>31. ASSUME NEW k \in Key, RemoveBlob(w, k) PROVE Goal
    BY <1>31
    DEF RemoveBlob, Goto, request, work
  <1>32. ASSUME RemoveTree(w) PROVE Goal
    BY <1>32
    DEF RemoveTree, Finish, Goto, request, work
  <1>33. ASSUME RemoveFails(w) PROVE Goal
    BY <1>33
    DEF RemoveFails, Finish, Goto, request, work
  <1>34. ASSUME NEW b \in Bundle, RemoveRaw(w, b) PROVE Goal
    BY <1>34
    DEF RemoveRaw, Finish, Goto, request, work
  <1> QED
    BY <1>1, <1>2, <1>3, <1>4, <1>5, <1>6, <1>7, <1>8, <1>9, <1>10, <1>11,
       <1>12, <1>13, <1>14, <1>15, <1>16, <1>17, <1>18, <1>19, <1>20, <1>21,
       <1>22, <1>23, <1>24, <1>25, <1>26, <1>27, <1>28, <1>29, <1>30, <1>31,
       <1>32, <1>33, <1>34
    DEF Actor, Request, Step, Fault

LEMMA NextUnlinkInv ==
    ASSUME TypeInv, ScopeInv, UnlinkInv, [Next]_vars
    PROVE  UnlinkInv'
  <1>1. ASSUME NEW w \in Worker, Actor(w), NEW v \in Worker,
               pc'[v] \in {"staged", "flushing"}, NEW e \in batch'[v].del
        PROVE  e[2] \notin Refs[arch'[v]][e[1]]
    <2>1. CASE v # w
      BY <1>1, <2>1, ActorMeansOthersStay DEF OthersStay, UnlinkInv
    <2>2. CASE v = w /\ Prefetch(w)
      <3>1. PICK a, bs, rs : a = arch[w] /\ batch' = [batch EXCEPT ![w] = Stage(a, bs, rs)]
        BY <2>2 DEF Prefetch
      <3>2. batch'[w] = Stage(a, bs, rs) /\ arch'[w] = a
        BY <2>2, <3>1 DEF Prefetch, request, TypeInv, Requests, RequestTypeOK
      <3> QED
        BY <1>1, <2>2, <3>2 DEF Stage
    <2>3. CASE v = w /\ ~Prefetch(w)
      BY <1>1, <2>3, HowStaged DEF UnlinkInv
    <2> QED
      BY <2>1, <2>2, <2>3
  <1>2. ASSUME NEW o \in orphans, OrphanPut(o) PROVE UnlinkInv'
    BY <1>2 DEF OrphanPut, request, work, UnlinkInv
  <1>3. ASSUME Crash PROVE UnlinkInv'
    BY <1>3 DEF Crash, UnlinkInv
  <1>4. ASSUME UNCHANGED vars PROVE UnlinkInv'
    BY <1>4 DEF vars, request, work, UnlinkInv
  <1>5. ASSUME NEW w \in Worker, Actor(w) PROVE UnlinkInv'
    BY <1>1, <1>5 DEF UnlinkInv
  <1> QED
    BY <1>2, <1>3, <1>4, <1>5 DEF Next, Actor

-----------------------------------------------------------------------------
(* Steps.                                                                   *)

\* Between the steps below, pages show what they showed.
LEMMA ShownIsOfNodes ==
    UNCHANGED node => UNCHANGED Shown
  BY DEF Shown, HasBlob

\* A transaction of an ingest publishes a part of its artifact: the pages it
\* marks, and links only when no page is left to mark.
LEMMA FlushPublishes ==
    ASSUME Exclusive, Serving, UnlinkInv, tainted = {},
           NEW w \in Worker, Flush(w)
    PROVE  C!Next
  <1>1. /\ arch[w] \in Archive /\ Pages[arch[w]] \subseteq KeysOf(target[w])
        /\ batch[w] \in Batch /\ pc[w] \in {"staged", "flushing"}
        /\ IngestOK(w)
    BY IngestKnows
    DEF Flush, Storing, Serving, TypeInv, Requests, RequestTypeOK
  <1>2. PICK a, p, c : /\ a = arch[w] /\ p = batch[w] /\ c \in Chunks(p)
                       /\ node' = RunNodes(node, c, a)
                       /\ link' = RunLinks(node', link, c)
                       /\ batch' = [batch EXCEPT ![w] = Without(p, c)]
    BY DEF Flush
  <1>3. /\ batch'[w] = Without(p, c) /\ pc'[w] = "flushing"
        /\ UNCHANGED <<arch, target, hash, tainted>>
    BY <1>1, <1>2
    DEF Flush, Goto, Serving, TypeInv, Requests, RequestTypeOK, request, ghosts
  <1>4. /\ c \in Batch /\ c.upd \subseteq p.upd
        /\ c.add \subseteq p.add /\ c.del \subseteq p.del
        /\ c.add \cup c.del # {} => c.upd = p.upd
        /\ c.upd \cap (p.ins \ c.ins) = {}
    BY <1>1, <1>2, ChunkFacts
  <1>5. /\ a \in Archive /\ Pages[a] \subseteq Key
        /\ c.upd \subseteq Pages[a]
        /\ \A e \in c.add \cup c.del : e[1] \in Pages[a]
        /\ \A e \in c.add : e[2] \in Refs[a][e[1]]
        /\ \A e \in c.del : e[2] \notin Refs[a][e[1]]
    <2>1. p.upd \subseteq Pages[a] /\ \A e \in p.add \cup p.del : e[1] \in Pages[a]
      BY <1>1, <1>2 DEF Serving, ScopeInv, ScopeOK
    <2>2. \A e \in p.del : e[2] \notin Refs[a][e[1]]
      BY <1>1, <1>2 DEF UnlinkInv
    <2>3. target[w] \notin tainted /\ pc[w] \in Storing
      BY <1>1 DEF Storing
    <2>4. \A e \in p.add : e[2] \in Refs[a][e[1]]
      BY <1>1, <1>2, <2>3 DEF IngestOK
    <2> QED
      BY <1>1, <1>2, <1>4, <2>1, <2>2, <2>4 DEF KeysOf
  <1>6. \A k \in Key :
           node'[k] = IF k \in c.upd THEN a
                      ELSE IF k \in c.ins /\ node[k] = NoRow THEN Stub
                                                             ELSE node[k]
    <2>1. \A k \in p.upd : k \in p.ins \/ node[k] # NoRow
      BY <1>1, <1>2 DEF Serving, LinkInv, FlushInv
    <2>2. \A k \in c.upd : k \in c.ins \/ node[k] # NoRow
      BY <1>4, <2>1
    <2> QED
      BY <1>2, <1>4, <1>5, <2>2, RunNodesValue DEF Serving, TypeInv, StoreTypeOK
  <1>7. Shown' = [k \in Key |-> IF k \in c.upd THEN a ELSE Shown[k]]
    BY <1>5, <1>6, GraphAssumption DEF Shown, HasBlob
  <1>8. link' = (link \cup (c.add \cap link')) \ c.del
    BY <1>2 DEF RunLinks
  <1>9. ASSUME c.add \cup c.del # {}, NEW k \in Pages[a] PROVE Shown'[k] = a
    <2>1. IngestOK(w)' /\ target'[w] \notin tainted'
      BY <1>3, FlushOwn DEF Own
    <2>2. batch'[w].upd = {}
      BY <1>3, <1>4, <1>9 DEF Without
    <2>3. node'[k] = a
      BY <1>2, <1>3, <1>9, <2>1, <2>2 DEF IngestOK, Storing
    <2> QED
      BY <1>5, <1>9, <2>3 DEF Shown, HasBlob
  <1>10. c.add \subseteq Link /\ c.del \subseteq Link
    BY <1>4 DEF Batch
  <1>11. /\ c.add \cap link' \in SUBSET C!LinksOf(a)
         /\ c.del \in SUBSET (C!LinksFrom(a) \ C!LinksOf(a))
    BY <1>5, <1>10 DEF C!LinksOf, C!LinksFrom, Link, C!Link
  <1>12. C!Publish(a, c.upd, c.add \cap link', c.del)
    BY <1>3, <1>7, <1>8, <1>9 DEF C!Publish, C!Shows
  <1> QED
    BY <1>5, <1>11, <1>12 DEF C!Next

LEMMA RecordRecords ==
    ASSUME Exclusive, Serving, tainted = {}, NEW w \in Worker, Record(w)
    PROVE  C!Record(arch[w])
  <1>1. /\ arch[w] \in Archive /\ BundleOf[arch[w]] = target[w]
        /\ Pages[arch[w]] \subseteq KeysOf(target[w]) /\ IngestOK(w)
    BY IngestKnows DEF Record, Storing
  <1>2. batch[w] = NoStmts
    BY DEF Record, Serving, ScopeInv, ScopeOK
  <1>3. \A k \in Pages[arch[w]] :
           /\ node[k] = arch[w]
           /\ \A d \in Key : <<k, d>> \in link => d \in Refs[arch[w]][k]
    BY <1>1, <1>2 DEF Record, IngestOK, Storing, NoStmts
  <1>4. C!Shows(arch[w])
    BY <1>1, <1>3 DEF C!Shows, Shown, HasBlob, KeysOf
  <1>5. link \cap C!LinksFrom(arch[w]) \subseteq C!LinksOf(arch[w])
    BY <1>3 DEF C!LinksOf, C!LinksFrom, Link, C!Link
  <1>6. UNCHANGED <<Shown, link>>
    BY ShownIsOfNodes DEF Record
  <1> QED
    BY <1>1, <1>4, <1>5, <1>6 DEF Record, C!Record

LEMMA DeleteWithdraws ==
    ASSUME Serving, NEW w \in Worker, DeleteRows(w)
    PROVE  C!Withdraw({target[w]})
  <1>1. /\ node \in [Key -> NodeRow] /\ link \in SUBSET Link
        /\ hash \in [Bundle -> Archive \cup {Nothing}]
    BY DEF Serving, TypeInv, StoreTypeOK
  <1>2. Shown' = [k \in Key |-> IF Owner[k] \in {target[w]}
                                THEN Nothing ELSE Shown[k]]
    BY <1>1, GraphAssumption DEF DeleteRows, DropNodes, Shown, HasBlob
  <1>3. link' = {e \in link : /\ Owner[e[1]] \notin {target[w]}
                              /\ Owner[e[2]] \notin {target[w]}}
    BY DEF DeleteRows, DropLinks
  <1>4. hash' = [b \in Bundle |-> IF b \in {target[w]} THEN Nothing ELSE hash[b]]
    BY <1>1 DEF DeleteRows
  <1> QED
    BY <1>2, <1>3, <1>4 DEF C!Withdraw

LEMMA ClearWithdraws ==
    ASSUME Serving, NEW w \in Worker, ClearRows(w)
    PROVE  C!Withdraw(Bundle)
  <1>1. link \in SUBSET Link /\ Owner \in [Key -> Bundle]
    BY GraphAssumption DEF Serving, TypeInv, StoreTypeOK
  <1>2. Shown' = [k \in Key |-> IF Owner[k] \in Bundle THEN Nothing ELSE Shown[k]]
    BY <1>1, GraphAssumption DEF ClearRows, Shown, HasBlob
  <1>3. link' = {e \in link : Owner[e[1]] \notin Bundle /\ Owner[e[2]] \notin Bundle}
    BY <1>1 DEF ClearRows, Link
  <1>4. hash' = [b \in Bundle |-> IF b \in Bundle THEN Nothing ELSE hash[b]]
    BY DEF ClearRows
  <1> QED
    BY <1>2, <1>3, <1>4 DEF C!Withdraw

-----------------------------------------------------------------------------
(* Every other step of a request leaves alone what the catalog has.         *)

LEMMA OthersStutter ==
    ASSUME NEW w \in Worker, Actor(w),
           ~Flush(w), ~Record(w), ~DeleteRows(w), ~ClearRows(w)
    PROVE  UNCHANGED <<node, link, hash>>
  <1>1. ASSUME NEW a \in Archive, Put(w, a) PROVE UNCHANGED <<node, link, hash>>
    BY <1>1 DEF Put, Arrive, store, graph
  <1>2. ASSUME NEW S \in SUBSET Bundle, Reingest(w, S) PROVE UNCHANGED <<node, link, hash>>
    BY <1>2 DEF Reingest, Arrive, store, graph
  <1>3. ASSUME NEW b \in Bundle, NEW op \in {"delete", "deleteRaw"}, Delete(w, b, op) PROVE UNCHANGED <<node, link, hash>>
    BY <1>3 DEF Delete, Arrive, store, graph
  <1>4. ASSUME Clear(w) PROVE UNCHANGED <<node, link, hash>>
    BY <1>4 DEF Clear, Arrive, store, graph
  <1>5. ASSUME ClearRaw(w) PROVE UNCHANGED <<node, link, hash>>
    BY <1>5 DEF ClearRaw, Arrive, store, graph
  <1>6. ASSUME SendStart(w) PROVE UNCHANGED <<node, link, hash>>
    BY <1>6 DEF SendStart, store, graph
  <1>7. ASSUME SendWarning(w) PROVE UNCHANGED <<node, link, hash>>
    BY <1>7 DEF SendWarning, store, graph
  <1>8. ASSUME SendDone(w) PROVE UNCHANGED <<node, link, hash>>
    BY <1>8 DEF SendDone, store, graph
  <1>9. ASSUME SendFailure(w) PROVE UNCHANGED <<node, link, hash>>
    BY <1>9 DEF SendFailure, store, graph
  <1>10. ASSUME ClientLeaves(w) PROVE UNCHANGED <<node, link, hash>>
    BY <1>10 DEF ClientLeaves, store, graph
  <1>11. ASSUME ArchiveRaw(w) PROVE UNCHANGED <<node, link, hash>>
    BY <1>11 DEF ArchiveRaw, store, graph
  <1>12. ASSUME ArchiveFails(w) PROVE UNCHANGED <<node, link, hash>>
    BY <1>12 DEF ArchiveFails, store, graph
  <1>13. ASSUME ListRaw(w) PROVE UNCHANGED <<node, link, hash>>
    BY <1>13 DEF ListRaw, store, graph
  <1>14. ASSUME NextEntry(w) PROVE UNCHANGED <<node, link, hash>>
    BY <1>14 DEF NextEntry, store, graph
  <1>15. ASSUME ReadRaw(w) PROVE UNCHANGED <<node, link, hash>>
    BY <1>15 DEF ReadRaw, store, graph
  <1>16. ASSUME ReadFails(w) PROVE UNCHANGED <<node, link, hash>>
    BY <1>16 DEF ReadFails, store, graph
  <1>17. ASSUME Reject(w) PROVE UNCHANGED <<node, link, hash>>
    BY <1>17 DEF Reject, store, graph
  <1>18. ASSUME Prefetch(w) PROVE UNCHANGED <<node, link, hash>>
    BY <1>18 DEF Prefetch, store, graph
  <1>19. ASSUME FlushFails(w) PROVE UNCHANGED <<node, link, hash>>
    BY <1>19 DEF FlushFails, store, graph
  <1>20. ASSUME NEW k \in Key, PutBlob(w, k) PROVE UNCHANGED <<node, link, hash>>
    BY <1>20 DEF PutBlob, store, graph
  <1>21. ASSUME NEW k \in Key, PutBlobFails(w, k) PROVE UNCHANGED <<node, link, hash>>
    BY <1>21 DEF PutBlobFails, store, graph
  <1>22. ASSUME PutMeta(w) PROVE UNCHANGED <<node, link, hash>>
    BY <1>22 DEF PutMeta, store, graph
  <1>23. ASSUME PutMetaFails(w) PROVE UNCHANGED <<node, link, hash>>
    BY <1>23 DEF PutMetaFails, store, graph
  <1>24. ASSUME DropIndex(w) PROVE UNCHANGED <<node, link, hash>>
    BY <1>24 DEF DropIndex, store, graph
  <1>25. ASSUME FillIndex(w) PROVE UNCHANGED <<node, link, hash>>
    BY <1>25 DEF FillIndex, store, graph
  <1>26. ASSUME CommitFails(w) PROVE UNCHANGED <<node, link, hash>>
    BY <1>26 DEF CommitFails, store, graph
  <1>27. ASSUME NEW k \in Key, RemoveBlob(w, k) PROVE UNCHANGED <<node, link, hash>>
    BY <1>27 DEF RemoveBlob, store, graph
  <1>28. ASSUME RemoveTree(w) PROVE UNCHANGED <<node, link, hash>>
    BY <1>28 DEF RemoveTree, store, graph
  <1>29. ASSUME RemoveFails(w) PROVE UNCHANGED <<node, link, hash>>
    BY <1>29 DEF RemoveFails, store, graph
  <1>30. ASSUME NEW b \in Bundle, RemoveRaw(w, b) PROVE UNCHANGED <<node, link, hash>>
    BY <1>30 DEF RemoveRaw, store, graph
  <1> QED
    BY <1>1, <1>2, <1>3, <1>4, <1>5, <1>6, <1>7, <1>8, <1>9, <1>10, <1>11,
       <1>12, <1>13, <1>14, <1>15, <1>16, <1>17, <1>18, <1>19, <1>20, <1>21,
       <1>22, <1>23, <1>24, <1>25, <1>26, <1>27, <1>28, <1>29, <1>30
    DEF Actor, Request, Step, Fault

LEMMA StepImplements ==
    ASSUME Exclusive, Serving, UnlinkInv, tainted = {}, [Next]_vars
    PROVE  C!Next \/ UNCHANGED C!vars
  <1>1. UNCHANGED <<node, link, hash>> => UNCHANGED C!vars
    BY ShownIsOfNodes DEF C!vars
  <1>2. ASSUME NEW w \in Worker, Flush(w) PROVE C!Next
    BY <1>2, FlushPublishes
  <1>3. ASSUME NEW w \in Worker, Record(w) PROVE C!Next
    <2>1. arch[w] \in Archive
      BY <1>3, IngestKnows DEF Record, Storing
    <2> QED
      BY <1>3, <2>1, RecordRecords DEF C!Next
  <1>4. ASSUME NEW w \in Worker, DeleteRows(w) PROVE C!Next
    <2>1. {target[w]} \in SUBSET Bundle
      BY <1>4 DEF DeleteRows, Serving, ScopeInv, ScopeOK, TypeInv, Requests,
         RequestTypeOK
    <2> QED
      BY <1>4, <2>1, DeleteWithdraws DEF C!Next
  <1>5. ASSUME NEW w \in Worker, ClearRows(w) PROVE C!Next
    BY <1>5, ClearWithdraws DEF C!Next
  <1>6. ASSUME NEW o \in orphans, OrphanPut(o) PROVE UNCHANGED <<node, link, hash>>
    BY <1>6 DEF OrphanPut, graph
  <1>7. ASSUME Crash PROVE UNCHANGED <<node, link, hash>>
    BY <1>7 DEF Crash, graph
  <1>8. ASSUME UNCHANGED vars PROVE UNCHANGED <<node, link, hash>>
    BY <1>8 DEF vars, store, graph
  <1>9. ASSUME NEW w \in Worker, Actor(w) PROVE C!Next \/ UNCHANGED C!vars
    BY <1>1, <1>2, <1>3, <1>4, <1>5, <1>9, OthersStutter
  <1> QED
    BY <1>1, <1>6, <1>7, <1>8, <1>9 DEF Next, Actor

LEMMA InitImplements == Init => C!Init
  BY GraphAssumption DEF Init, C!Init, Shown, HasBlob

\* Requests that do not overlap on a bundle implement the catalog for as long
\* as no crash and no failure leaves a bundle half-written: what the pages show,
\* the links between them and the recorded artifacts change as if an artifact
\* was published part by part, one for each transaction, pages first, recorded
\* when all of it is there and nothing of an earlier one is, and withdrawn in a
\* single step (Ingester.ingestBundle with its prefetched diff, deleteBundle,
\* GraphDb.clear), wherever DB_CHUNK_SIZE cuts the batch.  A file fault that
\* only costs an archive entry or ends a re-ingest does not matter.
THEOREM WholeStoreIsACatalog ==
    Exclusive => (Spec /\ [](tainted = {}) => C!Spec)
  <1> SUFFICES ASSUME Exclusive
               PROVE  Spec /\ [](tainted = {}) => C!Spec
    OBVIOUS
  <1>1. Init => C!Init /\ UnlinkInv
    BY InitImplements DEF Init, UnlinkInv
  <1>2. Serving /\ UnlinkInv /\ [Next]_vars => UnlinkInv'
    BY NextUnlinkInv DEF Serving
  <1>3. Serving /\ UnlinkInv /\ tainted = {} /\ [Next]_vars => [C!Next]_(C!vars)
    BY StepImplements
  <1> QED
    BY <1>1, <1>2, <1>3, ServingAlways, PTL DEF Spec, C!Spec

\* Nothing is left half-written if nothing crashes and nothing fails.
WholeInv ==
    budget["crash"] = 0 /\ budget["fault"] = 0 /\ tainted = {}

LEMMA NextWholeInv ==
    ASSUME TypeInv, WholeInv, [Next]_vars
    PROVE  WholeInv'
  <1> USE DEF WholeInv, Supply, TypeInv, ServerTypeOK
  <1>1. ASSUME NEW w \in Worker, Request(w) PROVE WholeInv'
    BY <1>1
    DEF Request, Put, Reingest, Delete, Clear, ClearRaw, Arrive, Spend, ghosts
  <1>2. ASSUME NEW w \in Worker, Step(w) PROVE WholeInv'
    BY <1>2
    DEF Step, SendStart, SendWarning, SendDone, SendFailure, ArchiveRaw, ListRaw,
        NextEntry, ReadRaw, Reject, Prefetch, Flush, PutBlob, PutMeta, Record,
        DropIndex, FillIndex, DeleteRows, ClearRows, Cleanse, RemoveBlob,
        RemoveTree, RemoveRaw, ghosts
  <1>3. ASSUME NEW w \in Worker, Fault(w) PROVE FALSE
    BY <1>3
    DEF Fault, ArchiveFails, ReadFails, FlushFails, PutBlobFails, PutMetaFails,
        CommitFails, RemoveFails, Spend
  <1>4. ASSUME NEW w \in Worker, ClientLeaves(w) PROVE WholeInv'
    BY <1>4 DEF ClientLeaves, Spend, ghosts
  <1>5. ASSUME NEW o \in orphans, OrphanPut(o) PROVE WholeInv'
    BY <1>5 DEF OrphanPut, ghosts
  <1>6. ~Crash
    BY DEF Crash, Spend
  <1>7. ASSUME UNCHANGED vars PROVE WholeInv'
    BY <1>7 DEF vars, ghosts
  <1> QED
    BY <1>1, <1>2, <1>3, <1>4, <1>5, <1>6, <1>7 DEF Next

\* So a server that neither crashes nor meets a failing file or transaction is
\* a catalog, whatever else is uploaded, re-ingested, deleted and cleared, and
\* whichever clients leave.
THEOREM StoreIsACatalog ==
    Exclusive /\ Budget["crash"] = 0 /\ Budget["fault"] = 0
        => (Spec => IsCatalog)
  <1> SUFFICES ASSUME Exclusive, Budget["crash"] = 0, Budget["fault"] = 0
               PROVE  Spec => IsCatalog
    OBVIOUS
  <1>1. Init => WholeInv
    BY DEF Init, WholeInv
  <1>2. TypeInv /\ WholeInv /\ [Next]_vars => WholeInv'
    BY NextWholeInv
  <1>3. Serving => TypeInv
    BY DEF Serving
  <1>4. WholeInv => tainted = {}
    BY DEF WholeInv
  <1>5. Spec => [](tainted = {})
    BY <1>1, <1>2, <1>3, <1>4, ServingAlways, PTL DEF Spec
  <1>6. Spec /\ [](tainted = {}) => C!Spec
    BY WholeStoreIsACatalog
  <1> QED
    BY <1>5, <1>6, PTL DEF IsCatalog
=============================================================================
