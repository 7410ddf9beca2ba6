----------------------------- MODULE GraphStore -----------------------------
(***************************************************************************)
(* The graph tables of the papyri store and the statements ingest runs on  *)
(* them (ingest/src/ingest.ts, ingest/src/graph-db.ts,                     *)
(* ingest/src/delete-bundle.ts, ingest/migrations/0001_init.sql).          *)
(*                                                                         *)
(* A row of `nodes' is known by its key; the table is a function that      *)
(* gives NoRow for a key without a row, Stub for a row whose has_blob is 0 *)
(* (some page refers to the key, nobody uploaded it) and, for a row whose  *)
(* has_blob is 1, the archive whose content the row's digest is of.  The   *)
(* table `links' is a set of pairs of keys.  Everything here is an         *)
(* operator on those two values: the state is in IngestStore.              *)
(***************************************************************************)
EXTENDS Integers, FiniteSets

CONSTANTS
    Bundle,     \* the (package, version) pairs
    Key,        \* the (module, version, kind, path) keys of pages and refs
    Owner,      \* the bundle a key belongs to
    Asset,      \* the keys of kind "assets"
    Archive,    \* the .papyri artifacts that may be uploaded
    BundleOf,   \* the bundle an artifact says it is
    Pages,      \* the keys that ingesting an artifact stages
    Refs,       \* the keys that a page of an artifact refers to
    NoRow,      \* there is no row for this key
    Stub,       \* there is a row and its has_blob is 0
    ChunkSize   \* DB_CHUNK_SIZE: statements per transaction

ASSUME GraphAssumption ==
    /\ Owner \in [Key -> Bundle]
    /\ Asset \subseteq Key
    /\ BundleOf \in [Archive -> Bundle]
    /\ Pages \in [Archive -> SUBSET Key]
    /\ Refs \in [Archive -> [Key -> SUBSET Key]]
    /\ \A a \in Archive : /\ Pages[a] # {}
                          /\ \A k \in Pages[a] : Owner[k] = BundleOf[a]
                          /\ \A k \in Asset : Refs[a][k] = {}
    /\ NoRow \notin Archive /\ Stub \notin Archive /\ NoRow # Stub

ASSUME ChunkAssumption == ChunkSize \in Nat \ {0}

Link == Key \X Key
NodeRow == Archive \cup {NoRow, Stub}

\* The keys of a bundle.
KeysOf(b) == {k \in Key : Owner[k] = b}

\* The rows with has_blob = 1.
HasBlob(node, k) == node[k] \in Archive

\* What the page k links to.
OutLinks(link, k) == {e[2] : e \in {f \in link : f[1] = k}}

-----------------------------------------------------------------------------
(* The statements of one ingest, by kind.  `ins' are insNode, `upd' are     *)
(* updBlob, `add' are insLink and `del' are delLink.                        *)

Batch == [ins : SUBSET Key, upd : SUBSET Key,
          add : SUBSET Link, del : SUBSET Link]

NoStmts == [ins |-> {}, upd |-> {}, add |-> {}, del |-> {}]

\* _fetchExistingBlobKeys: the pages of b the store already has.
ExistingBlobs(node, b) == {k \in KeysOf(b) : HasBlob(node, k)}

\* _fetchAllForwardRefsForBundle: the links whose source is a page of b.
ExistingRefs(link, b) == {e \in link : Owner[e[1]] = b}

\* Mutant of Stage: the links that are no longer wanted are not deleted.
StageKeepingOldLinks(a, blobs, refs) ==
    LET old(k) == IF k \in blobs \ Asset THEN OutLinks(refs, k) ELSE {}
        added  == {e \in Link : /\ e[1] \in Pages[a]
                                /\ e[2] \in Refs[a][e[1]] \ old(e[1])}
    IN  [ins |-> Pages[a] \cup {e[2] : e \in added}, upd |-> Pages[a],
         add |-> added, del |-> {}]

\* Mutant of Stage: rows are inserted for the pages only, not for the refs.
StageWithoutStubs(a, blobs, refs) ==
    LET old(k) == IF k \in blobs \ Asset THEN OutLinks(refs, k) ELSE {}
    IN  [ins |-> Pages[a], upd |-> Pages[a],
         add |-> {e \in Link : /\ e[1] \in Pages[a]
                               /\ e[2] \in Refs[a][e[1]] \ old(e[1])},
         del |-> {e \in Link : /\ e[1] \in Pages[a]
                               /\ e[2] \in old(e[1]) \ Refs[a][e[1]]}]

\* _buildBatchStmts, for every page of the artifact: the refs a page had and
\* those it has now, as statements.  A page that was not there, and an asset,
\* has no old refs whatever the tables hold.
Stage(a, blobs, refs) ==
    LET old(k)  == IF k \in blobs \ Asset THEN OutLinks(refs, k) ELSE {}
        added   == {e \in Link : /\ e[1] \in Pages[a]
                                 /\ e[2] \in Refs[a][e[1]] \ old(e[1])}
        removed == {e \in Link : /\ e[1] \in Pages[a]
                                 /\ e[2] \in old(e[1]) \ Refs[a][e[1]]}
    IN  [ins |-> Pages[a] \cup {e[2] : e \in added},
         upd |-> Pages[a],
         add |-> added,
         del |-> removed]

Size(c) == Cardinality(c.ins) + Cardinality(c.upd)
              + Cardinality(c.add) + Cardinality(c.del)

Without(c, d) == [ins |-> c.ins \ d.ins, upd |-> c.upd \ d.upd,
                  add |-> c.add \ d.add, del |-> c.del \ d.del]

SubBatches(c) == [ins : SUBSET c.ins, upd : SUBSET c.upd,
                  add : SUBSET c.add, del : SUBSET c.del]

\* Mutant of Precedes: each page's links go with its own row, before the rest.
PrecedesByPage(d, c) == \A e \in d.add \cup d.del : e[1] \notin c.ins \ d.ins

\* d may run before the rest of c: a row is inserted before it is updated, and
\* the statements on nodes precede those on links.
Precedes(d, c) ==
    /\ d.upd \cap (c.ins \ d.ins) = {}
    /\ d.add \cup d.del # {} => d.ins = c.ins /\ d.upd = c.upd

\* _flushGraphStmts: what the next transaction may hold.
Chunks(c) == IF Size(c) <= ChunkSize
             THEN {c}
             ELSE {d \in SubBatches(c) : Size(d) = ChunkSize /\ Precedes(d, c)}

-----------------------------------------------------------------------------
(* What a transaction does to the tables.                                   *)

\* Mutant of InsertNodes: INSERT OR REPLACE, which resets has_blob.
InsertNodesReplacing(node, ks) ==
    [k \in Key |-> IF k \in ks THEN Stub ELSE node[k]]

\* INSERT OR IGNORE INTO nodes: a row that is there stays as it is.
InsertNodes(node, ks) ==
    [k \in Key |-> IF k \in ks /\ node[k] = NoRow THEN Stub ELSE node[k]]

\* UPDATE nodes SET has_blob=1, digest=?: nothing happens without a row.
MarkBlobs(node, ks, a) ==
    [k \in Key |-> IF k \in ks /\ node[k] # NoRow THEN a ELSE node[k]]

RunNodes(node, c, a) == MarkBlobs(InsertNodes(node, c.ins), c.upd, a)

\* INSERT OR IGNORE INTO links takes both ids from subqueries: an end without
\* a row gives NULL, and the statement is ignored.
RunLinks(node, link, c) ==
    (link \cup {e \in c.add : node[e[1]] # NoRow /\ node[e[2]] # NoRow}) \ c.del

\* Mutant of DropLinks: only the links from the bundle's pages go.
DropLinksOut(link, b) == {e \in link : Owner[e[1]] # b}

\* The batch of deleteBundle: its rows go, and the links from and to them.
DropNodes(node, b) == [k \in Key |-> IF Owner[k] = b THEN NoRow ELSE node[k]]
DropLinks(link, b) == {e \in link : Owner[e[1]] # b /\ Owner[e[2]] # b}
=============================================================================
