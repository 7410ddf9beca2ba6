# Papyri, in TLA+

Papyri documents Python libraries in two halves. A *maintainer* runs
`papyri gen` over an installed library; the result is a *bundle directory*, which
`papyri pack` turns into one `.papyri` artifact and `papyri upload` sends to a
*viewer*. The viewer's server archives the artifact, *ingests* it into a graph
of pages and links and a directory of page blobs, and renders pages of every
library it has from those, with links that cross libraries.

This directory holds TLA+ models of the parts of Papyri whose correctness
depends on order, failure or overlap, the TLC configurations that check them on
small instances, and theorems about them that TLAPS has checked for every size.
`PROJECT.json` maps each definition to the lines it stands for, each property to
the run that checks it and to a mutation of the code that the run catches.

## 1. The system

| Component | State it keeps | Operations | Talks to |
|---|---|---|---|
| **gen** (`papyri/gen.py`, `error_collector.py`) | the collected pages, assets, examples; a diagnostics list; the expected errors not seen yet; the bundle directory | `collect_api_docs`, `collect_narrative_docs`, `collect_examples(_out)`, `write`, `partial_write`, the `error_on_warning` gate | the library under documentation; the bundle directory |
| **transforms** (`tree.py`, `directives.py`, `doc.py`; `ts.py`, `examples.py`, `numpydoc_compat.py`, `signature.py`) | kept for the whole run: section labels, label index, assets, the plot counter, diagnostics | parsing RST, resolving roles, labels, substitutions and directives | gen |
| **IR** (`nodes.py`, `node_base.py`, `serde.py`) | none | typed nodes, CBOR encoding | everything |
| **toc** (`toc.py`) | none that outlives one run | assembling `toctree` directives to one tree | gen |
| **pack** (`pack.py`, `cli/pack.py`) | the artifact file | layout check, reading every page, one canonical CBOR document, gzip | bundle directory, upload |
| **upload client** (`cli/upload.py`) | a verdict per path | dedup query, PUT, reading the event stream | server |
| **store endpoints** (`viewer/src/pages/api/{bundle,reingest,delete-bundle,clear,clear-raw}.ts`) | requests in progress, event streams | PUT, re-ingest, delete, clear | ingest, archive, client |
| **raw archive** (`ingest/src/raw-store.ts`) | one artifact file and one `.meta.json` per bundle | put, get, list, delete, clear | store endpoints |
| **ingest** (`ingest/src/ingest.ts`, `graph-db.ts`, `blob-store.ts`, `delete-bundle.ts`) | tables `nodes`, `links`, `bundles`, `node_index`; blob files; `meta.cbor` | `ingestBundle`, `deleteBundle`, `clear` | SQLite, file system |
| **accounts** (`viewer/src/lib/auth-db.ts`, `auth.ts`, `passkey.ts`, `pages/api/{auth,account,projects,users}*`) | users, sessions, projects, members, upload tokens, credentials, challenges | sign-in, sessions, last-admin guard, tokens, passkeys | SQLite |
| **reading** (`viewer/src/lib/{graph,ir-reader,nav,xref,links,version-utils,backends}.ts`, pages) | `_navCache`, cached backends | page lookup, back-references, navigation, version choice | ingest's tables and blobs |
| **rendering** (`viewer/src/components`, `render-node.ts`, `search.ts`, `math.ts`) | none | IR to HTML | reading |
| **injectors** (`bundle_edit.py`, `cli/unpack.py`) | a bundle directory | patching and adding pages and toc entries, taking an artifact apart | bundle directory |
| **tools** (`cli/{find,describe,diff,debug,lint,about,bootstrap}.py`, `graphstore.py`) | none | inspection | bundle directory, store |

How they interact: gen and pack share the bundle directory and nothing else; the
upload client and the server share the content hash (`GET /api/bundle`) and the
event stream of a PUT; the endpoints, ingest and the reading pages share the
tables and the files with no lock between them. The server is one Node process:
its SQLite calls are synchronous, everything else is awaited.

What is hard:

- **No failure atomicity in ingest.** Rows, blobs, `meta.cbor`, the `bundles` row
  and `node_index` are written one after another, in several transactions, and a
  process may die or a write fail anywhere. The row in `bundles` is last and is
  what the next ingest and the upload client judge by.
- **Overlap.** Two requests on one bundle are not kept apart. An ingest reads the
  old links, yields at each progress event, and writes a difference to what it
  read. Blob writers go on after the ingest has been reported as failed.
- **Links across bundles.** An ingest of one bundle inserts placeholder rows for
  pages of others; a deletion of one takes away links of others.
- **The archive as the truth.** Everything else is to be rebuildable from it, but
  it is written first and its failure is a warning.
- **A bundle directory that is overwritten in place** by `papyri gen`, removed
  recursively before it is written, with the manifest last.
- **Diagnostics and expected errors** cross exceptions, context managers and
  early exits before they decide the exit status.
- **State shared by documents.** Section labels, the label index, pictures, the
  plot counter, the references of toctrees and the open figures of matplotlib
  outlive the document that made them; the order of the visits, and a document
  that fails half-way, show in the others.
- **Order of search.** Breadth first or depth first, the nearest scope or the
  longest ending, first or last definition: each choice is one line of code and
  decides where links and names lead in the whole bundle.

What makes each component correct:

- *ingest*: the links can be joined whatever happened; what `bundles`, `nodes`,
  `node_index`, the blobs and `meta.cbor` say of a bundle agree; a page's links
  are those its content makes; a request touches its own bundles only.
- *raw archive and re-ingest*: a re-ingest makes the store serve the archive; the
  archive holds what the store serves, or nothing.
- *store endpoints*: every request ends; no step of it is lost when the client is.
- *gen*: a directory with a manifest is the complete output of one run; a run that
  fails before writing leaves the previous output; an object is left out only
  when a step for it failed, and what failed decides the exit status.
- *object collection*: every object of the package that can be reached is found;
  the short name given to it leads to it; a page shows what its own examples did.
- *transforms*: a link leads where the innermost meaning of its name is; what is
  not resolved is reported; a document that fails takes no other along.
- *toc and pack*: the tree is the listing of the pages; what gen writes, pack
  takes, or refuses for a reason the author can act on.
- *injectors and unpack*: running one again changes nothing; a directory that is
  broken off is not packed; packing and unpacking are inverse to one another.
- *upload client*: what it reports as uploaded is stored; a doubtful dedup never
  loses an upload.
- *accounts*: an admin remains; sessions, tokens and memberships are of existing
  users; a challenge is used once.
- *reading*: a link is shown as resolving only where the page exists; caches
  follow the store.

## 2. Plan

| # | Modules | What for | State |
|---|---|---|---|
| 1 | `GraphStore`, `IngestStore`, `DeletedStore`, `IngestStoreProofs` | requests on the store: statements, transactions, files, crashes, failures, overlap; what a deletion leaves | done |
| 2 | `Catalog`, `IngestRefinement`, `IngestServedProofs` | what the store promises to the pages, and that it keeps it | done |
| 3 | `GenRun`, `GenRunProofs` | runs of `papyri gen` and the directory they leave | done |
| 4 | `UploadClient`, `UploadClientProofs` | runs of `papyri upload`: what exit status 0 means | done |
| 5 | `DocTree`, `DocTreeProofs` | toctrees, the tree `toc._tree` makes of them, the reference checks of `pack`, against what the lines mean | done |
| 6 | `References`, `DocVisit`, `DocVisitProofs` | resolution of names, roles, labels, substitutions and directives over all documents of a run | done |
| 7 | `BundleDir`, `BundleDirProofs` | injectors, pack with all its checks, unpack, killed and repeated | done |
| 8 | `ObjectScan`, `ApiPass`, `ApiPassProofs` | the objects of a package, their names, their examples and figures | done |

Each module takes its sizes from CONSTANTS with a named assumption, has one
action per operation and states invariants as conjunctions of named parts, so
that it can be proved about. `IngestRefinement` composes `IngestStore` with the
abstract `Catalog`, `DocVisit` builds on `References`, and `ApiPass` on
`ObjectScan`: the pages whose examples it runs are the objects the scan found.

Every invariant and action property of the passing runs is a theorem, some under
the conditions section 5 lists; liveness stays with TLC. A model of the accounts and one of the readers' memo would be the next
modules; see section 6.

## 3. The modules

### GraphStore: the statements on `nodes` and `links`

State functions only. A page (`Key`) has a row: `NoRow`, `Stub` (a row with
`has_blob = 0`, inserted because another page refers to it) or the artifact its
digest is of. A `Batch` is what `_buildBatchStmts` makes of an artifact: rows to
insert, rows to mark, links to insert and links to delete. `Stage` computes it
from the artifact and the prefetched links, `Precedes` is the order the
statements are concatenated in, `Chunks` the ways `_flushGraphStmts` may cut a
prefix of `ChunkSize` statements. `RunNodes`, `RunLinks`, `DropNodes` and
`DropLinks` are the effects of a transaction.

### IngestStore: the server at work on its store

`node`, `link`, `hash`, `index` are the tables `nodes`, `links`, `bundles` and
`node_index`; `blob`, `meta`, `raw` the files of the blob store and of the raw
archive. A *worker* is a request in progress: `pc` is the await it is at, `kind`
the endpoint. One action is what a handler does between two awaits. Where
several transactions follow one another without a file operation or an event
between them, each is an action, because the process may die between them, and
`drain` keeps other handlers out, because the event loop does.

- A PUT is `Put`, `SendStart`, `ArchiveRaw` (or `ArchiveFails` and
  `SendWarning`), `Reject` or `Prefetch` (the row in `bundles`, the keys and the
  links the bundle has), then `Flush` transaction by transaction and `PutBlob` for
  each page, then `PutMeta`, `Record`, `DropIndex`, `FillIndex`, `SendDone`.
- A re-ingest is `Reingest`, `ListRaw`, and for each entry in order `NextEntry`,
  `ReadRaw` and the ingest as above; a failing entry is a warning.
- `DeleteRows`, `RemoveTree`, `RemoveRaw` are `deleteBundle`; `ClearRows` and
  `RemoveBlob` the clear; `RemoveRaw` also clears the archive.
- `Abandon`: when one call of an ingest fails, the blob writes that other workers
  of `_putBlobsConcurrent` have begun go on; they are `orphans`.
- `ClientLeaves` closes the stream; every later event to it rejects, and the
  handler takes its error path. `Crash` kills the process: transactions and
  finished files stay, a file being written may be left torn.

Assumptions: only the process crashes, so a committed transaction is durable
(WAL, `synchronous = NORMAL`) and a finished file stays. Foreign keys play no
part because the code deletes links explicitly. A file written during a
recursive removal survives it. The `.meta.json` sidecar is part of an archive
entry. Which bundles are in the scope of a re-ingest is all or one. With
`Exclusive` the environment makes no two *requests* on one bundle at one time;
nothing in the code sees to that, and the run `ingest_overlap` is without it.
Blob writes of a failed ingest are no request: with `Exclusive`, too, the next
upload, deletion or clear of the bundle may come while they are under way
(`Late`), as nobody waits for them in the code.

Ghosts: `tainted` are bundles that a crash or a failing call has left
half-written. A deletion or a clear makes good again (`Cleanse`), unless late writes
are under way when it begins: one of those may land after it. An upload makes
nothing good, as the code repairs nothing. `unarchived` are bundles whose last
archive write failed.

`DeletedStore` adds a history variable: the bundles a deletion has left without a
file and no request has come for since. It states what `clear.ts` and
`blob-store.ts` say of a deletion, which a late write breaks.

### Catalog and IngestRefinement: what the store promises

`Catalog` knows neither statements nor files: a page shows an artifact's content; an
artifact is published in parts, as `DB_CHUNK_SIZE` may cut its batch, and a link of
it is touched only when all its pages show it, added only if the content makes it and
taken away only if it does not; it is recorded while all of it is shown and no
link of an earlier content is left; it is withdrawn with all its pages and links at
once. `IngestRefinement` maps `page[k]` to the row's digest and states that the store
implements it, for every `ChunkSize`: the claim behind the diff of links.

### GenRun: runs of `papyri gen`

A library is a function from *spots* (a step of the run and its item) to the
exception that step raises, chosen when a run starts and unknown to it. Three kinds of
spot are complaints that fail nothing: of numpydoc's normalization (`normalized`,
emitted before the second block of an object, whatever becomes of it), of the
tokenizer (`syntax`, scripts) and of the visitor (`lint`: objects, scripts and
pages). `Diagnosed` emits what a step has to say; the gate counts it. The run takes its objects one by one through `Extract`, `Numpydoc`, `Prepare` and
`Visit`; two of these are blocks of the one `ErrorCollector` (`Block`,
`Verdict`), the others have handlers of their own. Then `RunScript`, `VisitDoc`,
and the directory: `RemoveFile` in any order, `WriteFile` in the order of
`Gen.write`, `WriteDone` with `papyri.json` last, and `Gate`. `Accident` is a
kill, an interrupt or a failing write anywhere, and tears the file being written.
Assets and `toc.json` are not items; gen and pack do not run at one time.

Ghosts: `before` is the directory when a run started, `output` what each run set
out to write, `patched` whether a run with `--only` or a broken-off removal has
been at the directory since it was last written as a whole.

### UploadClient: runs of `papyri upload`

A run takes its paths in turn: `Load`, `Ask` (the dedup query) or `AskInVain`
(every failure of it counts as "no"), `Decide`, `Send` or `Refused`, `ReadLine`,
and one of `Verdict` (end of stream), `Unparseable`, `IdleTimeout` and `Escape`
(an exception that none of the three handlers takes). `NextPath` is the loop.
The server is what a run can tell of it: the content hash (`row`), how far each
upload has come (`job`), the outcome on its way (`word`), and the connection,
which may be cut so that it looks broken or so that it looks ended (`wire`).
`gone` is that the server can no longer write to the run; by the code it then
stops before it has begun, or at a warning, and otherwise goes on to record.
Progress events are not modelled: the ingest swallows what goes wrong with them
and the run only echoes them. The store starts empty.

Ghosts: `held` are the uploads whose content `bundles` has had since their run
began, `withdrawn` the bundles that were deleted.

### DocTree: toctrees, the tree, and pack's view of it

A library is chosen at the start: what toctrees each page holds and which pages
fail to validate. `Flat` has the lines `_toctree_handler` keeps: it drops `self`,
patterns of a `:glob:`, and as comments all lines that begin with `..`, among
them `../page` without a title (`LooksLikeComment`). `VisitPage` is the loop of
`collect_narrative_docs`: a page registers these lines and the links they are shown
as only once it has validated. `StartTree` picks the root as `make_tree` does. The
recursion of `_tree` is a machine with a stack: `path` is the chain of calls and
`next` the line each of them is at; `Descend`, `SkipLine` and `Return` are its steps,
`AssertFails` and `TooDeep` the two ways it dies.
`Pack` then decides by `_check_toc_refs`, `_check_local_refs` and
`_check_orphan_docs`. Two resolutions of one line are kept apart because the
code has two: `Resolve` (`toc.py`, slices of keys) and `DocPath` (`tree.py`).
The properties compare them with a third, `Means`, which walks a line segment by
segment from the directory of its page. A page without toctrees among them makes
up what `gen` calls orphans.

### References: the resolution of one name or role

State functions: the index of `resolve_` (`Indexes`: several objects may have
one dotted key and the code's choice among them is the iteration order of a set,
hence nondeterministic), the search through the enclosing scopes and then by
endings, which meets the dotted key of an object and its own name with the colon
(`Resolve`, `SuffixHits`), See Also with aliases (`ResolveAlias`), and what
`replace_InlineRole` does with each kind of role. Components of names are strings
compared as a whole; nothing is parsed.

### DocVisit: the documents of one run

First `Collect` and the scan for labels fill the indexes; then every document is
visited in order: `todo` is what is still to be visited of it (a directive gives
way to what its handler returns, which is put in front and visited in turn), `out`
the nodes made so far. There is one action per kind of item and outcome. An
exception loses the document and nothing else; `resolver`, `assets`, `plots`,
`records` and the label indexes go on to the next one. Files that include each
other are a single item whose visit ends at the recursion limit.
`Depth` bounds no behaviour: it says how deep `LossHasACause` looks for the cause.

### BundleDir: a directory under injectors, pack and unpack

A directory is a function from file names to what they hold, a page its sections
(title, level, who wrote it), the flaws pack looks for and the references it
makes. `gen` is the initial state. An injector goes over its pages, each page
and then the toc being a write of its own; `pack` reads, checks in the order of
`read_bundle_dir` and writes; `unpack` starts a new directory and writes it file by file, the manifest last. Each
may be killed at any file. Ghosts: `origin`, `injected`, `source` (see the
module). One command at a time.

### ObjectScan and ApiPass: from a package to its pages

A package is a graph of objects with ordered members. The queue of
`DFSCollector` is `open`; `Visit` is one round of `scan` with `visit` and the
`visit_*` method of the object's kind, `Pass` a round that does nothing. The
collector is breadth first, whatever its name says, and the property on names
depends on it. `Select` is `compute_aliases` with `find_canonical` and the head
of `collect_api_docs`. `prune`, between the two, has no action: it takes out what is
filed under another name than its own, and `AllOwnedFound` says there is nothing of
the kind. Nor has the `RuntimeError` of `visit`: it takes an object `full_qual` has no
answer for, such as a module without a name.

`ApiPass` then runs the blocks of each docstring in order; `open_figs` are the
figures matplotlib holds for the process. `report_success` saves and closes them,
or one of them cannot be saved, which leaves the object out and the figures open
(`SaveFails`). An object is left out as well when its runner or its docstring is refused,
before any example is run (`RefuseExamples`), and when the source of an example that is
reported or shown has no tokens (`TokensFail`), with what it drew still open. An
example under the SKIP option is passed over: no report, and nothing on the page (`Skip`).

## 4. The runs

Runs that pass:

| Run | States | Checks | Shows |
|---|---|---|---|
| `ingest_exclusive` | 605 000 | `TypeOK`, `FreshBundleIsEmpty`, `HashIsServed`, `RowMatchesBlob`, `NoPhantomLinks`, `RawIsServed`, `ReingestCoversArchive` | Requests of every kind, at most one on a bundle at a time, with a crash, a failing call and an artifact that ingest rejects: tables, files, index and archive agree for every bundle that has not been left half-written. Late blob writes of the failed ingest go on beside the requests after it. |
| `ingest_overlap` | 494 000 | `LinkEndsExist`, `LinkSourceUploaded`, `BystanderUntouched` | Requests that overlap on a bundle, transactions of three statements, a crash: the links stay joinable, and nobody disturbs a bundle no request is at work on. |
| `ingest_catalog` | 56 000 | `IsCatalog` | The store implements `Catalog`, with batches cut into several transactions: writing the difference to links read earlier leads to the links of the new content, rows come before links, and nothing is recorded before it is there. |
| `ingest_liveness` | 258 000 | `NoMissingLinks`, `EveryRequestEnds` | No deletions: a page has every link its content makes; every request ends, whatever fails and whoever leaves. |
| `gen_runs` | 820 000 | `CollectedIsWhatSucceeds`, `StrictRunIsClean`, `GateHolds`, `ArtifactIsOneRun`, `AbortKeepsBundle` | Two runs over every library with at most one failing step and one complaint, both of one item if there are both, each run with at most one unusual option, and one kill or write error anywhere. |
| `uploads` | 250 000 | `TypeOK`, `ExitZeroIsStored`, `LastPathIsServed`, `RunsEnd` | Two overlapping runs, with one lost connection, failing ingest, restart or deletion anywhere. |
| `doc_tree` | 63 000 | `TocFollowsLists`, `TocPassesPack`, `StrictPackIsNavigable`, `TreeGetsBuilt` | Every library of four pages with up to two toctrees out of thirteen and up to one failing page: gen's tree is the listing unfolded, as far as its lines are kept, pack takes it, and a strictly packed library can be read from its root. |
| `bundle_dir` | 684 000 | `InjectionIsIdempotent`, `InjectionKeepsPackable`, `UnpackedPacksAlike`, `BrokenOffIsRefused` | 192 directories under up to four commands, each of which may be killed at any file: an injector may be repeated, it spoils no bundle, unpack inverts pack, pack refuses a piece of a directory. |
| `doc_visit` | 274 000 | `LeftoversAreReported`, `LabelsLeadToFirst`, `LossHasACause`, `PlotFiguresAreKept`, `LinksMoveOnlyCloser`, `AllVisited` | A docstring and two pages with every choice of at most two of 48 items; apart from them, every growth of an index to four of ten objects, two pairs of which share a dotted name. |
| `api_pass` | 628 000 | `AllOwnedFound`, `CanonicalNameLeadsHome`, `ExamplesShownAsRun`, `LingeringFigureHasACause` | 256 package graphs under three lists of submodules, and up to three docstrings with every choice of a few examples (which may be skipped, or have no tokens) and options that are refused or not: what is found, how it is named, what the pages show. |

Runs that are violated, each by one thing the code does and a document or a
comment of the repository denies (quoted in `PROJECT.json`, "findings"):

| Run | Violates | Because |
|---|---|---|
| `rejected_upload` | `ArchiveIsIngestible` | the archive entry is replaced before the ingest rejects the artifact |
| `late_blob` | `ClearedStaysEmpty` | blob writes of a failed ingest go on; one lands after the deletion of the bundle has returned |

Other places where a comment or a document and the code part ways were met while
modelling and have no run of their own:

- `ingest.ts:257-259`, "For a fresh bundle both subsequent queries would return
  nothing": not after an ingest that failed or was killed behind its statements. It has
  no row in `bundles`, which is written last, but has pages and links, and those of a
  content that was never recorded stay (`PLAN.md:735-742`).
- `toc.py:46-48`, child references "may be relative (`../sibling`, `sub/page`)": a line
  `../page` without a title is dropped as a comment (`tree.py:1076`), without a word in
  the log. With a title it is kept and followed.
- `PLAN.md:108`, "RST substitutions never reach the IR", and `pack.py:750`: See Also items
  are sorted and linked but not visited (`gen.py:2172-2195`), so that a substitution in
  the description of one is written as it is, defined or not.
- `migrations/0005:14-16`, "never a false already uploaded": a re-upload broken
  off by a crash leaves the old hash beside new pages.
- `delete-bundle.ts:5-7`, inbound links "reappear once the bundle is re-uploaded":
  only those of bundles that are ingested again themselves.
- `error_collector.py:11-12`: an expected error that the second block of an object
  would raise is reported as unseen after the first (`error_collector.py:402`).
- `PLAN.md:972-974`, `upload` "accumulates and continues": what urllib raises while
  an answer is read ends the loop (`upload.py:426-444`).
- `toc.py:129-131`, a fallback root "not referenced by any other node": references
  as written (`sub/page`) are compared with keys (`sub:page`).
- `bundle_edit.py:20-27`, idempotence: a leading section of a higher heading level
  than the block makes the second run take the author's sections behind it along.
- `gen.py:2281-2293`, "if many names of the same depth, we bail": the collector
  keeps one path per object, so the alphabetically first one is taken; a
  configured submodule whose name the root gives to a function yields an alias
  that leads nowhere (`Shadowed`).
- `gen.py:1022`: figures stay open when `savefig` raises in `report_success`.
- `pack.py:250-253`, that gen validates LocalRefs: it does not (`PLAN.md:404-424`).
- Pictures are kept under their bare names and overwrite each other across
  directories (`PLAN.md:548`); an admonition with options loses its page
  (`PLAN.md:469, 597`), and one with a heading in its body loses the body.

Bounds. *Ingest*: two workers, three requests (four for the catalog), a bundle
with two pages and two successive artifacts, the second of which drops a page
and a link, and a bundle that refers to the first and is referred to by it. Three
requests are what it takes for an upload, its replacement and a re-ingest or a
deletion between or beside them; a third worker would only repeat what two do to
one another. `ChunkSize` 3 cuts every batch of the instance into several
transactions (`ingest_overlap`, `ingest_catalog`); 100 keeps it in one in the
other runs, as 500 does most batches of the code.
*Gen*: two runs are what it takes for one to meet what another left; a module
and a function are treated differently, and one each of the other items suffices
because items only meet through the collector and the directory; a complaint and a
failure are of one item because what is asked is whether it is reported when the item
is left out later. *Upload*: two
runs with one bundle in common, one with two artifacts of it or with a path that
does not load. *DocTree*: two directories and an `index` are what `..`, `dir/` and
the fallback root need, and two lines what a cycle or a page listed twice needs.
*DocVisit*: most state shared by documents shows between two items, of one
document or of two; the index is grown apart from the documents because a link
depends on nothing else of them. *BundleDir*: four commands are an injector that
is broken off, run again and packed, or pack, unpack, pack and one more.
*ApiPass*: the graphs have a re-export, a cycle, a foreign module, two objects of
one name and a shadowed submodule, each there or not; figures travel from one
docstring to the next, so three docstrings of up to two examples are enough for
one to leave figures, one to be lost to them and one to come after. Every run's cfg says `CHECK_DEADLOCK FALSE`: the budgets end, and
the program rests when there is nothing to do. Symmetry over workers is used in
the two runs that check safety only and not in those that check a temporal
property with fairness or a refinement.

Fairness. *Ingest*: weak fairness of each worker's `Step` and of orphan writes:
the event loop comes back to a handler whose await is settled, file operations
end, and a client reads its stream or leaves. *Upload*: weak fairness of the
client only; the server may stop answering for good, and `RunsEnd` rests on the
timeouts of both `urlopen` calls. Nothing is assumed to fail or not to fail.
*DocTree*, *DocVisit*: weak fairness of the next step: one thread that goes on.

## 5. What is proved

TLAPS has checked these for every value of the constants that satisfies the
modules' assumptions. The assumptions say what the constants stand for (files in
order, markers that are no content). The longest are those of `BundleDir`: pages, toc
and `papyri.json` (keys mapped to strings, numbers or lists) are of their types, a torn
file is of none of them, and a block that an injector patches in is headed by its title.
`ObjectScan` takes over what `DFSCollector.__init__` asserts of the root (`gen.py:402-405`),
and that the qualified names of objects are sequences of strings (`ObjectsAreNamed`).

| Theorem | Says | By |
|---|---|---|
| `IngestStoreProofs!TypeCorrect` | `Spec => []TypeOK` | `TypeInv`: besides the types, that a request being ingested has an artifact of its bundle, and that an archive entry that can be read is of the bundle it is filed under (`RawInv`); without these a re-ingest could put a page into a foreign bundle |
| `IngestStoreProofs!LinksJoinRows` | `Spec => []LinkEndsExist` | `LinkInv`: the statement is not inductive alone, because a batch that is cut in two has links still to be inserted; `FlushInv` says that their source has its row and its blob by then, and that no other handler can drop it in between (`drain`) |
| `IngestStoreProofs!LinksStartAtPages` | `Spec => []LinkSourceUploaded` | the same invariant |
| `IngestStoreProofs!BystandersUntouched` | `Spec => BystanderUntouched` | the footprint of a step (`ActorFootprint`): each action writes rows, links, files and index of one bundle only, which its request has as target or in its scope (`ScopeInv`), or of an orphan's page |
| `IngestServedProofs!RowsMatchBlobs`, `HashesAreServed`, `FreshBundlesAreEmpty`, `LinksAreOfTheContent` | `Exclusive => (Spec => []P)` for `RowMatchesBlob`, `HashIsServed`, `FreshBundleIsEmpty`, `NoPhantomLinks` | `ServedInv`, see below |
| `IngestServedProofs!LinksAreComplete` | `Exclusive /\ Ops \subseteq {"put", "reingest"} => (Spec => []NoMissingLinks)` | `CompleteInv`: every link that the content of a page makes is in the table or in the pending batch of the one request that has the page |
| `IngestServedProofs!ArchivesAreServed` | `Exclusive => (Spec => []RawIsServed)` | `ArchiveInv`: between archiving and recording, the entry is that of the request at work; a re-ingest carries what it read |
| `IngestServedProofs!ReingestsCoverTheArchive` | `Exclusive => (Spec => []ReingestCoversArchive)` | `CoverInv`: what a re-ingest has behind it is served, or a failure was reported for it |
| `IngestServedProofs!StoreIsACatalog`, `WholeStoreIsACatalog` | `Exclusive /\ no crash, no fault => (Spec => IsCatalog)`; and with crashes and faults, `Exclusive => (Spec /\ [](tainted = {}) => C!Spec)` | step by step: each transaction of `Flush` publishes a part, wherever `ChunkSize` cuts, `Record` is the catalog's recording, `DeleteRows` and `ClearRows` its withdrawal, every other action a stutter. A chunk touches links only when the rows are done (`Precedes`), and a batch deletes no link the artifact makes (`UnlinkInv`) |
| `GenRunProofs!GenTypeCorrect` | `Spec => []TypeOK` | `TypeInv` |
| `GenRunProofs!ArtifactsAreWhole` | `Spec => []ArtifactIsOneRun` | `ArtifactInv`: while a run collects, the manifest is an older run's (`ManifestIsOld`); while it writes there is none, and what is there is its own (`WritesAfresh`); what a run is to write is what it collected (`SetOut`); and a manifest stands for all its run set out to write (`ManifestStands`) |
| `GenRunProofs!AbortsKeepTheBundle` | `Spec => []AbortKeepsBundle` | `KeepInv`: until the directory is reached it is what it was at the start |
| `GenRunProofs!CollectedIsRight` | `Spec => []CollectedIsWhatSucceeds` | `CollectInv`: which items a run has behind it follows from the step it is in and from `todo` (`Settled`, `Heard`, `Ran`, `Read`); `pages` is those of them that succeed (`PagesInv`), each kind of report those that fail in its step (`RecordsInv`), and the object a run is on has passed the steps before (`AtInv`, `TodoInv`) |
| `GenRunProofs!StrictRunsAreClean` | `Spec => []StrictRunIsClean` | the same, with `StrictInv`: under `--fail-early` what a run has behind it has raised nothing `early_error` reaches. What it does not reach is left out all the same: a docstring numpydoc rejects, a source that does not parse, with fallback the output of a script |
| `GenRunProofs!TheGateHolds` | `Spec => []GateHolds` | the same, with `GateInv`: how a run ended follows from the reports it made, and these are the `Complaints` of the items it came to, those included that were left out later. The verdict comes after the directory is written: a gated run leaves a bundle |
| `UploadClientProofs!UploadTypeCorrect` | `Spec => []TypeOK` | `TypeInv`: a run that has loaded a path is within its list (`LoadedInv`), and the server works on artifacts of some command line (`JobInv`) |
| `UploadClientProofs!ExitZeroIsTrue` | `Spec => []ExitZeroIsStored` | `HeldInv`: `bundles` has had what it has now (`RowInv`), the server says `done` only of what it recorded (`OutcomeInv`), what the run was told it was told of the path it is at (`KnownInv`: the reset of its locals), and so every path behind it was stored as long as nothing has failed (`PrefixInv`) |
| `UploadClientProofs!LastPathStays` | `Spec => []LastPathIsServed` | `SettledInv`: a run for which nothing has failed has no upload behind it that could still be recorded (`BehindInv`), none ahead (`AheadInv`), and what it was told was said last (`SaidInv`); with that `ServedInv`: the row is the last of the run's artifacts that are stored. The boundary of "stored" runs through the path the run is at, hence `Stored` and `GoesWell` |
| `DocTreeProofs!TocIsAccepted` | `Spec => []TocPassesPack` | `TocInv`: only pages that are written are listed (`PagesInv`), and the calls of `_tree` in progress, and with them the nodes made, are of pages listed (`NodesInv`); the root is one of them, found or chosen first (`RootIsListed`) |
| `DocTreeProofs!TreeFollowsLists` | `Spec => []TocFollowsLists` | `TreeInv`: every node but the root is a line of the page above it (`ParentsInv`); each line before the one a call is at is handled, that is, malformed lines are left out and what the others of those kept mean is a node by now (`LinesAreHandled`, `CallsInv`); no node is made twice (`NodesAreNew`). The lines are the links and refs of the file in order (`LinesInv`), and `_resolve` finds what they mean (`ResolvesAsMeant`) |
| `DocTreeProofs!StrictPacksAreNavigable` | `Spec => []StrictPackIsNavigable` | `NavInv`: with `TreeInv`, the end of every node is reached from the root by lists (`NodesAreReached`), and a strict pack has seen every page in the toc (`PackedInv`). `ClosureIsComplete`: the rounds of the closure grow until they stop, which by counting is after at most as many as there are pages |
| `DocVisitProofs!LeftoversReported`, `LinksLeadToFirst` | `Spec /\ []PlainDescriptions => []P` for `LeftoversAreReported`, `LabelsLeadToFirst` | `VisitInv`: each node of each document, visited or waiting, is as the visits leave it (`GoodNode`): a role has its diagnostic on record, a link made of a label leads to the page the scan gave to it, and the scan keeps the first (`PagesScanned`). `ReplaceAnswers` lists the ways out of `replace_InlineRole` |
| `DocVisitProofs!PlotsAreKept` | `PicturesAreNoPlots => (Spec /\ []PlainDescriptions => []PlotFiguresAreKept)` | the same, with the counter of plots above every plot drawn |
| `DocVisitProofs!LossesHaveACause` | `DocumentsAreNested /\ Spec => []LossHasACause` | `LossInv`: a document the visits have behind them is written or has a cause (`BehindInv`); what is still to be visited is held by the document, and its sections are those not met yet, each at its place counted from the end (`AheadInv`); a label in the table is of a section met before, in the same document at a smaller place (`TableInv`), so a label that is taken is there twice. One lemma covers every item that gives way to others (`EmitHasCause`); included texts are without headings (`IncludedAreBodies`) |
| `DocVisitProofs!LinksOnlyMoveCloser` | `Spec => LinksMoveOnlyCloser` | nothing of the documents but `IndexInv`; the steps are lemmas about `Resolve`: a new name can only win at a nearer scope (`NameMovesCloser`, `DottedMovesCloser`) or as a longer ending (`EndingMoves`, `ClosestIsLongest`); an ending hits an object by its dotted key or by its own name, which end alike (`HitsHaveKeys`). Objects of one dotted name (`Shared`) may replace each other |
| `ApiPassProofs!TheScanIsComplete` | `WalkersAreThemselves /\ StandInsStay => (PackageIsGraph /\ Spec => []AllOwnedFound)` | `ScanInv`: every object seen that is the package's own is found or stands to be, and the members of what was walked are seen or still open; so the seen ones are closed under membership when nothing is open. `Reached`, a recursive function, is shown to exist and to unfold (`ReachedIs`), to be within every closed set and, by counting (`ReachedIsClosed`), to be closed itself after as many rounds as there are objects |
| `ApiPassProofs!PagesShowTheRun` | `PackageIsGraph /\ ExamplesAreLists /\ Spec => []ExamplesShownAsRun` | `ShownInv`: after `at` blocks of the object at work, the merged section shows those of them that are not skipped, in order, each under its own status (`SectionInv`, `WithinUpTo`), and so does every page done, for all blocks (`PagesInv`). `Compact` is taken apart stage by stage; figures in between do not disturb it |
| `ApiPassProofs!NamesLeadHome` | `WalkersAreThemselves /\ StandInsStay => (PackageIsGraph /\ KeysAreUnique /\ SubmodulesAtTheirNames /\ Spec => []CanonicalNameLeadsHome)` | `HomeInv`: looked up key by key, each path in the open list and each alias leads to its object. `NearInv`: the scan goes breadth first, so every path of keys leads to an object met after no more keys than it has (`PathsAreNear`); hence no shorter path of keys leads to the object a canonical name is of, unless configured submodules lie deeper than one key (`NamesAreShortest`; `CanonicalIs` takes `find_canonical` apart) |
| `ApiPassProofs!FiguresHaveACause` | `Spec => []LingeringFigureHasACause` | `FiguresInv`: an open figure was drawn by an object that was left out or by the one at work, one that cannot be saved is drawn by some block of that object, and an object left out has trouble of its own (`OwnTrouble`: a refused runner or docstring, an example without tokens) or such a figure was open |
| `BundleDirProofs!HalfABundleIsRefused` | `Spec => []BrokenOffIsRefused` | `RefusalInv`: no other file ranks with the manifest (`RankInv`), so an unfinished unpacking has none, one that is killed at it leaves it torn, and an injector never writes one (`UnpackInv`). Refused means by pack: an injector asks only whether `papyri.json` exists (`bundle_edit.py:39`), and goes to work on a torn one |
| `BundleDirProofs!UnpackInvertsPack` | `Spec => []UnpackedPacksAlike` | `RoundTripInv`: an artifact reads as itself (`IsArtifact`), and an unfinished unpacking has part of what it is written out as (`SourceInv`); with two lemmas on manifests (`ReadingManifests`, `WritingManifests`) and two on directories (`PackedIsArtifact`, `UnpackedIsBundle`) |
| `BundleDirProofs!InjectorsKeepBundlesPackable` | `Spec => []InjectionKeepsPackable` | `EditInv`: what gen left only ever grows (`Grown`): pages are added or patched with no new flaw, link or figure (`NoWorse`), the toc gets entries of pages that are there (`TocGrows`), and the items a run has behind it are entered (`Done`). `GrownPacks`: a bundle that has grown so packs if the original did |
| `BundleDirProofs!InjectorsMayBeRerun` | `OneBlockAPage /\ BlocksAreHeaded /\ BlocksFitIn => (Spec => []InjectionIsIdempotent)` | `RerunInv`: each page is gen's or what its item makes of it (`PagesKnown`), and the toc is one of the stages that the entries, made in order, lead through (`StagesOf`, `TocReaches`). A block that has been put in is found again at its place and replaced by itself (`ReplacedIsThere`, `BlockStays`), an entry that is there is not made again; so a second run changes nothing until it passes where the first was broken off |

**The argument for the store.** Its properties speak of bundles at rest, so they
are not inductive: between the first transaction of an ingest and its last file
nothing agrees. `ExclInv` says that a bundle has at most one request at work on it, and `OrphanInv`
that a bundle with blob writes of a failed ingest still on their way stays marked as
left half-written, whatever request comes for it meanwhile. `ServedInv` then says, for each bundle, what is the case at
*its* request's `pc`: at rest, tables, files and index agree (`Agreement`); in an
ingest, the rows are those of the old artifact and the part of the new one that
the batch no longer has, the blobs those already put, and `Record` comes when
the batch is empty and the files are there; in a deletion, the rows are gone and
the blobs are those still to be removed. `Stage` is where the two artifacts meet:
the batch is the difference to what the prefetch read, and by `ExclInv` the
tables are still what it read. A bundle in `tainted` is exempt, as the code repairs
nothing there before the next deletion, and even that only if no late write is under way;
what can go wrong with such a bundle is shown by `late_blob`.

**The conditions, and what they leave out.**

- `Exclusive`: no two requests at work on one bundle at one time. Blob writes that a
  failed ingest has left behind are not requests and wait for nobody. Nothing in the
  code sees to it; `ingest_overlap` checks what survives without it, and
  `TypeCorrect`, `LinksJoinRows`, `LinksStartAtPages` and `BystandersUntouched` are
  proved without it.
- `Ops \subseteq {"put", "reingest"}` for `NoMissingLinks`: deleting a bundle drops
  the links to it, which come back only with the next ingest of their source.
- `PlainDescriptions`: descriptions in See Also sections have no roles, links or
  figures. They are not visited (section 4).
- `DocumentsAreNested`: files are lists of items; a document has no item deeper than
  `Depth` directives and includes (for any `Depth`; the statement looks that deep for
  the cause), and no body of a directive has a heading in it: the code cuts them off or
  takes what is below them (`directives.py:398-405`, `961-977`).
- `PicturesAreNoPlots`: no image of the sources has the name gen gives to a plot
  (`fig-plot-N.png`); pictures are kept under bare names.
- `PackageIsGraph`: a package has finitely many objects, their members are objects.
- `WalkersAreThemselves`: no module or class equals another object of the package.
  The collector skips an object that equals any of those it has kept
  (`gen.py:481`); the members of an equal but distinct class would be missing.
- `StandInsStay`: an object that is skipped counts as found because its equal was
  kept; no third object, unequal to them, has the name of that one, or it would
  take its place (`gen.py:486`) and neither would be left.
- `ExamplesAreLists`: the blocks of a docstring are a sequence.
- `KeysAreUnique`: `dir()` and `__dict__` list each key once.
- `SubmodulesAtTheirNames`: a configured submodule that is a module calls itself what
  it is configured as. One that is an alias of another module is scanned under that
  one's name, to which its path need not lead.
- `OneBlockAPage`: each item of an injector is of another page. An injector that
  patches two blocks into one page before it writes it, as
  `examples/ipython_inject.py` does for the magics, is not covered.
- `BlocksAreHeaded`: all sections of a block are deeper than its first.
- `BlocksFitIn`: where gen's page has a section of the block's title, it is of no
  deeper level than the block. Without it a second run takes away the sections
  behind the block: the divergence at `bundle_edit.py:20-27` in section 4.

Each holds in the instance of a run: the first two by the constants of
`ingest_exclusive`, `ingest_catalog` and `ingest_liveness` (where nothing is deleted),
those on documents and pictures by the items and files of `MCDocVisit` (where the
longest nesting is 3, its `Depth`), those on packages by the graphs of `MCApiPass`, the
last three by the pages and injectors of `MCBundleDir`.

Only model-checked: liveness (`EveryRequestEnds`, `RunsEnd`, `TreeGetsBuilt`,
`AllVisited`) and everything that rests on fairness, which the prover does not
reach.

## 6. What is not modelled

- Parsing: RST, docstring sections, signatures and example code (`ts.py`,
  `examples.py`, `numpydoc_compat.py`, `signature.py`) rewrite text into nodes; the
  modules start from what they yield. A failing parser is an exception in `GenRun`.
- The IR (`nodes.py`, `node_base.py`, `serde.py`, `encoder.ts`): some eighty node
  types, validated and encoded field by field. A model would be the declarations
  again. Canonical CBOR, gzip and digests are data.
- Power failure: SQLite with `synchronous = NORMAL` may then lose the last
  transactions, and files are not synced. Only the process crashes here.
- The accounts: a machine of their own beside the store, with awaits between
  reading a row and writing it; their hazards are in `PROJECT.json`.
- The readers: queries, but for the navigation memo that nothing invalidates.
- Rendering and the inspecting command-line tools: no state, and no order to get
  wrong.
- In `gen`: importing the package and running examples (an example succeeds, fails, is
  skipped, draws or closes), `gen --upload`, a module without a name (which ends the run,
  `gen.py:458-461`). In `upload`: how URL and token are chosen.
- In the directives: wording and layout of what a handler returns, and handlers
  that only wrap their text. What loses a document and is no item of it: an import with
  side effects, a file that cannot be read, a node that does not validate.
- In ingest: single rows of `node_index`, of which the models say which artifact
  they are of; the pruning of pages a newer artifact no longer has, which the code
  does not do, so that stale pages stay in the model as well.
