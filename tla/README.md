# A verification development for mcp-vl-msa-rs

`mcp-vl-msa-rs` is an MCP server that keeps text collections for AI agents:
each collection is a tantivy index of chunked documents, searched with BM25
and optionally re-ranked with dense embeddings; on top of it there are agent
memories, their consolidation into digests, file-tree synchronisation and
multi-round ("Memory Interleave") search.

This directory holds TLA+ models of the parts of the server that keep state,
TLC configurations that check them on small instances, and theorems about them
that TLAPS checks for all sizes. Every definition is translated from the
source; `PROJECT.json` gives for each one the lines it stands for.

## 1. Inventory

The server runs on a multi-threaded tokio runtime (`main.rs`). A tool handler
is an async function without an await point in it: it runs to its end on one
worker thread, in parallel with others. All shared state is behind `std::sync`
mutexes, which are not fair and which poison when a holder panics.

| Component | State | Operations | Hard behaviour | What makes it correct |
|---|---|---|---|---|
| Collection index, write paths (`index/write.rs`, `delta.rs`, `types.rs`) | committed documents, a lazily created long-lived writer with pending operations, `delta_lock`, writer mutex | `apply_delta`, `index_documents`, `delete_document`, `release_writer` | optimistic preconditions and classification read before the writer is taken; failures half-way through a batch; crashes; writer released by others | a batch is atomic and decided against what it replaces; nothing half-written is published; outcomes are true; scopes hold |
| Collection index, read paths (`index/read.rs`) | none of its own; `reader.reload()` before every read | `search*`, `fetch_doc`, `doc_fingerprint`, `stats`, `manifest` | fetch limits (1024 records), paging over a changing index | what is committed is found; pages of one digest fit together |
| Collection registry (`index/registry.rs`) | name to handle, registry mutex, quarantine counter | `open_or_create`, `drop_collection`, `list_on_disk` | requests keep handles across a drop; the drop waits for a writer while it blocks all opens; rename can fail | no stale handle is given out; committed documents stay until dropped; the mutex comes free |
| Search sessions (`session.rs`, `server.rs`) | sessions by id, with seen documents and last use | `take`, `store`, `drop_session`, `gc` through `msa_search_iterative`, `msa_drop_session` | the session is out of the map during a search; drop and expiry race with the store | one search per session at a time; nothing shown is forgotten; dropped and expired sessions stay away |
| Memory Interleave (`interleave.rs`) | none: the client carries `InterleaveStateV1` | `resolve`, `run_round` | state comes from outside; budgets, rounds and seen-sets saturate | rounds end; a budget is never exceeded; a document is injected once |
| Agent memory (`remember.rs`) | documents of the index, with metadata | `remember`, `forget_by_source_id`, `msa_forget` | read-then-write without the delta lock; discarded outcome; page limit | what is reported stored is stored; what is forgotten is gone |
| Consolidation (`consolidate.rs`) | digests in the index | `select_candidates`, `prepare`, `commit` | calls of their own; version and collision guard read outside the write's lock; groups and keys drift as memories come and go | groups are what is related; a digest keeps its lineage and its version grows; nothing is consolidated twice; budgets hold |
| File synchronisation (`sync_fs.rs`) | none; a walk and a scope of the index | `sync_path` | several batches; prune set paged before the upserts; files and documents that change meanwhile; errors | mirrors the files; never loses one that was there; never touches another source; ends; a dry run tells |
| Enrichment, chunking (`enrich.rs`, `chunker.rs`) | none; a scanner over lines, a window over words | `sanitize_detail`, `compose_rich_text`, `chunk_text` | state that lives across lines and tokens; texts that are sanitized again; zero and oversized parameters | of what is read, no credential is written that a key announces, but for findings 5 and 11; what is cut is marked; a second pass changes nothing else; windows cover the text |
| Search, embeddings, hints (`index/read.rs`, `embeddings.rs`, `hint.rs`) | none; the encoder of the process | `search_excluding`, `search_hybrid`, `run_search`, `missing_collection_hint` | over-fetch and its cap; vectors of an older model or dimension; a collection that the search itself creates | the best hits as far as the over-fetch reaches; a hint only where nothing was indexed |
| Fingerprints, validation, configuration (`fingerprint.rs`, `validate.rs`, `config.rs`) | none | pure functions | boundaries | a hash identifies what it hashes |
| Benchmarks (`msa-bench`) | none; a data set indexed for the run | sweep, injection gate, conversational bench | cuts, deduplication and budgets applied in an order | metrics and conditions are what they are called |

Interactions: every handler goes through the registry for a handle
(`Arc<MsaIndex>`), then through the index. Memory, consolidation and file
synchronisation are clients of `apply_delta` and `manifest`; they take no lock of
their own, so whatever they need to hold together is held together by
`apply_delta` or not at all. Sessions and the registry never call each other.

## 2. Modules

| Module | What it is |
|---|---|
| `IndexData` | what a collection stores and the pure decisions of `apply_delta` |
| `AtomicIndex` | abstract specification: a request takes effect at one instant, or not at all |
| `MsaIndex` | the write paths, lock by lock; EXTENDS `IndexData`, INSTANCE `AtomicIndex` |
| `MsaIndexProofs` | theorems: invariants, and `Spec => Atomic` |
| `Registry` | one collection name: opens, writes through handles, drops |
| `RegistryProofs` | theorems about `Registry` |
| `Sessions` | the session registry and its two tools |
| `SessionsProofs` | theorems about `Sessions` |
| `AgentMemory` | `remember` and `forget`, clients of one collection; EXTENDS `IndexData` |
| `AgentMemoryProofs` | theorems about `AgentMemory` |
| `Interleave` | one Memory Interleave conversation over a collection that others change |
| `InterleaveProofs` | theorems about `Interleave` |
| `SyncPath` | one file synchronisation at a time against files and documents that others change; EXTENDS `IndexData` |
| `SyncPathProofs` | theorems about `SyncPath` |
| `Consolidate` | clients that select, prepare, distil and commit, and clients that remember and forget |
| `ConsolidateProofs` | theorems about `Consolidate` |
| `TextPath` | a text on its way into the index: sanitized (twice), composed, cut into windows |
| `Retrieval` | searches against writers, drops and restarts with other encoders |
| `Benchmarks` | what the benchmark tools make of a search; EXTENDS `Retrieval` |
| `ReadPathProofs` | theorems about `TextPath`, `Retrieval` and `Benchmarks` |
| `MCMsaIndex`, `MCRegistry`, `MCSessions`, `MCAgentMemory`, `MCInterleave`, `MCSyncPath`, `MCConsolidate`, `MCTextPath`, `MCRetrieval` | values of the constants, requests and symmetry sets for TLC |

Every definition whose comment begins with "Variant:" is not part of a model: it
is a plausible mistake in the definition that follows it, used to test that
the named property notices.

### Correspondence: `MsaIndex`

| Code | Model |
|---|---|
| documents at the last commit (sentinel fingerprints) | `committed` |
| `MsaIndex.writer: Mutex<Option<IndexWriter>>` | `writerLock`, `writerOpen`, `staged` |
| `MsaIndex.delta_lock` | `deltaLock` |
| `index_profile(embedder)`, fixed per process | `profile` |
| the local variables of a request | `req`, `want`, `plan`, `todo`, `pc` |
| steps 1-3 of `apply_delta` | `Begin` with guard `Accepted` |
| `delta_lock.lock()` | `LockDelta` |
| steps 4, 5-6 | `CheckPreconditions`, `ClassifyBatch`; an error in either is `Refuse` |
| `with_writer` up to the first upsert | `TakeWriter`, `WriterUnavailable` |
| `stage_document` | `StageDocument`, `StageFails` |
| `commit`, its error, `rollback` | `Commit`, `CommitFails`, `Rollback` |
| steps 8-9 | `Report` |
| `release_writer` | `ReleaseWriter` |
| process death and `open_with_heap` | `Crash` |

A document is its fingerprint. A document of a collection older than
fingerprints is `Legacy`; records without a sentinel, which a commit must never
publish, are `Torn`. `Oversized` is the set of contents that have 1024 chunks or
more: `doc_fingerprint` and `fetch_doc` read 1024 records and the sentinel comes after
all chunks, so they do not see it, while `manifest` scans every sentinel. No module
assumes that there are none. (This is so for the default
writer heap, which allows the library one indexing thread; with more threads the
sentinel of such a document may or may not be among the records read.)

### Correspondence: `Registry`

`entry` is the registry's map for one name, `regLock` its mutex. A handle is an
`MsaIndex` with its two mutexes; `handle[t]` is an `Arc` of it and the last one
dropped frees it (`LastHolder`). The directories that were ever at the
collection's path are numbered; `live` is the one there now. The index library
opens files by path at every operation, so a handle works on whatever directory
is there (`Read`, `Commit`), except that its writer has locked a file of, and
lists segments of, the directory it was created in (`writer`, `base`). `orphaned`
records that a drop renamed a directory under an open writer.

### Correspondence: `Sessions`

`sessions` is the map; `taken[t]` a session a call has taken, `serving[t]` its
id. `age` counts the ticks since `last_touched`, up to `Ttl`, where it is expired.
Ids are UUIDs: `Begin` picks one never used. `shown` and `dropped` are histories.

### Correspondence: `AgentMemory`

`store` is the collection. A memory is written and forgotten by `apply_delta`, whose
effect is at one instant (`WritesAreAtomic`): `Write` and `Delete` apply `Effect` and
`PlanFor` of `IndexData` to the request that `remember.rs` builds, so scopes and
statuses are decided by the definitions of the index and not by copies of them.
Memories are written without an embedder, whatever the server has, so under one
profile (`Unembedded`).

| Code | Model |
|---|---|
| low-signal gate and `force` | guard `Passes` |
| `remember` with a `doc_id` | `RememberAs` |
| `remember` without one: the page of `find_by_content_hash` | `RememberNew` |
| its loop of `fetch_doc` over the page | `Scan`, `ScanOther`, one document each |
| a `fetch_doc` that fails, for any reason | `ScanFails`: passed over, and the call goes on to store |
| `generate_doc_id` | `Generate` picks an id never used |
| `apply_delta`, its outcome discarded | `Write` |
| `msa_forget` with a `doc_id` | `ForgetDoc` |
| `forget_by_source_id`: the page, then `apply_delta` | `ForgetSource`, `Delete` |
| an error of `apply_delta` | `Fails` |
| the end of the process | `Crash` |

`content` is the hash of the raw text that a memory keeps in its metadata
(`_raw_content_hash`). Ids are numbers because pages are cut in the order of
ids. `page[t]` is the page, `standing[t]` a history of the documents the call is about
that nobody has written since it listed, `crowded[t]` whether the listing was
longer than the page. A document that a call failed to fetch no longer stands for it. A listing
that fails ends the call before it has changed anything, which is as if it had not begun.
A memory of an `Oversized` text is listed, and neither `Found` by a fetch nor deleted by a
forget, since `DeleteStatus` goes by `DocFingerprint`. Documents which other tools put into the same collection
carry no such hash and are left out.

### Correspondence: `Interleave`

The server keeps nothing between rounds: `state` is the `InterleaveStateV1` that the
client holds, and its fields `round`, `seen` and `used` are those that decide what a
round does. (`injected_units` repeats `seen`; `empty_rounds`, `low_gain_rounds` and the
ratios only feed hints for the client and are left out, as is the rejection of
states of 100,000 ids, which no conversation within the ceilings reaches.)

| Code | Model |
|---|---|
| `InterleaveParams::clamped` | `Clamped` |
| hard-stop preflight, `pre_stopped_response` | `Refuse` |
| search, dedup, digest supersede, `take(fetch_top_n)` | `Route` with `FreshHits`, `Uncovered`, `Top` |
| the loop of `inject_fresh`, one `fetch_doc` at a time | `Inject`, `PassOver` |
| next state and stop model of `run_round` | `Finish` |
| the client adopts the returned state | `Receive` |
| a lost reply, an error, the end of the server | `Lose`: the client still has its state |
| `msa_index`, `msa_delete` of others, at any time | `Change` |

A hit is a document with the ids it covers, as its metadata says at the time of the
search; `picks` and `injected` are positions in the ranked `hits`. What ranks them is
abstracted: a search finds any documents there, several chunks of one included.
`shown`, `chars`, `worked` and `told` are histories of what the client has received.
One conversation is modelled: two share nothing but the collection, and that
changes in every way anyway.

### Correspondence: `SyncPath`

`store` is the collection, written by `Effect` and `PlanFor` of `IndexData` as in
`AgentMemory`; `files` what is at each path a document id is made from. One
synchronisation runs at a time: two of one source only write what the other
could, and every write of others is a step of the model (`OtherWrite`).

| Code | Model |
|---|---|
| `[sync]` checks before anything is read | `Accepts` |
| the walk, one entry at a time; `max_files` | `WalkStep`, `WalkExceeds` |
| read errors, oversized or non-UTF-8 files, links that lead out | `Broken`, `Escaping`: `errors` |
| the pages of the prune set | `ListPage`; `prune_ids` is `gone` |
| `plan_counts`, a dry run | `PlanPage` |
| the chunks of upserts, then those of deletes, each one `apply_delta` | `UpsertBatch`, `PruneBatch` |
| an error anywhere | `Fail`: earlier batches stay |
| the response | `Reply`, `Return` |

`filesStill` and `docsStill` are histories: the files that did not change and the
documents nobody else wrote since the call began. Globs, the normalisation of
paths and the metadata of files are inside "what is at a path". A file of an `Oversized` text is
read like any other (files may have 10 MiB); the batches do not find its document, while the
pages of the manifest, and so the prune set and a dry run, do.

### Correspondence: `Consolidate`

`select_candidates` is two steps: the scan of the manifest (`ListManifest`), and the
fetch of what it listed with everything computed from it (`SelectCandidates`). The
pages of one scan are read in one step; a document that goes or is written between
the two is dropped or seen as it is then. A memory is its rank by creation time
and id; a text counts how often it uses each term and is a sequence of sentences,
of which a cut may shorten the last; for the sanitizer it is a line, which opens or closes a
code or key block or is redacted to some length. Any number of clients consolidate.

`select_candidates`, `prepare` and `commit` read the digest of a key to see whether it exists, and take
every error for a no (`Err(_)`, `if let Ok`). So each of these reads of an existing digest may be
`lost`. `blind[c]` is a history: which of its two reads (`"version"` in `prepare`, `"guard"` in `commit`) a
client can no longer rely on, because it was lost or because another client has written
that digest since.

| Code | Model |
|---|---|
| `top_terms` | `TopTerms`; TF-IDF is compared as powers, without logarithms |
| the union-find over linked pairs | `Related`, `Union`, `Root`, `Groups` |
| key inheritance, term keys, `digest_doc_id` | `Lineages`, `Inherited`, `FreshKey`; ids are keys |
| freshness margin, order, `max_candidates` | `Fresh`, `Before`, `Truncations` |
| `prepare` | `Prepare`, `PrepareFails`, with `Fetched`, `MemberText`, `NextVersion` |
| `sanitize_detail`, then the cut to `digest_max_chars` | `Sanitize`, `Committed`, `DigestText` |
| `DistillBackend`, `DeterministicConcatBackend` | `Distill`, `Concat`; `ModelTexts` is any other backend |
| `commit` up to its guards, its write, its errors | `Check`, `Write`, `Refuse`, `WriteFails` |

### Correspondence: `TextPath`

A line is a sequence of tokens, and a token is the class `redact_line` tells apart. `scanner` holds
the local variables of `sanitize_detail`, counted as far as their values are told
apart; `second` is a second run of the same function over what the first writes,
since `prepare` and `commit` sanitize what was sanitized before. `Composed` is
`compose_rich_text` as `remember` calls it, with the text as it came for a summary (`given` words) and the
sanitized one for a detail (`words`, cut to `MaxDetail`), `Window` one turn of the loop of `chunk_text`. The specification is
called `TextSpec`, its parts `TextInit` and `TextNext`, so that one module can prove about it and
about `Retrieval`. The blanks trimmed at
the two ends of a text, what stands behind the ticks of a fence line, and the low-signal gate (a set of
texts in `AgentMemory`) are left out. `read` is a history, the line read last, so that properties relate what
is written to what was read.

### Correspondence: `Retrieval` and `Benchmarks`

`setup` is the configuration of the process: chunking and encoder. A stored document
keeps the setup it was cut and embedded under. A call lists what is on disk
(`Begin`), opens (`Open`, which creates), and searches (`Search`); between the three anything
may happen. `Answers` is the set of answers `search_hybrid` can give: the best
`FetchLimit` records with ties in any order, sentinels, exclusions and filters dropped, rescored
and truncated. The score of a chunk for a query does not depend on the other chunks
there (in BM25 it does, by term statistics). A search on a handle whose
collection was dropped fails unless a new directory is at the path, which it then reads.

`Benchmarks` adds a `report` of what a tool makes of one such answer over a complete
data set: `Cell` (runner and metrics), `Gate` (injection gate), `Conditions` and `Conversation`
(conversational bench). Metrics are pairs of integers, nominator and denominator;
averages over questions and latencies are left out, and the limit of 1024 records of `fetch_doc`
is not met by its texts. Weights above 1, which no sweep uses, are left out.

## 3. Runs

| Run | Bounds | Shows |
|---|---|---|
| `index` | 2 threads, 2 documents, 2 contents (one oversized), 2 sources, 2 profiles, 7 request shapes, no symmetry | decisions current, documents whole, outcomes true, scopes protected, refinement of `AtomicIndex`, the delta lock comes free |
| `index_oversized` | as `index` | violation: a scope is crossed, finding 1 |
| `registry` | 2 requests, 2 handles, 3 creations | registry current, commits kept, registry mutex comes free |
| `registry_writers` | 3 requests, 3 handles, 2 creations | violation: two writers at one path, finding 2 |
| `sessions` | 3 calls, 3 sessions, 3 documents shown at most 2 at a time, Ttl 2 | sessions exclusive, complete, final when dropped, not resumed when expired |
| `memory` | 2 calls, 3 ids, 2 texts (one oversized and rejected by the gate unless forced), 2 sources, pages of 2 (5000 in the code) | no second copy of a text that stays and can be found; a forget is exact for what it finds |
| `interleave` | 3 documents (one may be a digest of two), 2 hits, lengths 0 and 3, ordinary and out-of-range knobs, ceilings of 5 characters and 3 rounds | nothing is shown twice, the carried state is true, budgets and stops hold |
| `consolidate` | 1 client, 4 memories (a chain whose ends share no term, and one that groups with any of them), 2 terms, texts that overflow both budgets, a model that opens a code block and says a credential, versions up to 2 | groups are components, no group is digested again, sanitized digests fit |
| `consolidate_clients` | 2 clients, 2 memories whose groups get one key, versions up to 2 | lineage and versions, but for reads that failed or were overtaken |
| `sync` | 3 documents of 2 sources, 2 texts (one oversized), pages of 1, batches of 1, at most 2 files, one change of others or restart per behaviour | the collection mirrors the files, dry runs tell, files survive, calls end |
| `text` | every line of up to 3 tokens of the classes that depend on their neighbours, one of each other class, fences of 2 lines, texts of any number of lines read up to 6 words, details of up to 4 of them, windows of 0 to 3 words with overlaps of 0 to 4 | no leak but behind a redacted key, marked truncation, stable under a second pass, windows cover |
| `retrieval` | 1 call, 3 documents, 2 texts, 4 encoders, 6 setups, 10 requests, over-fetch of 2 capped at 3; 6 questions of the benchmarks (one without an answer, one whose answer is empty) | best hits, true hints, honest benchmarks |

Why these bounds are enough. The conflicts in `MsaIndex` are between one request
that has read and one that commits, with or without a third party releasing the
writer or a crash: two threads have them all. Two documents distinguish a batch
half-staged from one that is whole. The request set contains for each
option of `apply_delta` a request that uses it and one that does not, on
documents they compete for. In `Registry` a stale handle needs two creations of
the directory and a stale handle after a stale handle needs three. In
`Sessions` a session needs two rounds to forget something. In `AgentMemory` a call
that has listed and one that writes have every conflict, and three ids overfill
a page of two; one oversized text is enough for it to be listed and not found. In `Interleave` two hits are a repeated document, a digest with its
member in either order, or two documents of which the second meets the budget;
three rounds let a document be missed, lost, and shown. In `SyncPath`, pages and
batches of one make every boundary between two of them happen, and one change by
others at any step is enough for each of its properties to be about something
(the proofs have no such bound); it is one because three documents, three states of
each and four of each file multiply (files that the globs leave out, which the walk passes over as if
there were none, are not among the initial ones). In `Consolidate` a chain is what union-find is
for, and the fence limit of 0 lines and a text of three sentences make the sanitizer cut, redact and lengthen
before the budget cuts again. Two disjoint groups of one key are what the collision guard is for,
so the run of two clients has just these: with thresholds of one member and no links, its two
memories are two groups, whose keys are equal since both use the same terms; a version can be
counted, overtaken, and written. In
`TextPath` a third token is what a separator between key and value needs, and the
state carried between lines is small enough to be explored for texts of any
length. In `Retrieval` the over-fetch and its cap are both met by three documents of two
chunks and a sentinel; one call suffices since a search changes nothing, and what
others do is a step of the model. The theorems in section 5 hold without any of
these bounds. The bounds inside a model are `MaxDirectories` (`Registry`), the
cap of `age` at `Ttl` (`Sessions`; an age beyond the TTL behaves as the TTL), `MaxEdits` (`SyncPath`),
`MaxVersion` (`Consolidate`) and `MaxWords` (`TextPath`).

No run switches deadlock checking off: a crash, a tick or a new request is always
possible.

## 4. Properties

`MsaIndex`: `PlanIsCurrent` (nothing read goes stale before the commit),
`DocumentsWhole` (nothing half-written is ever published), `ReportIsTrue`,
`ScopeProtected`, `Atomic` (refinement), `HolderFinishes`. `Registry`:
`RegistryCurrent`, `KeptReadable`, `RegistryReleased`. `Sessions`: `OnePlace`,
`NothingForgotten`, `DropIsFinal`, `ExpiredNotResumed`. `AgentMemory`: `NoSecondCopy`
(deduplication holds against whatever runs beside it, for a text that is there
throughout and that a fetch can find), `ForgetsItsSource` (all of what stands and is found, nothing of another source).
`Interleave`: `NothingShownTwice`, `StateIsTrue` (what the client carries against what it has received), `BudgetKept`,
`RoundsEnd`, `StopIsFinal`, `DigestStandsAlone`.
`Consolidate`: `GroupsAreComponents` (the union-find computes the components of
"related"), `DigestedNotSelected` (a pass over what was consolidated consolidates
nothing, although keys drift), `DigestFits` (after the sanitizer; a concatenation that opens no block and holds nothing to
redact is committed as it is), `LineageKept`, `VersionsGrow`. `SyncPath`: `Mirrored`
(what nobody touched mirrors its file, however pages and batches were cut),
`FilesSurvive`, `DryRunTells`, `CallEnds` (a measure: writes of others never prolong a
synchronisation). `TextPath`: `NothingLeaks`, `TruncationIsMarked`, `SanitizedTwice`, `WindowsCover`.
`Retrieval`: `BestHits`, `HintIsTrue`. `Benchmarks`: `CellsHonest`, `ConditionsHonest`, `GateHonest`, `EvidenceCovers`.

The types of variables are not among the runs' properties: the modules with
proofs state them as `TypeOK` (in `ConsolidateProofs`, `ShapeInv`; in `ReadPathProofs`,
`TextTypes` and `StoredInv`), and they are theorems.

Preconditions in them, and why: `ReportIsTrue` is stated of batches that name a
document once, because `apply_delta` accepts duplicates and classifies each
against the committed document. `ScopeProtected` excepts documents whose
fingerprint is not found (finding 1). `KeptReadable` excepts histories with an
orphaned writer (finding 2). `NoSecondCopy` and the first half of
`ForgetsItsSource` except calls whose listing did not fit one page; both, and the prune in `Mirrored`,
except documents whose fingerprint is not found (findings 3, 4 and 6), and `NoSecondCopy` calls that failed to
fetch every copy there. `LineageKept` and `VersionsGrow` except a digest written blind: its guard, or
its version, was read by a read that failed or before another client's write (findings 8 to 10).
`DryRunTells` says of documents whose fingerprint is not found what the dry run misses and what it adds, and excepts
files whose id belongs to another source (finding 12). `NothingLeaks` excepts the value of a key that was itself
redacted (finding 5); it is about what `sanitize_detail` writes, since the summary of a capsule
is not sanitized at all (finding 7). A concatenation may be cut by `commit` where it does open a code
block: the closing lines of blocks are all the same letterless sentence, which
`DeterministicConcatBackend` leaves out. `BestHits` promises an order and a
number only where the matches fit the over-fetch; beyond it, that hits match, pass
and are not repeated. Two calls
that start with the same new text do store it twice; `remember.rs` documents that
as best effort, and `standing` is empty for both.

Fairness. `FairSpec` asks weak fairness of each thread's steps once its request
has begun: a handler is scheduled by the operating system and never waits for
its client. Nothing is assumed of clients, crashes or failures. Since the
mutexes are not fair, no model claims that a waiting thread gets its turn. What
is claimed is that a holder gives back: `HolderFinishes` (the holder of the delta
lock needs only the writer mutex, whose users need nothing more) and
`RegistryReleased` (a drop waits for the writer mutex of a handle it has already
evicted, so only the requests that hold it can still take the mutex, each
once). That a synchronisation ends is stated without fairness, by `CallEnds`: every one of
its own steps lowers `Remaining`, and steps of others leave it as it is.

## 5. Proofs

Every safety invariant and every action property that a passing run checks, and the refinement, is a
theorem for all values of the constants. All are proved from the assumptions on the
constants that stand in `IndexData`, `MsaIndex`, `Registry`, `Sessions`, `AgentMemory`, `Interleave`,
`SyncPath`, `Consolidate`, `TextPath`, `Retrieval` and `Benchmarks` alone.

What the assumptions ask beyond types: encoders of the same model, version, tag and
dimension are the same encoder (`RetrievalAssumption`); scores and cosines are natural numbers, cosines at most `Unit`
(`ScoreAssumption`: BM25 is positive and `cosine_unit` answers between 0 and 1, both scaled);
discounts are positive and fall with the rank, relevant documents of a question
exist (`BenchAssumption`: `1 / log2(rank + 1)`; `dataset.rs:144` keeps only such questions);
members of a digest and gold sessions are finitely many, and no session is older than
`Lives` (`MembersAssumption`, `ConditionsAssumption`); chunks and answers are sequences of words
(`WordsAssumption`). An answer that is empty is skipped by the gate itself (`Extractive`).

`MsaIndexProofs`. `PlanIsCurrent` is not inductive: that the commit of
one thread leaves the plans of the others current holds because the others are
not between classification and commit, that is, because the delta lock excludes
them. `IInv` adds: who is past `lock` holds the delta lock and who is in `stage`
or `rollback` holds the writer mutex (`LockInv`); a thread's request passed the
early checks (`RequestInv`); plans and what is still to be staged fit the request
(`PlanInv`); nothing is pending in the writer unless its mutex is held
(`StagedInv`); preconditions that were checked still hold (`CheckedInv`); torn
records are pending only in a batch that is about to roll back (`StagedWhole`).
Each action has its lemma.

`WritesAreAtomic`. The refinement maps a thread before its commit to a call,
after it to a committed call with its plan and digest. `Commit` maps to
`TakeEffect`: the lemma that needs work says that what has accumulated in
`staged`, document by document, merged over `committed`, is `Effect` of the plan,
and the plan is the abstract classification because of `PlanIsCurrent`.

`RegistryProofs`. `RegistryCurrent` needs that the registry is empty while a drop
holds its mutex (`MutexInv`). `KeptReadable` needs that, as long as no writer
was orphaned, every open writer is one of the live directory and knows its
documents (`WriterInv`), that no two writers hold one lock file (`LockFileInv`)
and that whoever commits has a writer (`CommitInv`).

`SessionsProofs`. The four properties strengthen each other; `FreshInv` adds that
an id not given out has no trace.

`AgentMemoryProofs`. The induction is on where what stands can be: it is in the
collection and still matches the call (`StandingInv`), it is in what is left of
the page unless the listing was too long or no fetch can find it (`PageInv`, by `PageHolds`: a page of a
finite set no larger than the limit is the set), and a call at rest has listed
nothing (`IdleInv`). `RememberEffect` and `ForgetEffect` say what the two requests do
to the collection under the definitions of the index.

`InterleaveProofs`. `NothingShownTwice` follows from what a round selects (`SelectInv`:
new, unrepeated, uncovered, a property of selection that fetching only thins out)
and from `StateIsTrue`; the budgets from what a round may begin with and what fits
(`PhaseInv`, `InjectedFits`), carried through the reply (`AnswerInv`). `StopIsFinal` and
`RoundsEnd` need that every stop the client was told stays spent (`ToldInv`), since
rounds and characters never go down.

`SyncPathProofs`. `SyncSparesFiles` needs that the walk has read what it left behind and
remembers what it could not read (`WalkInv`), that pages are listed only after a walk
without errors over all of it (`ListInv`), and that what is going to be deleted has no
file the call wants (`GoneInv`); the effect of a batch of deletes under a scope is
`IndexData`'s. `SyncEnds` is arithmetic on cardinalities: a page moves the cursor past an id,
which lowers the number of ids after it whatever was written in between; a batch
takes at least one file or one id. `OnceInv` says that a scan holds a document once, so that
what is left to write is bounded by the documents. That a page which is not the last has a largest
id is proved from well-foundedness of the subset order (`HasMax`). `SyncMirrors`
follows a document and its file that nobody else touched through the whole call: what
was read of the file is still true (`ReadInv`); once the walk has passed it, it is to be
upserted or already mirrors the file (`OwedInv`); without a wanted file it is ahead of the
cursor or on its way out (`StrayInv`), for nothing listed lies between a page and the next
(`PageCovers`), whatever others write in between.

`DryRunsTellTheTruth` follows a document that nobody else wrote through a dry run: it is in the
manifest if it is about to be deleted (`GoneListedInv`), what was read as fresh is still so
(`FreshTrueInv`), what is fresh is ahead of the cursor or was read (`FreshAllInv`), and the counts are
those of what was read (`CountInv`); what the batches would write is that and `WrittenAgain`.

`ConsolidateProofs`. Between prepare and write the version to be written stays above that
of the digest of the key unless the client is blind to it, whether the digest stays, others
delete it or others replace it (`VersionInv`), and after its check a commit still shares a
member with it in the same sense (`GuardInv`). The other three theorems are about the operators, and need of
the behaviour only what is known of candidates (`KnownInv`) and of texts (`TextsInv`).
`GroupsAreTheComponents`: the parents stay a forest, from every node of which one root is reached in one way
only (`UnionForest`, so `Root` finds it), a union joins two trees and splits none (`UnionJoins`), and
after the last pair linked memories have one root, and no set that every pair leaves
whole divides the memories of one root (`PairsUnited`, `ComponentsFound`). `DigestedIsNotSelected`: what a group inherits
is the key it overlaps most with, and the digest that has the group as its
members overlaps no less than any (`InheritedIsBest`, `DigestedIsFresh`); that a best one exists
follows from the order of keys, which is lexicographic (`KeysTransitive`, `BestKey`). `DigestsFit`:
a cut keeps the longest beginning that fits (`TakeFits`), the sanitizer writes sentences (its
fold has the steps of the code), and leaves alone a text of plain lines without anything to redact; the loop of
`DeterministicConcatBackend` keeps what fits and is new (`Concise`), and what fits is not cut
again (`FitsIsKept`).

`ReadPathProofs` has three parts. `TextPath`: a line that was redacted is stable under another
redaction, since nothing is left in it that has a credential's shape or follows a key
and looks like a value, the marker apart (`Redacted`, `RedactedStays`); a line is followed token by token from
what is read to what is written (`TokenByToken`), so that a value that survives behind a key shows that the redaction was no longer armed, that is,
that the key was taken for a value (`ArmedByKey`, `StaysArmed`); `TextInv` ties the second scanner to the first (`SecondInv`), the marker
to what was counted (`MarkInv`) and each window to the one before (`WindowInv`). `Retrieval`:
`HintsAreTrue` needs that what was indexed is on disk (`KnownInv`); `SearchesAnswerTheBest` needs that
documents keep the profile they were embedded under (`StoredInv`), so that equal profiles
mean comparable vectors, and then is about the operators: a best choice of a finite set exists, mixing two
scores keeps a hit that is no worse in both ahead (`WeightedSum`, `WorseScores`). `Benchmarks`: evidence and
metrics are about lists without repetition (`UniqueType`, `Selected`); the discounts of any set of
ranks are at most those of as many first ranks (`FirstRanksAreBest`); the band filters a list that is searched
in order (`BandBounds`); the half-life prior is monotone because `2^n` grows (`PowersGrow`, proved by
counting subsets), so a hit neither worse nor older stays ahead (`RecencyKeeps`, `DenseKeeps`);
a context is cut to its budget step by step, ends with a blank, and a word does not
reach over a blank (`Fair`, `HoldsSplit`), and texts that fit are appended whole (`ContextIsWhole`).

How recursion is proved about. The library's induction theorems take operators,
which the provers cannot instantiate; induction here is over a set of numbers or of
subsets (`AllNumbers`, `EverySubset`), from well-foundedness. A recursive function is only as good as the existence
of its solution, so each fold (`FoldLeft`, `MapThenSumSet`, `FlattenSeq` and the loops of the code)
has a lemma that one exists up to k and one that extends it to k + 1 (`FoldExtends`, `FillExtends`,
`SumsFurther`, `ConcatFurther`, `JoinExists`), after which its steps can be cited (`RedactLineSteps`,
`ContextSteps`, `ConcatSteps`, `FlatSteps`). `SelectSeq` and `SortSeq` are closed to the prover, so `Ordered`,
`Selected` and `Resorted` choose the one function that lists what they should.

Only model-checked: `HolderFinishes` and `RegistryReleased`, which are liveness under fairness
and out of the prover's reach. The two violations are runs.

## 6. Assumptions about what is outside

- tantivy: a commit publishes all pending operations or none, and survives a crash;
  a rollback succeeds (the code ignores its result); a writer's pending
  operations are lost when it is dropped; merging changes no document; the
  directory is opened by path, its writer lock is an advisory lock on a file in it.
- blake3 and the canonical encodings are injective.
- No handler panics while it holds a mutex. (After a panic every later call
  on that mutex panics too: the server stays up and refuses.)
- One server process per storage directory.

## 7. Findings

`PROJECT.json` quotes what each of them disagrees with. Shown by a run:

1. `index_oversized`: a document of 1024 chunks or more (1025 records with its
   sentinel) has no fingerprint for `apply_delta` (`read.rs:238`), so a scoped upsert replaces it
   whoever owns it, against `delta.rs:112`, and a delete answers `not_found`. The trace ends
   in a request scoped to one source that replaces a document of the other.
2. `registry_writers`: between `release_writer` and `rename`
   (`registry.rs:96-109`) a request that still holds the handle creates the writer
   again; it outlives its lock file, and the collection created next gets a
   second writer at the same path, against `write.rs:54-55`.

Met while modelling, without a run; the properties named state what holds besides:

3. A memory of that size is listed for a forget by source and stays
   (`remember.rs:284`, `read.rs:238`), against `server.rs:939-940` (`ForgetsItsSource`).
4. A dry run says unchanged of a file of that size, which every real run
   indexes again (`sync_fs.rs:447`), and counts as deleted what a prune leaves, against `sync_fs.rs:413-414` (`DryRunTells`, `Mirrored`).
5. In `token password: hunter2hunter2` the second key is redacted as the value
   of the first, and the password is kept (`enrich.rs:231`), against `enrich.rs:189` (`NothingLeaks`).
6. `remember` passes over every listed document it cannot fetch (`remember.rs:338`): a memory of 1024 chunks or more
   is stored again each time, against `server.rs:885` (`NoSecondCopy`).
7. `remember` sanitizes the detail of a capsule and leaves the summary, the same text, as it came
   (`remember.rs:140`), against `server.rs:883`.
8. Two clients that consolidate one key both write version n + 1, and the guard
   against disjoint members is looked up before the write (`consolidate.rs:406`), against
   `consolidate.rs:270` (`VersionsGrow`, `LineageKept`).
9. A failed read of the existing digest steps its version back to 1 (`consolidate.rs:383`), against
   `consolidate.rs:270`.
10. A failed read skips the guard against disjoint members (`consolidate.rs:410`), against
    `consolidate.rs:406-408`.
11. `password = hunter2` is not redacted (`enrich.rs:299`), against `enrich.rs:189` and 225-226.
12. A dry run counts a file whose id belongs to another source as to be indexed
    (`sync_fs.rs:447`), against `sync_fs.rs:413-414`.
13. `remember` discards the outcome of `apply_delta` (`remember.rs:244`): a memory whose
    `doc_id` belongs to another source is skipped and still reported as stored,
    against `server.rs:357`.
14. `forget_by_source_id` deletes the ids it listed, whatever they hold by then
    (`remember.rs:284`), against `remember.rs:260-261`.
15. The marginal gain is 0 after a round that finds nothing and rises after the next
    that does, against `interleave.rs:369-370` and `server.rs:675`.
16. `msa_search` answers internal_error for queries the client got wrong (`server.rs:499`), against
    `server.rs:1238-1241`.
17. A gate context may exceed its budget by the separator (`gate.rs:134`), against `gate.rs:118`.

The others are comments that say something else than the code: on embeddings
(dimension mismatches, what the manifest stores, lengths, normalization), page and id of
`remember`, offsets of chunks, the budget of a round, the name of the
configuration variable, the hint, the evidence of the conversational bench, and
the cut of nDCG.

## 8. Not modelled

- `stats` (`read.rs`): counts over segments for display; it decides nothing.
- Segment merging (`write.rs`): the library's, changes no document, errors are logged.
- Schema versions, the manifest file and its torn write (`schema_io.rs`): the registry
  model creates a collection in one step.
- Quarantine names and leftovers of earlier processes (`registry.rs:104`): a rename fails or
  not, for any reason.
- The arithmetic of embeddings (pooling, normalization) and their HTTP client;
  term statistics of BM25.
- Parsing and formatting: configuration, parameters and replies of tools, metadata,
  globs, paths, dates; the benchmarks' data sets, averages and command line.
- What a batch reports of a document it names twice, that a scoped batch does not report another
  source's document as unchanged, and how stale a classification under the `delta_lock` of a handle
  that outlived a drop may be: the hazards they belong to say so.

Clients are composed with the effect `AtomicIndex` gives a request, which
`WritesAreAtomic` shows is what the index gives them, not with `MsaIndex`.

What could follow: the quarantine directory of `Registry`, and crashes inside the creation of a collection.
