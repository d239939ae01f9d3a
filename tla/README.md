# A TLA+ model of pg_aidb

pg_aidb runs document ingestion, search and question answering from inside PostgreSQL. SQL functions
queue work, workers carry it out, and the chunks they store are searched by a vector index and by a
bm25 index. These modules model the parts whose correctness depends on the order of steps of several
processes, on what survives a crash, or on several pieces of code agreeing about one format. TLC checks
them on small instances; TLAPS proves the safety properties of the jobs, of the write path of the index, of its
segment levels, of its shared memory and of its queries, for every value of the constants.

Paths below are relative to the root of the repository; `TS/` stands for
`deploy/docker/extensions/pg_textsearch/`.

## 1. The system

### Components

| component | where | state | operations |
|---|---|---|---|
| asynchronous jobs | `extension/src/router/mod.rs`, `extension/src/lib.rs` | `ai.results` (status, timeout), `ai._outbox` (payload, `taken_at`) | `ai.ingest`, `ai.search_async`, `ai.ask_async`, `ai.embed_async` |
| pipeline-worker | `services/pipeline-worker/src/main.py` | a LISTEN connection, one asyncio task per notification | listen loop, claim, ingest / search / ask handlers, error report |
| bm25 index, write path | `TS/src/am/build.c`, `TS/src/state/metapage.c`, `TS/src/state/state.c`, `TS/src/mod.c` | memtable and counters in shared memory, index lock, metapage, docid pages, segments | insert; automatic, manual and bulk spills; commit and abort hooks; recovery |
| bm25 index, segment levels | `TS/src/segment/merge.c`, `TS/src/am/vacuum.c`, `TS/src/segment/segment.c` | chains of segments per level, free pages | compaction, forced merge, vacuum |
| bm25 index, shared registry | `TS/src/state/registry.c`, `TS/src/state/state.c` | registry in shared memory, a cache of pointers per backend | create, look up, rebuild, drop |
| bm25 index, queries | `TS/src/query/*.c`, `TS/src/am/scan.c`, `TS/src/segment/scan.c` | the results of a scan, a top-k heap, a cursor per term | score, next tuple |
| bm25 index, builds | `TS/src/am/build.c`, `TS/src/am/build_parallel.c`, `TS/src/am/build_context.c` | build contexts, shared memory and temporary files of the workers | scan, flush, merge |
| bm25 index, memtable structures | `TS/src/memtable/*.c` | arena, posting lists, document lengths | append, read |
| bm25 index, segment format | `TS/src/segment/segment.c`, `compression.c`, `dictionary.c`, `docmap.c` | pages of the relation | write, patch, read, free |
| pipelines | `extension/src/registry/mod.rs`, `extension/src/router/mod.rs` | `ai.pipelines`, `ai.models` | `ai.create_pipeline`, look-ups |
| synchronous functions | `extension/src/router/mod.rs`, `extension/src/client/mod.rs` | none | `ai.search`, `ai.ask`, `ai.search_mmr`, `ai.embed_raw` |
| rag | `services/rag/src/main.py` | none | `/search`, `/search_mmr`, `/ask`, `/v1/embeddings` |
| chunker, embedder, llm | `services/shared/*.py` | none | text to chunks, vendor calls |
| textsearch_ko, planner hooks, types, dumps | `deploy/docker/extensions/textsearch_ko`, `TS/src/planner`, `TS/src/types`, `TS/src/debug` | none of their own | tokenising, plan rewriting, parsing, printing |

### How they interact

* A client transaction calls `ai.ingest`. It inserts a pending row and an outbox row and sends
  `NOTIFY aidb_pipeline`; PostgreSQL makes all three visible at the commit. The client polls `ai.results`.
* Every listening worker gets the notification and starts a task. The task claims the outbox row in
  one transaction (`FOR UPDATE SKIP LOCKED`), works, and commits the outcome in another. The tables
  are all that workers share.
* An ingest inserts rows in `ai.chunks`, which has a bm25 index. Each insert takes that index's lock
  exclusively and the transaction keeps it to its end. Queries take the lock in shared mode.
* Search and ask jobs, and the synchronous functions, call the rag service over HTTP, which reads the
  same tables.
* Backends share an index through its registry entry in shared memory, and through the buffer pool.
  The index is not WAL-logged: the code flushes blocks itself.

### What is hard

The list with line numbers is `hazards` in `PROJECT.json`. In short:

* **Jobs**: several workers per notification; notifications that nobody receives; a crash between claim
  and outcome; a commit whose acknowledgement is lost; an error report that fails; a status written
  without looking at the old one; a timeout column.
* **Write path**: a spill in several steps while a writer must keep readers out; a lock kept across
  statements and released by others; docid pages flushed only when full; pointers that may reach the
  disk before their targets; a per-backend cache of the last docid page; counters rebuilt at restart.
* **Levels**: vacuum and merges that read a chain, work, and write it back; freed pages reused while
  the disk still points at them.
* **Registry**: two backends that rebuild one index; stale local pointers; DROP undone by a rollback;
  locks on two indexes taken in opposite orders.
* **Queries**: blocks and documents are skipped on the strength of bounds kept elsewhere; a skip that makes no
  progress; ties; a scan that executes the query again and continues by position.
* **Builds and segments**: leader and workers that wait for each other; four writers that each patch in their
  own order what they have written before; items that lie across pages; readers that read ahead of a block;
  page lists of merged segments; document numbers that follow ctids while rows may come in another order.

### What makes each component correct

* Jobs: one handler per request; document and status together; an error is final; whoever claims
  answers; a notified request ends. Documented but not kept: the outbox is drained, overdue rows are reaped.
* Write path: every committed document is found exactly once; the docid pages and segments on disk
  cover everything committed; on-disk chains are well formed; document counts agree with postings; writers
  exclude each other to the end of their transactions.
* Levels: no linked segment is dropped; no page is in two segments; counts equal chain lengths.
* Registry: one live shared state per index; no backend uses a freed one.
* Queries: the top k are the best scores; a scan returns each row once; it ends.
* Builds and segments: every row is indexed exactly once, with its frequencies and its length; lists ascend and
  skip entries bound their blocks; every page belongs to one segment or is free, but for those
  of a merge that failed; every build ends.

## 2. The modules

| module | what it is |
|---|---|
| `JobPromise` | abstract specification: what a client that polls `ai.results` may rely on |
| `AsyncJobs` | extension, outbox, notifications and workers in detail; refines `JobPromise` |
| `AsyncJobsProofs` | theorems about `AsyncJobs` |
| `BM25Index` | write path and durability of one bm25 index |
| `BM25IndexProofs` | theorems about `BM25Index`: types, locks, pointers and chains, in memory and on disk |
| `BM25ContentsProofs` | theorems about `BM25Index`: which documents are where, and how full pages are |
| `IndexContents` | abstract specification: which documents a query of a bm25 index may rely on |
| `IndexContentsProofs` | theorem about `IndexContents` |
| `SegmentLevels` | spills, compaction, forced merges, vacuum and free blocks of one bm25 index; refines `IndexContents` |
| `SegmentLevelsProofs` | theorems about `SegmentLevels`: chains as sequences, that spills exclude each other; the inductive invariant, and the steps of spills, compaction and merges |
| `SegmentBlocksProofs` | the steps of vacuum and of truncation; the theorems about `SegmentLevels` |
| `IndexRegistry` | how backends find, build, rebuild and drop the shared state of one bm25 index |
| `IndexRegistryProofs` | theorems about `IndexRegistry` |
| `TopKHeap` | the heap of the best results, as operators |
| `BlockMaxWand` | one execution of a query: the memtable, then block-max WAND over each segment |
| `IndexScan` | the index scan around it, and what a query means |
| `IndexScanProofs` | theorems about `IndexScan` and the two modules below it: heap, seeks, block-max WAND, scans |
| `ArenaLists` | arena and unrolled posting lists of a build, as operators |
| `PostingCodec` | blocks, skip entries and bit packing, as operators |
| `SegmentPages` | pages, page index, the buffered writer, reading across pages, freeing |
| `SegmentFile` | the format of a segment: its layout, its two kinds of writers, its readers |
| `SegmentWriters` | what the three writers of new segments put into the layout |
| `SegmentMerge` | the merge of several segments into one |
| `IndexBuild` | serial and parallel CREATE INDEX, then inserts, spills and level merges |
| `MCAsyncJobs`, `MCBM25Index`, `MCSegmentLevels`, `MCIndexRegistry`, `MCIndexScan`, `MCIndexBuild` | instances and symmetry sets for TLC |

They extend each other in two chains: `TopKHeap` <- `BlockMaxWand` <- `IndexScan`, and `SegmentPages`,
`PostingCodec` <- `SegmentFile`; this and `ArenaLists` <- `SegmentWriters` <- `SegmentMerge` <- `IndexBuild`.

### AsyncJobs

A request is a uuid; `status[r]` is its `ai.results` row, `outbox[r]` its `ai._outbox` row (`queued` while
`taken_at` is null, then `taken`), `rowLock[r]` the row lock of an open claim. `listening` and `inbox`
are the LISTEN connections and the notifications delivered to them. `task[w][r]` is the program
counter of `process_event` in worker `w`:

    none -Receive-> claim -ClaimLock-> locked -ClaimCommit-> handle -Store-> ended
                      |                   |                     |
                      ClaimNothing        ClaimFails            HandlerFails -> fail -MarkError-> ended

The claim is two steps, because between its UPDATE and its COMMIT other claims skip the locked row. A
handler is one step, because everything it reads it reads before its last transaction, and everything
it writes it writes in that one. `stored[r]` counts committed documents. With `Faults`, the LISTEN
connection drops, a worker dies, and the connection of a claim, an outcome or an error report fails;
after a failed COMMIT the server may have committed (`ClaimFails`, `StoreAckLost`).

`_mark_error` cannot overtake a store whose COMMIT is still running on the server: its UPDATE waits for
the row lock of that transaction. This is why `StoreAckLost` may write `done` at once.

Left out: payloads (no control depends on them), `init_schema`, log lines, an unknown event type
(the extension queues three, all in the handler table), transactions of the client that roll back
(nothing of them is visible).

### BM25Index

A document is known by its ctid and has one posting. `memtable`, `totalDocs`, `lock` and each backend's
`cache` (`docid_writer_cache`) are memory, lost by any restart. Block 0 (`meta`) and the other blocks
(`pages`) have a copy in the buffer pool and one on disk (`diskMeta`, `disk`). Where the code calls
`FlushOneBuffer` or `FlushRelationBuffers` the action writes the disk copy; where it only marks a buffer
dirty it does not, and `WriteBack` may do so at any time. `run[b]` is what a backend is in the middle
of; every step of a spill and of a docid append is its own action, so that a crash, a write-back and the
other backend can come between:

    Insert -> (write -> clear -> forget -> link ->) docid -> (chain ->) idle     tp_insert
    SpillIndex -> write -> clear -> link -> idle                                 bm25_spill_index
    BulkSpill  -> write -> clear -> link -> commit                               PRE_COMMIT hook

`Restart` writes everything and rebuilds memory from the disk, `Crash` rebuilds from what the disk has.
Recovery (`Recover`) reads the docid chain, cuts it where it meets something else, and sets the totals
from the metapage.

Abstractions: level 0 never fills up, so compaction finds nothing to do; a segment is one block; a
document has terms and the index its shared state (the early returns of `tp_insert` for a NULL value,
no terms, or no state are left out); dead ctids are not reused; I/O errors in mid-spill are not
modelled; queries take no part except that they release the lock (`Scan`) and in what the invariants say
of a moment at which a reader gets the lock (`Readable`).

### SegmentLevels

`pages[b]` is the segment whose root is block `b`, with its `next`; `meta` has `level_heads`, `level_counts`
and `total_docs`; `free` is the free space map. `run[p]` and `job[p]` are the local variables of a process:

    StartSpill -> write -> link -> check -(level full)-> read -> merge -> swap -> free -> recheck
                                     |  <----------- next level ---------------------------'
                                     '--> unlock
    StartForce -> force -> (read -> merge -> swap -> free ->) force ... -> truncate
    StartVacuum -> (lock -> write -> ... -> unlock ->) survey -> sweep -> (replace ->) sweep ... -> finish

A merge reads head and count of its level and the segments it takes (`read`), writes the merged segment and
flushes (`merge`), then writes back what it has read, less the segments it took (`swap`), and only then frees
them. Vacuum notes the dead ctids, spills under the lock, and after that goes through the segments it has
surveyed without it. Each session has its own `segments_per_level` (`Fanouts`), so that a level can be longer
than a batch and a merge leaves a remainder.

`found`, what `IndexContents` speaks of, is the memtable, what a spill has written and not yet linked (nobody
else can look at it), and the segments that can be reached from the metapage.

`Overlap = FALSE` keeps vacuum's sweep and forced merges, neither of which takes the index lock, apart from
each other and from spills. PostgreSQL does not: inserts run beside VACUUM and `bm25_force_merge`. The
run `levels_vacuum` drops the restriction for vacuum.

Abstractions: a segment is one block, so the page map and the page index of a segment share its fate; blocks of
docid pages are left out, so the truncation of docid pages beyond the last segment does not show; no crash, so a
buffer and its disk copy are one; the spill's handling of docid pages is in `BM25Index`; a query reads a chain
at one moment; the freeing of a segment that vacuum has replaced is part of the replacement.

### IndexRegistry

A shared state is a number, never used twice between restarts, so that a pointer to a freed one can be told from
any other: `memory[s]` says whether it is unused, live or freed, `memtable[s]` in whose area its memtable is,
`lock[s]` who holds its lock. `registry` is what the registry leads to, `cache[b]`, `building[b]` and `held[b]` are
a backend's local state, `rel[b]` its relation lock in PostgreSQL. A look-up is several steps, as the registry's
lock is taken anew for each, and two backends may be in it at once:

    Open -> Ask -+-(cached)--------------------------------------> Use -> ... -> Commit | Abort
                 +-(registered)-> Attach --------------------------^
                 +-(neither)----> Allocate -> (Unregister ->) Register -^

`Build` and `FinishBuild` are the ends of `tp_build`, `Drop` is the object-access hook, which runs with the statement;
`Abort` and `Commit` are the transaction callbacks, `Reconnect` is the end of a session. `DropRollsBack` and
`BuildAfterUse` allow what the properties do not survive (section 3). Left out: the contents of the memtable
(`BM25Index`), several indexes, a registry without free slots.

### TopKHeap, BlockMaxWand and IndexScan

An index is a memtable and a few segments whose posting lists are sorted sequences of `[doc, tf, len]`. Documents of a
segment count from 1 (from 0 in the code, so `FirstDocId` is the 0 of a memtable's entry in the heap, and a segment's
number, its place among those searched, stands for its block). Each round of a loop in `bmw.c` is a step: a block of
the single-term search, or of the multi-term search a pivot, a seek, a bound check, an advance. A weight stands for
IDF, and a contribution is the weight times `Saturation`, a constant that is given a frequency and a length and is an
integer; `SaturationAssumption` says that it is positive, grows with the frequency and falls with the length, which is
all that the block maxima rely on. `IndexScan` executes such a search, returns rows, and executes it again with twice
the limit when its results run out. `Found` and `Ranking` are the reference: every document scored, all sorted.

`WellFormed` is what a search finds: a document has one ctid and is in one place, documents of a segment are numbered in
the order of their ctids, posting lists ascend. The last holds while rows are inserted in the order of their ctids; the
run `build_order` shows what happens otherwise (section 3), and `PostingsAscend` of `build` that nothing else breaks it.
Loops are functions: `Iterated` applies the body of a loop a number of times, a body that is done leaves its state alone, and
heap sifts and the binary search over blocks are such loops. Left out: floating point, `memcmp` on terms, oid
checks of partitions.

### The build modules

A page holds `PageCells` cells. An item whose order with page boundaries matters (a string offset, an entry, a skip
entry, the header) takes two cells, a byte of a compressed block one, so that items lie across pages as in the code.
`SegmentPages!Write`, `Flush`, `Finish` and `WriteAt` are the buffered writer and the patches behind its back;
`WritePageIndex` and `Open` write and read the chain of pages that lists a segment's pages; `CollectPages` walks it
to free them. `SegmentFile` has the layout once (header, strings, entries, blocks, skip entries, lengths, ctids)
and the three orders in which it is written: `Paged` for a memtable and a build context, which finish the writer before
they patch the header (`BackPatched`), `PagedMerge` for a merge, which patches it first (`MergeBackPatched`), `Flat` for a
worker's file. `LoadBlock` reads ahead of a compressed block as the code does, `Loads`
says whether that succeeds. `SegmentMerge` reads sources through those readers, merges terms, and numbers documents anew, by
ctid, or source by source when sources are disjoint.

The properties read segments through `Padded` readers, which may read ahead: what a segment holds is one question, whether the
code can load its last block another.

In `IndexBuild` a flush, a spill or a merge is one step, since the index is locked exclusively or, in a build, not
visible to others; what interleaves are the workers and the leader:

    LaunchWorkers -> SetRanges -> (phase 1) -> MergeAll -> LinkRoot -> Release -> (phase 2) -> FinishParallel
    worker: BeginScan -> ScanTuple ... -> EndScan -> SignalPhase1 -> (wait) -> Leave

`heap` is the table, and the invariants compare everything that readers find in contexts, files, segments and the
memtable with it. A read past the end of a file or a relation is an error of the statement. In a build that is phase `failed`, after
which nothing is claimed, as the relation of an aborted build is dropped. In use (`Spill`) it comes when the new segment is linked
and the memtable is empty: the level stays too long, the pages that the merge had taken are never given back (`rel.lost`), and the index
goes on being used; the next spill tries to merge again. The row whose insertion spilled stays in `heap`, as a dead tuple that the index
holds. Left out: postings that a failed merge has written of the term it could not read (they change only the number of pages lost); the free space map's choice of a page is the lowest; fieldnorms
come from a short table; V2 segments, progress reports, interrupts, dumps.

## 3. The runs

| run | instance | shows |
|---|---|---|
| `async_faults` | 2 requests, 2 workers, all faults | `TypeOK`, `OneHandler`, `IngestAtomic`, `OutcomeIsFinal`, refinement `PromiseKept` hold |
| `async_no_faults` | 2 requests, 2 workers, only handlers fail; fairness | `NothingAbandoned`, `ErrorStoresNothing`, `NotifiedIsAnswered` hold |
| `index_live` | 2 backends, 5 documents, automatic and manual spills, queries, no restart | `EachOnce`, `IdfNotNegative` hold |
| `index_restarts` | 1 backend, 4 documents, all spills, 2 shutdowns or crashes | `TypeOK`, `NothingLostByShutdown`, `MemtableRecorded`, `DiskPointersSound`, `DiskChainsSound` hold |
| `index_locks` | 2 backends, 5 documents, automatic and bulk spills, 1 restart | `WritersIsolated`, `SpillsExclusive`, `NoPageOverflows` hold |
| `index_crash` | 1 backend, 3 documents, 1 crash | `NothingLost` is violated |
| `levels` | 1 backend and vacuum, 4 documents, 3 levels, fanouts 2 and 3, forced merges | `TypeOK`, `BlocksAccounted`, `CountsRight`, `NoDocTwice`, `LevelsBounded`, refinement `ContentsKept` hold |
| `levels_vacuum` | 1 backend and vacuum, 4 documents, vacuum overlaps with spills | `LiveIsFound` is violated |
| `registry` | 3 backends, 4 shared states, 1 restart | `TypeOK`, `NoUseAfterFree`, `AreaAgrees`, `RegisteredIsLive`, `PrivateAreaEnds`, `LocksEndWithTransaction` hold |
| `search` | 1116 indexes and queries, blocks of 2, limits 1 and 3 up to 4; fairness | `TypeOK`, `BestScores`, `ExactFromOneSource`, `EachRowOnce`, `ScanEnds` hold |
| `build` | 4 tables, up to 2 workers, 3 later rows, 3 levels of 2 segments; fairness | `TypeOK`, `IndexHoldsHeap`, `PostingsAscend`, `PagesAccounted`, `BuildEnds` hold |
| `build_order` | the same | `PostingsSorted` is violated |

**Bounds.** Two workers and one request suffice for every race on an outbox row, since requests share
no state but the workers; the second request is there for a worker that handles two at once. Documents
(`MaxDocs`), the capacity of a docid page, the spill threshold and the restarts are chosen so that in
`index_live` and `index_restarts` a docid page fills and a second is chained, at least two segments are
linked, and a restart happens after a restart. `WriteBack` has no bound and needs none. Symmetry is used
only for sets whose members are told apart by nothing, and never in a run with a liveness property.
In `levels`, one backend stands for all: without overlap at most one process at a time is past its waiting
steps, and the fanout is chosen anew for every spill. Four documents in four segments fill level 0 twice,
level 1 once, leave a remainder when sessions with fanouts 3 and 2 follow each other, and put a dead document
at the head, inside and at the end of a chain.
In `registry`, three backends are two that race and one that looks on, four states let each of them allocate and a
build replace one. In `search`, a large segment has six documents in three blocks per list, so that ends of blocks lie apart
between terms and a skip can jump over a block; queries have one to three terms, with repetitions; a limit of 1 doubles
twice. In `build`, `PageCells = 20` puts items across pages and gives a merged segment several pages, `IndexEntries = 3`
chains pages of the page index, `BlockSize = 2` gives lists of several blocks, `WordBits = 14` makes the largest compressed block
much larger than most, so that reading that many bytes passes the end of some files and relations (the bits of two
values of 32 would overflow TLC's integers); `ArenaPageSize = 64` with blocks of 16 and 32 bytes makes lists of several arena blocks on
several arena pages; `Budget = 60` lets contexts flush after two or three rows, or after each; `MaxSegments = 2`
makes a worker truncate; `SegmentsPerLevel = 2` with three levels makes a merge cascade and its freed pages used again. Three later
rows let a merge fail in a spill, and the next spill merge a batch of the levels that the failure has left before it fails in its turn.

**Fairness** (`AsyncJobs!Fairness`, `IndexScan!Fairness`, `IndexBuild!BuildFairness`). Weak fairness of `Connect`: the loop sleeps five seconds and tries
again. Of `TaskStep(w, r)`: the event loop runs a task that is ready, and a handler ends because its
HTTP calls have timeouts. Of `Expire`: time passes. None of the client's actions, none of the faults.
`IndexScan` assumes that the executor asks on and the backend runs; `BuildFairness` that while some step of a build is
possible some step of it is taken. Before an index is ready all steps are its build's, each of them makes progress, and there
are finitely many, so this is no more than that the operating system runs the processes. Both are weak fairness of the
next-state relation with its enabling condition written out. That the workers which were launched do start is
assumed: the leader does not call `WaitForParallelWorkersToAttach`.

**Deadlock** is not checked: the clients may stop when every request has been submitted, and the
bounded supply of documents runs out.

### What the violated properties say

1. `NothingLost`. `TS/README.md:327` says the memtable is rebuilt from the heap. It is rebuilt from docid
   pages, and one that is not full is only dirty when the transaction commits.
2. `LiveIsFound`. The comment on `tp_vacuum_replace_segment` says it replaces one segment in its chain. When
   a spill has put a segment in front of the one being replaced, it is dropped too, with its documents.
3. `PostingsSorted`. `TS/src/memtable/posting.h:20` says a posting list is sorted once at finalization, and
   `TS/src/segment/docmap.h:14` that postings ascend by document. Nothing sorts them: when rows are inserted out of
   the order of their ctids, a spill writes document numbers that descend. `PostingsAscend` shows that all is well as long as
   rows come in ctid order.

Other instances of `BM25Index` show more, and the passing runs keep away from them on purpose: with two
backends and automatic spills a stale `docid_writer_cache` breaks `MemtableRecorded`, and after a
shutdown `NothingLost`; with automatic spills and a shutdown the spilling document is both in the segment
and in the docid pages, which breaks `EachOnce`; with queries and bulk spills the spill at commit runs
without the lock, which breaks `NothingLost` without any restart. They can be had by changing one
constant of a `.cfg`; the hazards name the lines, and those that the passing runs keep away from have a note instead of a property. So can these: a query in a transaction that has written
(`Scans` with `WritersIsolated`) releases the exclusive lock of the transaction; after a shutdown `IdfNotNegative`
fails, because recovery sets `total_docs` to the metapage's value, which inserts never update. With `Faults = TRUE`
`NothingAbandoned`, `ErrorStoresNothing` and `NotifiedIsAnswered` fail: what a dead worker had claimed nobody reads again. `DropRollsBack = TRUE`
in `registry.cfg` breaks `NoUseAfterFree`, `BuildAfterUse = TRUE` that and `LocksEndWithTransaction`.

Two promises of the documentation have nothing in the code to check: `design/DECISIONS.md:98` says that a
restarted worker recovers unprocessed events from the outbox, but only a notification makes a worker look at it;
`README.md:59` says that an overdue pending row is reaped, but nothing reads `pending_timeout_at`.

## 4. The proofs

Every safety property that a passing run of `AsyncJobs`, `BM25Index`, `SegmentLevels`, `IndexRegistry` or `IndexScan`
checks is a theorem, on the conditions named here. Each condition is met by the instance whose run checks the property, and
for each it says below what goes wrong without it.

**Jobs.** `AsyncJobsProofs` proves, for every finite or infinite set of requests and workers, from
`WorkersAssumption` and `FaultsAssumption`:

* `TypeCorrect`, `OneHandlerAlways`, `IngestAtomicAlways`: the invariants `TypeOK`, `OneHandler`, `IngestAtomic`,
  with or without faults; `OutcomeIsFinalAlways`: the action property `OutcomeIsFinal`.
* `Refinement`: `Spec` implements `JobPromise!Spec`, with or without faults.
* `NothingAbandonedCalm`, `ErrorStoresNothingCalm`: the two invariants of `async_no_faults`, without faults. A worker that
  dies abandons what it has claimed, and an outcome whose acknowledgement is lost is reported as an error.

None of these is inductive alone. `IInv` adds why they hold. `LockedByClaim`: the lock on a row belongs to
the one task whose claim is open, and only a queued row is locked. `HandlesTaken`: a task past the
claim has a taken row and is alone. `PendingUntilHandled`: until a handler has written, the request is
pending. `NotifiedOnce`: a worker starts at most one task per request, so a task that has ended cannot
start again. Without faults `Answered` adds that a task about to report an error has stored nothing
(`FailedUnanswered`). The proof has one step per action, and below it one per conjunct the action disturbs.
The refinement maps `status` and `stored` to themselves; every action is a step of the abstract
specification or leaves both unchanged.

**Write path.** `BM25IndexProofs` and `BM25ContentsProofs` are about every set of backends, number of documents, capacity and
threshold, from `BackendsAssumption` and `BoundsAssumption`.

| theorem | property | on the condition that |
|---|---|---|
| `IndexTypeCorrect` | `TypeOK` | - |
| `DiskPointersAlways`, `DiskChainsAlways` | `DiskPointersSound`, `DiskChainsSound` | - |
| `NoPageOverflowsAlways` | `NoPageOverflows` | - |
| `WritersIsolatedAlways`, `SpillsExclusiveAlways` | `WritersIsolated`, `SpillsExclusive` | `LockKept`: transactions do not query what they have written to, and do not call `bm25_spill_index` |
| `MemtableRecordedAlways` | `MemtableRecorded` | `CachesFresh`: there is one writer, or inserts do not spill |
| `EachOnceAlways`, `IdfNotNegativeAlways` | `EachOnce`, `IdfNotNegative` | `SpillsCovered`, and until the first restart |
| `NothingLostAlways` | `NothingLostByShutdown` | `SpillsCovered` and `CachesFresh` |

The conditions are where the code is wrong (section 3). A query or a manual spill releases the lock in
mid-transaction, so `LockKept`. An automatic spill forgets the docid pages, but not other backends' `docid_writer_cache`, so
`CachesFresh`. A bulk spill at commit takes no lock: `SpillsCovered` says that the lock is kept, or there is no such spill, or
there is one writer who does not query. Recovery reads back documents that are in a segment too, and takes
`total_docs` from the metapage, so the restriction to the time before the first restart.

* *Locks.* `LockIInv` joins isolation and exclusion: either alone would let a bulk spill at commit run without a lock.
* *Pointers.* `PointersIInv` holds the pointers of both copies sound at once, for three reasons: a block never changes
  its kind (`KindsFixed`), the block a backend is about to link already has the kind it will be linked as (`BlockInHand`),
  and both copies have the same length, so whichever block is written back and whichever copy recovery starts
  from, a pointer finds its target.
* *Chains.* `ChainsIInv` adds that following pointers ends. The blocks have a rank that falls along every
  pointer (`Ranked`); a block in somebody's hand is in no chain and in one hand only (`HandsFree`), so linking it
  closes no circle; and a pointer is set once, so the disk has the same pointer or none yet (`OldLinks`) and inherits the rank.
* *Capacity.* `CapacityIInv` says that pages fit in either copy, since a crash may bring back the older one, and that a
  page about to be chained is empty (`EmptyUntilChained`), otherwise another backend could find it by then. Inserts
  have the lock for as long as they run, whatever the transaction has done to it before (`TasksRight`). Stale caches do no
  harm here, because a cached page is looked at before it is written.
* *Contents.* `Recorded`: the pages that backends remember are in the docid chain, and it has every document of the
  memtable whose insert is over. `Covered`: a spill has the memtable to itself, and the segment in its hand has what the
  memtable had. `Partition`: until the first restart a present document is in exactly one of the memtable, the
  segment in hand and the chain, and has been counted. `Kept`: as long as nothing has crashed, it is in one of them at least.

**Segment levels.** `IndexContentsProofs` proves `DependableAlways`: in `IndexContents` every live row is found, and no row
whose ctid the heap has given up. `SegmentLevelsProofs` proves `SpillsAloneAlways` from `ProcessesAssumption`, with
`Overlap` or without: at most one process is in a spill or in the compaction that follows it. Its invariant says
that such a process holds the lock (`HoldLock`); because a forced merge goes through the same steps without
the lock, it must also say which steps belong to which task (`ForcedSteps`). The merges of `levels_vacuum`
therefore never race with each other, only with vacuum.

`SegmentBlocksProofs`, with the steps that `SegmentLevelsProofs` has, proves the rest: `LevelsTyped`, `BlocksAccountedAlways`, `CountsRightAlways`, `NoDocTwiceAlways`,
`LevelsBoundedAlways`, that `SegmentLevels` implements `IndexContents` (`ContentsKeptAlways`), and `LiveIsFoundAlways`, for any
number of backends, documents, levels and values of `segments_per_level`. There are two premises. `~Overlap`: vacuum's sweep
and forced merges do not overlap with other work on the chains. Without it the properties are false: `levels_vacuum` is the
counterexample. `[]FewSegments`: every level has fewer than 65535 segments, because `level_counts` has 16 bits and
wraps. `FewSegmentsAlways` discharges this for every table of fewer than 65535 documents. In a larger one only the
last level can get there, which is never compacted.

All of them rest on one invariant, `Safe`, whose parts need each other. `Alone`: at most one process works on the chains.
`ChainsSound`: every chain is a sequence of distinct blocks, shared with no other, as long as its count. `JobsRight`: what a
merge has read before it writes it back is still so, and what a process has in hand contains the documents it is for.
`BlocksPlaced`: a block is linked, free or in a hand, and only in one of these. `DocsRight`: no document is in two places. `LongExcused`: a
level that is too long is one that a compaction is about to look at. `VacuumRight`: what vacuum has surveyed ahead of
it is still in the chain, and what is behind it is clean, so that a finished vacuum may give ctids up. The step that
releases ctids in `IndexContents` depends on this last part, the steps of merges on `JobsRight` and `ChainsSound`.

**Registry.** `IndexRegistryProofs` proves, for any number of backends, states and restarts, from `RegistryAssumption` and
the condition `Calm` (a transaction that rebuilds or drops the index does nothing else with it, and a drop is not rolled
back): `RegistryTyped`, `NothingFreedIsUsed`, `AreasNeverMixed`, `RegistryLeadsToLive`, `PrivateAreasEnd`, `LocksEnd`, the
invariants of the run `registry`. Local pointers are never revalidated, so the argument is about who may free a state: only a
backend with the exclusive relation lock (`LocksAgree`), and then either nobody can use the index any
more (`Unusable`), or the state is one that it has built itself and nobody else has (`BuildsSound`). Two backends that rebuild the
index at once leave one with an unregistered state, but a live one (`PointersSound`); a memtable in a private
area is under construction or freed (`AreasSound`).

**Queries.** `IndexScanProofs` proves, for every set of well-formed indexes, every query, limit and block size,
`ScanTypesHold`, `SearchReturnsTheBest`, `SearchIsExact` and `ScanReturnsEachRowOnce`: the invariants `TypeOK`, `BestScores`,
`ExactFromOneSource` and `EachRowOnce` of the run `search`. The assumptions are `SaturationAssumption`, `BlockAssumption` (a block
has a posting at least), `ScanAssumption` (limits are positive and not above the greatest) and `IndexesAssumption`
(`WellFormed`, see section 2). There is no other condition.

What a search returns says nothing about how it got there, so the invariants are not inductive. `ScanInv` is; it has two layers.

* *While a search runs* (`Searching`) its heap is `Top` of the entries *considered*: those of the memtable that have been scored, all
  of the segments before this one, and of this segment those of which some cursor has left a posting behind (`Passed`). `Top` says
  that whatever was considered and is not in the heap is graded no higher than all of it, and then the heap is full. So what a
  skip has to answer for is one thing: that each document it passes over is graded no higher than the root (`SkippableSettles`).
  The rest says why that is so. The cursors are in the order of their documents and the open ones are counted (`CursorsKept`);
  behind the pivot's cursors are greater documents only, and none is before the pivot once the seeks are over
  (`PivotKept`); what the heap has from this segment is before every cursor (`FoundBefore`), so no document is added twice.
* *Between searches* `ScanInv` says that what a search returned is where the ranking begins (`Answers`) and what the scan has returned is
  where it begins too (`Served`), so continuing by position after the next execution neither repeats nor skips a row.

The lemmas go up from the operators. *The heap*: `SiftUp` and `SiftDown`, however long the heap, restore its order (`SiftUpHeaps`,
`SiftDownHeaps`; each round moves towards the root or a leaf, so the rounds suffice), and `tp_topk_add` keeps the best of all it has
been given (`TopAdd`). *Sums*: sums over the query's terms are monotone (`SumLeq`, `SumLess`), so a document that no cursor before the pivot
can reach scores no more than the maxima that did not add up to more than the threshold (`PivotBound`), and one inside the
blocks passed over no more than the block maxima (`BlockBound`). *Seeks*: the binary search passes over blocks that end before the target only
(`BisectIs`), and a seek passes over smaller documents only (`SoughtIs`). *Order*: a cursor that is moved is put where the order
wants it (`MovedPlaces`, `AdvancedCursors`). *Ties*: `SearchIsExact` needs the order of the heap to be the order of the results. From one
source they agree, because document numbers ascend with ctids (`BetterIsStronger`). From several,
document numbers of different segments say nothing about ctids, and a tie of the memtable with a segment is not broken, so the grade
is the score alone and only the scores are claimed (the hazard at `bmw.c:104`).

**Recursion.** Chains are defined by recursion along `next`, but the library's induction theorems take an operator
as a parameter, which the installed provers cannot instantiate. The proofs argue by least elements instead: a set of
numbers or of ranked blocks that is not empty has a least one (`LeastNumber`, `LeastRank`), so a set of counterexamples
closed under one step back is empty. In `SegmentLevels`, a chain is first
shown to be a given sequence (`SoundIsChain`: a sequence of distinct blocks in which each points at the next is
what following the pointers yields), and every step says which sequence it makes. The loops of `TopKHeap` and `BlockMaxWand`
are treated alike: a measure that every round lowers is least somewhere, so the loop has come to rest (`IterationRests`). Sums over a finite
set are the cardinality of a set of units (`SumIs`), which the library has the theorems for.

**Only model-checked.**

* `build` (`IndexBuild` and the modules below it: `TypeOK`, `IndexHoldsHeap`, `PostingsAscend`, `PagesAccounted`). Writers, readers, page
  chains and merges are recursive operators, over which no theorem can be stated. That what a reader finds is what a writer has
  written, for lists, pages and files of every length, is induction over data, and out of the prover's reach if they were
  functions too; `TypeOK` and `PagesAccounted` speak of results of those operators throughout.
* `NotifiedIsAnswered`, `ScanEnds`, `BuildEnds`: liveness under fairness is out of the prover's reach. So it is `ScanEnds` and no theorem
  that says that each skip makes progress.
* The three violated properties are false of the code.

## 5. Not modelled, and the plan

Not modelled, and why:

* rag service, chunker, embedder, llm, logging, HTTP client: stateless and sequential; what could go wrong in them
  (token budgets, sizes of chunks, floats of MMR) is arithmetic on text, which unit tests reach and TLC does not better.
* planner hooks and cost: they rewrite PostgreSQL's plan trees; the state and its rules are PostgreSQL's.
* bm25query and bm25vector types, dump functions, textsearch_ko: parsing, formatting, tokenising.
* pipeline registry: single statements on one table. `ai.ingest` reads a pipeline twice and may mix two versions in one
  payload; payloads are left out of `AsyncJobs`, since no control depends on them.
* `stringtable.c`: a hash table of terms, a finite function in the models.
* partitioned tables, the hard memory limit, V2 segments.

Left out of what is modelled: a crash in the middle of a merge (the freed pages of its sources may be reused before
the metapage reaches the disk); docid pages in the truncation; several indexes, whose locks are taken in the order of the
statements, so that two transactions can wait for each other for ever; an ingest that holds the index lock of `ai.chunks`
while it awaits embeddings; that `bm25_force_merge` may leave several segments; outbox rows nobody was notified of.

The plan, and what has become of it:

1. done: `JobPromise`, `AsyncJobs` and their proofs.
2. done: `BM25Index`, and the proofs of all safety properties its passing runs check.
3. done: `IndexContents`, `SegmentLevels`, and the proofs of its safety properties and of the refinement.
4. done: `IndexRegistry` for one index, and the proofs of its invariants. Left: two indexes.
5. done: `TopKHeap`, `BlockMaxWand`, `IndexScan`, and the proofs of their safety properties.
6. done: `ArenaLists`, `PostingCodec`, `SegmentPages`, `SegmentFile`, `SegmentWriters`, `SegmentMerge`, `IndexBuild`.
7. left: crashes in `SegmentLevels`; the composition of `AsyncJobs` with `BM25Index`.

Abstract specifications worth stating: for `BM25Index`, `IndexContents` as for `SegmentLevels`, between restarts
(`EachOnceAlways` is the greater part of that refinement); for the registry, a map from index to one state; for a
search, one step that returns the ranking's first rows. Worth proving next: types and page accounts of `IndexBuild`,
once its operators are functions or folds instead of recursive operators.
