------------------------------ MODULE BM25Index ------------------------------
(***************************************************************************)
(* The write path and the durability of one bm25 index of pg_textsearch.   *)
(*                                                                         *)
(* Inserted documents live in a memtable in shared memory.  A spill writes *)
(* the memtable as a segment and links it at the head of the level 0 chain *)
(* of the metapage.  So that the memtable can be rebuilt, every inserted   *)
(* ctid is also appended to a chain of docid pages that starts at the      *)
(* metapage.  None of it is WAL-logged: a block has a copy in the buffer   *)
(* pool, which a crash loses, and one on disk, which is written when the   *)
(* code flushes it, or at any time by a checkpoint or an eviction.         *)
(*                                                                         *)
(* A document has one posting and is known by its ctid, given out in       *)
(* increasing order.  A segment is one block: it is flushed as a whole     *)
(* before anything points at it.  Level 0 never holds segments_per_level   *)
(* segments, so tp_maybe_compact_level finds nothing to do.                *)
(***************************************************************************)
EXTENDS Naturals, Sequences, FiniteSets

CONSTANTS
    Backends,           \* server processes that write to the index
    Nobody,             \* not a backend: the index lock is free
    MaxDocs,            \* bound: documents ever inserted
    Capacity,           \* TP_DOCIDS_PER_PAGE
    SpillThreshold,     \* pg_textsearch.memtable_spill_threshold, 0 disables
    BulkThreshold,      \* pg_textsearch.bulk_load_threshold, 0 disables
    ManualSpills,       \* whether bm25_spill_index is called
    Scans,              \* whether a writing transaction also runs a query
    MaxRestarts,        \* bound: restarts of the server
    Crashes             \* whether a restart may be a crash

ASSUME BackendsAssumption == Nobody \notin Backends
ASSUME BoundsAssumption ==
    /\ {MaxDocs, SpillThreshold, BulkThreshold, MaxRestarts} \subseteq Nat
    /\ Capacity \in Nat \ {0}
    /\ {ManualSpills, Scans, Crashes} \subseteq BOOLEAN

VARIABLES
    heap,       \* what became of each document's heap tuple
    xact,       \* documents inserted by each backend's open transaction
    lock,       \* the backend that holds the index lock in exclusive mode
    run,        \* what each backend is in the middle of
    cache,      \* docid_writer_cache.last_page of each backend, 0 if invalid
    memtable,   \* documents in the memtable
    totalDocs,  \* shared->total_docs
    meta,       \* the metapage in the buffer pool
    pages,      \* blocks 1, 2, ... of the index in the buffer pool
    diskMeta,   \* the metapage on disk
    disk,       \* blocks 1, 2, ... on disk
    restarts,   \* restarts so far
    crashed     \* whether one of them was a crash

memory  == <<lock, run, cache, memtable, totalDocs>>
buffers == <<meta, pages>>
storage == <<diskMeta, disk>>
history == <<restarts, crashed>>
vars    == <<heap, xact, memory, buffers, storage, history>>

Docs    == 1 .. MaxDocs
None    == 0                                  \* InvalidBlockNumber

\* A zeroed block, a docid page, or (the root of) a segment.
Page(kind, docs) == [kind |-> kind, docs |-> docs, next |-> None]
PageKinds == {"zero", "docids", "segment"}
Pages     == [kind : PageKinds, docs : SUBSET Docs, next : Nat]
MetaPages == [first : Nat, head : Nat, docs : Nat]

\* A backend is idle, or at a step of an insert, of bm25_spill_index, or of
\* the spill check before its commit; doc is the document being inserted,
\* block the block it has just made.
Busy(task, step, d) == [task |-> task, at |-> step, doc |-> d, block |-> None]
Idle  == Busy("none", "idle", None)
Tasks == {"none", "insert", "manual", "commit"}
Steps == {"idle", "write", "clear", "forget", "link", "docid", "chain", "commit"}
\* Only an insert has a document, and only an insert writes docids.
Runs  ==
    {r \in [task : Tasks, at : Steps, doc : Docs \cup {None}, block : Nat] :
        /\ r.task = "insert" => r.doc # None
        /\ r.at \in {"forget", "docid", "chain"} => r.task = "insert"}

TypeOK ==
    /\ heap \in [Docs -> {"absent", "open", "committed", "dead"}]
    /\ xact \in [Backends -> SUBSET Docs]
    /\ lock \in Backends \cup {Nobody}
    /\ run \in [Backends -> Runs]
    /\ cache \in [Backends -> Nat]
    /\ memtable \in SUBSET Docs
    /\ totalDocs \in Nat
    /\ meta \in MetaPages /\ diskMeta \in MetaPages
    /\ pages \in Seq(Pages) /\ disk \in Seq(Pages)
    /\ Len(disk) = Len(pages)
    /\ restarts \in 0 .. MaxRestarts
    /\ crashed \in BOOLEAN

\* CREATE INDEX on an empty table, as schema.sql does for ai.chunks.
Init ==
    /\ heap = [d \in Docs |-> "absent"]
    /\ xact = [b \in Backends |-> {}]
    /\ lock = Nobody
    /\ run = [b \in Backends |-> Idle]
    /\ cache = [b \in Backends |-> None]
    /\ memtable = {}
    /\ totalDocs = 0
    /\ meta = [first |-> None, head |-> None, docs |-> 0]
    /\ pages = <<>>
    /\ diskMeta = meta
    /\ disk = pages
    /\ restarts = 0
    /\ crashed = FALSE

-----------------------------------------------------------------------------
(* Chains of blocks. *)

\* The blocks of the given kind reached from block n by following next.
Chain(n, ps, kind) ==
    LET from[m \in Nat] ==
          IF m \in DOMAIN ps /\ ps[m].kind = kind THEN {m} \cup from[ps[m].next] ELSE {}
    IN  from[n]

\* Where the chain stops: None, or the block that is not what it should be.
ChainEnd(n, ps, kind) ==
    LET end[m \in Nat] ==
          IF m \in DOMAIN ps /\ ps[m].kind = kind THEN end[ps[m].next] ELSE m
    IN  end[n]

\* Block n gets a successor.
Linked(n, next, ps) == [ps EXCEPT ![n].next = next]

DocsOn(blocks, ps) == UNION {ps[n].docs : n \in blocks \cap DOMAIN ps}

DocidChain   == Chain(meta.first, pages, "docids")
SegmentChain == Chain(meta.head, pages, "segment")

HasRoomOffByOne(n) == n \in DOMAIN pages /\ Cardinality(pages[n].docs) <= Capacity
HasRoom(n) == n \in DOMAIN pages /\ Cardinality(pages[n].docs) < Capacity

-----------------------------------------------------------------------------
(* tp_insert, up to the spill. *)

Fresh(d) == heap[d] = "absent" /\ \A e \in Docs : e < d => heap[e] # "absent"

\* LWLockAcquire(exclusive), a no-op when b has the lock already.
MayLock(b) == lock \in {Nobody, b}

\* The heap tuple, the lock until the end of the transaction, the postings
\* and the corpus statistics; then tp_auto_spill_if_needed looks at the
\* number of postings.
Insert(b, d) ==
    /\ run[b] = Idle
    /\ Fresh(d)
    /\ MayLock(b)
    /\ lock' = b
    /\ heap' = [heap EXCEPT ![d] = "open"]
    /\ xact' = [xact EXCEPT ![b] = @ \cup {d}]
    /\ memtable' = memtable \cup {d}
    /\ totalDocs' = totalDocs + 1
    /\ LET spill == SpillThreshold > 0 /\ Cardinality(memtable') >= SpillThreshold
       IN  run' = [run EXCEPT ![b] = Busy("insert", IF spill THEN "write" ELSE "docid", d)]
    /\ UNCHANGED <<cache, buffers, storage, history>>

-----------------------------------------------------------------------------
(* A spill: tp_write_segment, tp_clear_memtable, (only when it is an insert  *)
(* that spills) tp_clear_docid_pages, and linking the segment.               *)

At(b, step)   == run[b].at = step
GoTo(b, step) == run' = [run EXCEPT ![b].at = step]

\* The end of a spill: an insert goes on, bm25_spill_index gives the lock up
\* (even one its transaction had before) and returns.
EndSpillUnlocked(b) ==
    /\ \/ run[b].task = "insert" /\ GoTo(b, "docid")
       \/ run[b].task = "commit" /\ GoTo(b, "commit")
       \/ run[b].task = "manual" /\ run' = [run EXCEPT ![b] = Idle]
    /\ lock' = IF lock = b THEN Nobody ELSE lock
EndSpill(b) ==
    \/ /\ run[b].task = "insert"
       /\ GoTo(b, "docid")
       /\ UNCHANGED lock
    \/ /\ run[b].task = "commit"
       /\ GoTo(b, "commit")
       /\ UNCHANGED lock
    \/ /\ run[b].task = "manual"
       /\ run' = [run EXCEPT ![b] = Idle]
       /\ lock' = IF lock = b THEN Nobody ELSE lock

\* An empty memtable makes no segment.
NothingToSpill(b) ==
    /\ At(b, "write")
    /\ memtable = {}
    /\ EndSpill(b)
    /\ UNCHANGED <<heap, xact, cache, memtable, totalDocs, buffers, storage, history>>

\* tp_write_segment flushes every buffer of the index, the metapage with it.
WriteSegment(b) ==
    /\ At(b, "write")
    /\ memtable # {}
    /\ pages' = Append(pages, Page("segment", memtable))
    /\ disk' = pages'
    /\ diskMeta' = meta
    /\ run' = [run EXCEPT ![b].at = "clear", ![b].block = Len(pages')]
    /\ UNCHANGED <<heap, xact, lock, cache, memtable, totalDocs, meta, history>>

ClearMemtableKept(b) ==
    /\ At(b, "clear")
    /\ GoTo(b, IF run[b].task = "insert" THEN "forget" ELSE "link")
    /\ UNCHANGED <<heap, xact, lock, cache, memtable, totalDocs, buffers, storage, history>>

ClearMemtable(b) ==
    /\ At(b, "clear")
    /\ memtable' = {}
    /\ GoTo(b, IF run[b].task = "insert" THEN "forget" ELSE "link")
    /\ UNCHANGED <<heap, xact, lock, cache, totalDocs, buffers, storage, history>>

ForgetDocidsKeepCache(b) ==
    /\ At(b, "forget")
    /\ meta' = [meta EXCEPT !.first = None]
    /\ diskMeta' = meta'
    /\ GoTo(b, "link")
    /\ UNCHANGED <<heap, xact, lock, cache, memtable, totalDocs, pages, disk, history>>

\* Flushes the metapage, and forgets the page this backend would write to
\* next; the other backends remember theirs.
ForgetDocids(b) ==
    /\ At(b, "forget")
    /\ meta' = [meta EXCEPT !.first = None]
    /\ diskMeta' = meta'
    /\ cache' = [cache EXCEPT ![b] = None]
    /\ GoTo(b, "link")
    /\ UNCHANGED <<heap, xact, lock, memtable, totalDocs, pages, disk, history>>

\* The segment and the metapage are marked dirty, neither is flushed.
LinkHead(b) ==
    /\ At(b, "link")
    /\ pages' = Linked(run[b].block, meta.head, pages)
    /\ meta' = [meta EXCEPT !.head = run[b].block]
    /\ EndSpill(b)
    /\ UNCHANGED <<heap, xact, cache, memtable, totalDocs, storage, history>>

-----------------------------------------------------------------------------
(* tp_insert, after the spill: tp_add_docid_to_pages.                        *)

\* The page at the end of the chain, if there is a chain.
LastDocidPages ==
    {n \in DOMAIN pages : n \in DocidChain /\ pages[n].kind = "docids" /\ pages[n].next = None}

\* The cached page while it has room (the metapage is not read), else the
\* last page of the chain.
DocidTargets(b) ==
    IF HasRoom(cache[b]) THEN {cache[b]} ELSE LastDocidPages

\* The page gets the docid; it is flushed only when that fills it.
Stored(n, d, ps) == [ps EXCEPT ![n].docs = @ \cup {d}]
FlushIfFull(n, ps, dk) ==
    IF Cardinality(ps[n].docs) >= Capacity THEN [dk EXCEPT ![n] = ps[n]] ELSE dk

StoreDocid(b) ==
    /\ At(b, "docid")
    /\ \E n \in DocidTargets(b) :
          /\ HasRoom(n)
          /\ pages' = Stored(n, run[b].doc, pages)
          /\ disk' = FlushIfFull(n, pages', disk)
          /\ cache' = [cache EXCEPT ![b] = n]
    /\ run' = [run EXCEPT ![b] = Idle]
    /\ UNCHANGED <<heap, xact, lock, memtable, totalDocs, meta, diskMeta, history>>

NeedsDocidPage(b) == \A n \in DocidTargets(b) : ~HasRoom(n)

NewDocidPageUnextended(b) ==
    /\ At(b, "docid")
    /\ NeedsDocidPage(b)
    /\ pages' = Append(pages, Page("docids", {}))
    /\ run' = [run EXCEPT ![b].at = "chain", ![b].block = Len(pages')]
    /\ UNCHANGED <<heap, xact, lock, cache, memtable, totalDocs, meta, storage, history>>

NewDocidPageUnflushed(b) ==
    /\ At(b, "docid")
    /\ NeedsDocidPage(b)
    /\ pages' = Append(pages, Page("docids", {}))
    /\ disk' = Append(disk, Page("zero", {}))
    /\ run' = [run EXCEPT ![b].at = "chain", ![b].block = Len(pages')]
    /\ UNCHANGED <<heap, xact, lock, cache, memtable, totalDocs, meta, diskMeta, history>>

\* The relation is extended by a zeroed block, which is initialised and
\* flushed before anything points at it.
NewDocidPage(b) ==
    /\ At(b, "docid")
    /\ NeedsDocidPage(b)
    /\ pages' = Append(pages, Page("docids", {}))
    /\ disk' = Append(disk, Page("docids", {}))
    /\ run' = [run EXCEPT ![b].at = "chain", ![b].block = Len(pages')]
    /\ UNCHANGED <<heap, xact, lock, cache, memtable, totalDocs, meta, diskMeta, history>>

\* The pointer to the new page is set and flushed, in the metapage (with
\* whatever else changed there) or in the page before; then the docid goes in.
ChainDocidPage(b) ==
    /\ At(b, "chain")
    /\ LET n == run[b].block
           d == run[b].doc
       IN  /\ \/ /\ LastDocidPages = {}
                 /\ meta' = [meta EXCEPT !.first = n]
                 /\ diskMeta' = meta'
                 /\ pages' = Stored(n, d, pages)
                 /\ disk' = FlushIfFull(n, pages', disk)
              \/ \E last \in LastDocidPages :
                    LET chained == Linked(last, n, pages)
                    IN  /\ pages' = Stored(n, d, chained)
                        /\ disk' = FlushIfFull(n, pages', [disk EXCEPT ![last] = chained[last]])
                        /\ UNCHANGED <<meta, diskMeta>>
           /\ cache' = [cache EXCEPT ![b] = n]
    /\ run' = [run EXCEPT ![b] = Idle]
    /\ UNCHANGED <<heap, xact, lock, memtable, totalDocs, history>>

-----------------------------------------------------------------------------
(* bm25_spill_index, queries, and the end of a transaction.                  *)

SpillIndex(b) ==
    /\ ManualSpills
    /\ run[b] = Idle
    /\ MayLock(b)
    /\ lock' = b
    /\ run' = [run EXCEPT ![b] = Busy("manual", "write", None)]
    /\ UNCHANGED <<heap, xact, cache, memtable, totalDocs, buffers, storage, history>>

\* A query in a transaction that has written: acquiring the lock in shared
\* mode is a no-op, releasing it is not.
Scan(b) ==
    /\ Scans
    /\ run[b] = Idle
    /\ lock = b
    /\ lock' = Nobody
    /\ UNCHANGED <<heap, xact, run, cache, memtable, totalDocs, buffers, storage, history>>

\* PRE_COMMIT: tp_bulk_load_spill_check, which takes no lock of its own.
BulkSpillDue(b) == BulkThreshold > 0 /\ Cardinality(xact[b]) >= BulkThreshold

BulkSpill(b) ==
    /\ run[b] = Idle
    /\ xact[b] # {}
    /\ BulkSpillDue(b)
    /\ run' = [run EXCEPT ![b] = Busy("commit", "write", None)]
    /\ UNCHANGED <<heap, xact, lock, cache, memtable, totalDocs, buffers, storage, history>>

\* What COMMIT and ABORT have in common: the fate of the tuples, the lock,
\* the counter of terms.
EndXact(b, fate) ==
    /\ heap' = [d \in Docs |-> IF d \in xact[b] THEN fate ELSE heap[d]]
    /\ xact' = [xact EXCEPT ![b] = {}]
    /\ lock' = IF lock = b THEN Nobody ELSE lock
    /\ run' = [run EXCEPT ![b] = Idle]
    /\ UNCHANGED <<cache, memtable, totalDocs, buffers, storage, history>>

Commit(b) ==
    /\ xact[b] # {}
    /\ At(b, "commit") \/ (run[b] = Idle /\ ~BulkSpillDue(b))
    /\ EndXact(b, "committed")

\* The postings and docids of the transaction stay; the heap hides them.
Abort(b) ==
    /\ xact[b] # {}
    /\ run[b] = Idle
    /\ EndXact(b, "dead")

-----------------------------------------------------------------------------
(* The disk, and restarts.                                                   *)

\* A checkpoint or an eviction writes one dirty block.
WriteBack ==
    /\ \/ /\ diskMeta # meta
          /\ diskMeta' = meta
          /\ UNCHANGED disk
       \/ \E n \in DOMAIN pages :
             /\ disk[n] # pages[n]
             /\ disk' = [disk EXCEPT ![n] = pages[n]]
             /\ UNCHANGED diskMeta
    /\ UNCHANGED <<heap, xact, memory, buffers, history>>

\* tp_rebuild_index_from_disk, on first use after the restart: the memtable
\* from the docid chain, which is cut where it meets anything but a docid
\* page, and the statistics from the metapage.
Recover(m, ps) ==
    LET chain == Chain(m.first, ps, "docids")
        cut   == ChainEnd(m.first, ps, "docids") # None
    IN  /\ memtable' = DocsOn(chain, ps)
        /\ totalDocs' = m.docs
        /\ meta' = IF cut /\ chain = {} THEN [m EXCEPT !.first = None] ELSE m
        /\ pages' = [n \in DOMAIN ps |->
                        IF cut /\ n \in chain /\ ps[n].next \notin chain
                        THEN [ps[n] EXCEPT !.next = None] ELSE ps[n]]
        /\ diskMeta' = meta'
        /\ disk' = pages'
        /\ lock' = Nobody
        /\ run' = [b \in Backends |-> Idle]
        /\ cache' = [b \in Backends |-> None]
        /\ xact' = [b \in Backends |-> {}]
        /\ restarts' = restarts + 1

\* A shutdown ends the transactions and writes every dirty block.
Restart ==
    /\ restarts < MaxRestarts
    /\ \A b \in Backends : run[b] = Idle /\ xact[b] = {}
    /\ Recover(meta, pages)
    /\ UNCHANGED <<heap, crashed>>

\* The buffers are gone; the WAL brings the committed tuples back.
Crash ==
    /\ Crashes
    /\ restarts < MaxRestarts
    /\ Recover(diskMeta, disk)
    /\ heap' = [d \in Docs |-> IF heap[d] = "open" THEN "dead" ELSE heap[d]]
    /\ crashed' = TRUE

-----------------------------------------------------------------------------

SpillStep(b) ==
    NothingToSpill(b) \/ WriteSegment(b) \/ ClearMemtable(b) \/ ForgetDocids(b) \/ LinkHead(b)

Next ==
    \/ \E b \in Backends :
          \/ \E d \in Docs : Insert(b, d)
          \/ SpillStep(b)
          \/ StoreDocid(b) \/ NewDocidPage(b) \/ ChainDocidPage(b)
          \/ SpillIndex(b) \/ Scan(b) \/ BulkSpill(b) \/ Commit(b) \/ Abort(b)
    \/ WriteBack \/ Restart \/ Crash

Spec == Init /\ [][Next]_vars

-----------------------------------------------------------------------------
(* What a query that gets the lock in shared mode may rely on.               *)

Readable == lock = Nobody

\* The number of places a query finds document d in.
Places(d) ==
    Cardinality({n \in SegmentChain : d \in pages[n].docs}) + (IF d \in memtable THEN 1 ELSE 0)

Committed == {d \in Docs : heap[d] = "committed"}

\* A committed document is found exactly once: spills move documents between
\* the memtable and the segments without losing or repeating one.
EachOnce == Readable => \A d \in Committed : Places(d) = 1

\* The number of postings of a term that every document has is at most the
\* number of documents, so tp_calculate_idf is not negative.
DocFreq ==
    Cardinality(memtable)
        + Cardinality({nd \in SegmentChain \X Docs : nd[2] \in pages[nd[1]].docs})
IdfNotNegative == Readable => DocFreq <= totalDocs

\* The exclusive lock is held from the first insert of a transaction to its
\* end, so no two transactions have uncommitted documents in the index.
WritersIsolated == \A b \in Backends : xact[b] # {} => lock = b

\* Whoever is in the middle of an insert, a spill, or the spill check at its
\* commit has the lock: nobody sees the memtable cleared and the segment not
\* yet linked, and nobody extends the docid chain at the same time.
SpillsExclusive == \A b \in Backends : run[b] # Idle => lock = b

\* The transactions for which both hold: they neither query after writing nor
\* call bm25_spill_index, each of which releases the transaction's lock.
LockKept == ~Scans /\ ~ManualSpills

-----------------------------------------------------------------------------
(* What is left after a restart.                                             *)

\* No committed document is missing from the index.
NothingLost == Readable => \A d \in Committed : Places(d) >= 1

\* The same as long as the server has been shut down, not crashed.
NothingLostByShutdown == ~crashed => NothingLost

\* Whatever is only in the memtable can be read back from the docid pages,
\* before or after a crash.
MemtableRecorded == Readable => memtable \subseteq DocsOn(DocidChain, pages)

Fit(ps) == \A n \in DOMAIN ps : ps[n].kind = "docids" => Cardinality(ps[n].docs) <= Capacity

\* No docid page ever gets one docid more than fits on it, whichever backend
\* remembers it as the last one and whichever copy a crash brought back.
NoPageOverflows == Fit(pages)

Leads(n, kind, ps) == n # None => n \in DOMAIN ps /\ ps[n].kind = kind

PointersSound(m, ps) ==
    /\ Leads(m.first, "docids", ps)
    /\ Leads(m.head, "segment", ps)
    /\ \A n \in DOMAIN ps : Leads(ps[n].next, ps[n].kind, ps)

\* Whichever blocks have reached the disk, every pointer there, from the
\* metapage or from block to block, leads to a block that is on disk with the
\* kind the pointer is meant for: a block is flushed before what points at it.
DiskPointersSound == PointersSound(diskMeta, disk)

\* So at any moment a crash would leave two chains that end properly: neither
\* in a zeroed or foreign block.
DiskChainsSound ==
    /\ ChainEnd(diskMeta.first, disk, "docids") = None
    /\ ChainEnd(diskMeta.head, disk, "segment") = None

-----------------------------------------------------------------------------
(* Why the lock, the capacity and the pointers stay right: parts of the
   inductive invariants. *)

\* With LockKept no spill gives the lock up.
LockIInv ==
    TypeOK /\ WritersIsolated /\ SpillsExclusive /\ \A b \in Backends : run[b].task # "manual"

\* The page a backend is about to chain is still empty: the one docid that
\* goes in fits.
EmptyUntilChained == \A b \in Backends : At(b, "chain") => pages[run[b].block].docs = {}

CapacityIInv == Fit(pages) /\ Fit(disk) /\ EmptyUntilChained

\* What a block is never changes, so a pointer that is right in the buffer
\* pool is right on disk whenever it gets there.
KindsFixed == \A n \in DOMAIN pages : disk[n].kind = pages[n].kind

\* The block a backend holds is already what it is about to be linked as.
BlockInHand ==
    \A b \in Backends :
        /\ run[b].at \in {"clear", "forget", "link"} =>
              run[b].block \in DOMAIN pages /\ pages[run[b].block].kind = "segment"
        /\ At(b, "chain") =>
              run[b].block \in DOMAIN pages /\ pages[run[b].block].kind = "docids"

PointersIInv ==
    TypeOK /\ KindsFixed /\ PointersSound(meta, pages) /\ DiskPointersSound /\ BlockInHand

=============================================================================
