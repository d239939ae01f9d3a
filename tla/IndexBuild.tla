----------------------------- MODULE IndexBuild -----------------------------
(***************************************************************************)
(* CREATE INDEX and the index's growth after it.                           *)
(*                                                                         *)
(* The serial build scans the heap, flushes its context to a segment when  *)
(* the budget is spent, and merges levels that are full.  The parallel     *)
(* build has workers that scan ranges of blocks into temporary files and a *)
(* leader that merges all their segments into one.  Afterwards rows are    *)
(* inserted and the memtable is spilled, which merges levels and uses the  *)
(* pages of merged segments again.                                         *)
(*                                                                         *)
(* A row is a function from its terms to their frequencies; one without    *)
(* terms stands for NULL and for a text without lexemes.                   *)
(***************************************************************************)
EXTENDS SegmentMerge

CONSTANTS
    Heaps,              \* tables: functions from ctids to rows
    FreeTids,           \* ctids of rows to be inserted
    NewRows,            \* rows to be inserted
    NWorkers,           \* parallel workers that are requested
    Budget,             \* bytes of the arena at which a context is flushed
    MaxSegments,        \* TP_MAX_WORKER_SEGMENTS
    MaxLevels,          \* TP_MAX_LEVELS
    SegmentsPerLevel    \* tp_segments_per_level

ASSUME BuildAssumption ==
    /\ NWorkers \in Nat /\ Budget \in Nat /\ MaxSegments \in Nat \ {0}
    /\ MaxLevels \in Nat \ {0} /\ SegmentsPerLevel \in Nat \ {0, 1}

VARIABLES
    heap,               \* the table
    compress,           \* tp_compress_segments
    phase,              \* how far the backend that builds has come
    ctx, todo,          \* of a serial build: its context, and the rows to scan
    par,                \* shared memory of a parallel build
    workers,            \* the workers that were launched
    rel, meta,          \* the index relation, and its metapage
    root,               \* the merged segment that is not linked yet
    shared,             \* corpus statistics in shared memory
    mem,                \* the memtable
    ascending           \* history: no context and no memtable had a row below an earlier one

vars == <<heap, compress, phase, ctx, todo, par, workers, rel, meta, root, shared, mem,
          ascending>>

Levels    == 0 .. MaxLevels - 1
NewMeta   == [heads |-> [l \in Levels |-> NoBlock], counts |-> [l \in Levels |-> 0],
              docs |-> 0, len |-> 0]
Offline   == [pc |-> "attach", todo |-> <<>>, ctx |-> NewContext, file |-> <<>>, segs |-> <<>>,
              docs |-> 0, len |-> 0, reported |-> <<>>]
NewShared == [launched |-> 0, ranges |-> <<>>, scan_ready |-> FALSE, phase1_done |-> 0,
              phase2_ready |-> FALSE, workers_done |-> 0]

Init ==
    /\ heap \in Heaps /\ compress \in BOOLEAN
    /\ phase = "start"
    /\ ctx = NewContext /\ todo = <<>>
    /\ par = NewShared /\ workers = <<>>
    /\ rel = NewRelation /\ meta = NewMeta /\ root = NoBlock
    /\ shared = [docs |-> 0, len |-> 0] /\ mem = NewMemtable
    /\ ascending = TRUE

-----------------------------------------------------------------------------
(* Levels.  An index is a record of its relation and its metapage, and of  *)
(* whether every read of the merges succeeded.                             *)

Index == [rel |-> rel, meta |-> meta, ok |-> TRUE]

SetNext(r, segment, next) == [r EXCEPT !.blocks[segment].data[1].v.next_segment = next]
Linked(x, segment, level) ==
    LET head == x.meta.heads[level]
    IN  [x EXCEPT !.rel = IF head = NoBlock THEN @ ELSE SetNext(@, segment, head),
                  !.meta.heads[level] = segment,
                  !.meta.counts[level] = @ + 1]

\* tp_link_l0_chain_head
LinkL0ChainHead(x, segment) == Linked(x, segment, 0)

\* The first n segments of a chain.
RECURSIVE SegmentChain(_, _, _)
SegmentChain(r, head, n) ==
    IF head = NoBlock \/ n = 0 THEN <<>>
    ELSE <<head>> \o SegmentChain(r, HeaderOf(r, head).next_segment, n - 1)

\* tp_merge_level_segments with segments_per_level as the most to merge.
\* The merged segment takes the place of the batch at the head of its level.
CutOff(x, level, batch) ==
    [x EXCEPT !.meta.heads[level] = HeaderOf(x.rel, batch[Len(batch)]).next_segment,
              !.meta.counts[level] = @ - Len(batch)]
Replaced(x, level, batch, merged) ==
    LET old == UNION {CollectPages(x.rel, batch[i]) : i \in DOMAIN batch}
        cut == [CutOff(x, level, batch) EXCEPT !.rel = merged.rel]
    IN  [Linked(cut, merged.root, level + 1) EXCEPT !.rel = FreePages(@, old)]

\* A merge that ends in an error has not touched the levels.
AbortedAfterCut(x, level, batch, sources) ==
    [CutOff(x, level, batch) EXCEPT
        !.ok = FALSE, !.rel = AbortedMerge(@, sources, level + 1, compress)]
Aborted(x, level, batch, sources) ==
    [x EXCEPT !.ok = FALSE, !.rel = AbortedMerge(@, sources, level + 1, compress)]

MergeBatch(x, level, batch, sources) ==
    IF MergeReads(sources)
    THEN Replaced(x, level, batch, WriteMerged(x.rel, sources, level + 1, FALSE, compress))
    ELSE Aborted(x, level, batch, sources)
MergeLevel(x, level) ==
    LET batch == SegmentChain(x.rel, x.meta.heads[level],
                              Smaller(x.meta.counts[level], SegmentsPerLevel))
    IN  MergeBatch(x, level, batch, <<>> \o [i \in DOMAIN batch |-> Open(x.rel, batch[i])])

\* tp_maybe_compact_level
RECURSIVE Drained(_, _)
Drained(x, level) ==
    IF ~x.ok \/ x.meta.counts[level] < SegmentsPerLevel THEN x
    ELSE Drained(MergeLevel(x, level), level)
RECURSIVE MaybeCompactLevel(_, _)
MaybeCompactLevel(x, level) ==
    IF level >= MaxLevels - 1 \/ x.meta.counts[level] < SegmentsPerLevel THEN x
    ELSE MaybeCompactLevel(Drained(x, level), level + 1)

Becomes(x) == rel' = x.rel /\ meta' = x.meta

-----------------------------------------------------------------------------
(* The serial build. *)

Indexable(row)  == DOMAIN row # {}
HeapBlocks      == Max({c[1] : c \in DOMAIN heap}) + 1
RowsOf(from, to) == CtidOrder({c \in DOMAIN heap : from <= c[1] /\ c[1] < to})

\* A sequential scan may start in the middle of the table, where another scan is.
StartSerial ==
    /\ phase = "start"
    /\ \E first \in 0 .. HeapBlocks - 1 :
           /\ todo' = RowsOf(first, HeapBlocks) \o RowsOf(0, first)
           /\ ascending' = (RowsOf(first, HeapBlocks) = <<>> \/ RowsOf(0, first) = <<>>)
    /\ phase' = "load"
    /\ UNCHANGED <<heap, compress, ctx, par, workers, rel, meta, root, shared, mem>>

\* tp_build_flush_and_link
LinkWritten(w) ==
    IF w.root = NoBlock THEN Index ELSE LinkL0ChainHead([Index EXCEPT !.rel = w.rel], w.root)
FlushAndLink(c) == LinkWritten(WriteContext(rel, c, compress))

WithRow(c, ctid) == IF Indexable(heap[ctid]) THEN AddDocument(c, ctid, heap[ctid]) ELSE c

\* A merge that cannot read a source is an error, which ends the build.
SerialTuple ==
    /\ phase = "load" /\ todo # <<>>
    /\ todo' = Tail(todo)
    /\ \E c \in {WithRow(ctx, Head(todo))} :
           \/ /\ ShouldFlush(c, Budget)
              /\ ctx' = NewContext
              /\ shared' = [docs |-> shared.docs + Len(c.ctids), len |-> shared.len + c.len]
              /\ \E x \in {MaybeCompactLevel(FlushAndLink(c), 0)} :
                     Becomes(x) /\ phase' = IF x.ok THEN "load" ELSE "failed"
           \/ ~ShouldFlush(c, Budget) /\ ctx' = c /\ UNCHANGED <<phase, shared, rel, meta>>
    /\ UNCHANGED <<heap, compress, par, workers, root, mem, ascending>>

\* The rest is flushed, the levels stay as they are, and the totals go to the
\* metapage.  (The totals are counted in shared from the start.)
SerialEnd ==
    /\ phase = "load" /\ todo = <<>>
    /\ shared' = [docs |-> shared.docs + Len(ctx.ctids), len |-> shared.len + ctx.len]
    /\ Becomes([IF Len(ctx.ctids) > 0 THEN FlushAndLink(ctx) ELSE Index
                   EXCEPT !.meta.docs = shared'.docs, !.meta.len = shared'.len])
    /\ phase' = "ready"
    /\ ctx' = NewContext
    /\ UNCHANGED <<heap, compress, todo, par, workers, root, mem, ascending>>

-----------------------------------------------------------------------------
(* The parallel build: the workers. *)

Launched == 1 .. par.launched
WorkerAt(w, pc) == phase # "failed" /\ workers[w].pc = pc

\* A worker spins until the ranges are there, then opens its scan.
BeginScan(w) ==
    /\ WorkerAt(w, "attach") /\ par.scan_ready
    /\ workers' = [workers EXCEPT ![w].todo = RowsOf(par.ranges[w][1], par.ranges[w][2]),
                                  ![w].pc = "scan"]
    /\ UNCHANGED <<heap, compress, phase, ctx, todo, par, rel, meta, root, shared, mem, ascending>>

\* A worker with context c written to the end of its file and tracked.
Flushed(wk, c) ==
    [wk EXCEPT !.file = WriteContextFlat(@, Len(wk.file), c, compress),
               !.segs = Append(@, Len(wk.file)),
               !.docs = @ + Len(c.ctids), !.len = @ + c.len,
               !.ctx = NewContext]

ScanTuple(w) ==
    /\ WorkerAt(w, "scan") /\ workers[w].todo # <<>>
    /\ \E c \in {WithRow(workers[w].ctx, Head(workers[w].todo))} :
           workers' = [workers EXCEPT ![w] =
               LET wk == [@ EXCEPT !.todo = Tail(@), !.ctx = c]
               IN  IF ShouldFlush(c, Budget) THEN Flushed(wk, c) ELSE wk]
    /\ UNCHANGED <<heap, compress, phase, ctx, todo, par, rel, meta, root, shared, mem, ascending>>

\* The segments of a worker as the leader will see them: as many as there is room
\* for.
ReportAll(wk) == [wk EXCEPT !.reported = wk.segs, !.pc = "signal"]
Report(wk) ==
    [wk EXCEPT !.reported = SubSeq(wk.segs, 1, Smaller(Len(wk.segs), MaxSegments)),
               !.pc = "signal"]

\* What is left is flushed and reported.
EndScan(w) ==
    /\ WorkerAt(w, "scan") /\ workers[w].todo = <<>>
    /\ workers' = [workers EXCEPT ![w] =
           Report(IF Len(@.ctx.ctids) > 0 THEN Flushed(@, @.ctx) ELSE @)]
    /\ UNCHANGED <<heap, compress, phase, ctx, todo, par, rel, meta, root, shared, mem, ascending>>

\* A worker tells the leader that its segments are there, if it has any or not.
SignalIfFound(w) ==
    /\ WorkerAt(w, "signal")
    /\ par' = [par EXCEPT !.phase1_done = IF workers[w].docs > 0 THEN @ + 1 ELSE @]
    /\ workers' = [workers EXCEPT ![w].pc = "wait"]
    /\ UNCHANGED <<heap, compress, phase, ctx, todo, rel, meta, root, shared, mem, ascending>>
SignalPhase1(w) ==
    /\ WorkerAt(w, "signal")
    /\ par' = [par EXCEPT !.phase1_done = @ + 1]
    /\ workers' = [workers EXCEPT ![w].pc = "wait"]
    /\ UNCHANGED <<heap, compress, phase, ctx, todo, rel, meta, root, shared, mem, ascending>>

Leave(w) ==
    /\ WorkerAt(w, "wait") /\ par.phase2_ready
    /\ par' = [par EXCEPT !.workers_done = @ + 1]
    /\ workers' = [workers EXCEPT ![w].pc = "gone"]
    /\ UNCHANGED <<heap, compress, phase, ctx, todo, rel, meta, root, shared, mem, ascending>>

-----------------------------------------------------------------------------
(* The parallel build: the leader. *)

\* Any number of the workers may start; without one the build is an error.
LaunchWorkers ==
    /\ phase = "start"
    /\ \E n \in 0 .. NWorkers :
           /\ par' = [par EXCEPT !.launched = n]
           /\ workers' = [w \in 1 .. n |-> Offline]
           /\ phase' = IF n = 0 THEN "failed" ELSE "ranges"
    /\ UNCHANGED <<heap, compress, ctx, todo, rel, meta, root, shared, mem, ascending>>

\* Contiguous ranges; the remainder of the division goes to the first workers.
RangeStart(w) ==
    (w - 1) * (HeapBlocks \div par.launched) + Smaller(w - 1, HeapBlocks % par.launched)
SetRanges ==
    /\ phase = "ranges"
    /\ par' = [par EXCEPT !.ranges = [w \in Launched |-> <<RangeStart(w), RangeStart(w + 1)>>],
                          !.scan_ready = TRUE]
    /\ phase' = "phase1"
    /\ UNCHANGED <<heap, compress, ctx, todo, workers, rel, meta, root, shared, mem, ascending>>

\* One reader per reported segment, worker by worker.
Readers ==
    FlattenSeq([w \in Launched |->
        [i \in DOMAIN workers[w].reported |->
           OpenFlat(workers[w].file, workers[w].reported[i])]])
TotalDocs == MapThenSumSet(LAMBDA w : workers[w].docs, Launched)
TotalLen  == MapThenSumSet(LAMBDA w : workers[w].len, Launched)

\* All segments of all workers become one, of disjoint sources.
MergeAll ==
    /\ phase = "phase1" /\ par.phase1_done >= par.launched
    /\ \E sources \in {<<>> \o Readers} :
           \/ sources = <<>> /\ phase' = "link" /\ UNCHANGED <<rel, root>>
           \/ ~MergeReads(sources) /\ phase' = "failed" /\ UNCHANGED <<rel, root>>
           \/ /\ sources # <<>> /\ MergeReads(sources)
              /\ phase' = "link"
              /\ \E merged \in {WriteMerged(rel, sources, 0, TRUE, compress)} :
                     rel' = merged.rel /\ root' = merged.root
    /\ UNCHANGED <<heap, compress, ctx, todo, par, workers, meta, shared, mem, ascending>>

LinkRoot ==
    /\ phase = "link"
    /\ meta' = [meta EXCEPT !.heads[0] = root, !.counts[0] = IF root = NoBlock THEN @ ELSE 1,
                            !.docs = TotalDocs, !.len = TotalLen]
    /\ root' = NoBlock
    /\ phase' = "release"
    /\ UNCHANGED <<heap, compress, ctx, todo, par, workers, rel, shared, mem, ascending>>

Release ==
    /\ phase = "release"
    /\ par' = [par EXCEPT !.phase2_ready = TRUE]
    /\ phase' = "phase2"
    /\ UNCHANGED <<heap, compress, ctx, todo, workers, rel, meta, root, shared, mem, ascending>>

\* The first use of the index takes the totals from the metapage.
FinishParallel ==
    /\ phase = "phase2" /\ par.workers_done >= par.launched
    /\ shared' = [docs |-> meta.docs, len |-> meta.len]
    /\ phase' = "ready"
    /\ UNCHANGED <<heap, compress, ctx, todo, par, workers, rel, meta, root, mem, ascending>>

-----------------------------------------------------------------------------
(* The index in use. *)

Insert(ctid, row) ==
    /\ phase = "ready" /\ ctid \in FreeTids \ DOMAIN heap
    /\ ascending' = (ascending /\ \A c \in DOMAIN mem.lengths : Before(c, ctid))
    /\ heap' = ctid :> row @@ heap
    /\ mem' = AddToMemtable(mem, ctid, row)
    /\ shared' = [docs |-> shared.docs + 1, len |-> shared.len + DocLength(row)]
    /\ UNCHANGED <<compress, phase, ctx, todo, par, workers, rel, meta, root>>

\* tp_auto_spill_if_needed, with any threshold.  A merge that cannot read a source
\* is an error of the statement; the segment is linked and the memtable empty by
\* then, the merges before that one are done, and the index stays in use.
Spill ==
    /\ phase = "ready" /\ mem.total > 0
    /\ Becomes(MaybeCompactLevel(LinkWritten(WriteMemtable(rel, mem, shared.len, compress)), 0))
    /\ mem' = NewMemtable
    /\ UNCHANGED <<heap, compress, phase, ctx, todo, par, workers, root, shared, ascending>>

WorkerStep(w) ==
    BeginScan(w) \/ ScanTuple(w) \/ EndScan(w) \/ SignalPhase1(w) \/ Leave(w)
BuildStep ==
    \/ StartSerial \/ SerialTuple \/ SerialEnd
    \/ LaunchWorkers \/ SetRanges \/ MergeAll \/ LinkRoot \/ Release \/ FinishParallel
    \/ \E w \in Launched : WorkerStep(w)

Next ==
    \/ BuildStep
    \/ \E ctid \in FreeTids, row \in NewRows : Insert(ctid, row)
    \/ Spill

Spec == Init /\ [][Next]_vars

\* Some step of the build can be taken.
BuildReady ==
    \/ phase \in {"start", "load", "ranges", "link", "release"}
    \/ phase = "phase1" /\ par.phase1_done >= par.launched
    \/ phase = "phase2" /\ par.workers_done >= par.launched
    \/ \E w \in Launched :
          /\ phase # "failed"
          /\ \/ workers[w].pc = "attach" /\ par.scan_ready
             \/ workers[w].pc \in {"scan", "signal"}
             \/ workers[w].pc = "wait" /\ par.phase2_ready

\* While a build can go on it does: every process of it keeps running.  Until the
\* index is ready every step is one of the build.
BuildFairness == []<>~BuildReady \/ []<><<TRUE>>_vars
FairSpec == Spec /\ BuildFairness

-----------------------------------------------------------------------------
(* Properties. *)

\* The segments that hold the index's rows: those of the workers until they are
\* linked as one, those of the levels then.
BeforeLink == phase \in {"ranges", "phase1", "link"}
FlatSegments ==
    UNION {{OpenFlat(workers[w].file, workers[w].segs[i]) : i \in DOMAIN workers[w].segs}
            : w \in Launched}
LevelChain(l) == SegmentChain(rel, meta.heads[l], meta.counts[l] + 1)
PagedSegments ==
    UNION {{Open(rel, LevelChain(l)[i]) : i \in DOMAIN LevelChain(l)} : l \in Levels}

\* A copy of a reader that can read ahead of the last block.
Padded(r) == [r EXCEPT !.image = @ \o [i \in 1 .. MaxCompressed |-> Blank]]

\* What is stored for a row, in a segment, in a context and in the memtable.
Postings(tids) ==
    UNION {{<<t, c, heap[c][t], EncodeFieldnorm(DocLength(heap[c]))>> : t \in DOMAIN heap[c]}
            : c \in tids}
InSegment(r) ==
    UNION {{<<ReadTerm(r, i), p.ctid, p.freq, p.norm>>
              : p \in ToSet(SourcePostings(Padded(r), 1, ReadEntry(r, i)))}
            : i \in 1 .. r.header.num_terms}
InContext(c) ==
    UNION {{<<t, c.ctids[p.doc + 1], p.freq, p.norm>>
              : p \in ToSet(FlattenSeq(ContextBlocks(c, t)))} : t \in DOMAIN c.terms}
InMemtable ==
    UNION {{<<t, mem.postings[t][j].ctid, mem.postings[t][j].freq,
              EncodeFieldnorm(mem.lengths[mem.postings[t][j].ctid])>>
              : j \in DOMAIN mem.postings[t]} : t \in DOMAIN mem.postings}

\* Rows whose segments a worker had no room to report.
Unreported(w) ==
    UNION {{p[2] : p \in InSegment(OpenFlat(workers[w].file, workers[w].segs[i]))}
            : i \in MaxSegments + 1 .. Len(workers[w].segs)}
NotReported == UNION {Unreported(w) : w \in Launched}
Scanned ==
    IF phase = "start" THEN {}
    ELSE IF par.launched = 0 THEN DOMAIN heap \ ToSet(todo)
    ELSE UNION {{c \in DOMAIN heap : par.ranges[w][1] <= c[1] /\ c[1] < par.ranges[w][2]}
                  \ ToSet(workers[w].todo)
                : w \in {v \in Launched : par.scan_ready /\ workers[v].pc # "attach"}}
Kept == (IF phase = "ready" THEN DOMAIN heap ELSE Scanned)
          \ (IF BeforeLink THEN {} ELSE NotReported)

\* IndexHoldsHeap: at every moment of a build, and afterwards, every row that
\* was scanned or inserted is in exactly one place - a context, a temporary
\* file, a segment of some level, the memtable - with each of its terms, its
\* frequencies and its length, and nothing else is there.  Only rows of segments
\* that a worker could not report are lost, and a finished build still counts
\* them.  (The whole path from tp_build_context_add_document through the
\* writers, page chains and merges to the readers.)
Holds(places, tids) ==
    /\ UNION places = Postings(tids)
    /\ \A p, q \in places : p # q => p \cap q = {}
Count(tids) == Cardinality({c \in tids : Indexable(heap[c])})
IndexHoldsHeap ==
    phase # "failed" =>
      /\ Holds({InContext(workers[w].ctx) : w \in Launched} \cup {InContext(ctx), InMemtable}
                 \cup {InSegment(r) : r \in IF BeforeLink THEN FlatSegments ELSE PagedSegments},
               Kept)
      /\ phase = "ready" =>
           /\ shared.docs = Count(DOMAIN heap)
           /\ shared.len = MapThenSumSet(LAMBDA c : DocLength(heap[c]), DOMAIN heap)

\* PostingsAscend: in every segment the terms ascend, documents are numbered in
\* the order of their ctids, the postings of a term ascend from block to block,
\* and a skip entry bounds its block: the last document, the most frequent
\* occurrence and the shortest document of it - as long as rows come in the order
\* of their ctids.  (What seeks, block skipping and the merge of posting lists by
\* ctid rely on.)
Ascends(s) == \A i \in 1 .. Len(s) - 1 : s[i] < s[i + 1]
SkipBounds(skip, block) ==
    /\ skip.count = Len(block)
    /\ skip.last = block[Len(block)].doc
    /\ skip.tf = Max({block[j].freq : j \in DOMAIN block})
    /\ skip.norm = Min({block[j].norm : j \in DOMAIN block})
ListSorted(r, entry) ==
    LET docs == <<>> \o SourcePostings(r, 1, entry)
    IN  /\ Ascends([j \in DOMAIN docs |-> docs[j].doc])
        /\ entry.freq = Len(docs)
        /\ \A b \in 1 .. entry.blocks :
              \E skip \in {ReadSkip(r, entry.skip, b)} : SkipBounds(skip, LoadBlock(r, skip))
SegmentSorted(r) ==
    /\ Ascends([i \in 1 .. r.header.num_terms |-> ReadTerm(r, i)])
    /\ \A d \in 1 .. r.header.num_docs - 1 : Before(LookupCtid(r, d - 1), LookupCtid(r, d))
    /\ \A i \in 1 .. r.header.num_terms : ListSorted(Padded(r), ReadEntry(r, i))
PostingsAscend ==
    phase # "failed" /\ ascending =>
        \A r \in FlatSegments \cup PagedSegments : SegmentSorted(r)

\* PostingsSorted: the postings of the segment that a spill would write now ascend,
\* whatever the order of the insertions: docmap.h says that CTID order is doc id
\* order, and posting.h that a list is sorted when it is finalized.
PostingsSorted ==
    \A t \in DOMAIN mem.postings :
        \E list \in {MemtablePostings(mem, Docmap(mem), t)} :
            Ascends([j \in DOMAIN list |-> list[j].doc])

\* PagesAccounted: every page of the relation belongs to exactly one linked
\* segment or to the one about to be linked, as a data page or as a page of its
\* page index, or is free, or was taken by a merge that ended in an error; no
\* chain goes on behind the metapage's count.
\* (allocate_segment_page, tp_segment_collect_pages and the free space map.)
SegmentRoots ==
    UNION {{LevelChain(l)[i] : i \in DOMAIN LevelChain(l)} : l \in Levels}
      \cup ({root} \ {NoBlock})
PagesAccounted ==
    phase # "failed" =>
      /\ UNION {CollectPages(rel, r) : r \in SegmentRoots}
           = DOMAIN rel.blocks \ (rel.free \cup rel.lost)
      /\ \A r, q \in SegmentRoots : r # q => CollectPages(rel, r) \cap CollectPages(rel, q) = {}
      /\ rel.free \cup rel.lost \subseteq DOMAIN rel.blocks
      /\ rel.free \cap rel.lost = {}
      /\ \A l \in Levels : Len(LevelChain(l)) = meta.counts[l]

\* Types and bounds of the state.
TypeOK ==
    /\ phase \in {"start", "load", "ranges", "phase1", "link", "release", "phase2", "ready",
                  "failed"}
    /\ par.launched \in 0 .. NWorkers /\ DOMAIN workers = Launched
    /\ par.phase1_done \in 0 .. par.launched /\ par.workers_done \in 0 .. par.launched
    /\ \A l \in Levels : meta.heads[l] \in DOMAIN rel.blocks \cup {NoBlock}
    /\ \A w \in Launched : Len(workers[w].reported) <= MaxSegments

\* BuildEnds: every build ends, with an index or with an error; no worker and no
\* leader waits for ever.  (The scan_ready, phase1_done, phase2_ready and
\* workers_done protocol of tp_build_parallel, once all workers launched start.)
BuildEnds == <>(phase \in {"ready", "failed"})

=============================================================================
