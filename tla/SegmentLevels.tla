---------------------------- MODULE SegmentLevels ----------------------------
(***************************************************************************)
(* The segments of one bm25 index of pg_textsearch between two restarts.   *)
(*                                                                         *)
(* A spill writes the memtable as a segment and links it at the head of    *)
(* the level 0 chain.  A level that holds segments_per_level segments is   *)
(* merged into one segment of the next level, batch by batch and level by  *)
(* level; bm25_force_merge merges whole levels and then cuts the unused    *)
(* end of the index off; vacuum rebuilds the segments that hold dead       *)
(* documents.  Blocks of replaced segments go to the free space map, from  *)
(* which new segments are written.                                         *)
(*                                                                         *)
(* Spills and the merges they cause run under the exclusive index lock.    *)
(* Vacuum takes it for its spill only, bm25_force_merge never.  Overlap    *)
(* says whether those two may run while another process rewrites chains.   *)
(*                                                                         *)
(* A segment is one block, known by its root.  Documents are known by      *)
(* their ctid.  A session may set segments_per_level as it likes.          *)
(***************************************************************************)
EXTENDS Naturals, Sequences, FiniteSets

CONSTANTS
    Backends,           \* server processes that write to the index
    Vacuum,             \* the process that vacuums the table
    Nobody,             \* not a process: the index lock is free
    MaxDocs,            \* bound: documents ever inserted
    MaxLevels,          \* TP_MAX_LEVELS
    Fanouts,            \* values of pg_textsearch.segments_per_level
    ForceMerges,        \* whether bm25_force_merge is called
    Overlap             \* whether unlocked rewriting overlaps with other

ASSUME ProcessesAssumption == Vacuum \notin Backends /\ Nobody \notin Backends \cup {Vacuum}
ASSUME LevelsAssumption ==
    /\ MaxDocs \in Nat
    /\ MaxLevels \in Nat \ {0}
    /\ Fanouts \subseteq Nat \ {0, 1} /\ Fanouts # {}
    /\ {ForceMerges, Overlap} \subseteq BOOLEAN

VARIABLES
    heap,       \* what became of each document's heap tuple
    memtable,   \* documents in the memtable
    lock,       \* the process that holds the index lock in exclusive mode
    meta,       \* level_heads, level_counts and total_docs of the metapage
    pages,      \* blocks 1, 2, ... of the index, with the segment on each
    free,       \* blocks recorded in the free space map
    run,        \* what each process is in the middle of
    job,        \* the merge each process is working on
    vac         \* what vacuum knows: dead documents, segments, its position

blocks == <<meta, pages, free>>
vars   == <<heap, memtable, lock, blocks, run, job, vac>>

Docs   == 1 .. MaxDocs
Levels == 0 .. MaxLevels - 1
Top    == MaxLevels - 1
Procs  == Backends \cup {Vacuum}
None   == 0                                   \* InvalidBlockNumber
All    == MaxDocs + 1                         \* UINT32_MAX: more than there are

Segment(docs) == [docs |-> docs, next |-> None]
Segments == [docs : SUBSET Docs, next : Nat]

\* A process is idle, or at a step of a spill, a forced merge or a vacuum.
Idle  == [task |-> "none", at |-> "idle"]
Tasks == {"none", "spill", "force", "vacuum"}
Steps == {"idle", "lock", "write", "link", "check", "read", "merge", "swap", "free",
          "recheck", "unlock", "force", "truncate", "survey", "sweep", "replace", "finish"}
Runs  == [task : Tasks, at : Steps]

\* Which level it merges, how many segments at most, which ones it took, what
\* was left of the chain, the count of the level, and the segment it has just
\* written.
Job(l, m) == [level |-> l, max |-> m, sources |-> <<>>, rest |-> None, total |-> 0, new |-> None]
NoJob     == Job(0, 0)
Jobs      == [level : Nat, max : Nat, sources : Seq(Nat), rest : Nat, total : Nat, new : Nat]

\* Vacuum's dead documents; the segments it found per level, with how many
\* documents they held and whether one was dead; how many dead ones in all; the
\* level and place it has reached; the segment before it; documents kept so far.
Surveyed == [root : Nat, size : Nat, hit : BOOLEAN]
NoVacuum == [dead |-> {}, segs |-> [l \in Levels |-> <<>>], found |-> 0,
             level |-> 0, i |-> 1, prev |-> None, kept |-> 0]
Vacuums  == [dead : SUBSET Docs, segs : [Levels -> Seq(Surveyed)], found : Nat,
             level : Nat, i : Nat, prev : Nat, kept : Nat]

TypeOK ==
    /\ heap \in [Docs -> {"absent", "live", "dead", "gone"}]
    /\ memtable \in SUBSET Docs
    /\ lock \in Procs \cup {Nobody}
    /\ meta \in [heads : [Levels -> Nat], counts : [Levels -> Nat], docs : Nat]
    /\ pages \in Seq(Segments)
    /\ free \in SUBSET (1 .. Len(pages))
    /\ run \in [Procs -> Runs]
    /\ job \in [Procs -> Jobs]
    /\ vac \in Vacuums

Init ==
    /\ heap = [d \in Docs |-> "absent"]
    /\ memtable = {}
    /\ lock = Nobody
    /\ meta = [heads |-> [l \in Levels |-> None], counts |-> [l \in Levels |-> 0], docs |-> 0]
    /\ pages = <<>>
    /\ free = {}
    /\ run = [p \in Procs |-> Idle]
    /\ job = [p \in Procs |-> NoJob]
    /\ vac = NoVacuum

-----------------------------------------------------------------------------
(* Chains and blocks. *)

SegmentAt(b) == IF b \in DOMAIN pages THEN pages[b] ELSE Segment({})
DocsOn(bs)   == UNION {SegmentAt(b).docs : b \in bs}

NextOf(b, ps) == IF b \in DOMAIN ps THEN ps[b].next ELSE None

\* The chain from block b of ps, followed for at most one step more than there
\* are blocks: a chain that comes back to itself is longer than any sound one.
ChainFrom(b, ps) ==
    LET at[n \in 1 .. Len(ps) + 1] == IF n = 1 THEN b ELSE NextOf(at[n - 1], ps)
        len == CHOOSE k \in 0 .. Len(ps) + 1 :
                  (k <= Len(ps) => at[k + 1] = None) /\ \A n \in 1 .. k : at[n] # None
    IN  [n \in 1 .. len |-> at[n]]

Elements(s)  == {s[i] : i \in DOMAIN s}
Chain(l)     == ChainFrom(meta.heads[l], pages)
Linked(l)    == Elements(Chain(l))
AllLinked    == UNION {Linked(l) : l \in Levels}

\* A block from the free space map if there is one, else the next new block.
Allocatable  == IF free # {} THEN free ELSE {Len(pages) + 1}
Store(b, docs) ==
    /\ pages' = IF b \in DOMAIN pages THEN [pages EXCEPT ![b] = Segment(docs)]
                                      ELSE Append(pages, Segment(docs))
    /\ free' = free \ {b}

\* level_counts[l]++ and level_counts[l]--, of a uint16.
Incremented(n) == (n + 1) % 65536
Decremented(n) == (n + 65535) % 65536

\* Segment b becomes the head of level l in metapage m.
Pushed(m, l, b) == [m EXCEPT !.heads[l] = b, !.counts[l] = Incremented(@)]

Goto(p, step)  == run' = [run EXCEPT ![p].at = step]
Begin(p, t, step) == run' = [run EXCEPT ![p] = [task |-> t, at |-> step]]
With(p, j)     == job' = [job EXCEPT ![p] = j]

\* A process that is not rewriting chains, though it may be about to.
Resting(p) == run[p].at \in {"idle", "lock", "survey"}
Quiet(p)   == Overlap \/ \A q \in Procs \ {p} : Resting(q)

-----------------------------------------------------------------------------
(* The table. *)

Insert(d) ==
    /\ heap[d] = "absent" /\ \A e \in Docs : e < d => heap[e] # "absent"
    /\ lock = Nobody
    /\ heap' = [heap EXCEPT ![d] = "live"]
    /\ memtable' = memtable \cup {d}
    /\ UNCHANGED <<lock, blocks, run, job, vac>>

Delete(d) ==
    /\ heap[d] = "live"
    /\ heap' = [heap EXCEPT ![d] = "dead"]
    /\ UNCHANGED <<memtable, lock, blocks, run, job, vac>>

-----------------------------------------------------------------------------
(* Spills. *)

StartSpill(p) ==
    /\ run[p].at = "idle"
    /\ memtable # {} /\ lock = Nobody /\ Quiet(p)
    /\ lock' = p
    /\ Begin(p, "spill", "write")
    /\ \E f \in Fanouts : With(p, Job(0, f))
    /\ UNCHANGED <<heap, memtable, blocks, vac>>

\* Vacuum looks at the memtable before it has the lock: another process may
\* have spilled by now.
NothingToSpill(p) ==
    /\ run[p].at = "write" /\ memtable = {}
    /\ Goto(p, "unlock")
    /\ UNCHANGED <<heap, memtable, lock, blocks, job, vac>>

WriteSegment(p) ==
    /\ run[p].at = "write" /\ memtable # {}
    /\ \E b \in Allocatable :
          /\ Store(b, memtable)
          /\ With(p, [job[p] EXCEPT !.new = b])
    /\ memtable' = {}
    /\ Goto(p, "link")
    /\ UNCHANGED <<heap, lock, meta, vac>>

LinkSegment(p) ==
    /\ run[p].at = "link"
    /\ pages' = [pages EXCEPT ![job[p].new].next = meta.heads[0]]
    /\ meta' = Pushed(meta, 0, job[p].new)
    /\ Goto(p, "check")
    /\ With(p, Job(0, job[p].max))
    /\ UNCHANGED <<heap, memtable, lock, free, vac>>

EndSpill(p) ==
    /\ run[p].at = "unlock"
    /\ lock' = Nobody
    /\ IF p = Vacuum THEN Goto(p, "survey") ELSE Begin(p, "none", "idle")
    /\ With(p, NoJob)
    /\ UNCHANGED <<heap, memtable, blocks, vac>>

-----------------------------------------------------------------------------
(* Compaction and merges. *)

FullOffByOne(p) == meta.counts[job[p].level] > job[p].max
Full(p) == meta.counts[job[p].level] >= job[p].max

\* tp_maybe_compact_level, on entry to a level.
CheckLevel(p) ==
    /\ run[p].at = "check"
    /\ Goto(p, IF job[p].level < Top /\ Full(p) THEN "read" ELSE "unlock")
    /\ UNCHANGED <<heap, memtable, lock, blocks, job, vac>>

\* The loop of tp_maybe_compact_level: another batch, or the level above, which
\* may be full by now.
Recheck(p) ==
    /\ run[p].at = "recheck"
    /\ IF Full(p) THEN Goto(p, "read") /\ UNCHANGED job
       ELSE Goto(p, "check") /\ With(p, Job(job[p].level + 1, job[p].max))
    /\ UNCHANGED <<heap, memtable, lock, blocks, vac>>

Smaller(m, n) == IF m < n THEN m ELSE n

\* remainder_head: what of a chain is left when its first n segments are merged.
RemainderOffByOne(chain, n) == chain[n]
Remainder(chain, n) == IF n < Len(chain) THEN chain[n + 1] ELSE None

\* The chain and its count, then the first segments of it.  An empty level ends
\* a batch, as a failed merge does.
MergeRead(p) ==
    /\ run[p].at = "read"
    /\ LET total == meta.counts[job[p].level]
           chain == Chain(job[p].level)
           n     == Smaller(Smaller(total, job[p].max), Len(chain))
       IN  IF n > 0
           THEN /\ Goto(p, "merge")
                /\ With(p, [job[p] EXCEPT !.sources = SubSeq(chain, 1, n),
                                          !.rest = Remainder(chain, n), !.total = total])
           ELSE /\ Goto(p, IF run[p].task = "force" THEN "force" ELSE "check")
                /\ With(p, Job(job[p].level + 1, job[p].max))
    /\ UNCHANGED <<heap, memtable, lock, blocks, vac>>

MergeWrite(p) ==
    /\ run[p].at = "merge"
    /\ \E b \in Allocatable :
          /\ Store(b, DocsOn(Elements(job[p].sources)))
          /\ With(p, [job[p] EXCEPT !.new = b])
    /\ Goto(p, "swap")
    /\ UNCHANGED <<heap, memtable, lock, meta, vac>>

LeftNothing(j) == 0
LeftOver(j)    == j.total - Len(j.sources)

\* The metapage, with what was read of the source level before the merge.
MergeSwap(p) ==
    /\ run[p].at = "swap"
    /\ LET j       == job[p]
           drained == [meta EXCEPT !.heads[j.level] = j.rest, !.counts[j.level] = LeftOver(j)]
       IN  /\ pages' = [pages EXCEPT ![j.new].next = meta.heads[j.level + 1]]
           /\ meta' = Pushed(drained, j.level + 1, j.new)
    /\ Goto(p, "free")
    /\ With(p, [job[p] EXCEPT !.new = None])
    /\ UNCHANGED <<heap, memtable, lock, free, vac>>

\* The sources go to the free space map; then the next level of a forced merge,
\* or the loop of a compaction.
MergeFree(p) ==
    /\ run[p].at = "free"
    /\ free' = free \cup Elements(job[p].sources)
    /\ IF run[p].task = "force"
       THEN Goto(p, "force") /\ With(p, Job(job[p].level + 1, job[p].max))
       ELSE Goto(p, "recheck") /\ With(p, Job(job[p].level, job[p].max))
    /\ UNCHANGED <<heap, memtable, lock, meta, pages, vac>>

-----------------------------------------------------------------------------
(* bm25_force_merge. *)

StartForce(p) ==
    /\ run[p].at = "idle" /\ ForceMerges /\ Quiet(p)
    /\ Begin(p, "force", "force")
    /\ With(p, Job(0, All))
    /\ UNCHANGED <<heap, memtable, lock, blocks, vac>>

ForceLevel(p) ==
    /\ run[p].at = "force"
    /\ Goto(p, IF job[p].level < Top /\ meta.counts[job[p].level] >= 2 THEN "read" ELSE "truncate")
    /\ UNCHANGED <<heap, memtable, lock, blocks, job, vac>>

\* The last block that is worth keeping: max_used is one more, for the metapage.
LastUsedOffByOne == IF AllLinked = {} THEN 0 ELSE (CHOOSE b \in AllLinked : \A c \in AllLinked : c <= b) - 1
LastUsed == IF AllLinked = {} THEN 0 ELSE CHOOSE b \in AllLinked : \A c \in AllLinked : c <= b

\* PostgreSQL cuts the free space map together with the relation.
FreeUncut  == free
FreeBefore == {b \in free : b <= LastUsed}

Truncate(p) ==
    /\ run[p].at = "truncate"
    /\ pages' = SubSeq(pages, 1, Smaller(LastUsed, Len(pages)))
    /\ free' = FreeBefore
    /\ Begin(p, "none", "idle")
    /\ With(p, NoJob)
    /\ UNCHANGED <<heap, memtable, lock, meta, vac>>

-----------------------------------------------------------------------------
(* Vacuum. *)

SpillSkipped == FALSE
SpillNeeded  == memtable # {}

StartVacuum ==
    /\ run[Vacuum].at = "idle"
    /\ \E d \in Docs : heap[d] = "dead"
    /\ vac' = [NoVacuum EXCEPT !.dead = {d \in Docs : heap[d] = "dead"}]
    /\ Begin(Vacuum, "vacuum", IF SpillNeeded THEN "lock" ELSE "survey")
    /\ UNCHANGED <<heap, memtable, lock, blocks, job>>

LockForVacuum ==
    /\ run[Vacuum].at = "lock" /\ lock = Nobody /\ Quiet(Vacuum)
    /\ lock' = Vacuum
    /\ Goto(Vacuum, "write")
    /\ \E f \in Fanouts : With(Vacuum, Job(0, f))
    /\ UNCHANGED <<heap, memtable, blocks, vac>>

SurveyOf(b) == [root |-> b, size |-> Cardinality(SegmentAt(b).docs),
                hit |-> SegmentAt(b).docs \cap vac.dead # {}]

\* tp_vacuum_identify_affected.  Nothing dead in any segment ends the vacuum.
Survey ==
    /\ run[Vacuum].at = "survey" /\ Quiet(Vacuum)
    /\ LET segs == [l \in Levels |-> [i \in 1 .. Len(Chain(l)) |-> SurveyOf(Chain(l)[i])]]
           hits == DocsOn(AllLinked) \cap vac.dead
       IN  /\ vac' = [vac EXCEPT !.segs = segs, !.found = Cardinality(hits)]
           /\ Goto(Vacuum, IF hits = {} THEN "finish" ELSE "sweep")
    /\ UNCHANGED <<heap, memtable, lock, blocks, job>>

Sweeping == run[Vacuum].at = "sweep"
InLevel  == vac.i <= Len(vac.segs[vac.level])
Here     == vac.segs[vac.level][vac.i]

PassSegment ==
    /\ Sweeping /\ InLevel /\ ~Here.hit
    /\ vac' = [vac EXCEPT !.i = @ + 1, !.prev = Here.root, !.kept = @ + Here.size]
    /\ UNCHANGED <<heap, memtable, lock, blocks, run, job>>

PassLevel ==
    /\ Sweeping /\ ~InLevel
    /\ IF vac.level = Top
       THEN Goto(Vacuum, "finish") /\ UNCHANGED vac
       ELSE vac' = [vac EXCEPT !.level = @ + 1, !.i = 1, !.prev = None] /\ UNCHANGED run
    /\ UNCHANGED <<heap, memtable, lock, blocks, job>>

\* The documents of a segment that are not dead, from their heap tuples.
RebuildSegment ==
    /\ Sweeping /\ InLevel /\ Here.hit
    /\ LET docs == SegmentAt(Here.root).docs \ vac.dead
       IN  /\ IF docs = {}
              THEN UNCHANGED <<pages, free, job>>
              ELSE \E b \in Allocatable :
                     Store(b, docs) /\ With(Vacuum, [NoJob EXCEPT !.new = b])
           /\ vac' = [vac EXCEPT !.kept = @ + Cardinality(docs)]
    /\ Goto(Vacuum, "replace")
    /\ UNCHANGED <<heap, memtable, lock, meta>>


\* What now comes after vac.prev, or at the head of the level: the new segment,
\* or what followed the old one.
ReplaceSegment ==
    /\ run[Vacuum].at = "replace"
    /\ LET new  == job[Vacuum].new
           next == SegmentAt(Here.root).next
           here == IF new # None THEN new ELSE next
           l    == vac.level
           ps   == IF new # None THEN [pages EXCEPT ![new].next = next] ELSE pages
       IN  /\ pages' = IF vac.prev = None THEN ps ELSE [ps EXCEPT ![vac.prev].next = here]
           /\ meta' = [meta EXCEPT !.heads[l] = IF vac.prev = None THEN here ELSE @,
                                   !.counts[l] = IF new = None THEN Decremented(@) ELSE @]
           /\ vac' = [vac EXCEPT !.i = @ + 1, !.prev = IF new # None THEN new ELSE @]
    /\ free' = free \cup {Here.root}
    /\ Goto(Vacuum, "sweep")
    /\ With(Vacuum, NoJob)
    /\ UNCHANGED <<heap, memtable, lock>>

\* Phase 4, and the heap's own vacuum, which may now reuse the dead ctids.
FinishVacuum ==
    /\ run[Vacuum].at = "finish"
    /\ meta' = IF vac.found = 0 THEN meta
               ELSE [meta EXCEPT !.docs = IF @ >= vac.found THEN @ - vac.found ELSE vac.kept]
    /\ heap' = [d \in Docs |-> IF d \in vac.dead THEN "gone" ELSE heap[d]]
    /\ vac' = NoVacuum
    /\ Begin(Vacuum, "none", "idle")
    /\ UNCHANGED <<memtable, lock, pages, free, job>>

-----------------------------------------------------------------------------
Merging(p) ==
    \/ CheckLevel(p) \/ Recheck(p) \/ MergeRead(p)
    \/ MergeWrite(p) \/ MergeSwap(p) \/ MergeFree(p)

Spilling(p) ==
    NothingToSpill(p) \/ WriteSegment(p) \/ LinkSegment(p) \/ EndSpill(p)

Vacuuming ==
    \/ StartVacuum \/ LockForVacuum \/ Survey \/ FinishVacuum
    \/ PassSegment \/ PassLevel \/ RebuildSegment \/ ReplaceSegment

Next ==
    \/ \E d \in Docs : Insert(d) \/ Delete(d)
    \/ \E p \in Backends : StartSpill(p) \/ StartForce(p) \/ ForceLevel(p) \/ Truncate(p)
    \/ \E p \in Procs : Spilling(p) \/ Merging(p)
    \/ Vacuuming

Spec == Init /\ [][Next]_vars

-----------------------------------------------------------------------------
(* Properties. *)

\* What a process has taken out of the free space map or the chains, and has
\* neither linked nor recorded as free.
InHand(p) ==
    (IF job[p].new = None THEN {} ELSE {job[p].new})
        \cup (IF run[p].at = "free" THEN Elements(job[p].sources) ELSE {})

\* Every block of the index is in exactly one place: in the chain of one level,
\* free, or in the hands of one process.  Otherwise a merge, a rebuild or the
\* truncation has given a linked block away or lost a block for ever
\* (allocate_segment_page, tp_segment_free_pages, tp_truncate_dead_pages).
BlocksAccounted ==
    /\ \A l, m \in Levels : l # m => Linked(l) \cap Linked(m) = {}
    /\ \A p, q \in Procs : p # q => InHand(p) \cap InHand(q) = {}
    /\ LET held == UNION {InHand(p) : p \in Procs}
       IN  /\ AllLinked \cap free = {} /\ AllLinked \cap held = {} /\ free \cap held = {}
           /\ AllLinked \cup free \cup held = 1 .. Len(pages)

\* level_counts is the length of the chain at level_heads, and the chain ends:
\* what starts a merge, and how many segments it takes, goes by the count only.
CountsRight ==
    \A l \in Levels :
        /\ meta.counts[l] = Len(Chain(l))
        /\ Cardinality(Linked(l)) = Len(Chain(l))

\* Documents a spill has written and not yet linked: nobody else has the lock.
Spilled == UNION {IF run[p].at = "link" THEN SegmentAt(job[p].new).docs ELSE {} : p \in Procs}

Found == memtable \cup Spilled \cup DocsOn(AllLinked)

\* No document is in two segments, or in a segment and the memtable: it would be
\* scored twice (tp_clear_memtable, the sources a merge unlinks).
NoDocTwice ==
    /\ \A a, b \in AllLinked : a # b => SegmentAt(a).docs \cap SegmentAt(b).docs = {}
    /\ memtable \cap (Spilled \cup DocsOn(AllLinked)) = {}
    /\ Spilled \cap DocsOn(AllLinked) = {}

\* When nobody is at work, no level but the last holds as many segments as the
\* largest segments_per_level in use: compaction has gone on to every level it
\* had filled (tp_maybe_compact_level).
LevelsBounded ==
    (\A p \in Procs : Resting(p))
        => \A l \in Levels \ {Top} : \E f \in Fanouts : meta.counts[l] < f

Contents == INSTANCE IndexContents WITH found <- Found

\* Seen from the table, spills, merges, truncation and vacuum keep what
\* IndexContents promises: they lose no document, and the heap reclaims a dead
\* ctid only when no segment and no memtable holds it (tp_bulkdelete).
ContentsKept == Contents!Spec

\* A row that is alive is found, though vacuum replaces segments of a chain
\* while spills and merges change it (tp_vacuum_replace_segment).
LiveIsFound == \A d \in Docs : heap[d] = "live" => d \in Found

=============================================================================
