------------------------- MODULE BM25ContentsProofs -------------------------
(***************************************************************************)
(* The contents of BM25Index, for any number of backends and documents and *)
(* any capacity and thresholds: the memtable can be read back from the     *)
(* docid pages, spills move every document without losing or repeating     *)
(* one, no docid page overflows.                                           *)
(***************************************************************************)
EXTENDS BM25IndexProofs

-----------------------------------------------------------------------------
(* What a backend is in the middle of, and the lock. *)

\* A step of one backend.
StepOf(b) ==
    \/ \E d \in Docs : Insert(b, d)
    \/ SpillStep(b)
    \/ StoreDocid(b) \/ NewDocidPage(b) \/ ChainDocidPage(b)
    \/ SpillIndex(b) \/ Scan(b) \/ BulkSpill(b) \/ Commit(b) \/ Abort(b)

\* It does not touch what the others have: their run, their lock, their
\* documents and the page they remember; nobody inserts who has no lock.
Undisturbed(c) ==
    /\ run'[c] = run[c] /\ xact'[c] = xact[c] /\ cache'[c] = cache[c]
    /\ lock = c => lock' = c /\ memtable' \subseteq memtable

\* Steps that leave the lock alone and only clear the memtable, if anything.
LEMMA OthersKeepLock ==
    ASSUME TypeOK, NEW b \in Backends, NEW c \in Backends \ {b}, Others(b), xact' = xact,
           \/ cache' = cache
           \/ \E n : cache' = [cache EXCEPT ![b] = n],
           lock' = lock \/ (lock = b /\ lock' = Nobody) \/ (lock \in {Nobody, b} /\ lock' = b),
           memtable' = memtable \/ memtable' = {}
    PROVE  Undisturbed(c)
BY BackendsAssumption DEF TypeOK, Others, Undisturbed

\* Every step of a backend leaves what the others have alone.
LEMMA OthersUndisturbed ==
    ASSUME TypeOK, NEW b \in Backends, StepOf(b), NEW c \in Backends \ {b}
    PROVE  Undisturbed(c)
<1> USE DEF memory, buffers, storage, history
<1>1. ASSUME NEW d \in Docs, Insert(b, d) PROVE Undisturbed(c)
  <2>1. Others(b) /\ lock # c /\ cache' = cache /\ xact' = [xact EXCEPT ![b] = @ \cup {d}]
    BY <1>1, InsertRun, BackendsAssumption DEF Insert, MayLock
  <2> QED
    BY <2>1 DEF TypeOK, Others, Undisturbed
<1>2. ASSUME EndSpill(b) PROVE lock' = lock \/ (lock = b /\ lock' = Nobody)
  BY <1>2 DEF EndSpill
<1>3. ASSUME SpillStep(b) PROVE Undisturbed(c)
  <2>1. CASE NothingToSpill(b)
    <3>1. EndSpill(b) /\ UNCHANGED <<xact, cache, memtable>>
      BY <2>1 DEF NothingToSpill
    <3> QED
      BY <1>2, <3>1, EndSpillRun, OthersKeepLock
  <2>2. CASE WriteSegment(b)
    <3>1. UNCHANGED <<xact, cache, memtable, lock>>
      BY <2>2 DEF WriteSegment
    <3> QED
      BY <2>2, <3>1, NewBlockRun, OthersKeepLock
  <2>3. CASE ClearMemtable(b)
    <3>1. UNCHANGED <<xact, cache, lock>> /\ memtable' = {}
      BY <2>3 DEF ClearMemtable
    <3> QED
      BY <2>3, <3>1, ClearRun, OthersKeepLock
  <2>4. CASE ForgetDocids(b)
    <3>1. UNCHANGED <<xact, memtable, lock>> /\ cache' = [cache EXCEPT ![b] = None]
      BY <2>4 DEF ForgetDocids
    <3> QED
      BY <2>4, <3>1, ClearRun, OthersKeepLock
  <2>5. CASE LinkHead(b)
    <3>1. EndSpill(b) /\ UNCHANGED <<xact, cache, memtable>>
      BY <2>5 DEF LinkHead
    <3> QED
      BY <1>2, <3>1, EndSpillRun, OthersKeepLock
  <2> QED
    BY <1>3, <2>1, <2>2, <2>3, <2>4, <2>5 DEF SpillStep
<1>4. ASSUME StoreDocid(b) \/ ChainDocidPage(b) PROVE Undisturbed(c)
  <2>1. UNCHANGED <<xact, memtable, lock>> /\ \E n : cache' = [cache EXCEPT ![b] = n]
    BY <1>4 DEF StoreDocid, ChainDocidPage
  <2> QED
    BY <1>4, <2>1, IdleRun, OthersKeepLock
<1>5. ASSUME NewDocidPage(b) PROVE Undisturbed(c)
  <2>1. UNCHANGED <<xact, memtable, lock, cache>>
    BY <1>5 DEF NewDocidPage
  <2> QED
    BY <1>5, <2>1, NewBlockRun, OthersKeepLock
<1>6. ASSUME SpillIndex(b) PROVE Undisturbed(c)
  <2>1. UNCHANGED <<xact, memtable, cache>> /\ lock \in {Nobody, b} /\ lock' = b
    BY <1>6 DEF SpillIndex, MayLock
  <2> QED
    BY <1>6, <2>1, SpillRun, OthersKeepLock
<1>7. ASSUME BulkSpill(b) PROVE Undisturbed(c)
  <2>1. UNCHANGED <<xact, memtable, cache, lock>>
    BY <1>7 DEF BulkSpill
  <2> QED
    BY <1>7, <2>1, SpillRun, OthersKeepLock
<1>8. ASSUME Scan(b) PROVE Undisturbed(c)
  <2>1. UNCHANGED <<xact, memtable, cache, run>> /\ lock = b /\ lock' = Nobody
    BY <1>8 DEF Scan
  <2> QED
    BY <2>1, OthersKeepLock DEF Others
<1>9. ASSUME Commit(b) \/ Abort(b) PROVE Undisturbed(c)
  <2>1. /\ UNCHANGED <<memtable, cache>> /\ xact' = [xact EXCEPT ![b] = {}]
        /\ lock' = IF lock = b THEN Nobody ELSE lock
    BY <1>9 DEF Commit, Abort, EndXact
  <2>2. Others(b)
    BY <1>9, IdleRun
  <2> QED
    BY <2>1, <2>2 DEF TypeOK, Others, Undisturbed
<1> QED
  BY <1>1, <1>3, <1>4, <1>5, <1>6, <1>7, <1>8, <1>9 DEF StepOf

\* Inserts and bm25_spill_index have the lock for as long as they run; a spill at
\* the commit belongs to a transaction that has inserted; an insert spills only
\* when a threshold is set, and forgets the docid pages of an empty memtable.
TaskRight(b) ==
    /\ run[b].at = "idle" <=> run[b].task = "none"
    /\ run[b].task \in {"insert", "manual"} => lock = b
    /\ run[b].task = "manual" => ManualSpills
    /\ run[b].task = "commit" => xact[b] # {} /\ BulkThreshold # 0
    /\ run[b].at = "commit" => run[b].task = "commit"
    /\ run[b].task = "insert" /\ run[b].at \notin {"docid", "chain"} => SpillThreshold # 0
    /\ run[b].at = "forget" => memtable = {}
TasksRight == \A b \in Backends : TaskRight(b)

\* Whoever is not disturbed goes on rightly.
LEMMA UndisturbedTask ==
    ASSUME TypeOK, NEW c \in Backends, TaskRight(c), Undisturbed(c)
    PROVE  TaskRight(c)'
<1>1. run[c].at = "forget" => run[c].task = "insert"
  BY RunTypes DEF TypeOK
<1> QED
  BY <1>1 DEF TaskRight, Undisturbed

\* Every step of a backend leaves it with a right task.
LEMMA TaskAfter ==
    ASSUME TypeOK, NEW b \in Backends, TaskRight(b), StepOf(b)
    PROVE  TaskRight(b)'
<1> USE DEF memory, buffers, storage, history
<1>0. /\ run[b].at \in {"forget", "docid", "chain"} => run[b].task = "insert"
      /\ Idle.task = "none" /\ Idle.at = "idle"
  BY RunTypes DEF TypeOK
<1>1. ASSUME NEW d \in Docs, Insert(b, d) PROVE TaskRight(b)'
  BY <1>1, InsertRun DEF Insert, TaskRight
<1>2. ASSUME EndSpill(b), UNCHANGED <<xact, memtable>> PROVE TaskRight(b)'
  BY <1>0, <1>2, EndSpillRun DEF TaskRight, SameTask
<1>3. ASSUME SpillStep(b) PROVE TaskRight(b)'
  <2>1. CASE NothingToSpill(b) \/ LinkHead(b)
    BY <1>2, <2>1 DEF NothingToSpill, LinkHead
  <2>2. CASE WriteSegment(b)
    <3>1. UNCHANGED <<lock, xact, memtable>> /\ run[b].at = "write"
      BY <2>2 DEF WriteSegment, At
    <3> QED
      BY <1>0, <2>2, <3>1, NewBlockRun DEF TaskRight, SameTask
  <2>3. CASE ClearMemtable(b)
    <3>1. UNCHANGED <<lock, xact>> /\ run[b].at = "clear" /\ memtable' = {}
      BY <2>3 DEF ClearMemtable, At
    <3> QED
      BY <1>0, <2>3, <3>1, ClearRun DEF TaskRight, SameTask
  <2>4. CASE ForgetDocids(b)
    <3>1. UNCHANGED <<lock, xact, memtable>> /\ run[b].at = "forget"
      BY <2>4 DEF ForgetDocids, At
    <3> QED
      BY <1>0, <2>4, <3>1, ClearRun DEF TaskRight, SameTask
  <2> QED
    BY <1>3, <2>1, <2>2, <2>3, <2>4 DEF SpillStep
<1>4. ASSUME StoreDocid(b) \/ ChainDocidPage(b) \/ Commit(b) \/ Abort(b) PROVE TaskRight(b)'
  BY <1>0, <1>4, IdleRun DEF TaskRight
<1>5. ASSUME NewDocidPage(b) PROVE TaskRight(b)'
  <2>1. UNCHANGED <<lock, xact, memtable>> /\ run[b].at = "docid"
    BY <1>5 DEF NewDocidPage, At
  <2> QED
    BY <1>0, <1>5, <2>1, NewBlockRun DEF TaskRight, SameTask
<1>6. ASSUME SpillIndex(b) PROVE TaskRight(b)'
  BY <1>6, SpillRun DEF SpillIndex, TaskRight
<1>7. ASSUME BulkSpill(b) PROVE TaskRight(b)'
  <2>1. BulkThreshold # 0 /\ xact[b] # {} /\ UNCHANGED <<xact, lock>>
    BY <1>7, BoundsAssumption DEF BulkSpill, BulkSpillDue
  <2> QED
    BY <1>7, <2>1, SpillRun DEF TaskRight
<1>8. ASSUME Scan(b) PROVE TaskRight(b)'
  <2>1. UNCHANGED <<run, xact, memtable>> /\ run[b] = Idle
    BY <1>8 DEF Scan
  <2> QED
    BY <1>0, <2>1 DEF TaskRight
<1> QED
  BY <1>1, <1>3, <1>4, <1>5, <1>6, <1>7, <1>8 DEF StepOf

\* After a restart nobody is in the middle of anything.
LEMMA RecoveredIdle ==
    ASSUME ChainsIInv, NEW m \in {meta, diskMeta}, NEW ps \in {pages, disk}, Recover(m, ps)
    PROVE  /\ m \in MetaPages /\ ps \in Seq(Pages)
           /\ \A b \in Backends : run'[b] = Idle /\ cache'[b] = None /\ xact'[b] = {}
<1>1. m \in MetaPages /\ ps \in Seq(Pages)
  BY ChainsTyped DEF TypeOK
<1> QED
  BY <1>1, RecoverFacts

\* Nobody's task is disturbed, whatever the others and the checkpointer do.
LEMMA TasksStep ==
    ASSUME ChainsIInv, TasksRight, [Next]_vars
    PROVE  TasksRight'
<1> USE DEF memory, buffers, storage, history
<1>1. TypeOK
  BY ChainsTyped
<1>2. ASSUME NEW b \in Backends, StepOf(b) PROVE TasksRight'
  <2>1. \A c \in Backends \ {b} : TaskRight(c)'
    BY <1>1, <1>2, OthersUndisturbed, UndisturbedTask DEF TasksRight
  <2>2. TaskRight(b)'
    BY <1>1, <1>2, TaskAfter DEF TasksRight
  <2> QED
    BY <2>1, <2>2 DEF TasksRight
<1>3. CASE UNCHANGED <<run, lock, xact, memtable>>
  BY <1>3 DEF TasksRight, TaskRight
<1>4. CASE WriteBack \/ UNCHANGED vars
  <2>1. UNCHANGED <<run, lock, xact, memtable>>
    BY <1>4 DEF WriteBack, vars
  <2> QED
    BY <1>3, <2>1
<1>5. CASE Restart \/ Crash
  <2>1. \A b \in Backends : run'[b] = Idle
    BY <1>5, RecoveredIdle DEF Restart, Crash
  <2> QED
    BY <2>1, RunTypes DEF TasksRight, TaskRight
<1> QED
  BY <1>2, <1>4, <1>5 DEF Next, StepOf

\* At first nobody is in the middle of anything.
LEMMA InitTasks == Init => TasksRight
BY RunTypes DEF Init, TasksRight, TaskRight

-----------------------------------------------------------------------------
(* What a step leaves of the blocks and of the two chains. *)

\* No block changes its kind and no segment its documents; the blocks of a kind
\* stay as they are.
KindsStay ==
    \A n \in DOMAIN pages :
        /\ n \in DOMAIN pages' /\ pages'[n].kind = pages[n].kind
        /\ pages[n].kind = "segment" => pages'[n].docs = pages[n].docs
BlocksStay(kind) ==
    \A n \in DOMAIN pages : pages[n].kind = kind => n \in DOMAIN pages' /\ pages'[n] = pages[n]

\* The page a backend remembers is a docid page.
CachesSound == \A b \in Backends : Leads(cache[b], "docids", pages)

\* Steps that change no block, or add one.
LEMMA BlocksAdded ==
    ASSUME ChainsIInv, pages' = pages \/ \E p \in Pages : pages' = Append(pages, p)
    PROVE  KindsStay /\ \A kind : BlocksStay(kind)
<1>1. pages \in Seq(Pages)
  BY ChainsTyped
<1>2. \A n \in DOMAIN pages : n \in DOMAIN pages' /\ pages'[n] = pages[n]
  BY <1>1, AppendPage
<1> QED
  BY <1>2 DEF KindsStay, BlocksStay

\* Docids are written to docid pages.
LEMMA TargetDocids ==
    ASSUME ChainsIInv, CachesSound,
           NEW b \in Backends, NEW n \in DocidTargets(b) \cap DOMAIN pages
    PROVE  pages[n].kind = "docids"
<1>1. CASE HasRoom(cache[b]) /\ n = cache[b]
  <2>1. Leads(n, "docids", pages) /\ n \in DOMAIN pages
    BY <1>1 DEF CachesSound
  <2>2. n # None
    BY <2>1, ChainsTyped
  <2> QED
    BY <2>1, <2>2 DEF Leads
<1>2. CASE n \in LastDocidPages
  BY <1>2 DEF LastDocidPages
<1> QED
  BY <1>1, <1>2 DEF DocidTargets

\* Linking a segment changes that segment's pointer.
LEMMA BlocksLinked ==
    ASSUME ChainsIInv, NEW b \in Backends, LinkHead(b)
    PROVE  /\ KindsStay /\ BlocksStay("docids") /\ DOMAIN pages' = DOMAIN pages
           /\ run[b].block \in DOMAIN pages /\ pages[run[b].block].kind = "segment"
           /\ run[b].block \in Hands /\ Unlinked(run[b].block, meta, pages)
           /\ \A n \in DOMAIN pages :
                 pages'[n].next = IF n = run[b].block THEN meta.head ELSE pages[n].next
           /\ meta'.head = run[b].block /\ meta'.first = meta.first
<1> PICK x : x = run[b].block
  OBVIOUS
<1>1. /\ pages' = Linked(x, meta.head, pages) /\ run[b].at = "link"
      /\ meta' = [meta EXCEPT !.head = x]
  BY DEF LinkHead, At
<1>2. run[b].at \in Holding
  BY <1>1, IdleHoldsNothing
<1>3. x \in DOMAIN pages /\ pages[x].kind = "segment"
  BY <1>1 DEF ChainsIInv, PointersIInv, BlockInHand
<1>4. x \in Hands /\ Unlinked(x, meta, pages)
  BY <1>2 DEF Hands, ChainsIInv, HandsFree
<1>5. /\ DOMAIN pages' = DOMAIN pages
      /\ \A m \in DOMAIN pages : /\ pages'[m].kind = pages[m].kind /\ pages'[m].docs = pages[m].docs
                                 /\ pages'[m].next = IF m = x THEN meta.head ELSE pages[m].next
  BY <1>1, <1>3, ChainsTyped, LinkedPages
<1>6. BlocksStay("docids")
  <2> SUFFICES ASSUME NEW n \in DOMAIN pages, n # x PROVE pages'[n] = pages[n]
    BY <1>3, <1>5 DEF BlocksStay
  <2>1. pages'[n] = IF n = x THEN [pages[n] EXCEPT !.next = meta.head] ELSE pages[n]
    BY <1>1 DEF Linked
  <2> QED
    BY <2>1
<1>7. meta'.head = x /\ meta'.first = meta.first
  BY <1>1, ChainsTyped DEF MetaPages
<1>8. KindsStay
  BY <1>5 DEF KindsStay
<1> QED
  BY <1>3, <1>4, <1>5, <1>6, <1>7, <1>8

\* Writing a docid touches docid pages only.
LEMMA BlocksWritten ==
    ASSUME ChainsIInv, CachesSound, NEW b \in Backends, StoreDocid(b) \/ ChainDocidPage(b)
    PROVE  KindsStay /\ BlocksStay("segment") /\ DOMAIN pages' = DOMAIN pages
<1>1. CASE StoreDocid(b)
  <2>1. PICK n \in DocidTargets(b) \cap DOMAIN pages : Written(pages, n, run[b].doc, pages')
    BY <1>1, StoreFacts
  <2>2. pages[n].kind = "docids"
    BY <2>1, TargetDocids
  <2>3. \A m \in DOMAIN pages : pages[m].kind = "segment" => m # n
    BY <2>2
  <2> QED
    BY <2>1, <2>3 DEF Written, KindsStay, BlocksStay
<1>2. CASE ChainDocidPage(b)
  <2> PICK x : x = run[b].block
    OBVIOUS
  <2>1. x \in DOMAIN pages /\ pages[x].kind = "docids"
    BY <1>2, InsertsDocument DEF ChainDocidPage, At
  <2>2. PICK ps : /\ Written(ps, x, run[b].doc, pages')
                  /\ ps = pages \/ \E last \in LastDocidPages : Extended(pages, last, x, ps)
    BY <1>2, ChainFacts
  <2>3. \A last \in LastDocidPages : last \in DOMAIN pages /\ pages[last].kind = "docids"
    BY DEF LastDocidPages
  <2>4. /\ DOMAIN ps = DOMAIN pages
        /\ \A m \in DOMAIN pages : /\ ps[m].kind = pages[m].kind
                                   /\ pages[m].kind = "segment" => ps[m] = pages[m]
    BY <2>2, <2>3 DEF Extended
  <2>5. \A m \in DOMAIN pages : pages[m].kind = "segment" => m # x
    BY <2>1
  <2> QED
    BY <2>2, <2>4, <2>5 DEF Written, KindsStay, BlocksStay
<1> QED
  BY <1>1, <1>2

\* What the steps of a backend leave alone.
LEMMA StepBlocks ==
    ASSUME ChainsIInv, CachesSound, NEW b \in Backends, StepOf(b)
    PROVE  /\ KindsStay
           /\ BlocksStay("segment") \/ LinkHead(b)
           /\ BlocksStay("docids") \/ StoreDocid(b) \/ ChainDocidPage(b)
<1> USE DEF memory, buffers, storage, history
<1>1. CASE \/ \E d \in Docs : Insert(b, d)
           \/ NothingToSpill(b) \/ ClearMemtable(b) \/ ForgetDocids(b)
           \/ SpillIndex(b) \/ Scan(b) \/ BulkSpill(b) \/ Commit(b) \/ Abort(b)
  <2>1. pages' = pages
    BY <1>1 DEF Insert, NothingToSpill, ClearMemtable, ForgetDocids, SpillIndex, Scan,
                BulkSpill, Commit, Abort, EndXact
  <2> QED
    BY <2>1, BlocksAdded
<1>2. CASE WriteSegment(b)
  <2>1. pages' = Append(pages, Page("segment", memtable)) /\ Page("segment", memtable) \in Pages
    BY <1>2, ChainsTyped, PageType DEF WriteSegment, TypeOK, PageKinds
  <2> QED
    BY <2>1, BlocksAdded
<1>3. CASE NewDocidPage(b)
  <2>1. pages' = Append(pages, Page("docids", {})) /\ Page("docids", {}) \in Pages
    BY <1>3, PageType DEF NewDocidPage, PageKinds
  <2> QED
    BY <2>1, BlocksAdded
<1>4. CASE LinkHead(b)
  BY <1>4, BlocksLinked
<1>5. CASE StoreDocid(b) \/ ChainDocidPage(b)
  BY <1>5, BlocksWritten
<1> QED
  BY <1>1, <1>2, <1>3, <1>4, <1>5 DEF StepOf, SpillStep

\* What the steps of a backend leave of the metapage.
LEMMA StepMeta ==
    ASSUME ChainsIInv, NEW b \in Backends, StepOf(b)
    PROVE  /\ meta'.head = meta.head \/ LinkHead(b)
           /\ meta'.first = meta.first \/ ForgetDocids(b) \/ ChainDocidPage(b)
<1> USE DEF memory, buffers, storage, history
<1>1. CASE \/ \E d \in Docs : Insert(b, d)
           \/ NothingToSpill(b) \/ ClearMemtable(b) \/ WriteSegment(b) \/ NewDocidPage(b)
           \/ StoreDocid(b)
           \/ SpillIndex(b) \/ Scan(b) \/ BulkSpill(b) \/ Commit(b) \/ Abort(b)
  <2>1. meta' = meta
    BY <1>1 DEF Insert, NothingToSpill, ClearMemtable, WriteSegment, NewDocidPage, StoreDocid,
                SpillIndex, Scan, BulkSpill, Commit, Abort, EndXact
  <2> QED
    BY <2>1
<1>2. CASE LinkHead(b)
  BY <1>2, BlocksLinked
<1>3. CASE ForgetDocids(b)
  BY <1>3, ChainsTyped DEF ForgetDocids, MetaPages
<1>4. CASE ChainDocidPage(b)
  <2>1. meta' = meta \/ meta' = [meta EXCEPT !.first = run[b].block]
    BY <1>4, ChainFacts
  <2> QED
    BY <1>4, <2>1, ChainsTyped DEF MetaPages
<1> QED
  BY <1>1, <1>2, <1>3, <1>4 DEF StepOf, SpillStep

\* A chain whose blocks stay stays, and so do the documents on them.
LEMMA ChainStays ==
    ASSUME ChainsIInv, ChainsIInv', NEW kind, BlocksStay(kind),
           NEW m \in Linkable(kind) \cup {None}
    PROVE  /\ Chain(m, pages', kind) = Chain(m, pages, kind)
           /\ DocsOn(Chain(m, pages, kind), pages') = DocsOn(Chain(m, pages, kind), pages)
<1> PICK K : K = Linkable(kind)
  OBVIOUS
<1>1. pages \in Seq(Pages) /\ Ranked(pages) /\ Path(K, pages, kind)
  BY ChainsTyped, ChainPaths DEF ChainsIInv
<1>2. pages' \in Seq(Pages)
  BY DEF ChainsIInv, PointersIInv, TypeOK
<1>3. \A n \in K : n \in DOMAIN pages /\ n \in DOMAIN pages' /\ pages'[n] = pages[n]
  BY DEF Linkable, BlocksStay
<1>4. SameOn(K, pages, pages', kind)
  BY <1>1, <1>3 DEF Path, Good, SameOn
<1>5. Chain(m, pages', kind) = Chain(m, pages, kind)
  BY <1>1, <1>2, <1>4, ChainSame
<1>6. Chain(m, pages, kind) \subseteq K
  BY <1>1, ChainWithin
<1>7. DocsOn(Chain(m, pages, kind), pages') = DocsOn(Chain(m, pages, kind), pages)
  BY <1>3, <1>6 DEF DocsOn
<1> QED
  BY <1>5, <1>7

-----------------------------------------------------------------------------
(* The pages that backends remember, and the documents of transactions. *)

\* A block keeps its kind, so what leads to it still does.
LEMMA LeadsStay ==
    ASSUME KindsStay, NEW n, NEW kind, Leads(n, kind, pages)
    PROVE  Leads(n, kind, pages')
BY DEF KindsStay, Leads

\* A backend remembers the docid page it has written to, until it forgets it.
LEMMA CachesStep ==
    ASSUME ChainsIInv, CachesSound, [Next]_vars
    PROVE  CachesSound'
<1> USE DEF memory, buffers, storage, history
<1>0. cache \in [Backends -> Nat]
  BY ChainsTyped DEF TypeOK
<1>1. ASSUME NEW b \in Backends, StepOf(b) PROVE CachesSound'
  <2>1. KindsStay
    BY <1>1, StepBlocks
  <2>2. \A c \in Backends : Leads(cache[c], "docids", pages')
    BY <2>1, LeadsStay DEF CachesSound
  <2>3. ASSUME NEW n, cache' = [cache EXCEPT ![b] = n], Leads(n, "docids", pages')
        PROVE  CachesSound'
    BY <1>0, <2>2, <2>3 DEF CachesSound
  <2>4. CASE StoreDocid(b)
    <3>1. PICK n \in DocidTargets(b) \cap DOMAIN pages : cache' = [cache EXCEPT ![b] = n]
      BY <2>4, StoreFacts
    <3>2. Leads(n, "docids", pages)
      BY <3>1, TargetDocids DEF Leads
    <3> QED
      BY <2>1, <2>3, <3>1, <3>2, LeadsStay
  <2>5. CASE ChainDocidPage(b)
    <3>1. cache' = [cache EXCEPT ![b] = run[b].block]
      BY <2>5 DEF ChainDocidPage
    <3>2. Leads(run[b].block, "docids", pages)
      BY <2>5, InsertsDocument DEF ChainDocidPage, At, Leads
    <3> QED
      BY <2>1, <2>3, <3>1, <3>2, LeadsStay
  <2>6. CASE ForgetDocids(b)
    <3>1. cache' = [cache EXCEPT ![b] = None]
      BY <2>6 DEF ForgetDocids
    <3> QED
      BY <2>3, <3>1 DEF Leads
  <2>7. CASE ~StoreDocid(b) /\ ~ChainDocidPage(b) /\ ~ForgetDocids(b)
    <3>1. cache' = cache
      BY <1>1, <2>7 DEF StepOf, SpillStep, Insert, NothingToSpill, WriteSegment, ClearMemtable,
                       LinkHead, NewDocidPage, SpillIndex, Scan, BulkSpill, Commit, Abort, EndXact
    <3> QED
      BY <2>2, <3>1 DEF CachesSound
  <2> QED
    BY <2>4, <2>5, <2>6, <2>7
<1>2. CASE WriteBack \/ UNCHANGED vars
  <2>1. UNCHANGED <<cache, pages>>
    BY <1>2 DEF WriteBack, vars
  <2> QED
    BY <2>1 DEF CachesSound
<1>3. CASE Restart \/ Crash
  <2>1. \A b \in Backends : cache'[b] = None
    BY <1>3, RecoveredIdle DEF Restart, Crash
  <2> QED
    BY <2>1 DEF CachesSound, Leads
<1> QED
  BY <1>1, <1>2, <1>3 DEF Next, StepOf

\* The documents of an open transaction have been inserted.
XactsKnown == \A b \in Backends : \A d \in xact[b] : heap[d] # "absent"

\* A document that has been inserted stays so, whatever becomes of it.
LEMMA HeapStep ==
    ASSUME TypeOK, XactsKnown, [Next]_vars
    PROVE  /\ XactsKnown'
           /\ \A d \in Docs : heap[d] # "absent" => heap'[d] # "absent"
           /\ \A d \in Docs : heap[d] = "absent" =>
                 heap'[d] = "absent" \/ \E b \in Backends : Insert(b, d)
<1> USE DEF memory, buffers, storage, history
<1> DEFINE Known == \A d \in Docs : heap[d] # "absent" => heap'[d] # "absent"
           Unknown == \A d \in Docs : heap[d] = "absent" =>
                         heap'[d] = "absent" \/ \E b \in Backends : Insert(b, d)
<1>0. heap \in [Docs -> {"absent", "open", "committed", "dead"}] /\ xact \in [Backends -> SUBSET Docs]
  BY DEF TypeOK
<1>1. ASSUME NEW b \in Backends, NEW d \in Docs, Insert(b, d) PROVE XactsKnown' /\ Known /\ Unknown
  <2>1. heap' = [heap EXCEPT ![d] = "open"] /\ xact' = [xact EXCEPT ![b] = @ \cup {d}]
    BY <1>1 DEF Insert
  <2> QED
    BY <1>0, <1>1, <2>1 DEF XactsKnown
<1>2. ASSUME NEW b \in Backends, Commit(b) \/ Abort(b) PROVE XactsKnown' /\ Known /\ Unknown
  <2>1. PICK fate \in {"committed", "dead"} :
           /\ heap' = [d \in Docs |-> IF d \in xact[b] THEN fate ELSE heap[d]]
           /\ xact' = [xact EXCEPT ![b] = {}]
    BY <1>2 DEF Commit, Abort, EndXact
  <2>2. \A d \in Docs : heap'[d] = IF d \in xact[b] THEN fate ELSE heap[d]
    BY <2>1
  <2>3. Known /\ Unknown
    BY <1>0, <2>2 DEF XactsKnown
  <2>4. \A c \in Backends : xact'[c] \subseteq xact[c]
    BY <1>0, <2>1
  <2> QED
    BY <1>0, <2>3, <2>4 DEF XactsKnown
<1>3. CASE UNCHANGED <<heap, xact>>
  BY <1>3 DEF XactsKnown
<1>4. ASSUME NEW b \in Backends,
             \/ SpillStep(b) \/ StoreDocid(b) \/ NewDocidPage(b) \/ ChainDocidPage(b)
             \/ SpillIndex(b) \/ Scan(b) \/ BulkSpill(b)
      PROVE  UNCHANGED <<heap, xact>>
  BY <1>4 DEF SpillStep, NothingToSpill, WriteSegment, ClearMemtable, ForgetDocids, LinkHead,
              StoreDocid, NewDocidPage, ChainDocidPage, SpillIndex, Scan, BulkSpill
<1>5. CASE WriteBack \/ UNCHANGED vars
  BY <1>3, <1>5 DEF WriteBack, vars
<1>6. CASE Restart \/ Crash
  <2>1. xact' = [b \in Backends |-> {}]
    BY <1>6 DEF Restart, Crash, Recover
  <2>2. heap' = heap \/ heap' = [d \in Docs |-> IF heap[d] = "open" THEN "dead" ELSE heap[d]]
    BY <1>6 DEF Restart, Crash
  <2> QED
    BY <1>0, <2>1, <2>2 DEF XactsKnown
<1> QED
  BY <1>1, <1>2, <1>3, <1>4, <1>5, <1>6 DEF Next

-----------------------------------------------------------------------------
(* What is only in the memtable is on the docid pages. *)

\* Recovery finds nothing to cut, so it takes the copy it starts from as it is.
LEMMA RecoverWhole ==
    ASSUME ChainsIInv, NEW m \in {meta, diskMeta}, NEW ps \in {pages, disk},
           PointersSound(m, ps), Recover(m, ps)
    PROVE  /\ memtable' = DocsOn(Chain(m.first, ps, "docids"), ps)
           /\ totalDocs' = m.docs /\ meta' = m /\ pages' = ps
<1>1. m \in MetaPages /\ ps \in Seq(Pages) /\ Ranked(ps)
  BY ChainsTyped, DiskRanked DEF ChainsIInv, TypeOK
<1>2. ChainEnd(m.first, ps, "docids") = None
  BY <1>1, ChainsEnd
<1>3. ps = [n \in DOMAIN ps |-> ps[n]]
  BY <1>1
<1>4. /\ memtable' = DocsOn(Chain(m.first, ps, "docids"), ps)
      /\ totalDocs' = m.docs /\ meta' = m
      /\ pages' = [n \in DOMAIN ps |-> ps[n]]
  BY <1>2 DEF Recover
<1> QED
  BY <1>3, <1>4

\* With a single backend, or when inserts never spill, a backend remembers no page
\* that another one has taken out of the chain.
OneWriter   == \A b, c \in Backends : b = c
CachesFresh == OneWriter \/ SpillThreshold = 0

\* The documents of the inserts that are under way.
Inserting == {run[b].doc : b \in {c \in Backends : run[c].task = "insert"}}

\* The pages remembered are in the chain, and the chain has every document of the
\* memtable whose insert is over.
Recorded ==
    /\ \A b \in Backends : cache[b] \in DocidChain \cup {None}
    /\ memtable \subseteq DocsOn(DocidChain, pages) \cup Inserting

\* A step that neither writes a docid nor forgets the docid pages: a document
\* that it puts into the memtable is being inserted, and whoever inserts goes on.
LEMMA InsertsGoOn ==
    ASSUME TypeOK, TasksRight, NEW b \in Backends, StepOf(b),
           ~StoreDocid(b), ~ChainDocidPage(b), ~ForgetDocids(b)
    PROVE  cache' = cache /\ memtable' \subseteq memtable \cup Inserting' /\ Inserting \subseteq Inserting'
<1> USE DEF memory, buffers, storage, history
<1>0. cache' = cache
  BY DEF StepOf, SpillStep, Insert, NothingToSpill, WriteSegment, ClearMemtable,
         LinkHead, NewDocidPage, SpillIndex, Scan, BulkSpill, Commit, Abort, EndXact
<1>1. ASSUME Others(b), run[b].task = "insert" => SameTask(b)
      PROVE  Inserting \subseteq Inserting'
  BY <1>1 DEF Others, SameTask, Inserting
<1>2. ASSUME NEW d \in Docs, Insert(b, d)
      PROVE  memtable' \subseteq memtable \cup Inserting' /\ Inserting \subseteq Inserting'
  <2>1. Others(b) /\ run'[b].task = "insert" /\ run'[b].doc = d /\ run[b].task = "none"
    BY <1>2, InsertRun, RunTypes DEF Insert
  <2>2. memtable' = memtable \cup {d}
    BY <1>2 DEF Insert
  <2> QED
    BY <1>0, <1>1, <2>1, <2>2 DEF Inserting
<1>3. CASE Scan(b) \/ SpillIndex(b) \/ BulkSpill(b) \/ Commit(b) \/ Abort(b)
  <2>1. memtable' = memtable
    BY <1>3 DEF Scan, SpillIndex, BulkSpill, Commit, Abort, EndXact
  <2>2. CASE Scan(b)
    BY <1>0, <2>1, <2>2 DEF Scan, Inserting
  <2>3. CASE ~Scan(b)
    <3>1. Others(b)
      BY <1>3, <2>3, SpillRun, IdleRun
    <3>2. run[b].task # "insert"
      BY <1>3, <2>3, RunTypes DEF TasksRight, TaskRight, SpillIndex, BulkSpill, Commit, Abort, At
    <3> QED
      BY <1>0, <1>1, <2>1, <3>1, <3>2
  <2> QED
    BY <2>2, <2>3
<1>4. CASE NothingToSpill(b) \/ LinkHead(b)
  <2>1. memtable' = memtable /\ EndSpill(b)
    BY <1>4 DEF NothingToSpill, LinkHead
  <2>2. Others(b) /\ (run[b].task = "insert" => SameTask(b))
    BY <2>1, EndSpillRun
  <2> QED
    BY <1>0, <1>1, <2>1, <2>2
<1>5. CASE WriteSegment(b) \/ ClearMemtable(b) \/ NewDocidPage(b)
  <2>1. Others(b) /\ SameTask(b)
    BY <1>5, NewBlockRun, ClearRun
  <2>2. memtable' \subseteq memtable
    BY <1>5 DEF WriteSegment, ClearMemtable, NewDocidPage
  <2> QED
    BY <1>0, <1>1, <2>1, <2>2
<1> QED
  BY <1>0, <1>2, <1>3, <1>4, <1>5 DEF StepOf, SpillStep

\* The chain has got page n, if it did not have it, and document d on it.
DocidKept(n, d) ==
    /\ DocidChain \cup {n} \subseteq DocidChain'
    /\ DocsOn(DocidChain, pages) \cup {d} \subseteq DocsOn(DocidChain', pages')

\* Documents stay on their pages.
LEMMA DocsKept ==
    ASSUME NEW ps, NEW qs, NEW n \in DOMAIN ps, NEW d, Written(ps, n, d, qs),
           NEW C, NEW D, C \cup {n} \subseteq D
    PROVE  DocsOn(C, ps) \cup {d} \subseteq DocsOn(D, qs)
<1>1. DOMAIN qs = DOMAIN ps /\ d \in qs[n].docs /\ \A m \in DOMAIN ps : ps[m].docs \subseteq qs[m].docs
  BY DEF Written
<1>2. d \in DocsOn(D, qs)
  BY <1>1 DEF DocsOn
<1>3. ASSUME NEW e \in DocsOn(C, ps) PROVE e \in DocsOn(D, qs)
  <2>1. PICK m \in C \cap DOMAIN ps : e \in ps[m].docs
    BY DEF DocsOn
  <2> QED
    BY <1>1, <2>1 DEF DocsOn
<1> QED
  BY <1>2, <1>3

\* tp_add_docid_to_pages, to a page of the chain with room.
LEMMA DocidStored ==
    ASSUME ChainsIInv, ChainsIInv', CachesSound, NEW b \in Backends, StoreDocid(b),
           cache[b] \in DocidChain \cup {None}
    PROVE  \E n : cache' = [cache EXCEPT ![b] = n] /\ DocidKept(n, run[b].doc)
<1> PICK K : K = Linkable("docids")
  OBVIOUS
<1>1. PICK n \in DocidTargets(b) \cap DOMAIN pages :
         cache' = [cache EXCEPT ![b] = n] /\ Written(pages, n, run[b].doc, pages')
  BY StoreFacts
<1>2. n \in DocidChain
  BY <1>1, ChainsTyped DEF DocidTargets, LastDocidPages
<1>3. /\ pages \in Seq(Pages) /\ pages' \in Seq(Pages) /\ Ranked(pages)
      /\ Path(K, pages, "docids") /\ meta.first \in K \cup {None} /\ meta' = meta
  BY ChainsTyped, ChainPaths DEF ChainsIInv, PointersIInv, TypeOK, StoreDocid
<1>4. SameOn(K, pages, pages', "docids")
  BY <1>1, <1>3 DEF Written, Path, Good, SameOn
<1>5. Chain(meta.first, pages', "docids") = Chain(meta.first, pages, "docids")
  BY <1>3, <1>4, ChainSame
<1>6. DocidChain' = DocidChain
  BY <1>3, <1>5 DEF DocidChain
<1>7. DocsOn(DocidChain, pages) \cup {run[b].doc} \subseteq DocsOn(DocidChain', pages')
  BY <1>1, <1>2, <1>6, DocsKept
<1>8. DocidChain \cup {n} \subseteq DocidChain'
  BY <1>2, <1>6
<1>9. DocidKept(n, run[b].doc)
  BY <1>7, <1>8 DEF DocidKept
<1> QED
  BY <1>1, <1>9

\* A chain of docid pages that starts has a last page.
LEMMA ChainStarted ==
    ASSUME ChainsIInv, LastDocidPages = {}
    PROVE  DocidChain = {}
<1> PICK K : K = Linkable("docids")
  OBVIOUS
<1>1. /\ pages \in Seq(Pages) /\ Ranked(pages) /\ Path(K, pages, "docids")
      /\ meta.first \in K \cup {None} /\ DocidChain \subseteq K
  BY ChainsTyped, ChainPaths DEF ChainsIInv
<1>2. CASE meta.first \in K
  <2>1. PICK last \in DocidChain : pages[last].next = None
    BY <1>1, <1>2, ChainHasLast DEF DocidChain
  <2>2. last \in DOMAIN pages /\ pages[last].kind = "docids"
    BY <1>1, <2>1 DEF Linkable
  <2> QED
    BY <2>1, <2>2 DEF LastDocidPages
<1>3. CASE meta.first = None
  BY <1>1, <1>3, NoChain DEF DocidChain
<1> QED
  BY <1>1, <1>2, <1>3

\* The same for a new page, the first of the chain or behind the last.
LEMMA DocidChained ==
    ASSUME ChainsIInv, ChainsIInv', NEW b \in Backends, ChainDocidPage(b)
    PROVE  \E n : cache' = [cache EXCEPT ![b] = n] /\ DocidKept(n, run[b].doc)
<1> PICK n : n = run[b].block
  OBVIOUS
<1> PICK d : d = run[b].doc
  OBVIOUS
<1> PICK K : K = Linkable("docids")
  OBVIOUS
<1>1. cache' = [cache EXCEPT ![b] = n] /\ run[b].at = "chain"
  BY DEF ChainDocidPage, At
<1>2. PICK ps : /\ Written(ps, n, d, pages')
                /\ \/ /\ LastDocidPages = {} /\ meta' = [meta EXCEPT !.first = n]
                      /\ ps = pages
                   \/ /\ meta' = meta
                      /\ \E last \in LastDocidPages : Extended(pages, last, n, ps)
  BY ChainFacts
<1>3. n \in DOMAIN pages /\ pages[n].kind = "docids" /\ n \in Hands /\ pages[n].next = None
  <2>1. n \in DOMAIN pages /\ pages[n].kind = "docids"
    BY <1>1, InsertsDocument
  <2>2. run[b].at \in Holding
    BY <1>1, IdleHoldsNothing
  <2> QED
    BY <2>1, <2>2 DEF Hands, ChainsIInv, HandsFree, Unlinked
<1>4. /\ pages \in Seq(Pages) /\ pages' \in Seq(Pages) /\ Ranked(pages) /\ n \in Nat
      /\ Path(K, pages, "docids") /\ meta.first \in K \cup {None} /\ DocidChain \subseteq K
      /\ meta \in MetaPages
  BY <1>3, ChainsTyped, ChainPaths DEF ChainsIInv, PointersIInv, TypeOK
<1>5. CASE LastDocidPages = {} /\ meta' = [meta EXCEPT !.first = n] /\ ps = pages
  <2>1. DocidChain = {}
    BY <1>5, ChainStarted
  <2>2. Good(n, pages', "docids")
    BY <1>2, <1>3, <1>5 DEF Written, Good
  <2>3. n \in DocidChain'
    BY <1>4, <1>5, <2>2, ChainUnfold DEF DocidChain, MetaPages
  <2>4. DocidChain \cup {n} \subseteq DocidChain' /\ Written(pages, n, d, pages')
    BY <1>2, <1>5, <2>1, <2>3
  <2>5. DocsOn(DocidChain, pages) \cup {d} \subseteq DocsOn(DocidChain', pages')
    BY <1>3, <2>4, DocsKept
  <2>6. DocidKept(n, d)
    BY <2>4, <2>5 DEF DocidKept
  <2> QED
    BY <1>1, <2>6
<1>6. ASSUME NEW last \in LastDocidPages, meta' = meta, Extended(pages, last, n, ps)
      PROVE  DocidKept(n, d)
  <2>1. last \in DocidChain /\ pages[last].next = None /\ last \in K
    BY <1>4 DEF LastDocidPages
  <2>2. n \notin K /\ n # last
    BY <1>3, <2>1 DEF Linkable
  <2>3. /\ DOMAIN pages' = DOMAIN pages
        /\ \A m \in DOMAIN pages :
              /\ pages'[m].kind = pages[m].kind
              /\ pages'[m].next = IF m = last THEN n ELSE pages[m].next
    <3>1. \A m \in DOMAIN ps : pages'[m].kind = ps[m].kind /\ pages'[m].next = ps[m].next
      BY <1>2 DEF Written
    <3>2. DOMAIN pages' = DOMAIN ps /\ DOMAIN ps = DOMAIN pages
      BY <1>2, <1>6 DEF Written, Extended
    <3>3. \A m \in DOMAIN pages : /\ ps[m].kind = pages[m].kind
                                  /\ ps[m].next = IF m = last THEN n ELSE pages[m].next
      BY <1>6 DEF Extended
    <3> QED
      BY <3>1, <3>2, <3>3
  <2>4. Good(n, pages', "docids") /\ pages'[n].next = None
    BY <1>3, <2>2, <2>3 DEF Good
  <2>5. MoreOn(K, pages, pages', "docids", last, n)
    BY <1>4, <2>3 DEF MoreOn, Path, Good
  <2>6. Chain(meta.first, pages', "docids") =
           Chain(meta.first, pages, "docids") \cup
              (IF last \in Chain(meta.first, pages, "docids") THEN {n} ELSE {})
    BY <1>4, <2>1, <2>4, <2>5, ChainExtended
  <2>7. DocidChain' = DocidChain \cup {n}
    BY <1>6, <2>1, <2>6 DEF DocidChain
  <2>8. DocsOn(DocidChain, ps) = DocsOn(DocidChain, pages) /\ n \in DOMAIN ps
    BY <1>3, <1>6 DEF Extended, DocsOn
  <2>9. DocidChain \cup {n} \subseteq DocidChain'
    BY <2>7
  <2>10. DocsOn(DocidChain, ps) \cup {d} \subseteq DocsOn(DocidChain', pages')
    BY <1>2, <2>8, <2>9, DocsKept
  <2> QED
    BY <2>8, <2>9, <2>10 DEF DocidKept
<1> QED
  BY <1>1, <1>2, <1>5, <1>6

\* Every step keeps the documents of the memtable on the chain of docid pages.
LEMMA RecordedStep ==
    ASSUME ChainsIInv, ChainsIInv', CachesSound, TasksRight, CachesFresh, Recorded, [Next]_vars
    PROVE  Recorded'
<1> USE DEF memory, buffers, storage, history
<1>0. TypeOK /\ cache \in [Backends -> Nat] /\ meta.first \in Linkable("docids") \cup {None}
  BY ChainsTyped, ChainPaths DEF TypeOK
<1>1. ASSUME cache' = cache, meta'.first = meta.first, BlocksStay("docids"),
             memtable' \subseteq memtable \cup Inserting', Inserting \subseteq Inserting'
      PROVE  Recorded'
  <2>1. DocidChain' = DocidChain /\ DocsOn(DocidChain, pages') = DocsOn(DocidChain, pages)
    BY <1>0, <1>1, ChainStays DEF DocidChain
  <2>2. DocsOn(DocidChain', pages') = DocsOn(DocidChain, pages)
    BY <2>1
  <2> QED
    BY <1>1, <2>1, <2>2 DEF Recorded
<1>2. ASSUME NEW b \in Backends, StoreDocid(b) \/ ChainDocidPage(b) PROVE Recorded'
  <2> PICK d : d = run[b].doc
    OBVIOUS
  <2>1. PICK n : cache' = [cache EXCEPT ![b] = n] /\ DocidKept(n, d)
    BY <1>2, DocidStored, DocidChained DEF Recorded
  <2>2. \A c \in Backends : cache'[c] \in {cache[c], n}
    BY <1>0, <2>1
  <2>3. Others(b) /\ memtable' = memtable
    BY <1>0, <1>2, IdleRun DEF StoreDocid, ChainDocidPage
  <2>4. Inserting \subseteq Inserting' \cup {d}
    BY <2>3 DEF Inserting, Others
  <2>5. DocidChain \cup {n} \subseteq DocidChain'
    BY <2>1 DEF DocidKept
  <2>6. DocsOn(DocidChain, pages) \cup {d} \subseteq DocsOn(DocidChain', pages')
    BY <2>1 DEF DocidKept
  <2>7. \A c \in Backends : cache'[c] \in DocidChain' \cup {None}
    BY <2>2, <2>5 DEF Recorded
  <2>8. memtable' \subseteq DocsOn(DocidChain', pages') \cup Inserting'
    BY <2>3, <2>4, <2>6 DEF Recorded
  <2> QED
    BY <2>7, <2>8 DEF Recorded
<1>3. ASSUME NEW b \in Backends, ForgetDocids(b) PROVE Recorded'
  <2>1. run[b].at = "forget" /\ cache' = [cache EXCEPT ![b] = None] /\ memtable' = memtable
    BY <1>3 DEF ForgetDocids, At
  <2>2. run[b].task = "insert" /\ memtable = {} /\ SpillThreshold # 0
    BY <1>0, <2>1, RunTypes DEF TasksRight, TaskRight, TypeOK
  <2>3. \A c \in Backends : cache'[c] = None
    BY <1>0, <2>1, <2>2 DEF CachesFresh, OneWriter
  <2> QED
    BY <2>1, <2>2, <2>3 DEF Recorded
<1>4. ASSUME NEW b \in Backends, StepOf(b),
             ~StoreDocid(b), ~ChainDocidPage(b), ~ForgetDocids(b)
      PROVE  Recorded'
  <2>1. cache' = cache /\ memtable' \subseteq memtable \cup Inserting' /\ Inserting \subseteq Inserting'
    BY <1>0, <1>4, InsertsGoOn
  <2>2. BlocksStay("docids") /\ meta'.first = meta.first
    BY <1>4, StepBlocks, StepMeta
  <2> QED
    BY <1>1, <2>1, <2>2
<1>5. CASE WriteBack \/ UNCHANGED vars
  <2>1. UNCHANGED <<run, cache, memtable, meta, pages>>
    BY <1>5 DEF WriteBack, vars
  <2> QED
    BY <2>1 DEF Recorded, DocidChain, Inserting
<1>6. CASE Restart \/ Crash
  <2>1. PICK m \in {meta, diskMeta}, ps \in {pages, disk} : PointersSound(m, ps) /\ Recover(m, ps)
    BY <1>6 DEF Restart, Crash, ChainsIInv, PointersIInv, DiskPointersSound
  <2>2. memtable' = DocsOn(Chain(m.first, ps, "docids"), ps) /\ meta' = m /\ pages' = ps
    BY <2>1, RecoverWhole
  <2>3. \A b \in Backends : cache'[b] = None
    BY <2>1, RecoveredIdle
  <2>4. memtable' = DocsOn(DocidChain', pages')
    BY <2>2 DEF DocidChain
  <2> QED
    BY <2>3, <2>4 DEF Recorded
<1> QED
  BY <1>2, <1>3, <1>4, <1>5, <1>6 DEF Next, StepOf

\* Everything up to here together.
ContentsIInv == ChainsIInv /\ TasksRight /\ CachesSound /\ XactsKnown

\* At first there are no contents.
LEMMA InitContents == Init => ContentsIInv
<1> SUFFICES ASSUME Init PROVE ContentsIInv
  OBVIOUS
<1>1. ChainsIInv /\ TasksRight
  BY InitChains, InitTasks
<1>2. CachesSound /\ XactsKnown
  BY DEF Init, CachesSound, XactsKnown, Leads
<1> QED
  BY <1>1, <1>2 DEF ContentsIInv

\* It is inductive as it stands.
LEMMA ContentsStep == ContentsIInv /\ [Next]_vars => ContentsIInv'
<1> SUFFICES ASSUME ContentsIInv, [Next]_vars PROVE ContentsIInv'
  OBVIOUS
<1>1. ChainsIInv' /\ TasksRight' /\ CachesSound'
  BY ChainsStep, TasksStep, CachesStep DEF ContentsIInv
<1>2. XactsKnown'
  BY ChainsTyped, HeapStep DEF ContentsIInv
<1> QED
  BY <1>1, <1>2 DEF ContentsIInv

\* Whenever a query can get the lock, every document of the memtable is on the
\* docid pages that the metapage leads to: after a shutdown or a crash at that
\* moment (with these blocks on disk) the memtable can be read back.  No premise on
\* the lock: the docid pages are only ever forgotten by an insert, which has it.
THEOREM MemtableRecordedAlways == CachesFresh => (Spec => []MemtableRecorded)
<1> SUFFICES ASSUME CachesFresh PROVE Spec => []MemtableRecorded
  OBVIOUS
<1> DEFINE I == ContentsIInv /\ Recorded
<1>1. Init => I
  <2> SUFFICES ASSUME Init PROVE Recorded
    BY InitContents
  <2> QED
    BY DEF Init, Recorded
<1>2. I /\ [Next]_vars => I'
  BY ContentsStep, RecordedStep DEF ContentsIInv
<1>3. I => MemtableRecorded
  <2> SUFFICES ASSUME I, lock = Nobody PROVE memtable \subseteq DocsOn(DocidChain, pages)
    BY DEF MemtableRecorded, Readable
  <2>1. Inserting = {}
    BY BackendsAssumption DEF ContentsIInv, TasksRight, TaskRight, Inserting
  <2> QED
    BY <2>1 DEF Recorded
<1> QED
  BY <1>1, <1>2, <1>3, PTL DEF Spec

-----------------------------------------------------------------------------
(* A spill has the memtable to itself. *)

\* No spill before a commit works on a memtable that others write to: the lock is
\* kept, there is no such spill, or there is nobody else and a lock given up by
\* bm25_spill_index leaves an empty memtable.
SpillsCovered == LockKept \/ BulkThreshold = 0 \/ (OneWriter /\ ~Scans)

\* A transaction that has inserted has the lock, or will not spill, or will find
\* nothing to spill; the segment in hand has what the memtable had.
CoveredBy(b) ==
    /\ xact[b] # {} => lock = b \/ BulkThreshold = 0 \/ (OneWriter /\ memtable = {})
    /\ run[b].at \in {"clear", "forget", "link"} => lock = b
    /\ run[b].at = "clear" => pages[run[b].block].docs = memtable
    /\ run[b].at \in {"forget", "link"} => memtable = {}
Covered == \A b \in Backends : CoveredBy(b)

\* The memtable changes when a document goes in or a spill clears it.
LEMMA MemtableMoves ==
    ASSUME NEW b \in Backends, StepOf(b)
    PROVE  memtable' = memtable \/ ClearMemtable(b) \/ \E d \in Docs : Insert(b, d)
BY DEF StepOf, SpillStep, NothingToSpill, WriteSegment, ForgetDocids, LinkHead, StoreDocid,
       NewDocidPage, ChainDocidPage, SpillIndex, Scan, BulkSpill, Commit, Abort, EndXact,
       memory, buffers, storage

\* A segment in hand stays as it is.
LEMMA SegmentInHand ==
    ASSUME ChainsIInv, KindsStay, NEW c \in Backends, run[c].at \in {"clear", "forget", "link"}
    PROVE  /\ run[c].block \in DOMAIN pages /\ pages[run[c].block].kind = "segment"
           /\ pages'[run[c].block].docs = pages[run[c].block].docs
BY DEF ChainsIInv, PointersIInv, BlockInHand, KindsStay

\* What somebody else does.
LEMMA CoveredOther ==
    ASSUME ContentsIInv, Covered, NEW b \in Backends, StepOf(b), NEW c \in Backends \ {b}
    PROVE  CoveredBy(c)'
<1>1. Undisturbed(c) /\ KindsStay /\ ~OneWriter
  BY ChainsTyped, OthersUndisturbed, StepBlocks DEF ContentsIInv, OneWriter
<1>2. CoveredBy(c) /\ CoveredBy(b)
  BY DEF Covered
<1>3. ASSUME lock = c PROVE lock' = c /\ memtable' = memtable
  <2>1. lock' = c
    BY <1>1, <1>3 DEF Undisturbed
  <2>2. ~ClearMemtable(b)
    BY <1>2, <1>3 DEF ClearMemtable, At, CoveredBy
  <2>3. \A d \in Docs : ~Insert(b, d)
    BY <2>1 DEF Insert
  <2> QED
    BY <2>1, <2>2, <2>3, MemtableMoves
<1>4. xact'[c] # {} => lock' = c \/ BulkThreshold = 0
  BY <1>1, <1>2, <1>3 DEF Undisturbed, CoveredBy
<1>5. ASSUME run'[c].at \in {"clear", "forget", "link"}
      PROVE  /\ lock' = c /\ run'[c] = run[c] /\ memtable' = memtable
             /\ pages'[run[c].block].docs = pages[run[c].block].docs
  <2>1. run'[c] = run[c] /\ run[c].at \in {"clear", "forget", "link"}
    BY <1>1, <1>5 DEF Undisturbed
  <2>2. lock = c
    BY <1>2, <2>1 DEF CoveredBy
  <2> QED
    BY <1>1, <1>3, <2>1, <2>2, SegmentInHand DEF ContentsIInv
<1> QED
  BY <1>2, <1>4, <1>5 DEF CoveredBy

\* What a spill does, up to the link.
LEMMA CoveredSpill ==
    ASSUME ContentsIInv, NEW b \in Backends, CoveredBy(b),
           WriteSegment(b) \/ ClearMemtable(b) \/ ForgetDocids(b)
    PROVE  CoveredBy(b)'
<1>0. TypeOK /\ TaskRight(b) /\ pages \in Seq(Pages) /\ memtable \in SUBSET Docs
  BY ChainsTyped DEF ContentsIInv, TasksRight, TypeOK
<1>1. CASE WriteSegment(b)
  <2>1. /\ run[b].at = "write" /\ memtable # {} /\ UNCHANGED <<xact, lock, memtable>>
        /\ pages' = Append(pages, Page("segment", memtable))
    BY <1>1 DEF WriteSegment, At
  <2>2. run'[b].at = "clear" /\ run'[b].block = Len(pages')
    BY <1>0, <1>1, NewBlockRun
  <2>3. run[b].task \in {"insert", "manual", "commit"}
    BY <1>0, <2>1 DEF TaskRight, TypeOK, Runs, Tasks
  <2>4. lock = b
    BY <1>0, <2>1, <2>3 DEF TaskRight, CoveredBy
  <2>5. pages'[Len(pages')].docs = memtable
    BY <1>0, <2>1, PageType, AppendPage DEF PageKinds
  <2> QED
    BY <2>1, <2>2, <2>4, <2>5 DEF CoveredBy
<1>2. CASE ClearMemtable(b)
  <2>1. run[b].at = "clear" /\ memtable' = {} /\ UNCHANGED <<xact, lock>>
    BY <1>2 DEF ClearMemtable, At
  <2>2. run'[b].at \in {"forget", "link"}
    BY <1>0, <1>2, ClearRun
  <2> QED
    BY <2>1, <2>2 DEF CoveredBy
<1>3. CASE ForgetDocids(b)
  <2>1. run[b].at = "forget" /\ UNCHANGED <<memtable, xact, lock>>
    BY <1>3 DEF ForgetDocids, At
  <2>2. run'[b].at = "link"
    BY <1>0, <1>3, ClearRun
  <2> QED
    BY <2>1, <2>2 DEF CoveredBy
<1> QED
  BY <1>1, <1>2, <1>3

\* What the end of a spill does, and of a transaction, and every other step.
LEMMA CoveredOwn ==
    ASSUME ContentsIInv, SpillsCovered, NEW b \in Backends, CoveredBy(b), StepOf(b),
           ~WriteSegment(b), ~ClearMemtable(b), ~ForgetDocids(b)
    PROVE  CoveredBy(b)'
<1> USE DEF memory, buffers, storage, history
<1>0. TypeOK /\ TaskRight(b) /\ Idle.at = "idle"
  BY ChainsTyped, RunTypes DEF ContentsIInv, TasksRight
<1>1. ASSUME run'[b].at \notin {"clear", "forget", "link"}, xact'[b] # {} => lock' = b
      PROVE  CoveredBy(b)'
  BY <1>1 DEF CoveredBy
<1>2. ASSUME run'[b].at \notin {"clear", "forget", "link"}, xact'[b] = xact[b],
             UNCHANGED <<lock, memtable>>
      PROVE  CoveredBy(b)'
  BY <1>2 DEF CoveredBy
<1>3. CASE \E d \in Docs : Insert(b, d)
  <2>1. run'[b].at \in {"write", "docid"} /\ lock' = b
    BY <1>0, <1>3, InsertRun DEF Insert
  <2> QED
    BY <1>1, <2>1
<1>4. CASE NothingToSpill(b) \/ LinkHead(b)
  <2>1. EndSpill(b) /\ UNCHANGED <<xact, memtable>> /\ memtable = {}
    BY <1>4 DEF NothingToSpill, LinkHead, At, CoveredBy
  <2>2. run'[b].at \in {"docid", "commit", "idle"}
    BY <1>0, <2>1, EndSpillRun DEF SameTask
  <2>3. lock' = lock \/ run[b].task = "manual"
    BY <1>0, <2>1, EndSpillRun
  <2>4. CASE lock' = lock
    BY <1>2, <2>1, <2>2, <2>4
  <2>5. CASE run[b].task = "manual"
    <3>1. BulkThreshold = 0 \/ OneWriter
      BY <1>0, <2>5 DEF TaskRight, SpillsCovered, LockKept
    <3> QED
      BY <2>1, <2>2, <3>1 DEF CoveredBy
  <2> QED
    BY <2>3, <2>4, <2>5
<1>5. CASE StoreDocid(b) \/ ChainDocidPage(b)
  <2>1. run'[b].at = "idle" /\ UNCHANGED <<xact, lock, memtable>>
    BY <1>0, <1>5, IdleRun DEF StoreDocid, ChainDocidPage
  <2> QED
    BY <1>2, <2>1
<1>6. CASE NewDocidPage(b)
  <2>1. run'[b].at = "chain" /\ UNCHANGED <<xact, lock, memtable>>
    BY <1>0, <1>6, NewBlockRun DEF NewDocidPage
  <2> QED
    BY <1>2, <2>1
<1>7. CASE SpillIndex(b)
  <2>1. run'[b].at = "write" /\ lock' = b
    BY <1>0, <1>7, SpillRun DEF SpillIndex
  <2> QED
    BY <1>1, <2>1
<1>8. CASE Scan(b)
  <2>1. BulkThreshold = 0 /\ run[b] = Idle /\ UNCHANGED <<run, xact>>
    BY <1>8 DEF Scan, SpillsCovered, LockKept
  <2> QED
    BY <1>0, <2>1 DEF CoveredBy
<1>9. CASE BulkSpill(b)
  <2>1. run'[b].at = "write" /\ UNCHANGED <<xact, lock, memtable>>
    BY <1>0, <1>9, SpillRun DEF BulkSpill
  <2> QED
    BY <1>2, <2>1
<1>10. CASE Commit(b) \/ Abort(b)
  <2>1. run'[b].at = "idle" /\ xact' = [xact EXCEPT ![b] = {}]
    BY <1>0, <1>10, IdleRun DEF Commit, Abort, EndXact
  <2>2. xact'[b] = {}
    BY <1>0, <2>1 DEF TypeOK
  <2> QED
    BY <1>1, <2>1, <2>2
<1> QED
  BY <1>3, <1>4, <1>5, <1>6, <1>7, <1>8, <1>9, <1>10 DEF StepOf, SpillStep

\* Every step.
LEMMA CoveredStep ==
    ASSUME ContentsIInv, SpillsCovered, Covered, [Next]_vars
    PROVE  Covered'
<1> USE DEF memory, buffers, storage, history
<1>1. ASSUME NEW b \in Backends, StepOf(b) PROVE Covered'
  <2>1. CoveredBy(b)'
    BY <1>1, CoveredSpill, CoveredOwn DEF Covered
  <2> QED
    BY <1>1, <2>1, CoveredOther DEF Covered
<1>2. CASE WriteBack \/ UNCHANGED vars
  <2>1. UNCHANGED <<run, xact, lock, memtable, pages>>
    BY <1>2 DEF WriteBack, vars
  <2> QED
    BY <2>1 DEF Covered, CoveredBy
<1>3. CASE Restart \/ Crash
  <2>1. \A b \in Backends : run'[b] = Idle /\ xact'[b] = {}
    BY <1>3, RecoveredIdle DEF Restart, Crash, ContentsIInv
  <2> QED
    BY <2>1, RunTypes DEF Covered, CoveredBy
<1> QED
  BY <1>1, <1>2, <1>3 DEF Next, StepOf

-----------------------------------------------------------------------------
(* Where a document is: in the memtable, in a segment in hand, in the chain. *)

Hand(b)    == IF run[b].at \in {"forget", "link"} THEN pages[run[b].block].docs ELSE {}
InHand     == UNION {Hand(b) : b \in Backends}
InSegments == DocsOn(SegmentChain, pages)

\* The segments of the chain stay as they are, or the one in hand joins them.
SegmentsStill ==
    /\ SegmentChain' = SegmentChain /\ InSegments' = InSegments
    /\ \A n \in SegmentChain : pages'[n].docs = pages[n].docs
SegmentJoins(x) ==
    /\ SegmentChain' = SegmentChain \cup {x} /\ InSegments' = InSegments \cup pages[x].docs
    /\ x \notin SegmentChain
    /\ \A n \in SegmentChain \cup {x} : pages'[n].docs = pages[n].docs

\* Steps that link no segment.
LEMMA SegmentsStay ==
    ASSUME ChainsIInv, ChainsIInv', BlocksStay("segment"), meta'.head = meta.head
    PROVE  SegmentsStill
<1>1. meta.head \in Linkable("segment") \cup {None} /\ SegmentChain \subseteq Linkable("segment")
  BY ChainPaths
<1>2. SegmentChain' = SegmentChain /\ DocsOn(SegmentChain, pages') = DocsOn(SegmentChain, pages)
  BY <1>1, ChainStays DEF SegmentChain
<1>3. InSegments' = InSegments
  BY <1>2 DEF InSegments
<1>4. \A n \in SegmentChain : pages'[n].docs = pages[n].docs
  BY <1>1 DEF Linkable, BlocksStay
<1> QED
  BY <1>2, <1>3, <1>4 DEF SegmentsStill

\* tp_link_l0_chain_head.
LEMMA SegmentLinked ==
    ASSUME ChainsIInv, ChainsIInv', NEW b \in Backends, LinkHead(b)
    PROVE  SegmentJoins(run[b].block)
<1> PICK x : x = run[b].block
  OBVIOUS
<1> PICK K : K = Linkable("segment")
  OBVIOUS
<1>1. /\ x \in DOMAIN pages /\ pages[x].kind = "segment" /\ x \in Hands
      /\ KindsStay /\ DOMAIN pages' = DOMAIN pages
      /\ \A n \in DOMAIN pages : pages'[n].next = IF n = x THEN meta.head ELSE pages[n].next
      /\ meta'.head = x
  BY BlocksLinked
<1>2. /\ pages \in Seq(Pages) /\ pages' \in Seq(Pages) /\ Ranked(pages) /\ x \in Nat
      /\ Path(K, pages, "segment") /\ meta.head \in K \cup {None} /\ SegmentChain \subseteq K
  BY <1>1, ChainsTyped, ChainPaths DEF ChainsIInv, PointersIInv, TypeOK
<1>3. x \notin K
  BY <1>1 DEF Linkable
<1>4. SameOn(K, pages, pages', "segment")
  BY <1>1, <1>2, <1>3 DEF SameOn, Path, Good, KindsStay
<1>5. Chain(meta.head, pages', "segment") = SegmentChain
  BY <1>2, <1>4, ChainSame DEF SegmentChain
<1>6. Good(x, pages', "segment") /\ pages'[x].next = meta.head
  BY <1>1 DEF Good, KindsStay
<1>7. Chain(x, pages', "segment") = {x} \cup SegmentChain
  BY <1>2, <1>5, <1>6, ChainUnfold
<1>8. SegmentChain' = SegmentChain \cup {x}
  BY <1>1, <1>7 DEF SegmentChain
<1>9. \A n \in SegmentChain \cup {x} : /\ n \in DOMAIN pages /\ n \in DOMAIN pages'
                                       /\ pages'[n].docs = pages[n].docs
  BY <1>1, <1>2 DEF Linkable, KindsStay
<1>10. InSegments' = InSegments \cup pages[x].docs
  <2>1. DocsOn(SegmentChain \cup {x}, pages') = DocsOn(SegmentChain, pages) \cup pages[x].docs
    BY <1>9 DEF DocsOn
  <2> QED
    BY <1>8, <2>1 DEF InSegments
<1> QED
  BY <1>2, <1>3, <1>8, <1>9, <1>10 DEF SegmentJoins

\* What the others have in hand, they still have.
LEMMA OthersHands ==
    ASSUME ContentsIInv, NEW b \in Backends, StepOf(b), NEW c \in Backends \ {b}
    PROVE  Hand(c)' = Hand(c)
<1>1. run'[c] = run[c] /\ KindsStay
  BY ChainsTyped, OthersUndisturbed, StepBlocks DEF ContentsIInv, Undisturbed
<1>2. CASE run[c].at \in {"forget", "link"}
  <2>1. pages'[run[c].block].docs = pages[run[c].block].docs
    BY <1>1, <1>2, SegmentInHand DEF ContentsIInv
  <2> QED
    BY <1>1, <2>1 DEF Hand
<1>3. CASE run[c].at \notin {"forget", "link"}
  BY <1>1, <1>3 DEF Hand
<1> QED
  BY <1>2, <1>3

\* A segment comes into hand when the memtable is cleared, and leaves it when it is
\* linked.
LEMMA OwnHand ==
    ASSUME ContentsIInv, NEW b \in Backends, StepOf(b), ~ClearMemtable(b), ~LinkHead(b)
    PROVE  Hand(b)' = Hand(b)
<1> USE DEF memory, buffers, storage, history
<1>0. TypeOK /\ TaskRight(b) /\ Idle.at = "idle"
  BY ChainsTyped, RunTypes DEF ContentsIInv, TasksRight
<1>1. CASE ForgetDocids(b)
  <2>1. /\ run[b].at = "forget" /\ pages' = pages
        /\ run'[b].at = "link" /\ run'[b].block = run[b].block
    BY <1>0, <1>1, ClearRun DEF ForgetDocids, At
  <2> QED
    BY <2>1 DEF Hand
<1>2. ASSUME run[b].at \notin {"forget", "link"}, run'[b].at \notin {"forget", "link"}
      PROVE  Hand(b)' = Hand(b)
  BY <1>2 DEF Hand
<1>3. CASE \E d \in Docs : Insert(b, d)
  BY <1>0, <1>2, <1>3, InsertRun DEF Insert
<1>4. CASE NothingToSpill(b)
  <2>1. EndSpill(b) /\ run[b].at = "write"
    BY <1>4 DEF NothingToSpill, At
  <2> QED
    BY <1>0, <1>2, <2>1, EndSpillRun DEF SameTask
<1>5. CASE WriteSegment(b) \/ NewDocidPage(b)
  BY <1>0, <1>2, <1>5, NewBlockRun DEF WriteSegment, NewDocidPage, At
<1>6. CASE StoreDocid(b) \/ ChainDocidPage(b) \/ Commit(b) \/ Abort(b)
  <2>1. run'[b].at = "idle"
    BY <1>0, <1>6, IdleRun
  <2>2. run[b].at \in {"docid", "chain", "commit", "idle"}
    BY <1>0, <1>6 DEF StoreDocid, ChainDocidPage, Commit, Abort, At
  <2> QED
    BY <1>2, <2>1, <2>2
<1>7. CASE SpillIndex(b) \/ BulkSpill(b)
  BY <1>0, <1>2, <1>7, SpillRun DEF SpillIndex, BulkSpill
<1>8. CASE Scan(b)
  BY <1>0, <1>2, <1>8 DEF Scan
<1> QED
  BY <1>1, <1>3, <1>4, <1>5, <1>6, <1>7, <1>8 DEF StepOf, SpillStep

\* So far for any step that neither clears nor links.
LEMMA HandsSame ==
    ASSUME ContentsIInv, NEW b \in Backends, StepOf(b), ~ClearMemtable(b), ~LinkHead(b)
    PROVE  InHand' = InHand
<1>1. \A c \in Backends : Hand(c)' = Hand(c)
  BY OthersHands, OwnHand
<1> QED
  BY <1>1 DEF InHand

\* Only the one who has the lock has a segment in hand.
LEMMA HandOfHolder ==
    ASSUME Covered, NEW b \in Backends, lock = b
    PROVE  InHand = Hand(b)
<1>1. \A c \in Backends \ {b} : Hand(c) = {}
  BY DEF Covered, CoveredBy, Hand
<1> QED
  BY <1>1 DEF InHand

\* Every document that has been inserted is somewhere; as long as the server has not
\* been restarted, in one place only, and it has been counted once.
Present   == {d \in Docs : heap[d] # "absent"}
Somewhere == memtable \cup InSegments \cup InHand
Apart ==
    /\ memtable \cap InSegments = {} /\ InHand \cap InSegments = {}
    /\ \A m, n \in SegmentChain : pages[m].docs \cap pages[n].docs # {} => m = n
Partition == restarts = 0 => Somewhere = Present /\ Apart /\ totalDocs = Cardinality(Present)
Kept      == CachesFresh /\ ~crashed => Present \subseteq Somewhere

\* A document goes in, or none does.
Inserted(d) ==
    /\ d \notin Present /\ Present' = Present \cup {d}
    /\ memtable' = memtable \cup {d} /\ totalDocs' = totalDocs + 1
NoneInserted == Present' = Present /\ totalDocs' = totalDocs

\* Inserts, and all other steps of a backend.
LEMMA PresentMoves ==
    ASSUME ContentsIInv, NEW b \in Backends, StepOf(b)
    PROVE  /\ restarts' = restarts /\ crashed' = crashed
           /\ \A d \in Docs : Insert(b, d) => Inserted(d)
           /\ NoneInserted \/ \E d \in Docs : Insert(b, d)
<1> USE DEF memory, buffers, storage, history
<1>0. TypeOK /\ heap \in [Docs -> {"absent", "open", "committed", "dead"}] /\ XactsKnown
  BY ChainsTyped DEF ContentsIInv, TypeOK
<1>1. restarts' = restarts /\ crashed' = crashed
  BY DEF StepOf, SpillStep, Insert, NothingToSpill, WriteSegment, ClearMemtable, ForgetDocids,
         LinkHead, StoreDocid, NewDocidPage, ChainDocidPage, SpillIndex, Scan, BulkSpill,
         Commit, Abort, EndXact
<1>2. ASSUME NEW d \in Docs, Insert(b, d) PROVE Inserted(d)
  <2>1. /\ heap' = [heap EXCEPT ![d] = "open"] /\ heap[d] = "absent"
        /\ memtable' = memtable \cup {d} /\ totalDocs' = totalDocs + 1
    BY <1>2 DEF Insert, Fresh
  <2> QED
    BY <1>0, <2>1 DEF Present, Inserted
<1>3. ASSUME \A d \in Docs : ~Insert(b, d) PROVE NoneInserted
  <2>1. totalDocs' = totalDocs
    BY <1>3 DEF StepOf, SpillStep, NothingToSpill, WriteSegment, ClearMemtable, ForgetDocids,
         LinkHead, StoreDocid, NewDocidPage, ChainDocidPage, SpillIndex, Scan, BulkSpill,
         Commit, Abort, EndXact
  <2>2. CASE heap' = heap
    BY <2>1, <2>2 DEF Present, NoneInserted
  <2>3. CASE Commit(b) \/ Abort(b)
    <3>1. PICK fate \in {"committed", "dead"} :
             heap' = [d \in Docs |-> IF d \in xact[b] THEN fate ELSE heap[d]]
      BY <2>3 DEF Commit, Abort, EndXact
    <3>2. \A d \in Docs : heap'[d] # "absent" <=> heap[d] # "absent"
      BY <1>0, <3>1 DEF XactsKnown
    <3> QED
      BY <2>1, <3>2 DEF Present, NoneInserted
  <2>4. heap' = heap \/ Commit(b) \/ Abort(b)
    BY <1>3 DEF StepOf, SpillStep, NothingToSpill, WriteSegment, ClearMemtable, ForgetDocids,
         LinkHead, StoreDocid, NewDocidPage, ChainDocidPage, SpillIndex, Scan, BulkSpill
  <2> QED
    BY <2>2, <2>3, <2>4
<1> QED
  BY <1>1, <1>2, <1>3

\* What the steps of a backend do to the three places.
LEMMA ContentsMove ==
    ASSUME ContentsIInv, ContentsIInv', Covered, Covered', NEW b \in Backends, StepOf(b)
    PROVE  \/ SegmentsStill /\ InHand' = InHand /\ memtable' = memtable /\ NoneInserted
           \/ SegmentsStill /\ InHand' = InHand /\ \E d \in Docs : Inserted(d)
           \/ /\ SegmentsStill /\ InHand = {} /\ InHand' = memtable /\ memtable' = {}
              /\ NoneInserted
           \/ /\ memtable = {} /\ memtable' = {} /\ InHand' = {} /\ NoneInserted
              /\ \E x : SegmentJoins(x) /\ InHand = pages[x].docs
<1>0. TypeOK /\ ChainsIInv /\ ChainsIInv' /\ CoveredBy(b)
  BY ChainsTyped DEF ContentsIInv, Covered
<1>1. ASSUME ~LinkHead(b) PROVE SegmentsStill
  BY <1>0, <1>1, StepBlocks, StepMeta, SegmentsStay DEF ContentsIInv
<1>2. CASE ClearMemtable(b)
  <2>1. run[b].at = "clear" /\ memtable' = {} /\ UNCHANGED <<lock, pages>>
    BY <1>2 DEF ClearMemtable, At, buffers
  <2>2. run'[b].at \in {"forget", "link"} /\ run'[b].block = run[b].block
    BY <1>0, <1>2, ClearRun
  <2>3. lock = b /\ lock' = b /\ pages[run[b].block].docs = memtable
    BY <1>0, <2>1 DEF CoveredBy
  <2>4. InHand = {}
    BY <2>1, <2>3, HandOfHolder DEF Hand
  <2>5. Hand(b)' = memtable
    BY <2>1, <2>2, <2>3 DEF Hand
  <2>6. \A c \in Backends \ {b} : Hand(c)' = {}
    BY <2>3 DEF Covered, CoveredBy, Hand
  <2>7. InHand' = memtable
    BY <2>5, <2>6 DEF InHand
  <2>8. ~LinkHead(b) /\ \A d \in Docs : ~Insert(b, d)
    BY <2>1, RunTypes DEF LinkHead, Insert, At
  <2>9. NoneInserted
    BY <2>8, PresentMoves
  <2> QED
    BY <1>1, <2>1, <2>4, <2>7, <2>8, <2>9
<1>3. CASE LinkHead(b)
  <2>1. run[b].at = "link" /\ memtable' = memtable /\ EndSpill(b)
    BY <1>3 DEF LinkHead, At
  <2>2. lock = b /\ memtable = {}
    BY <1>0, <2>1 DEF CoveredBy
  <2>3. InHand = pages[run[b].block].docs
    BY <2>1, <2>2, HandOfHolder DEF Hand
  <2>4. Hand(b)' = {}
    BY <1>0, <2>1, EndSpillRun, RunTypes DEF Hand
  <2>5. \A c \in Backends \ {b} : Hand(c)' = {}
    <3>1. \A c \in Backends \ {b} : Hand(c)' = Hand(c) /\ Hand(c) = {}
      BY <2>2, OthersHands DEF Covered, CoveredBy, Hand
    <3> QED
      BY <3>1
  <2>6. InHand' = {}
    BY <2>4, <2>5 DEF InHand
  <2>7. SegmentJoins(run[b].block)
    BY <1>0, <1>3, SegmentLinked
  <2>8. NoneInserted
    <3>1. \A d \in Docs : ~Insert(b, d)
      BY <2>1, RunTypes DEF Insert
    <3> QED
      BY <3>1, PresentMoves
  <2> QED
    BY <2>1, <2>2, <2>3, <2>6, <2>7, <2>8
<1>4. CASE ~ClearMemtable(b) /\ ~LinkHead(b)
  <2>1. SegmentsStill /\ InHand' = InHand
    BY <1>1, <1>4, HandsSame
  <2>2. (memtable' = memtable /\ NoneInserted) \/ \E d \in Docs : Inserted(d)
    BY <1>4, MemtableMoves, PresentMoves
  <2> QED
    BY <2>1, <2>2
<1> QED
  BY <1>2, <1>3, <1>4

\* A chain of segments has the documents of its segments.
LEMMA SegmentDocs ==
    ASSUME ChainsIInv
    PROVE  /\ \A n \in SegmentChain : n \in DOMAIN pages /\ pages[n].docs \subseteq InSegments
           /\ \A d \in InSegments : \E n \in SegmentChain : d \in pages[n].docs
           /\ InSegments \subseteq Docs
<1>1. SegmentChain \subseteq DOMAIN pages
  BY ChainPaths DEF Linkable
<1>2. \A n \in DOMAIN pages : pages[n].docs \subseteq Docs
  BY ChainsTyped DEF Pages
<1> QED
  BY <1>1, <1>2 DEF InSegments, DocsOn

\* A document that goes in is nowhere yet; a segment that is linked was in hand.
LEMMA PlacesMove ==
    ASSUME ContentsIInv, ContentsIInv', Covered, Covered', NEW b \in Backends, StepOf(b)
    PROVE  /\ \/ NoneInserted /\ Somewhere' = Somewhere
              \/ \E d \in Docs : Inserted(d) /\ Somewhere' = Somewhere \cup {d}
           /\ Somewhere = Present /\ Apart => Apart'
<1>1. CASE SegmentsStill /\ InHand' = InHand /\ memtable' = memtable /\ NoneInserted
  BY <1>1 DEF Somewhere, Apart, SegmentsStill
<1>2. CASE SegmentsStill /\ InHand' = InHand /\ \E d \in Docs : Inserted(d)
  <2>1. PICK d \in Docs : Inserted(d)
    BY <1>2
  <2>2. Somewhere' = Somewhere \cup {d}
    BY <1>2, <2>1 DEF Somewhere, SegmentsStill, Inserted
  <2>3. Somewhere = Present => d \notin InSegments
    BY <2>1 DEF Inserted, Somewhere
  <2>4. Somewhere = Present /\ Apart => Apart'
    BY <1>2, <2>1, <2>3 DEF Apart, SegmentsStill, Inserted
  <2> QED
    BY <2>1, <2>2, <2>4
<1>3. CASE /\ SegmentsStill /\ InHand = {} /\ InHand' = memtable /\ memtable' = {}
           /\ NoneInserted
  BY <1>3 DEF Somewhere, Apart, SegmentsStill
<1>4. ASSUME memtable = {}, memtable' = {}, InHand' = {}, NoneInserted,
             NEW x, SegmentJoins(x), InHand = pages[x].docs
      PROVE  Somewhere' = Somewhere /\ (Apart => Apart')
  <2>1. Somewhere' = Somewhere
    BY <1>4 DEF Somewhere, SegmentJoins
  <2>2. ASSUME Apart PROVE Apart'
    <3>1. \A n \in SegmentChain : pages[n].docs \cap pages[x].docs = {}
      BY <1>4, <2>2, SegmentDocs DEF ContentsIInv, Apart
    <3>2. ASSUME NEW m \in SegmentChain', NEW n \in SegmentChain',
                 pages'[m].docs \cap pages'[n].docs # {}
          PROVE  m = n
      <4>1. {m, n} \subseteq SegmentChain \cup {x} /\ pages[m].docs \cap pages[n].docs # {}
        BY <1>4, <3>2 DEF SegmentJoins
      <4> QED
        BY <2>2, <3>1, <4>1 DEF Apart
    <3> QED
      BY <1>4, <3>2 DEF Apart
  <2> QED
    BY <2>1, <2>2
<1> QED
  BY <1>1, <1>2, <1>3, <1>4, ContentsMove

\* One document more, counted.
LEMMA PresentCounted ==
    ASSUME TypeOK, NEW d \in Docs, Inserted(d), totalDocs = Cardinality(Present)
    PROVE  totalDocs' = Cardinality(Present')
<1>1. IsFiniteSet(Docs)
  BY BoundsAssumption, FS_Interval DEF Docs
<1>2. IsFiniteSet(Present)
  BY <1>1, FS_Subset DEF Present
<1>3. Cardinality(Present \cup {d}) = Cardinality(Present) + 1
  BY <1>2, FS_AddElement DEF Inserted
<1> QED
  BY <1>3 DEF Inserted

\* Nothing of this changes when no variable that it depends on does.
LEMMA PlacesSame ==
    ASSUME UNCHANGED <<heap, run, memtable, totalDocs, meta, pages, restarts, crashed>>
    PROVE  (Partition => Partition') /\ (Kept => Kept')
BY DEF Partition, Kept, Apart, Somewhere, Present, InSegments, InHand, Hand, SegmentChain

\* Up to the first restart.
LEMMA PartitionStep ==
    ASSUME ContentsIInv, ContentsIInv', Covered, Covered', Partition, [Next]_vars
    PROVE  Partition'
<1> USE DEF memory, buffers, storage, history
<1>1. ASSUME NEW b \in Backends, StepOf(b) PROVE Partition'
  <2>1. SUFFICES ASSUME restarts' = 0
                 PROVE  Somewhere' = Present' /\ Apart' /\ totalDocs' = Cardinality(Present')
    BY DEF Partition
  <2>2. Somewhere = Present /\ Apart /\ totalDocs = Cardinality(Present)
    BY <1>1, <2>1, PresentMoves DEF Partition
  <2>3. Apart'
    BY <1>1, <2>2, PlacesMove
  <2>4. CASE NoneInserted /\ Somewhere' = Somewhere
    BY <2>2, <2>3, <2>4 DEF NoneInserted
  <2>5. ASSUME NEW d \in Docs, Inserted(d), Somewhere' = Somewhere \cup {d}
        PROVE  Somewhere' = Present' /\ totalDocs' = Cardinality(Present')
    BY <2>2, <2>5, ChainsTyped, PresentCounted DEF ContentsIInv, Inserted
  <2> QED
    BY <1>1, <2>3, <2>4, <2>5, PlacesMove
<1>2. CASE WriteBack \/ UNCHANGED vars
  <2>1. UNCHANGED <<heap, run, memtable, totalDocs, meta, pages, restarts, crashed>>
    BY <1>2 DEF WriteBack, vars
  <2> QED
    BY <2>1, PlacesSame
<1>3. CASE Restart \/ Crash
  <2>1. restarts' = restarts + 1 /\ restarts \in Nat
    BY <1>3, ChainsTyped, BoundsAssumption DEF Restart, Crash, Recover, ContentsIInv, TypeOK
  <2> QED
    BY <2>1 DEF Partition
<1> QED
  BY <1>1, <1>2, <1>3 DEF Next, StepOf

\* A shutdown comes when nobody is in the middle of anything.
LEMMA KeptByRestart ==
    ASSUME ContentsIInv, ContentsIInv', Kept, CachesFresh => Recorded, Restart
    PROVE  Kept'
<1>1. SUFFICES ASSUME CachesFresh, ~crashed PROVE Present' \subseteq Somewhere'
  BY DEF Kept, Restart
<1>2. /\ Recover(meta, pages) /\ heap' = heap /\ \A b \in Backends : run[b] = Idle
      /\ PointersSound(meta, pages)
  BY DEF Restart, ContentsIInv, ChainsIInv, PointersIInv
<1>3. InHand = {} /\ Inserting = {}
  BY <1>2, RunTypes DEF InHand, Hand, Inserting
<1>4. /\ memtable' = DocsOn(Chain(meta.first, pages, "docids"), pages)
      /\ meta' = meta /\ pages' = pages
  BY <1>2, RecoverWhole DEF ContentsIInv
<1>5. memtable \subseteq memtable'
  BY <1>1, <1>3, <1>4 DEF Recorded, DocidChain
<1>6. InSegments' = InSegments
  BY <1>4 DEF InSegments, SegmentChain
<1>7. Present' = Present
  BY <1>2 DEF Present
<1> QED
  BY <1>1, <1>3, <1>5, <1>6, <1>7 DEF Kept, Somewhere

\* As long as the server is shut down rather than crashed.
LEMMA KeptStep ==
    ASSUME ContentsIInv, ContentsIInv', Covered, Covered', CachesFresh => Recorded, Kept,
           [Next]_vars
    PROVE  Kept'
<1> USE DEF memory, buffers, storage, history
<1>1. ASSUME NEW b \in Backends, StepOf(b) PROVE Kept'
  <2>1. SUFFICES ASSUME CachesFresh, ~crashed' PROVE Present' \subseteq Somewhere'
    BY DEF Kept
  <2>2. Present \subseteq Somewhere
    BY <1>1, <2>1, PresentMoves DEF Kept
  <2>3. CASE NoneInserted /\ Somewhere' = Somewhere
    BY <2>2, <2>3 DEF NoneInserted
  <2>4. ASSUME NEW d \in Docs, Inserted(d), Somewhere' = Somewhere \cup {d}
        PROVE  Present' \subseteq Somewhere'
    BY <2>2, <2>4 DEF Inserted
  <2> QED
    BY <1>1, <2>3, <2>4, PlacesMove
<1>2. CASE WriteBack \/ UNCHANGED vars
  <2>1. UNCHANGED <<heap, run, memtable, totalDocs, meta, pages, restarts, crashed>>
    BY <1>2 DEF WriteBack, vars
  <2> QED
    BY <2>1, PlacesSame
<1>3. CASE Restart
  BY <1>3, KeptByRestart
<1>4. CASE Crash
  BY <1>4 DEF Crash, Kept
<1> QED
  BY <1>1, <1>2, <1>3, <1>4 DEF Next, StepOf

-----------------------------------------------------------------------------
(* What a query may rely on. *)

\* The invariant of this section.
PlacesIInv ==
    ContentsIInv /\ Covered /\ Partition /\ Kept /\ (CachesFresh => Recorded)

\* An empty index has no document anywhere.
LEMMA InitPlaces == Init => PlacesIInv
<1> SUFFICES ASSUME Init PROVE PlacesIInv
  OBVIOUS
<1>1. ContentsIInv
  BY InitContents
<1>2. Covered /\ Recorded
  BY RunTypes DEF Init, Covered, CoveredBy, Recorded
<1>3. SegmentChain = {} /\ Present = {}
  <2>1. pages \in Seq(Pages) /\ meta.head = None
    BY <1>1, ChainsTyped DEF ContentsIInv, Init
  <2>2. SegmentChain = {}
    BY <2>1, NoChain DEF SegmentChain
  <2> QED
    BY <2>2 DEF Init, Present
<1>4. Somewhere = {} /\ Apart
  <2>1. InSegments = {}
    BY <1>3 DEF InSegments, DocsOn
  <2>2. InHand = {} /\ memtable = {}
    BY RunTypes DEF Init, InHand, Hand
  <2> QED
    BY <1>3, <2>1, <2>2 DEF Somewhere, Apart
<1>5. totalDocs = Cardinality(Present)
  BY <1>3, FS_EmptySet DEF Init
<1> QED
  BY <1>1, <1>2, <1>3, <1>4, <1>5 DEF PlacesIInv, Partition, Kept

\* Every step.
LEMMA PlacesStep ==
    ASSUME SpillsCovered, PlacesIInv, [Next]_vars
    PROVE  PlacesIInv'
<1>1. ContentsIInv /\ ContentsIInv' /\ Covered /\ Covered'
  BY ContentsStep, CoveredStep DEF PlacesIInv
<1>2. CachesFresh => Recorded'
  BY <1>1, RecordedStep DEF PlacesIInv, ContentsIInv
<1>3. Partition' /\ Kept'
  BY <1>1, PartitionStep, KeptStep DEF PlacesIInv
<1> QED
  BY <1>1, <1>2, <1>3 DEF PlacesIInv

\* Nothing is in hand while a query can get the lock.
LEMMA ReadableHands ==
    ASSUME PlacesIInv, Readable
    PROVE  InHand = {} /\ Committed \subseteq Present
<1>1. \A b \in Backends : Hand(b) = {}
  BY BackendsAssumption DEF PlacesIInv, Covered, CoveredBy, Readable, Hand
<1> QED
  BY <1>1 DEF InHand, Committed, Present

\* The chain has finitely many segments.
LEMMA SegmentsFinite ==
    ASSUME ChainsIInv, NEW S, S \subseteq SegmentChain
    PROVE  IsFiniteSet(S)
<1>1. S \subseteq DOMAIN pages
  BY SegmentDocs
<1>2. IsFiniteSet(1 .. Len(pages)) /\ DOMAIN pages = 1 .. Len(pages)
  BY ChainsTyped, LenProperties, FS_Interval
<1> QED
  BY <1>1, <1>2, FS_Subset

\* A committed document is somewhere and nowhere else.
LEMMA FoundOnce ==
    ASSUME PlacesIInv, Readable, NEW d \in Committed
    PROVE  /\ restarts = 0 => Places(d) = 1
           /\ CachesFresh /\ ~crashed => Places(d) >= 1
<1> PICK found : found = {n \in SegmentChain : d \in pages[n].docs}
  OBVIOUS
<1>1. Places(d) = Cardinality(found) + (IF d \in memtable THEN 1 ELSE 0)
  BY DEF Places
<1>2. InHand = {} /\ d \in Present
  BY ReadableHands
<1>3. IsFiniteSet(found) /\ Cardinality(found) \in Nat
  BY SegmentsFinite, FS_CardinalityType DEF PlacesIInv, ContentsIInv
<1>4. (d \in InSegments <=> found # {}) /\ (Cardinality(found) = 0 <=> found = {})
  BY <1>3, SegmentDocs, FS_EmptySet DEF PlacesIInv, ContentsIInv
<1>5. ASSUME restarts = 0 PROVE Places(d) = 1
  <2>1. Somewhere = Present /\ Apart
    BY <1>5 DEF PlacesIInv, Partition
  <2>2. CASE d \in memtable
    <3>1. found = {}
      BY <1>4, <2>1, <2>2 DEF Apart
    <3> QED
      BY <1>1, <1>4, <2>2, <3>1
  <2>3. CASE d \notin memtable
    <3>1. d \in InSegments
      BY <1>2, <2>1, <2>3 DEF Somewhere
    <3>2. PICK n : n \in found
      BY <1>4, <3>1
    <3>3. \A m \in found : m = n
      BY <2>1, <3>2 DEF Apart
    <3>4. found = {n}
      BY <3>2, <3>3
    <3>5. Cardinality(found) = 1
      BY <3>4, FS_Singleton
    <3> QED
      BY <1>1, <2>3, <3>5
  <2> QED
    BY <2>2, <2>3
<1>6. ASSUME CachesFresh, ~crashed PROVE Places(d) >= 1
  <2>1. d \in memtable \/ d \in InSegments
    BY <1>2, <1>6 DEF PlacesIInv, Kept, Somewhere
  <2>2. CASE d \in memtable
    BY <1>1, <1>3, <2>2
  <2>3. CASE d \in InSegments
    BY <1>1, <1>3, <1>4, <2>3
  <2> QED
    BY <2>1, <2>2, <2>3
<1> QED
  BY <1>5, <1>6

\* Until the first restart a query finds a committed document exactly once: neither
\* a spill at an insert, by hand or before a commit, nor an abort, loses or repeats
\* one.
THEOREM EachOnceAlways == SpillsCovered => (Spec => [](restarts = 0 => EachOnce))
<1> SUFFICES ASSUME SpillsCovered PROVE Spec => [](restarts = 0 => EachOnce)
  OBVIOUS
<1>1. PlacesIInv /\ [Next]_vars => PlacesIInv'
  BY PlacesStep
<1>2. PlacesIInv => (restarts = 0 => EachOnce)
  BY FoundOnce DEF EachOnce
<1> QED
  BY <1>1, <1>2, InitPlaces, PTL DEF Spec

\* As long as the server is shut down rather than crashed, no committed document is
\* lost, however often it is restarted: what was only in the memtable is read back
\* from the docid pages.
THEOREM NothingLostAlways ==
    SpillsCovered /\ CachesFresh => (Spec => []NothingLostByShutdown)
<1> SUFFICES ASSUME SpillsCovered, CachesFresh PROVE Spec => []NothingLostByShutdown
  OBVIOUS
<1>1. PlacesIInv /\ [Next]_vars => PlacesIInv'
  BY PlacesStep
<1>2. PlacesIInv => NothingLostByShutdown
  BY FoundOnce DEF NothingLostByShutdown, NothingLost
<1> QED
  BY <1>1, <1>2, InitPlaces, PTL DEF Spec

\* Until the first restart every posting is of a document that has been counted.
LEMMA PostingsCounted ==
    ASSUME PlacesIInv, Readable, restarts = 0
    PROVE  DocFreq <= totalDocs
<1> PICK P : P = {nd \in SegmentChain \X Docs : nd[2] \in pages[nd[1]].docs}
  OBVIOUS
<1> DEFINE f == [nd \in P |-> nd[2]]
<1>1. /\ Somewhere = Present /\ Apart /\ totalDocs = Cardinality(Present) /\ InHand = {}
      /\ ChainsIInv
  BY ReadableHands DEF PlacesIInv, Partition, ContentsIInv
<1>2. IsFiniteSet(Docs)
  BY BoundsAssumption, FS_Interval DEF Docs
<1>3. /\ Present \subseteq Docs /\ Present = memtable \cup InSegments
      /\ memtable \cap InSegments = {}
  BY <1>1 DEF Present, Somewhere, Apart
<1>4. IsFiniteSet(Present) /\ IsFiniteSet(memtable) /\ IsFiniteSet(InSegments)
  <2>1. memtable \subseteq Docs /\ InSegments \subseteq Docs
    BY <1>3
  <2> QED
    BY <1>2, <1>3, <2>1, FS_Subset
<1>5. f \in [P -> InSegments]
  BY <1>1, SegmentDocs
<1>6. \A p, q \in P : f[p] = f[q] => p = q
  <2> SUFFICES ASSUME NEW p \in P, NEW q \in P, p[2] = q[2] PROVE p = q
    OBVIOUS
  <2>1. p[1] = q[1]
    BY <1>1 DEF Apart
  <2> QED
    BY <2>1
<1>7. Cardinality(P) <= Cardinality(InSegments)
  <2>1. f \in Injection(P, InSegments)
    BY <1>5, <1>6 DEF Injection, IsInjective
  <2> HIDE DEF f
  <2> QED
    BY <1>4, <2>1, FS_Injection
<1>8. IsFiniteSet(P)
  <2>1. f \in Injection(P, InSegments)
    BY <1>5, <1>6 DEF Injection, IsInjective
  <2> HIDE DEF f
  <2> QED
    BY <1>4, <2>1, FS_Injection
<1> HIDE DEF f
<1>9. Cardinality(Present) = Cardinality(memtable) + Cardinality(InSegments)
  <2>1. /\ Cardinality(memtable \cup InSegments) =
              Cardinality(memtable) + Cardinality(InSegments)
                 - Cardinality(memtable \cap InSegments)
        /\ Cardinality({}) = 0
    BY <1>4, FS_Union, FS_EmptySet
  <2>2. Cardinality(memtable \cap InSegments) = 0
    BY <1>3, FS_EmptySet
  <2>3. Cardinality(memtable) \in Nat /\ Cardinality(InSegments) \in Nat
    BY <1>4, FS_CardinalityType
  <2>4. Cardinality(memtable \cup InSegments) = Cardinality(memtable) + Cardinality(InSegments)
    BY <2>1, <2>2, <2>3
  <2> QED
    BY <1>3, <2>4
<1>10. DocFreq = Cardinality(memtable) + Cardinality(P)
  BY DEF DocFreq
<1>11. /\ Cardinality(memtable) \in Nat /\ Cardinality(InSegments) \in Nat
       /\ Cardinality(P) \in Nat
  BY <1>4, <1>8, FS_CardinalityType
<1> QED
  BY <1>1, <1>7, <1>9, <1>10, <1>11

\* Until the first restart no term has more postings than there are documents
\* counted, so tp_calculate_idf never gets a negative value.
THEOREM IdfNotNegativeAlways == SpillsCovered => (Spec => [](restarts = 0 => IdfNotNegative))
<1> SUFFICES ASSUME SpillsCovered PROVE Spec => [](restarts = 0 => IdfNotNegative)
  OBVIOUS
<1>1. PlacesIInv /\ [Next]_vars => PlacesIInv'
  BY PlacesStep
<1>2. PlacesIInv => (restarts = 0 => IdfNotNegative)
  BY PostingsCounted DEF IdfNotNegative
<1> QED
  BY <1>1, <1>2, InitPlaces, PTL DEF Spec

-----------------------------------------------------------------------------
(* Capacity. *)

\* One more docid makes a page at most one docid fuller.
LEMMA OneMore ==
    ASSUME NEW s \in SUBSET Docs, NEW d \in Docs
    PROVE  /\ Cardinality(s) \in Nat
           /\ Cardinality(s \cup {d}) \in Nat
           /\ Cardinality(s \cup {d}) <= Cardinality(s) + 1
           /\ Cardinality({} \cup {d}) = 1
<1>1. IsFiniteSet(Docs)
  BY BoundsAssumption, FS_Interval DEF Docs
<1>2. IsFiniteSet(s)
  BY <1>1, FS_Subset
<1>3. Cardinality(s) \in Nat
  BY <1>2, FS_CardinalityType
<1>4. /\ IsFiniteSet(s \cup {d})
      /\ Cardinality(s \cup {d}) = IF d \in s THEN Cardinality(s) ELSE Cardinality(s) + 1
  BY <1>2, FS_AddElement
<1>5. Cardinality({} \cup {d}) = 1
  <2>1. {} \cup {d} = {d}
    OBVIOUS
  <2> QED
    BY <2>1, FS_Singleton
<1> QED
  BY <1>3, <1>4, <1>5

\* A docid that has room on its page leaves every page within its capacity.
LEMMA StoredFits ==
    ASSUME NEW ps \in Seq(Pages), NEW n, NEW d \in Docs, NEW qs, qs = Stored(n, d, ps), Fit(ps),
           n \in DOMAIN ps => ps[n].docs = {} \/ Cardinality(ps[n].docs) < Capacity
    PROVE  Fit(qs)
<1>1. /\ DOMAIN qs = DOMAIN ps
      /\ \A m \in DOMAIN ps : qs[m].kind = ps[m].kind
  BY StoredLinks
<1>2. /\ n \in DOMAIN ps => qs[n].docs = ps[n].docs \cup {d}
      /\ \A m \in DOMAIN ps : m # n => qs[m].docs = ps[m].docs
  BY StoredPages
<1>3. \A m \in DOMAIN ps : m # n /\ qs[m].kind = "docids" => Cardinality(qs[m].docs) <= Capacity
  BY <1>1, <1>2 DEF Fit
<1>4. n \in DOMAIN ps => Cardinality(qs[n].docs) <= Capacity
  <2> SUFFICES ASSUME n \in DOMAIN ps PROVE Cardinality(qs[n].docs) <= Capacity
    OBVIOUS
  <2> DEFINE s == ps[n].docs
  <2>1. s \in SUBSET Docs
    <3>1. ps[n] \in Pages
      BY LenProperties, ElementOfSeq
    <3> QED
      BY <3>1 DEF Pages
  <2>2. qs[n].docs = s \cup {d} /\ (s = {} \/ Cardinality(s) < Capacity)
    BY <1>2
  <2> HIDE DEF s
  <2>3. CASE s = {}
    BY <2>2, <2>3, OneMore, BoundsAssumption
  <2>4. CASE Cardinality(s) < Capacity
    <3>1. /\ Cardinality(s) \in Nat /\ Cardinality(s \cup {d}) \in Nat
          /\ Cardinality(s \cup {d}) <= Cardinality(s) + 1
      BY <2>1, OneMore
    <3> QED
      BY <2>2, <2>4, <3>1, BoundsAssumption
  <2> QED
    BY <2>2, <2>3, <2>4
<1> QED
  BY <1>1, <1>3, <1>4 DEF Fit

\* Pages with the kinds and the docids of pages that fit do so too.
LEMMA SameFits ==
    ASSUME NEW ps, NEW qs, Fit(ps), DOMAIN qs = DOMAIN ps,
           \A n \in DOMAIN ps : qs[n].kind = ps[n].kind /\ qs[n].docs = ps[n].docs
    PROVE  Fit(qs)
BY DEF Fit

\* If every page fits in the buffer pool, flushing one keeps the disk right.
LEMMA FlushedFits ==
    ASSUME NEW ps \in Seq(Pages), NEW dk \in Seq(Pages), Len(dk) = Len(ps), NEW n,
           Fit(ps), Fit(dk), NEW new, new \in {FlushIfFull(n, ps, dk), [dk EXCEPT ![n] = ps[n]]}
    PROVE  Fit(new)
<1>1. DOMAIN ps = 1 .. Len(ps) /\ DOMAIN dk = 1 .. Len(ps) /\ Len(ps) \in Nat
  BY LenProperties
<1> DEFINE flushed == [dk EXCEPT ![n] = ps[n]]
<1>2. Fit(flushed)
  <2>1. DOMAIN flushed = DOMAIN dk /\ DOMAIN ps = DOMAIN dk
    BY <1>1
  <2>2. \A m \in DOMAIN dk : flushed[m] = IF m = n THEN ps[m] ELSE dk[m]
    OBVIOUS
  <2> HIDE DEF flushed
  <2> QED
    BY <2>1, <2>2 DEF Fit
<1>3. new = flushed \/ new = dk
  BY DEF FlushIfFull
<1> QED
  BY <1>2, <1>3

\* A page at the end that fits.
LEMMA AppendedFits ==
    ASSUME NEW ps \in Seq(Pages), NEW p \in Pages, Fit(ps),
           p.kind = "docids" => Cardinality(p.docs) <= Capacity
    PROVE  Fit(Append(ps, p))
BY AppendPage DEF Fit

\* An empty index has no pages, and nobody is about to chain one.
LEMMA InitCapacity == Init => CapacityIInv
<1> SUFFICES ASSUME Init PROVE CapacityIInv
  OBVIOUS
<1>2. DOMAIN pages = {} /\ DOMAIN disk = {}
  BY EmptySeq DEF Init
<1>3. EmptyUntilChained
  BY DEF Init, EmptyUntilChained, At, Idle, Busy
<1> QED
  BY <1>2, <1>3 DEF CapacityIInv, Fit

\* Every step leaves the pages within their capacity, in the buffer pool and on disk.
LEMMA CapacityStep ==
    ASSUME ContentsIInv, ContentsIInv', CapacityIInv, [Next]_vars
    PROVE  CapacityIInv'
<1> USE DEF memory, buffers, storage, history
<1>0. /\ TypeOK /\ Fit(pages) /\ Fit(disk) /\ EmptyUntilChained
      /\ run \in [Backends -> Runs] /\ run' \in [Backends -> Runs]
      /\ pages \in Seq(Pages) /\ disk \in Seq(Pages) /\ Len(disk) = Len(pages)
      /\ pages' \in Seq(Pages)
  <2>1. TypeOK /\ TypeOK'
    BY ChainsTyped DEF ContentsIInv, ChainsIInv, PointersIInv
  <2>2. run' \in [Backends -> Runs] /\ pages' \in Seq(Pages)
    BY <2>1 DEF TypeOK
  <2> QED
    BY <2>1, <2>2, RunsTyped DEF CapacityIInv
<1> DEFINE Empty == EmptyUntilChained'
<1>1. ASSUME Fit(pages'), Fit(disk'), Empty PROVE CapacityIInv'
  BY <1>0, <1>1 DEF CapacityIInv
<1> HIDE DEF Empty
\* Steps that leave the pages alone and are not about to chain one.
<1>2. ASSUME UNCHANGED pages, \A b \in Backends : run'[b].at = "chain" => run'[b] = run[b]
      PROVE  Fit(pages') /\ Empty
  BY <1>0, <1>2 DEF Empty, EmptyUntilChained, At
<1>3. ASSUME NEW b \in Backends, UNCHANGED <<buffers, storage>>, run'[b].at # "chain",
             \A c \in Backends \ {b} : run'[c] = run[c]
      PROVE  CapacityIInv'
  BY <1>0, <1>1, <1>2, <1>3
\* Steps of an insert, which has the lock: nobody else is about to chain a page.
<1>4. ASSUME NEW b \in Backends, run[b].at \in {"docid", "chain"}, NEW c \in Backends \ {b}
      PROVE  run[c].at # "chain"
  <2>1. lock = b
    BY <1>0, <1>4, RunTypes DEF ContentsIInv, TasksRight, TaskRight
  <2> QED
    BY <1>0, <2>1, RunTypes DEF ContentsIInv, TasksRight, TaskRight
<1>5. ASSUME NEW b \in Backends, run[b].at \in {"docid", "chain"}, run'[b].at # "chain",
             \A c \in Backends \ {b} : run'[c] = run[c]
      PROVE  Empty
  BY <1>4, <1>5 DEF Empty, EmptyUntilChained, At
\* Steps that leave the documents of a page about to be chained alone.
<1>24. ASSUME NEW b \in Backends, run'[b].at # "chain",
              \A c \in Backends \ {b} : run'[c] = run[c],
              \A n \in DOMAIN pages : pages'[n].docs = pages[n].docs
       PROVE  Empty
  <2>1. \A c \in Backends : run[c].at = "chain" =>
            run[c].block \in DOMAIN pages /\ pages[run[c].block].docs = {}
    BY <1>0 DEF EmptyUntilChained, At, ContentsIInv, ChainsIInv, PointersIInv, BlockInHand
  <2> QED
    BY <1>24, <2>1 DEF Empty, EmptyUntilChained, At
<1>6. ASSUME NEW b \in Backends, NEW d \in Docs, Insert(b, d) PROVE CapacityIInv'
  <2>1. PICK step \in {"write", "docid"} : run' = [run EXCEPT ![b] = Busy("insert", step, d)]
    BY <1>6 DEF Insert
  <2>2. run'[b].at # "chain" /\ \A c \in Backends \ {b} : run'[c] = run[c]
    BY <1>0, <2>1 DEF Busy
  <2> QED
    BY <1>3, <1>6, <2>2 DEF Insert
<1>7. ASSUME NEW b \in Backends, BulkSpill(b) PROVE CapacityIInv'
  <2>1. run'[b].at # "chain" /\ \A c \in Backends \ {b} : run'[c] = run[c]
    BY <1>0, <1>7 DEF BulkSpill, Busy
  <2> QED
    BY <1>3, <1>7, <2>1 DEF BulkSpill
<1>8. ASSUME NEW b \in Backends, Commit(b) \/ Abort(b) PROVE CapacityIInv'
  <2>1. UNCHANGED <<buffers, storage>> /\ run' = [run EXCEPT ![b] = Idle]
    BY <1>8 DEF Commit, Abort, EndXact
  <2>2. run'[b].at # "chain" /\ \A c \in Backends \ {b} : run'[c] = run[c]
    BY <1>0, <2>1, RunTypes
  <2> QED
    BY <1>3, <2>1, <2>2
<1>9. ASSUME NEW b \in Backends, SpillIndex(b) \/ Scan(b) PROVE CapacityIInv'
  <2>1. run'[b].at # "chain" /\ \A c \in Backends \ {b} : run'[c] = run[c]
    BY <1>0, <1>9, RunTypes DEF SpillIndex, Scan, Busy
  <2> QED
    BY <1>3, <1>9, <2>1 DEF SpillIndex, Scan
<1>10. ASSUME NEW b \in Backends, NothingToSpill(b) PROVE CapacityIInv'
  <2>1. UNCHANGED <<buffers, storage>> /\ EndSpill(b)
    BY <1>10 DEF NothingToSpill
  <2>2. run'[b].at # "chain" /\ \A c \in Backends \ {b} : run'[c] = run[c]
    BY <1>0, <2>1, EndSpillType, RunsTyped
  <2> QED
    BY <1>3, <2>1, <2>2
<1>11. ASSUME NEW b \in Backends, ClearMemtable(b) PROVE CapacityIInv'
  <2>1. PICK step \in {"forget", "link"} : GoTo(b, step) /\ (step = "forget" => run[b].task = "insert")
    BY <1>11 DEF ClearMemtable
  <2>2. run'[b].at # "chain" /\ \A c \in Backends \ {b} : run'[c] = run[c]
    BY <1>0, <2>1, GoToType DEF Steps
  <2> QED
    BY <1>3, <1>11, <2>2 DEF ClearMemtable
<1>12. ASSUME NEW b \in Backends, ForgetDocids(b) PROVE CapacityIInv'
  <2>1. run'[b].at # "chain" /\ \A c \in Backends \ {b} : run'[c] = run[c]
    BY <1>0, <1>12, GoToType DEF ForgetDocids, Steps
  <2>2. pages' = pages /\ disk' = disk
    BY <1>12 DEF ForgetDocids
  <2>3. Fit(pages') /\ Empty
    BY <1>2, <2>1, <2>2
  <2> QED
    BY <1>0, <1>1, <2>2, <2>3
<1>13. ASSUME NEW b \in Backends, WriteSegment(b) PROVE CapacityIInv'
  <2> DEFINE p == Page("segment", memtable)
  <2>1. p \in Pages /\ p.kind = "segment"
    BY <1>0, PageType DEF TypeOK, PageKinds
  <2> HIDE DEF p
  <2>2. pages' = Append(pages, p) /\ disk' = pages'
    BY <1>13 DEF WriteSegment, p
  <2>3. Fit(pages') /\ Fit(disk')
    BY <1>0, <2>1, <2>2, AppendedFits
  <2>4. run'[b].at # "chain" /\ \A c \in Backends \ {b} : run'[c] = run[c]
    <3>1. run' = [run EXCEPT ![b].at = "clear", ![b].block = Len(pages')] /\ Len(pages') \in Nat
      BY <1>0, <1>13, LenProperties DEF WriteSegment
    <3> QED
      BY <1>0, <1>13, <3>1, NewBlockType DEF WriteSegment, At
  <2>5. \A n \in DOMAIN pages : pages'[n].docs = pages[n].docs
    BY <1>0, <2>1, <2>2, AppendPage
  <2> QED
    BY <1>1, <1>24, <2>3, <2>4, <2>5
<1>14. ASSUME NEW b \in Backends, LinkHead(b) PROVE CapacityIInv'
  <2>1. pages' = Linked(run[b].block, meta.head, pages) /\ disk' = disk /\ EndSpill(b)
    BY <1>14 DEF LinkHead
  <2>2. run'[b].at # "chain" /\ \A c \in Backends \ {b} : run'[c] = run[c]
    BY <1>0, <1>14, <2>1, EndSpillType, RunsTyped DEF LinkHead, At
  <2>3. meta.head \in Nat
    BY <1>0, RunsTyped DEF MetaPages
  <2>4. Fit(pages')
    BY <1>0, <2>1, <2>3, LinkedPages, SameFits
  <2>5. \A n \in DOMAIN pages : pages'[n].docs = pages[n].docs
    BY <1>0, <2>1, <2>3, LinkedPages
  <2> QED
    BY <1>0, <1>1, <1>24, <2>1, <2>2, <2>4, <2>5
\* The two steps that write a docid.
<1>15. ASSUME NEW b \in Backends, run[b].at \in {"docid", "chain"}, run' = [run EXCEPT ![b] = Idle] PROVE Empty
  BY <1>0, <1>5, <1>15, RunTypes
<1>16. ASSUME NEW b \in Backends, StoreDocid(b) PROVE CapacityIInv'
  <2> DEFINE d == run[b].doc
  <2>1. PICK n : /\ HasRoom(n) /\ pages' = Stored(n, d, pages)
                 /\ disk' = FlushIfFull(n, pages', disk)
    BY <1>16 DEF StoreDocid
  <2>2. d \in Docs /\ Empty
    BY <1>0, <1>15, <1>16, RunTypes DEF StoreDocid, At
  <2> HIDE DEF d
  <2>3. Fit(pages')
    BY <1>0, <2>1, <2>2, StoredFits DEF HasRoom
  <2>4. Len(disk) = Len(pages')
    BY <1>0, <2>1, <2>2, StoredLinks
  <2>5. Fit(disk')
    BY <1>0, <2>1, <2>3, <2>4, FlushedFits
  <2> QED
    BY <1>1, <2>2, <2>3, <2>5
<1>17. ASSUME NEW b \in Backends, NewDocidPage(b) PROVE CapacityIInv'
  <2> DEFINE p == Page("docids", {})
  <2>1. p \in Pages /\ p.docs = {} /\ Cardinality(p.docs) <= Capacity
    BY PageType, FS_EmptySet, BoundsAssumption DEF PageKinds
  <2> HIDE DEF p
  <2>2. pages' = Append(pages, p) /\ disk' = Append(disk, p)
    BY <1>17 DEF NewDocidPage, p
  <2>3. Fit(pages') /\ Fit(disk')
    BY <1>0, <2>1, <2>2, AppendedFits
  <2>4. /\ run'[b].block = Len(pages') /\ \A c \in Backends \ {b} : run'[c] = run[c]
    <3>1. run[b].task = "insert"
      BY <1>0, <1>17, RunTypes DEF NewDocidPage, At
    <3>2. run' = [run EXCEPT ![b].at = "chain", ![b].block = Len(pages')] /\ Len(pages') \in Nat
      BY <1>0, <1>17, LenProperties DEF NewDocidPage
    <3> QED
      BY <1>0, <3>1, <3>2, NewBlockType
  <2>5. pages'[run'[b].block] = p
    BY <1>0, <2>1, <2>2, <2>4, AppendPage
  <2>6. \A c \in Backends \ {b} : run'[c].at # "chain"
    BY <1>4, <1>17, <2>4 DEF NewDocidPage, At
  <2>7. Empty
    BY <2>1, <2>5, <2>6 DEF Empty, EmptyUntilChained, At
  <2> QED
    BY <1>1, <2>3, <2>7
<1>18. ASSUME NEW b \in Backends, ChainDocidPage(b) PROVE CapacityIInv'
  <2> DEFINE n == run[b].block
             d == run[b].doc
  <2>1. n \in Nat /\ d \in Docs /\ pages[n].docs = {} /\ Empty
    BY <1>0, <1>15, <1>18, RunTypes DEF ChainDocidPage, EmptyUntilChained, At
  \* The page before, if there is one, keeps its docids in either copy.
  <2>2. PICK ps \in Seq(Pages), dk \in Seq(Pages) :
           /\ Len(ps) = Len(pages) /\ Len(dk) = Len(pages)
           /\ Fit(ps) /\ Fit(dk) /\ (n \in DOMAIN ps => ps[n].docs = {})
           /\ pages' = Stored(n, d, ps) /\ disk' = FlushIfFull(n, pages', dk)
    <3>1. CASE pages' = Stored(n, d, pages) /\ disk' = FlushIfFull(n, pages', disk)
      BY <1>0, <2>1, <3>1
    <3>2. ASSUME NEW last \in LastDocidPages,
                 pages' = Stored(n, d, Linked(last, n, pages)),
                 disk' = FlushIfFull(n, pages', [disk EXCEPT ![last] = Linked(last, n, pages)[last]])
          PROVE  \E ps \in Seq(Pages), dk \in Seq(Pages) :
                    /\ Len(ps) = Len(pages) /\ Len(dk) = Len(pages)
                    /\ Fit(ps) /\ Fit(dk) /\ (n \in DOMAIN ps => ps[n].docs = {})
                    /\ pages' = Stored(n, d, ps) /\ disk' = FlushIfFull(n, pages', dk)
      <4> DEFINE ps == Linked(last, n, pages)
                 dk == [disk EXCEPT ![last] = ps[last]]
      <4>1. /\ ps \in Seq(Pages) /\ Len(ps) = Len(pages) /\ DOMAIN ps = DOMAIN pages
            /\ \A m \in DOMAIN pages : ps[m].kind = pages[m].kind /\ ps[m].docs = pages[m].docs
        BY <1>0, <2>1, LinkedPages
      <4>2. Fit(ps)
        BY <1>0, <4>1, SameFits
      <4>3. last \in DOMAIN pages /\ ps[last] \in Pages
        BY <1>0, <4>1, LenProperties, ElementOfSeq DEF LastDocidPages
      <4>4. dk \in Seq(Pages) /\ Len(dk) = Len(pages)
        BY <1>0, <4>3, ChangeBlock
      <4>5. Fit(dk)
        BY <1>0, <4>1, <4>2, FlushedFits
      <4>6. n \in DOMAIN ps => ps[n].docs = {}
        BY <2>1, <4>1
      <4>7. pages' = Stored(n, d, ps) /\ disk' = FlushIfFull(n, pages', dk)
        BY <3>2
      <4> HIDE DEF ps, dk
      <4> QED
        BY <4>1, <4>2, <4>4, <4>5, <4>6, <4>7
    <3> QED
      BY <1>18, <3>1, <3>2 DEF ChainDocidPage
  <2> HIDE DEF n, d
  <2>3. Fit(pages')
    BY <2>1, <2>2, StoredFits
  <2>4. Len(dk) = Len(pages')
    BY <2>1, <2>2, StoredLinks
  <2>5. Fit(disk')
    BY <1>0, <2>2, <2>3, <2>4, FlushedFits
  <2> QED
    BY <1>1, <2>1, <2>3, <2>5
<1>19. CASE WriteBack
  <2>1. UNCHANGED <<run, pages>>
    BY <1>19 DEF WriteBack
  <2>2. Fit(pages') /\ Empty
    BY <1>2, <2>1
  <2>3. disk' = disk \/ \E n \in DOMAIN pages : disk' = [disk EXCEPT ![n] = pages[n]]
    BY <1>19 DEF WriteBack
  <2>4. Fit(disk')
    BY <1>0, <2>3, FlushedFits
  <2> QED
    BY <1>1, <2>2, <2>4
\* Recovery from either copy.
<1>20. ASSUME NEW m \in {meta, diskMeta}, NEW ps \in {pages, disk}, Recover(m, ps)
       PROVE  CapacityIInv'
  <2>1. m \in MetaPages /\ ps \in Seq(Pages) /\ Fit(ps)
    BY <1>0, RunsTyped
  <2>2. /\ disk' = pages' /\ DOMAIN pages' = DOMAIN ps
        /\ run' = [b \in Backends |-> Idle]
        /\ \A n \in DOMAIN ps : pages'[n].kind = ps[n].kind /\ pages'[n].docs = ps[n].docs
    BY <1>20, <2>1, RecoverFacts
  <2>3. Fit(pages') /\ Fit(disk')
    BY <2>1, <2>2, SameFits
  <2>4. Empty
    BY <2>2, RunTypes DEF Empty, EmptyUntilChained, At
  <2> QED
    BY <1>1, <2>3, <2>4
<1>21. CASE Restart
  BY <1>20, <1>21 DEF Restart
<1>22. CASE Crash
  BY <1>20, <1>22 DEF Crash
<1>23. CASE UNCHANGED vars
  <2>1. UNCHANGED <<run, pages, disk>>
    BY <1>23 DEF vars
  <2> QED
    BY <1>0, <1>1, <1>2, <2>1
<1> QED
  BY <1>6, <1>7, <1>8, <1>9, <1>10, <1>11, <1>12, <1>13, <1>14, <1>16, <1>17, <1>18, <1>19,
     <1>21, <1>22, <1>23 DEF Next, SpillStep

\* No docid page ever gets more docids than fit, whatever the others remember as
\* their last page, whoever has given the lock up and whichever copy a crash brought
\* back.
THEOREM NoPageOverflowsAlways == Spec => []NoPageOverflows
<1> DEFINE I == ContentsIInv /\ CapacityIInv
<1>1. Init => I
  BY InitContents, InitCapacity
<1>2. I /\ [Next]_vars => I'
  BY ContentsStep, CapacityStep
<1>3. I => NoPageOverflows
  BY DEF CapacityIInv, NoPageOverflows
<1> QED
  BY <1>1, <1>2, <1>3, PTL DEF Spec

=============================================================================
