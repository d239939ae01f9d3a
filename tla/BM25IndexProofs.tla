--------------------------- MODULE BM25IndexProofs ---------------------------
(***************************************************************************)
(* Safety of BM25Index for any number of backends and documents and any    *)
(* capacity and thresholds: types, pointers and chains of blocks in every  *)
(* execution; the discipline of the index lock as long as transactions     *)
(* neither query after writing nor call bm25_spill_index.                  *)
(***************************************************************************)
EXTENDS BM25Index, SequenceTheorems, FiniteSetTheorems, WellFoundedInduction, TLAPS

-----------------------------------------------------------------------------
(* Facts about pages and sequences of pages. *)

\* A page as the code makes one is a page.
LEMMA PageType ==
    ASSUME NEW kind \in PageKinds, NEW docs \in SUBSET Docs
    PROVE  /\ Page(kind, docs) \in Pages
           /\ Page(kind, docs).kind = kind
           /\ Page(kind, docs).docs = docs
           /\ Page(kind, docs).next = None
BY DEF Page, Pages, None

\* Changing one block, or one field of one block, of a sequence of pages.
LEMMA ChangeBlock ==
    ASSUME NEW ps \in Seq(Pages), NEW n, NEW p \in Pages
    PROVE  /\ [ps EXCEPT ![n] = p] \in Seq(Pages)
           /\ Len([ps EXCEPT ![n] = p]) = Len(ps)
           /\ DOMAIN [ps EXCEPT ![n] = p] = DOMAIN ps
           /\ \A m \in DOMAIN ps : [ps EXCEPT ![n] = p][m] = IF m = n THEN p ELSE ps[m]
<1>1. DOMAIN ps = 1 .. Len(ps) /\ Len(ps) \in Nat
  BY LenProperties
<1>2. CASE n \in DOMAIN ps
  BY <1>1, <1>2, ExceptSeq
<1>3. CASE n \notin DOMAIN ps
  <2>1. [ps EXCEPT ![n] = p] = ps
    BY <1>3, <1>1
  <2> QED
    BY <2>1, <1>3
<1> QED
  BY <1>2, <1>3

\* tp_add_docid_to_pages writes a docid to one block.
LEMMA StoredPages ==
    ASSUME NEW ps \in Seq(Pages), NEW n, NEW d \in Docs, NEW qs, qs = Stored(n, d, ps)
    PROVE  /\ qs \in Seq(Pages) /\ Len(qs) = Len(ps) /\ DOMAIN qs = DOMAIN ps
           /\ n \in DOMAIN ps => qs[n].docs = ps[n].docs \cup {d}
           /\ \A m \in DOMAIN ps : m # n => qs[m].docs = ps[m].docs
<1>1. DOMAIN ps = 1 .. Len(ps) /\ Len(ps) \in Nat
  BY LenProperties
<1>2. qs \in Seq(Pages) /\ Len(qs) = Len(ps) /\ DOMAIN qs = DOMAIN ps
  <2>1. CASE n \in DOMAIN ps
    <3> DEFINE p == [ps[n] EXCEPT !.docs = @ \cup {d}]
    <3>1. ps[n] \in Pages
      BY <1>1, <2>1, ElementOfSeq
    <3>2. p \in Pages
      BY <3>1 DEF Pages
    <3>3. qs = [ps EXCEPT ![n] = p]
      BY DEF Stored
    <3> HIDE DEF p
    <3> QED
      BY <3>2, <3>3, ChangeBlock
  <2>2. CASE n \notin DOMAIN ps
    <3>1. qs = ps
      BY <1>1, <2>2 DEF Stored
    <3> QED
      BY <3>1
  <2> QED
    BY <2>1, <2>2
<1>3. ASSUME NEW m \in DOMAIN ps
      PROVE  qs[m].docs = IF m = n THEN ps[n].docs \cup {d} ELSE ps[m].docs
  <2>1. ps[m] \in Pages
    BY <1>1, ElementOfSeq
  <2>2. qs[m] = IF m = n THEN [ps[m] EXCEPT !.docs = @ \cup {d}] ELSE ps[m]
    BY DEF Stored
  <2> QED
    BY <2>1, <2>2 DEF Pages
<1> QED
  BY <1>2, <1>3

\* That changes neither the kind nor the successor of any block.
LEMMA StoredLinks ==
    ASSUME NEW ps \in Seq(Pages), NEW n, NEW d \in Docs, NEW qs, qs = Stored(n, d, ps)
    PROVE  /\ DOMAIN qs = DOMAIN ps /\ Len(qs) = Len(ps)
           /\ \A m \in DOMAIN ps : qs[m].kind = ps[m].kind /\ qs[m].next = ps[m].next
<1>1. DOMAIN qs = DOMAIN ps /\ Len(qs) = Len(ps)
  BY StoredPages
<1>2. ASSUME NEW m \in DOMAIN ps PROVE qs[m].kind = ps[m].kind /\ qs[m].next = ps[m].next
  <2>1. ps[m] \in Pages
    BY LenProperties, ElementOfSeq
  <2>2. qs[m] = IF m = n THEN [ps[m] EXCEPT !.docs = @ \cup {d}] ELSE ps[m]
    BY DEF Stored
  <2> QED
    BY <2>1, <2>2 DEF Pages
<1> QED
  BY <1>1, <1>2

\* Setting the successor of a block (tp_link_l0_chain_head, a new docid page).
LEMMA LinkedPages ==
    ASSUME NEW ps \in Seq(Pages), NEW n, NEW next \in Nat
    PROVE  /\ Linked(n, next, ps) \in Seq(Pages)
           /\ Len(Linked(n, next, ps)) = Len(ps)
           /\ DOMAIN Linked(n, next, ps) = DOMAIN ps
           /\ \A m \in DOMAIN ps :
                 /\ Linked(n, next, ps)[m].kind = ps[m].kind
                 /\ Linked(n, next, ps)[m].docs = ps[m].docs
                 /\ Linked(n, next, ps)[m].next = IF m = n THEN next ELSE ps[m].next
<1>1. DOMAIN ps = 1 .. Len(ps) /\ Len(ps) \in Nat
  BY LenProperties
<1>2. CASE n \in DOMAIN ps
  <2> DEFINE p == [ps[n] EXCEPT !.next = next]
  <2>1. ps[n] \in Pages
    BY <1>1, <1>2, ElementOfSeq
  <2>2. p \in Pages /\ p.kind = ps[n].kind /\ p.docs = ps[n].docs /\ p.next = next
    BY <2>1 DEF Pages
  <2>3. Linked(n, next, ps) = [ps EXCEPT ![n] = p]
    BY DEF Linked
  <2> HIDE DEF p
  <2> QED
    BY <2>2, <2>3, ChangeBlock
<1>3. CASE n \notin DOMAIN ps
  <2>1. Linked(n, next, ps) = ps
    BY <1>3, <1>1 DEF Linked
  <2> QED
    BY <2>1, <1>3
<1> QED
  BY <1>2, <1>3

\* Flushing one block copies it as it is in the buffer pool.
LEMMA FlushedPages ==
    ASSUME NEW ps \in Seq(Pages), NEW dk \in Seq(Pages), Len(dk) = Len(ps), NEW n \in DOMAIN ps
    PROVE  /\ FlushIfFull(n, ps, dk) \in Seq(Pages)
           /\ Len(FlushIfFull(n, ps, dk)) = Len(dk)
           /\ DOMAIN FlushIfFull(n, ps, dk) = DOMAIN dk
           /\ \A m \in DOMAIN dk : FlushIfFull(n, ps, dk)[m] \in {dk[m], ps[m]}
<1>1. ps[n] \in Pages
  BY LenProperties, ElementOfSeq
<1> QED
  BY <1>1, ChangeBlock DEF FlushIfFull

\* The types survive a flush, whichever block is flushed.
LEMMA FlushedTyped ==
    ASSUME NEW ps \in Seq(Pages), NEW dk \in Seq(Pages), Len(dk) = Len(ps), NEW n
    PROVE  FlushIfFull(n, ps, dk) \in Seq(Pages) /\ Len(FlushIfFull(n, ps, dk)) = Len(dk)
<1>1. DOMAIN ps = 1 .. Len(ps) /\ DOMAIN dk = 1 .. Len(ps) /\ Len(ps) \in Nat
  BY LenProperties
<1>2. CASE n \in DOMAIN ps
  BY <1>2, FlushedPages
<1>3. CASE n \notin DOMAIN ps
  <2>1. [dk EXCEPT ![n] = ps[n]] = dk
    BY <1>1, <1>3
  <2> QED
    BY <2>1 DEF FlushIfFull
<1> QED
  BY <1>2, <1>3

\* The blocks after recovery has cut the chain behind the blocks of cut.
CutAt(cut, ps) ==
    [n \in DOMAIN ps |-> IF n \in cut THEN [ps[n] EXCEPT !.next = None] ELSE ps[n]]

\* Recovery may cut the chain, and does nothing else to a block.
LEMMA CutPages ==
    ASSUME NEW ps \in Seq(Pages), NEW cut
    PROVE  /\ CutAt(cut, ps) \in Seq(Pages)
           /\ Len(CutAt(cut, ps)) = Len(ps)
           /\ DOMAIN CutAt(cut, ps) = DOMAIN ps
           /\ \A n \in DOMAIN ps :
                 /\ CutAt(cut, ps)[n].kind = ps[n].kind
                 /\ CutAt(cut, ps)[n].docs = ps[n].docs
                 /\ CutAt(cut, ps)[n].next \in {ps[n].next, None}
<1> DEFINE qs == CutAt(cut, ps)
<1>0. qs = [n \in DOMAIN ps |-> IF n \in cut THEN [ps[n] EXCEPT !.next = None] ELSE ps[n]]
  BY DEF CutAt
<1> HIDE DEF qs
<1>1. DOMAIN ps = 1 .. Len(ps) /\ Len(ps) \in Nat
  BY LenProperties
<1>2. \A n \in DOMAIN ps : ps[n] \in Pages
  BY <1>1, ElementOfSeq
<1>3. \A n \in DOMAIN ps : qs[n] \in Pages
  BY <1>0, <1>2 DEF Pages, None
<1>4. DOMAIN qs = 1 .. Len(ps)
  BY <1>0, <1>1
<1>5. qs \in [1 .. Len(ps) -> Pages]
  BY <1>0, <1>1, <1>3, <1>4
<1>6. qs \in Seq(Pages) /\ Len(qs) = Len(ps)
  BY <1>1, <1>5
<1>7. \A n \in DOMAIN ps : /\ qs[n].kind = ps[n].kind
                           /\ qs[n].docs = ps[n].docs
                           /\ qs[n].next \in {ps[n].next, None}
  BY <1>0, <1>2 DEF Pages
<1> QED
  BY <1>1, <1>4, <1>6, <1>7 DEF qs

\* Recovery leaves typed memory, buffers and disk, whatever copy it started
\* from; every next state of a restart is described by these facts alone.
LEMMA RecoverFacts ==
    ASSUME NEW m \in MetaPages, NEW ps \in Seq(Pages), Recover(m, ps)
    PROVE  /\ memtable' \in SUBSET Docs /\ totalDocs' \in Nat
           /\ lock' = Nobody /\ restarts' = restarts + 1
           /\ run' = [b \in Backends |-> Idle]
           /\ cache' = [b \in Backends |-> None]
           /\ xact' = [b \in Backends |-> {}]
           /\ meta' \in MetaPages /\ diskMeta' = meta'
           /\ meta'.first \in {m.first, None} /\ meta'.head = m.head
           /\ pages' \in Seq(Pages) /\ disk' = pages'
           /\ Len(pages') = Len(ps) /\ DOMAIN pages' = DOMAIN ps
           /\ \A n \in DOMAIN ps :
                 /\ pages'[n].kind = ps[n].kind
                 /\ pages'[n].docs = ps[n].docs
                 /\ pages'[n].next \in {ps[n].next, None}
<1> DEFINE chain == Chain(m.first, ps, "docids")
           cut   == ChainEnd(m.first, ps, "docids") # None
           ends  == {n \in DOMAIN ps : cut /\ n \in chain /\ ps[n].next \notin chain}
<1>1. /\ memtable' = DocsOn(chain, ps) /\ totalDocs' = m.docs
      /\ lock' = Nobody /\ restarts' = restarts + 1
      /\ run' = [b \in Backends |-> Idle]
      /\ cache' = [b \in Backends |-> None]
      /\ xact' = [b \in Backends |-> {}]
      /\ meta' = IF cut /\ chain = {} THEN [m EXCEPT !.first = None] ELSE m
      /\ diskMeta' = meta' /\ disk' = pages'
      /\ pages' = CutAt(ends, ps)
  BY DEF Recover, CutAt
<1> HIDE DEF chain, cut, ends
<1>2. /\ meta' \in MetaPages /\ totalDocs' \in Nat
      /\ meta'.first \in {m.first, None} /\ meta'.head = m.head
  BY <1>1 DEF MetaPages, None
<1>3. /\ pages' \in Seq(Pages) /\ Len(pages') = Len(ps) /\ DOMAIN pages' = DOMAIN ps
      /\ \A n \in DOMAIN ps : /\ pages'[n].kind = ps[n].kind
                              /\ pages'[n].docs = ps[n].docs
                              /\ pages'[n].next \in {ps[n].next, None}
  BY <1>1, CutPages
<1>4. memtable' \in SUBSET Docs
  <2>1. \A n \in DOMAIN ps : ps[n] \in Pages
    BY LenProperties, ElementOfSeq
  <2>2. DocsOn(chain, ps) \in SUBSET Docs
    BY <2>1 DEF DocsOn, Pages
  <2> QED
    BY <1>1, <2>2
<1> QED
  BY <1>1, <1>2, <1>3, <1>4

-----------------------------------------------------------------------------
(* Types: what a backend is in the middle of. *)

\* The runs that the code starts, and that it advances from.
LEMMA RunTypes ==
    /\ Idle \in Runs /\ Idle.at = "idle" /\ Idle.task = "none"
    /\ \A d \in Docs, step \in {"write", "docid"} : Busy("insert", step, d) \in Runs
    /\ \A task \in {"manual", "commit"} : Busy(task, "write", None) \in Runs
    /\ \A r \in Runs : r.block \in Nat
    /\ \A r \in Runs : r.at \in {"forget", "docid", "chain"} => r.task = "insert"
    /\ \A r \in Runs : r.task = "insert" => r.doc \in Docs
BY BoundsAssumption DEF Runs, Tasks, Steps, Idle, Busy, None, Docs

\* Advancing to another step with the same block in hand.
LEMMA Advance ==
    ASSUME NEW r \in Runs, NEW step \in Steps,
           step \in {"forget", "docid", "chain"} => r.task = "insert"
    PROVE  /\ [r EXCEPT !.at = step] \in Runs
           /\ [r EXCEPT !.at = step].at = step
           /\ [r EXCEPT !.at = step].task = r.task
           /\ [r EXCEPT !.at = step].block = r.block
BY DEF Runs

\* The next run of a backend that goes to another step of what it does.
LEMMA GoToType ==
    ASSUME run \in [Backends -> Runs], NEW b \in Backends, NEW step \in Steps, GoTo(b, step),
           step \in {"forget", "docid", "chain"} => run[b].task = "insert"
    PROVE  /\ run' \in [Backends -> Runs]
           /\ run'[b].at = step /\ run'[b].task = run[b].task /\ run'[b].block = run[b].block
           /\ \A c \in Backends \ {b} : run'[c] = run[c]
<1>1. run' = [run EXCEPT ![b] = [run[b] EXCEPT !.at = step]]
  BY DEF GoTo
<1>2. run[b] \in Runs
  OBVIOUS
<1> DEFINE r == [run[b] EXCEPT !.at = step]
<1>3. r \in Runs /\ r.at = step /\ r.task = run[b].task /\ r.block = run[b].block
  BY <1>2, Advance
<1> HIDE DEF r
<1>4. run' = [run EXCEPT ![b] = r]
  BY <1>1 DEF r
<1> QED
  BY <1>3, <1>4

\* The end of a spill touches the run and the lock of the one who spilled.
LEMMA EndSpillType ==
    ASSUME run \in [Backends -> Runs], lock \in Backends \cup {Nobody},
           NEW b \in Backends, EndSpill(b)
    PROVE  /\ run' \in [Backends -> Runs] /\ lock' \in Backends \cup {Nobody}
           /\ run'[b].at \in {"docid", "commit", "idle"}
           /\ \A c \in Backends \ {b} : run'[c] = run[c]
           /\ run[b].task # "manual" => lock' = lock /\ run'[b].task = run[b].task
<1>1. CASE run[b].task = "insert" /\ GoTo(b, "docid") /\ UNCHANGED lock
  BY <1>1, GoToType DEF Steps
<1>2. CASE run[b].task = "commit" /\ GoTo(b, "commit") /\ UNCHANGED lock
  BY <1>2, GoToType DEF Steps
<1>3. CASE /\ run[b].task = "manual"
           /\ run' = [run EXCEPT ![b] = Idle]
           /\ lock' = IF lock = b THEN Nobody ELSE lock
  BY <1>3, RunTypes
<1> QED
  BY <1>1, <1>2, <1>3 DEF EndSpill

-----------------------------------------------------------------------------
(* Types: every variable. *)

\* An empty index, nobody writing.
LEMMA InitType == Init => TypeOK
<1> SUFFICES ASSUME Init PROVE TypeOK
  OBVIOUS
<1>1. pages \in Seq(Pages) /\ disk \in Seq(Pages) /\ Len(disk) = Len(pages)
  BY EmptySeq DEF Init
<1>2. meta \in MetaPages /\ diskMeta \in MetaPages
  BY DEF Init, MetaPages, None
<1>3. run \in [Backends -> Runs] /\ cache \in [Backends -> Nat]
  BY RunTypes DEF Init, None
<1>4. restarts \in 0 .. MaxRestarts
  BY BoundsAssumption DEF Init
<1> QED
  BY <1>1, <1>2, <1>3, <1>4 DEF Init, TypeOK

\* A new page at the end of the index, in the buffer pool and on disk.
LEMMA AppendPage ==
    ASSUME NEW ps \in Seq(Pages), NEW p \in Pages
    PROVE  /\ Append(ps, p) \in Seq(Pages)
           /\ Len(Append(ps, p)) = Len(ps) + 1
           /\ Len(Append(ps, p)) \in Nat
           /\ DOMAIN Append(ps, p) = DOMAIN ps \cup {Len(ps) + 1}
           /\ Len(ps) + 1 \notin DOMAIN ps
           /\ \A n \in DOMAIN ps : Append(ps, p)[n] = ps[n]
           /\ Append(ps, p)[Len(ps) + 1] = p
BY LenProperties

\* The run of a backend that has just made the last block of the index.
LEMMA NewBlockType ==
    ASSUME run \in [Backends -> Runs], NEW b \in Backends, NEW step \in {"clear", "chain"},
           NEW n \in Nat, run' = [run EXCEPT ![b].at = step, ![b].block = n],
           step = "chain" => run[b].task = "insert"
    PROVE  /\ run' \in [Backends -> Runs]
           /\ run'[b].at = step /\ run'[b].task = run[b].task /\ run'[b].block = n
           /\ \A c \in Backends \ {b} : run'[c] = run[c]
<1> DEFINE r == [run[b] EXCEPT !.at = step, !.block = n]
<1>1. /\ run[b] \in Runs /\ step \in Steps
      /\ step \in {"forget", "docid", "chain"} => run[b].task = "insert"
  BY DEF Steps
<1> HIDE DEF r
<1>2. r \in Runs /\ r.at = step /\ r.task = run[b].task /\ r.block = n
  BY <1>1 DEF r, Runs
<1>3. run' = [run EXCEPT ![b] = r]
  BY DEF r
<1> QED
  BY <1>2, <1>3

\* Every step keeps the types, whatever the constants.
LEMMA TypeStep == TypeOK /\ [Next]_vars => TypeOK'
<1> SUFFICES ASSUME TypeOK, [Next]_vars PROVE TypeOK'
  OBVIOUS
<1> USE DEF memory, buffers, storage, history
<1>0. /\ MaxDocs \in Nat /\ MaxRestarts \in Nat /\ None = 0
      /\ run \in [Backends -> Runs] /\ lock \in Backends \cup {Nobody}
      /\ pages \in Seq(Pages) /\ disk \in Seq(Pages) /\ Len(disk) = Len(pages)
      /\ meta \in MetaPages /\ diskMeta \in MetaPages
  BY BoundsAssumption DEF TypeOK, None
<1>1. ASSUME NEW b \in Backends, NEW d \in Docs, Insert(b, d) PROVE TypeOK'
  <2>1. run' \in [Backends -> Runs]
    BY <1>0, <1>1, RunTypes DEF Insert
  <2> QED
    BY <1>0, <1>1, <2>1 DEF Insert, TypeOK
<1>2. ASSUME NEW b \in Backends, EndSpill(b),
             UNCHANGED <<heap, xact, cache, memtable, totalDocs, storage, history>>,
             pages' \in Seq(Pages), Len(pages') = Len(pages), meta' \in MetaPages
      PROVE  TypeOK'
  <2>1. run' \in [Backends -> Runs] /\ lock' \in Backends \cup {Nobody}
    BY <1>0, <1>2, EndSpillType
  <2> QED
    BY <1>0, <1>2, <2>1 DEF TypeOK
<1>3. ASSUME NEW b \in Backends, NothingToSpill(b) PROVE TypeOK'
  BY <1>0, <1>2, <1>3 DEF NothingToSpill
<1>4. ASSUME NEW b \in Backends, WriteSegment(b) PROVE TypeOK'
  <2>1. Page("segment", memtable) \in Pages
    BY PageType DEF TypeOK, PageKinds
  <2>2. pages' \in Seq(Pages) /\ disk' = pages' /\ Len(pages') \in Nat
    BY <1>0, <1>4, <2>1, AppendPage DEF WriteSegment
  <2>3. run' \in [Backends -> Runs]
    BY <1>0, <1>4, <2>2, NewBlockType DEF WriteSegment
  <2> QED
    BY <1>0, <1>4, <2>2, <2>3 DEF WriteSegment, TypeOK
<1>5. ASSUME NEW b \in Backends, ClearMemtable(b) \/ ForgetDocids(b) PROVE TypeOK'
  <2>1. CASE ClearMemtable(b)
    <3>1. run' \in [Backends -> Runs]
      BY <1>0, <2>1, GoToType DEF ClearMemtable, Steps
    <3> QED
      BY <1>0, <2>1, <3>1 DEF ClearMemtable, TypeOK
  <2>2. CASE ForgetDocids(b)
    <3>1. run' \in [Backends -> Runs]
      BY <1>0, <2>2, GoToType DEF ForgetDocids, Steps
    <3>2. meta' \in MetaPages /\ diskMeta' \in MetaPages
      BY <1>0, <2>2 DEF ForgetDocids, MetaPages
    <3> QED
      BY <1>0, <2>2, <3>1, <3>2 DEF ForgetDocids, TypeOK
  <2> QED
    BY <1>5, <2>1, <2>2
<1>6. ASSUME NEW b \in Backends, LinkHead(b) PROVE TypeOK'
  <2>1. run[b].block \in Nat /\ meta.head \in Nat
    BY <1>0, RunTypes DEF MetaPages
  <2>2. pages' \in Seq(Pages) /\ Len(pages') = Len(pages)
    BY <1>0, <1>6, <2>1, LinkedPages DEF LinkHead
  <2>3. meta' \in MetaPages
    BY <1>0, <1>6, <2>1 DEF LinkHead, MetaPages
  <2> QED
    BY <1>2, <1>6, <2>2, <2>3 DEF LinkHead
<1>7. ASSUME NEW b \in Backends, StoreDocid(b) PROVE TypeOK'
  <2>1. PICK n \in DOMAIN pages : /\ pages' = Stored(n, run[b].doc, pages)
                                  /\ disk' = FlushIfFull(n, pages', disk)
                                  /\ cache' = [cache EXCEPT ![b] = n]
    BY <1>7 DEF StoreDocid, HasRoom
  <2>2. run[b].doc \in Docs
    BY <1>0, <1>7, RunTypes DEF StoreDocid, At
  <2>3. pages' \in Seq(Pages) /\ Len(pages') = Len(pages) /\ n \in DOMAIN pages' /\ n \in Nat
    BY <1>0, <2>1, <2>2, StoredPages, LenProperties
  <2>4. disk' \in Seq(Pages) /\ Len(disk') = Len(disk)
    BY <1>0, <2>1, <2>3, FlushedPages
  <2>5. run' \in [Backends -> Runs]
    BY <1>0, <1>7, RunTypes DEF StoreDocid
  <2> QED
    BY <1>0, <1>7, <2>1, <2>3, <2>4, <2>5 DEF StoreDocid, TypeOK
<1>8. ASSUME NEW b \in Backends, NewDocidPage(b) PROVE TypeOK'
  <2>1. Page("docids", {}) \in Pages
    BY PageType DEF PageKinds
  <2>2. /\ pages' \in Seq(Pages) /\ disk' \in Seq(Pages)
        /\ Len(disk') = Len(pages') /\ Len(pages') \in Nat
    BY <1>0, <1>8, <2>1, AppendPage DEF NewDocidPage
  <2>3. run[b].task = "insert"
    BY <1>0, <1>8, RunTypes DEF NewDocidPage, At
  <2>4. run' \in [Backends -> Runs]
    BY <1>0, <1>8, <2>2, <2>3, NewBlockType DEF NewDocidPage
  <2> QED
    BY <1>0, <1>8, <2>2, <2>4 DEF NewDocidPage, TypeOK
<1>9. ASSUME NEW b \in Backends, ChainDocidPage(b) PROVE TypeOK'
  <2> DEFINE n == run[b].block
             d == run[b].doc
  <2>1. n \in Nat /\ d \in Docs
    BY <1>0, <1>9, RunTypes DEF ChainDocidPage, At
  <2>2. /\ pages' \in Seq(Pages) /\ disk' \in Seq(Pages) /\ Len(disk') = Len(pages')
        /\ meta' \in MetaPages /\ diskMeta' \in MetaPages
    <3>1. CASE /\ meta' = [meta EXCEPT !.first = n]
               /\ diskMeta' = meta'
               /\ pages' = Stored(n, d, pages)
               /\ disk' = FlushIfFull(n, pages', disk)
      <4>1. meta' \in MetaPages
        BY <1>0, <2>1, <3>1 DEF MetaPages
      <4>2. pages' \in Seq(Pages) /\ Len(pages') = Len(pages)
        BY <1>0, <2>1, <3>1, StoredPages
      <4> QED
        BY <1>0, <3>1, <4>1, <4>2, FlushedTyped
    <3>2. ASSUME NEW last \in LastDocidPages,
                 pages' = Stored(n, d, Linked(last, n, pages)),
                 disk' = FlushIfFull(n, pages', [disk EXCEPT ![last] = Linked(last, n, pages)[last]]),
                 UNCHANGED <<meta, diskMeta>>
          PROVE  /\ pages' \in Seq(Pages) /\ disk' \in Seq(Pages) /\ Len(disk') = Len(pages')
                 /\ meta' \in MetaPages /\ diskMeta' \in MetaPages
      <4>1. last \in DOMAIN pages
        BY DEF LastDocidPages
      <4>2. Linked(last, n, pages) \in Seq(Pages) /\ Len(Linked(last, n, pages)) = Len(pages)
        BY <1>0, <2>1, LinkedPages
      <4>3. Linked(last, n, pages)[last] \in Pages
        BY <4>1, <4>2, LenProperties, ElementOfSeq, <1>0
      <4>4. pages' \in Seq(Pages) /\ Len(pages') = Len(pages)
        BY <2>1, <3>2, <4>2, StoredPages
      <4>5. /\ [disk EXCEPT ![last] = Linked(last, n, pages)[last]] \in Seq(Pages)
            /\ Len([disk EXCEPT ![last] = Linked(last, n, pages)[last]]) = Len(disk)
        BY <1>0, <4>3, ChangeBlock
      <4> QED
        BY <1>0, <3>2, <4>4, <4>5, FlushedTyped
    <3> QED
      BY <1>9, <3>1, <3>2 DEF ChainDocidPage
  <2>3. /\ run' = [run EXCEPT ![b] = Idle]
        /\ cache' = [cache EXCEPT ![b] = n]
        /\ UNCHANGED <<heap, xact, lock, memtable, totalDocs, history>>
    BY <1>9 DEF ChainDocidPage
  <2>4. run' \in [Backends -> Runs]
    BY <1>0, <2>3, RunTypes
  <2> QED
    BY <1>0, <2>1, <2>2, <2>3, <2>4 DEF TypeOK
<1>10. ASSUME NEW b \in Backends, SpillIndex(b) \/ Scan(b) \/ BulkSpill(b) PROVE TypeOK'
  <2>1. run' \in [Backends -> Runs]
    BY <1>0, <1>10, RunTypes DEF SpillIndex, Scan, BulkSpill
  <2> QED
    BY <1>0, <1>10, <2>1 DEF SpillIndex, Scan, BulkSpill, TypeOK
<1>11. ASSUME NEW b \in Backends, Commit(b) \/ Abort(b) PROVE TypeOK'
  <2>1. PICK fate \in {"committed", "dead"} : EndXact(b, fate)
    BY <1>11 DEF Commit, Abort
  <2>2. run' \in [Backends -> Runs]
    BY <1>0, <2>1, RunTypes DEF EndXact
  <2> QED
    BY <1>0, <2>1, <2>2 DEF EndXact, TypeOK
<1>12. CASE WriteBack
  <2>1. CASE diskMeta' = meta /\ UNCHANGED disk
    BY <1>0, <1>12, <2>1 DEF WriteBack, TypeOK
  <2>2. ASSUME NEW n \in DOMAIN pages, disk' = [disk EXCEPT ![n] = pages[n]], UNCHANGED diskMeta
        PROVE  TypeOK'
    <3>1. pages[n] \in Pages
      BY <1>0, LenProperties, ElementOfSeq
    <3>2. disk' \in Seq(Pages) /\ Len(disk') = Len(disk)
      BY <1>0, <2>2, <3>1, ChangeBlock
    <3> QED
      BY <1>0, <1>12, <2>2, <3>2 DEF WriteBack, TypeOK
  <2> QED
    BY <1>12, <2>1, <2>2 DEF WriteBack
<1>13. CASE Restart
  <2>1. Recover(meta, pages) /\ restarts < MaxRestarts /\ UNCHANGED <<heap, crashed>>
    BY <1>13 DEF Restart
  <2> QED
    BY <1>0, <2>1, RecoverFacts, RunTypes DEF TypeOK
<1>14. CASE Crash
  <2>1. /\ Recover(diskMeta, disk) /\ restarts < MaxRestarts /\ crashed' = TRUE
        /\ heap' = [d \in Docs |-> IF heap[d] = "open" THEN "dead" ELSE heap[d]]
    BY <1>14 DEF Crash
  <2> QED
    BY <1>0, <2>1, RecoverFacts, RunTypes DEF TypeOK
<1>15. CASE UNCHANGED vars
  BY <1>15 DEF vars, TypeOK
<1> QED
  BY <1>1, <1>3, <1>4, <1>5, <1>6, <1>7, <1>8, <1>9, <1>10, <1>11, <1>12, <1>13, <1>14, <1>15
     DEF Next, SpillStep

\* Memtable, lock, caches, metapage and blocks keep their types, in memory and
\* on disk, for every number of backends and documents and every threshold.
THEOREM IndexTypeCorrect == Spec => []TypeOK
<1> QED
  BY InitType, TypeStep, PTL DEF Spec

-----------------------------------------------------------------------------
(* The index lock. *)

\* The facts about locks, transactions and runs that every proof below uses.
LEMMA RunsTyped ==
    ASSUME TypeOK
    PROVE  /\ run \in [Backends -> Runs] /\ lock \in Backends \cup {Nobody}
           /\ xact \in [Backends -> SUBSET Docs] /\ cache \in [Backends -> Nat]
           /\ meta \in MetaPages /\ diskMeta \in MetaPages
           /\ pages \in Seq(Pages) /\ disk \in Seq(Pages) /\ Len(disk) = Len(pages)
           /\ DOMAIN pages = 1 .. Len(pages) /\ DOMAIN disk = DOMAIN pages
           /\ Len(pages) \in Nat
BY LenProperties DEF TypeOK

\* Nobody has written, nobody is writing.
LEMMA InitLock == Init => LockIInv
<1> SUFFICES ASSUME Init PROVE LockIInv
  OBVIOUS
<1>1. TypeOK
  BY InitType
<1> QED
  BY <1>1, RunTypes DEF Init, LockIInv, WritersIsolated, SpillsExclusive

\* With LockKept, every step leaves the lock with whoever has written or is in
\* the middle of writing.
LEMMA LockStep == LockKept /\ LockIInv /\ [Next]_vars => LockIInv'
<1> SUFFICES ASSUME LockKept, LockIInv, [Next]_vars PROVE LockIInv'
  OBVIOUS
<1> USE DEF memory, buffers, storage, history
<1>0. /\ run \in [Backends -> Runs] /\ lock \in Backends \cup {Nobody}
      /\ xact \in [Backends -> SUBSET Docs]
      /\ Nobody \notin Backends
      /\ \A c \in Backends : xact[c] # {} => lock = c
      /\ \A c \in Backends : run[c] # Idle => lock = c
      /\ \A c \in Backends : run[c].task # "manual"
  BY RunsTyped, BackendsAssumption DEF LockIInv, WritersIsolated, SpillsExclusive
<1>1. TypeOK'
  BY TypeStep DEF LockIInv
<1>2. SUFFICES \A c \in Backends : /\ xact'[c] # {} => lock' = c
                                   /\ run'[c] # Idle => lock' = c
                                   /\ run'[c].task # "manual"
  BY <1>1 DEF LockIInv, WritersIsolated, SpillsExclusive
<1> DEFINE Good == \A c \in Backends : /\ xact'[c] # {} => lock' = c
                                       /\ run'[c] # Idle => lock' = c
                                       /\ run'[c].task # "manual"
<1>3. ASSUME NEW b \in Backends, NEW d \in Docs, Insert(b, d) PROVE Good
  <2>1. PICK step \in {"write", "docid"} : run' = [run EXCEPT ![b] = Busy("insert", step, d)]
    BY <1>3 DEF Insert
  <2>2. lock \in {Nobody, b} /\ lock' = b /\ xact' = [xact EXCEPT ![b] = @ \cup {d}]
    BY <1>3 DEF Insert, MayLock
  <2> QED
    BY <1>0, <2>1, <2>2 DEF Busy
<1>4. ASSUME NEW b \in Backends, NEW step \in Steps \ {"idle"}, At(b, step) PROVE lock = b
  BY <1>0, <1>4, RunTypes DEF At
<1>5. ASSUME NEW b \in Backends, UNCHANGED <<xact, lock>>, lock = b, run'[b].task # "manual",
             \A c \in Backends \ {b} : run'[c] = run[c]
      PROVE  Good
  BY <1>0, <1>5
<1>6. ASSUME NEW b \in Backends, EndSpill(b), lock = b, UNCHANGED xact PROVE Good
  <2>1. /\ lock' = lock /\ run'[b].task = run[b].task
        /\ \A c \in Backends \ {b} : run'[c] = run[c]
    BY <1>0, <1>6, EndSpillType
  <2> QED
    BY <1>0, <1>5, <1>6, <2>1
<1>7. ASSUME NEW b \in Backends, SpillStep(b) PROVE Good
  <2>1. CASE NothingToSpill(b)
    BY <1>4, <1>6, <2>1 DEF NothingToSpill, Steps
  <2>2. CASE WriteSegment(b)
    <3>1. lock = b /\ UNCHANGED <<xact, lock>>
      BY <1>4, <2>2 DEF WriteSegment, Steps
    <3>2. pages' \in Seq(Pages) /\ Len(pages') \in Nat
      BY <1>1, LenProperties DEF TypeOK
    <3>3. run'[b].task = run[b].task /\ \A c \in Backends \ {b} : run'[c] = run[c]
      BY <1>0, <2>2, <3>2, NewBlockType DEF WriteSegment
    <3> QED
      BY <1>0, <1>5, <3>1, <3>3
  <2>3. CASE ClearMemtable(b)
    <3>1. lock = b /\ UNCHANGED <<xact, lock>>
      BY <1>4, <2>3 DEF ClearMemtable, Steps
    <3>2. run'[b].task = run[b].task /\ \A c \in Backends \ {b} : run'[c] = run[c]
      BY <1>0, <2>3, GoToType DEF ClearMemtable, Steps
    <3> QED
      BY <1>0, <1>5, <3>1, <3>2
  <2>4. CASE ForgetDocids(b)
    <3>1. lock = b /\ UNCHANGED <<xact, lock>>
      BY <1>4, <2>4 DEF ForgetDocids, Steps
    <3>2. run'[b].task = run[b].task /\ \A c \in Backends \ {b} : run'[c] = run[c]
      BY <1>0, <2>4, GoToType DEF ForgetDocids, Steps
    <3> QED
      BY <1>0, <1>5, <3>1, <3>2
  <2>5. CASE LinkHead(b)
    BY <1>4, <1>6, <2>5 DEF LinkHead, Steps
  <2> QED
    BY <1>7, <2>1, <2>2, <2>3, <2>4, <2>5 DEF SpillStep
<1>8. ASSUME NEW b \in Backends, StoreDocid(b) \/ ChainDocidPage(b) PROVE Good
  <2>1. /\ lock = b /\ UNCHANGED <<xact, lock>> /\ run' = [run EXCEPT ![b] = Idle]
    BY <1>4, <1>8 DEF StoreDocid, ChainDocidPage, Steps
  <2> QED
    BY <1>0, <2>1, RunTypes
<1>9. ASSUME NEW b \in Backends, NewDocidPage(b) PROVE Good
  <2>1. lock = b /\ UNCHANGED <<xact, lock>>
    BY <1>4, <1>9 DEF NewDocidPage, Steps
  <2>2. pages' \in Seq(Pages) /\ Len(pages') \in Nat /\ run[b].task = "insert"
    BY <1>0, <1>1, <1>9, LenProperties, RunTypes DEF TypeOK, NewDocidPage, At
  <2>3. run'[b].task = run[b].task /\ \A c \in Backends \ {b} : run'[c] = run[c]
    BY <1>0, <1>9, <2>2, NewBlockType DEF NewDocidPage
  <2> QED
    BY <1>0, <1>5, <2>1, <2>3
<1>10. ASSUME NEW b \in Backends, SpillIndex(b) \/ Scan(b) PROVE Good
  BY <1>10 DEF SpillIndex, Scan, LockKept
<1>11. ASSUME NEW b \in Backends, BulkSpill(b) PROVE Good
  <2>1. /\ lock = b /\ UNCHANGED <<xact, lock>>
        /\ run' = [run EXCEPT ![b] = Busy("commit", "write", None)]
    BY <1>0, <1>11 DEF BulkSpill
  <2> QED
    BY <1>0, <2>1 DEF Busy
<1>12. ASSUME NEW b \in Backends, Commit(b) \/ Abort(b) PROVE Good
  <2>1. /\ xact' = [xact EXCEPT ![b] = {}]
        /\ lock' = IF lock = b THEN Nobody ELSE lock
        /\ run' = [run EXCEPT ![b] = Idle]
    BY <1>12 DEF Commit, Abort, EndXact
  <2> QED
    BY <1>0, <2>1, RunTypes
<1>13. CASE WriteBack \/ UNCHANGED vars
  BY <1>0, <1>13 DEF WriteBack, vars
<1>14. CASE Restart \/ Crash
  <2>1. xact' = [b \in Backends |-> {}] /\ run' = [b \in Backends |-> Idle]
    BY <1>14 DEF Restart, Crash, Recover
  <2> QED
    BY <2>1, RunTypes
<1> QED
  BY <1>2, <1>3, <1>7, <1>8, <1>9, <1>10, <1>11, <1>12, <1>13, <1>14 DEF Next

\* With LockKept, the inductive invariant of the lock always holds.
LEMMA LockInductive == LockKept => (Spec => []LockIInv)
<1> SUFFICES ASSUME LockKept PROVE Spec => []LockIInv
  OBVIOUS
<1>1. LockIInv /\ [Next]_vars => LockIInv'
  BY LockStep
<1> QED
  BY <1>1, InitLock, PTL DEF Spec

\* If transactions neither query after writing nor call bm25_spill_index, a
\* transaction that has inserted keeps the exclusive lock to its end.
THEOREM WritersIsolatedAlways == LockKept => (Spec => []WritersIsolated)
<1>1. LockIInv => WritersIsolated
  BY DEF LockIInv
<1> QED
  BY <1>1, LockInductive, PTL

\* On the same condition, nobody is in the middle of an insert or a spill
\* without the lock.
THEOREM SpillsExclusiveAlways == LockKept => (Spec => []SpillsExclusive)
<1>1. LockIInv => SpillsExclusive
  BY DEF LockIInv
<1> QED
  BY <1>1, LockInductive, PTL

-----------------------------------------------------------------------------
(* Pointers. *)

\* A pointer that leads to a block of a kind still does when blocks are added
\* and none changes its kind.
LEMMA LeadsOn ==
    ASSUME NEW n, NEW kind, NEW ps, NEW qs, Leads(n, kind, ps), DOMAIN ps \subseteq DOMAIN qs,
           \A m \in DOMAIN ps : qs[m].kind = ps[m].kind
    PROVE  Leads(n, kind, qs)
BY DEF Leads

\* No pointer leads anywhere in an empty index.
LEMMA InitPointers == Init => PointersIInv
<1> SUFFICES ASSUME Init PROVE PointersIInv
  OBVIOUS
<1>1. TypeOK
  BY InitType
<1>2. /\ DOMAIN pages = {} /\ DOMAIN disk = {}
      /\ meta.first = None /\ meta.head = None /\ diskMeta = meta
  BY <1>1, RunsTyped, EmptySeq DEF Init
<1>3. BlockInHand
  BY DEF Init, BlockInHand, At, Idle, Busy
<1> QED
  BY <1>1, <1>2, <1>3 DEF PointersIInv, KindsFixed, DiskPointersSound, PointersSound, Leads

\* Every step, of whichever backend and of the checkpointer, keeps the kinds
\* of the blocks and the targets of the pointers.
LEMMA PointersStep == PointersIInv /\ [Next]_vars => PointersIInv'
<1> SUFFICES ASSUME PointersIInv, [Next]_vars PROVE PointersIInv'
  OBVIOUS
<1> USE DEF memory, buffers, storage, history
<1> DEFINE Dom == DOMAIN pages
<1>0. /\ TypeOK /\ TypeOK' /\ None = 0
      /\ run \in [Backends -> Runs]
      /\ pages \in Seq(Pages) /\ disk \in Seq(Pages) /\ DOMAIN disk = Dom
      /\ Dom = 1 .. Len(pages) /\ Len(pages) \in Nat /\ Len(disk) = Len(pages)
      /\ pages' \in Seq(Pages) /\ disk' \in Seq(Pages) /\ DOMAIN disk' = DOMAIN pages'
      /\ \A n \in Dom : disk[n].kind = pages[n].kind
      /\ meta \in MetaPages /\ diskMeta \in MetaPages
  <2>1. TypeOK /\ TypeOK'
    BY TypeStep DEF PointersIInv
  <2>2. DOMAIN disk' = DOMAIN pages' /\ pages' \in Seq(Pages) /\ disk' \in Seq(Pages)
    BY <2>1, LenProperties DEF TypeOK
  <2> QED
    BY <2>1, <2>2, RunsTyped DEF PointersIInv, KindsFixed, None
<1>1. /\ Leads(meta.first, "docids", pages) /\ Leads(meta.head, "segment", pages)
      /\ Leads(diskMeta.first, "docids", pages) /\ Leads(diskMeta.head, "segment", pages)
      /\ \A n \in Dom : /\ Leads(pages[n].next, pages[n].kind, pages)
                        /\ Leads(disk[n].next, pages[n].kind, pages)
  BY <1>0, LeadsOn DEF PointersIInv, DiskPointersSound, PointersSound

\* What a step has to show: old blocks keep their kinds, in both copies, and
\* each pointer of either copy leads to a block of its kind.
<1> DEFINE Kept   == /\ Dom \subseteq DOMAIN pages'
                     /\ \A n \in Dom : pages'[n].kind = pages[n].kind
           Agree  == \A n \in DOMAIN pages' : disk'[n].kind = pages'[n].kind
           Next2  == \A n \in DOMAIN pages' : /\ Leads(pages'[n].next, pages'[n].kind, pages')
                                              /\ Leads(disk'[n].next, pages'[n].kind, pages')
           Metas  == /\ Leads(meta'.first, "docids", pages') /\ Leads(meta'.head, "segment", pages')
                     /\ Leads(diskMeta'.first, "docids", pages')
                     /\ Leads(diskMeta'.head, "segment", pages')
           Hand   == BlockInHand'
<1>2. ASSUME Agree, Next2, Metas, Hand PROVE PointersIInv'
  <2>1. \A n, kind : Leads(n, kind, pages') => Leads(n, kind, disk')
    BY <1>0, <1>2, LeadsOn
  <2> QED
    BY <1>0, <1>2, <2>1 DEF PointersIInv, KindsFixed, DiskPointersSound, PointersSound
<1>3. ASSUME Kept
      PROVE  /\ \A n, kind : Leads(n, kind, pages) => Leads(n, kind, pages')
             /\ \A b \in Backends : run'[b] = run[b] =>
                   /\ run'[b].at \in {"clear", "forget", "link"} =>
                         run'[b].block \in DOMAIN pages' /\ pages'[run'[b].block].kind = "segment"
                   /\ run'[b].at = "chain" =>
                         run'[b].block \in DOMAIN pages' /\ pages'[run'[b].block].kind = "docids"
  <2>1. BlockInHand
    BY DEF PointersIInv
  <2> QED
    BY <1>3, <2>1, LeadsOn DEF BlockInHand, At
<1> HIDE DEF Hand
\* Steps that leave the blocks alone.
<1>4. ASSUME UNCHANGED <<buffers, storage>>, Hand PROVE PointersIInv'
  BY <1>0, <1>1, <1>2, <1>4
<1>5. ASSUME NEW b \in Backends, run' \in [Backends -> Runs], Kept,
             \A c \in Backends \ {b} : run'[c] = run[c],
             run'[b].at \notin {"clear", "forget", "link", "chain"}
      PROVE  Hand
  BY <1>3, <1>5 DEF Hand, BlockInHand, At
<1>6. ASSUME NEW b \in Backends, run' \in [Backends -> Runs], Kept,
             \A c \in Backends \ {b} : run'[c] = run[c],
             run[b].at \in {"clear", "forget"}, run'[b].at \in {"forget", "link"},
             run'[b].block = run[b].block
      PROVE  Hand
  <2>1. run[b].block \in Dom /\ pages[run[b].block].kind = "segment"
    BY <1>6 DEF PointersIInv, BlockInHand
  <2> QED
    BY <1>3, <1>6, <2>1 DEF Hand, BlockInHand, At
<1>7. run' \in [Backends -> Runs]
  BY <1>0, RunsTyped DEF TypeOK
<1>8. ASSUME UNCHANGED <<pages>> PROVE Kept
  BY <1>8
<1>9. ASSUME NEW b \in Backends, NEW d \in Docs, Insert(b, d) PROVE PointersIInv'
  <2>1. PICK step \in {"write", "docid"} : run' = [run EXCEPT ![b] = Busy("insert", step, d)]
    BY <1>9 DEF Insert
  <2>2. UNCHANGED <<buffers, storage>>
    BY <1>9 DEF Insert
  <2>3. Hand
    BY <1>0, <1>5, <1>7, <1>8, <2>1, <2>2 DEF Busy
  <2> QED
    BY <1>4, <2>2, <2>3
<1>10. ASSUME NEW b \in Backends, SpillIndex(b) \/ Scan(b) \/ BulkSpill(b) PROVE PointersIInv'
  <2>1. \/ run' = run
        \/ \E task \in Tasks : run' = [run EXCEPT ![b] = Busy(task, "write", None)]
    BY <1>10 DEF SpillIndex, Scan, BulkSpill, Tasks
  <2>2. UNCHANGED <<buffers, storage>>
    BY <1>10 DEF SpillIndex, Scan, BulkSpill
  <2>3. CASE run' = run
    BY <1>3, <1>4, <1>8, <2>2, <2>3 DEF Hand, BlockInHand, At
  <2>4. CASE \E task \in Tasks : run' = [run EXCEPT ![b] = Busy(task, "write", None)]
    <3>1. Hand
      BY <1>0, <1>5, <1>7, <1>8, <2>2, <2>4 DEF Busy
    <3> QED
      BY <1>4, <2>2, <3>1
  <2> QED
    BY <2>1, <2>3, <2>4
<1>11. ASSUME NEW b \in Backends, Commit(b) \/ Abort(b) PROVE PointersIInv'
  <2>1. UNCHANGED <<buffers, storage>> /\ run' = [run EXCEPT ![b] = Idle]
    BY <1>11 DEF Commit, Abort, EndXact
  <2>2. Hand
    BY <1>0, <1>5, <1>7, <1>8, <2>1, RunTypes
  <2> QED
    BY <1>4, <2>1, <2>2
<1>12. ASSUME NEW b \in Backends, NothingToSpill(b) PROVE PointersIInv'
  <2>1. UNCHANGED <<buffers, storage>> /\ EndSpill(b)
    BY <1>12 DEF NothingToSpill
  <2>2. run'[b].at \in {"docid", "commit", "idle"} /\ \A c \in Backends \ {b} : run'[c] = run[c]
    BY <1>0, <2>1, EndSpillType, RunsTyped
  <2>3. Hand
    BY <1>5, <1>7, <1>8, <2>1, <2>2
  <2> QED
    BY <1>4, <2>1, <2>3
<1>13. ASSUME NEW b \in Backends, ClearMemtable(b) PROVE PointersIInv'
  <2>1. UNCHANGED <<buffers, storage>>
    BY <1>13 DEF ClearMemtable
  <2>2. PICK step \in {"forget", "link"} : GoTo(b, step) /\ (step = "forget" => run[b].task = "insert")
    BY <1>13 DEF ClearMemtable
  <2>3. /\ run'[b].at = step /\ run'[b].block = run[b].block
        /\ \A c \in Backends \ {b} : run'[c] = run[c]
    BY <1>0, <2>2, GoToType DEF Steps
  <2>4. run[b].at = "clear"
    BY <1>13 DEF ClearMemtable, At
  <2>5. Hand
    BY <1>6, <1>7, <1>8, <2>1, <2>3, <2>4
  <2> QED
    BY <1>4, <2>1, <2>5
<1>14. ASSUME NEW b \in Backends, ForgetDocids(b) PROVE PointersIInv'
  <2>1. /\ meta' = [meta EXCEPT !.first = None] /\ diskMeta' = meta'
        /\ UNCHANGED <<pages, disk>> /\ run[b].at = "forget"
    BY <1>14 DEF ForgetDocids, At
  <2>2. /\ run'[b].at = "link" /\ run'[b].block = run[b].block
        /\ \A c \in Backends \ {b} : run'[c] = run[c]
    BY <1>0, <1>14, GoToType DEF ForgetDocids, Steps
  <2>3. Hand
    BY <1>6, <1>7, <1>8, <2>1, <2>2
  <2>4. meta'.first = None /\ meta'.head = meta.head
    BY <1>0, <2>1 DEF MetaPages
  <2>5. Metas
    BY <1>1, <2>1, <2>4 DEF Leads
  <2> QED
    BY <1>0, <1>1, <1>2, <2>1, <2>3, <2>5
<1>15. ASSUME NEW b \in Backends, WriteSegment(b) PROVE PointersIInv'
  <2> DEFINE p   == Page("segment", memtable)
             new == Len(pages) + 1
  <2>1. p \in Pages /\ p.kind = "segment" /\ p.next = None
    BY <1>0, PageType DEF TypeOK, PageKinds
  <2> HIDE DEF p
  <2>2. pages' = Append(pages, p) /\ disk' = pages' /\ diskMeta' = meta /\ meta' = meta
    BY <1>15 DEF WriteSegment, p
  <2>3. /\ DOMAIN pages' = Dom \cup {new} /\ pages'[new] = p /\ Len(pages') = new
        /\ \A n \in Dom : pages'[n] = pages[n]
    BY <1>0, <2>1, <2>2, AppendPage
  <2>4. Kept
    BY <2>3
  <2>5. Next2
    BY <1>1, <1>3, <2>1, <2>2, <2>3, <2>4 DEF Leads
  <2>6. /\ run'[b].at = "clear" /\ run'[b].block = new
        /\ \A c \in Backends \ {b} : run'[c] = run[c]
    <3>1. run' = [run EXCEPT ![b].at = "clear", ![b].block = new] /\ new \in Nat
      BY <1>0, <1>15, <2>3 DEF WriteSegment
    <3> QED
      BY <1>0, <3>1, NewBlockType
  <2>7. Hand
    BY <1>3, <1>7, <2>1, <2>3, <2>4, <2>6 DEF Hand, BlockInHand, At
  <2>8. Metas
    BY <1>1, <1>3, <2>2, <2>4
  <2> QED
    BY <1>2, <2>2, <2>5, <2>7, <2>8
<1>16. ASSUME NEW b \in Backends, LinkHead(b) PROVE PointersIInv'
  <2> DEFINE blk == run[b].block
  <2>1. blk \in Dom /\ pages[blk].kind = "segment" /\ meta.head \in Nat
    BY <1>0, <1>16 DEF PointersIInv, BlockInHand, LinkHead, At, MetaPages
  <2>2. /\ pages' = Linked(blk, meta.head, pages) /\ meta' = [meta EXCEPT !.head = blk]
        /\ EndSpill(b) /\ UNCHANGED storage
    BY <1>16 DEF LinkHead
  <2>3. /\ DOMAIN pages' = Dom
        /\ \A n \in Dom : /\ pages'[n].kind = pages[n].kind
                          /\ pages'[n].next = IF n = blk THEN meta.head ELSE pages[n].next
    BY <1>0, <2>1, <2>2, LinkedPages
  <2>4. Kept
    BY <2>3
  <2>5. Next2
    BY <1>1, <1>3, <2>1, <2>2, <2>3, <2>4
  <2>6. meta'.first = meta.first /\ meta'.head = blk
    BY <1>0, <2>2 DEF MetaPages
  <2>7. Metas
    BY <1>1, <1>3, <2>1, <2>2, <2>3, <2>4, <2>6 DEF Leads
  <2>8. run'[b].at \in {"docid", "commit", "idle"} /\ \A c \in Backends \ {b} : run'[c] = run[c]
    BY <1>0, <2>2, EndSpillType, RunsTyped
  <2>9. Hand
    BY <1>5, <1>7, <2>4, <2>8
  <2> QED
    BY <1>0, <1>2, <2>2, <2>3, <2>5, <2>7, <2>9
\* The two steps that write a docid leave their backend idle.
<1>17. ASSUME NEW b \in Backends, run' = [run EXCEPT ![b] = Idle], Kept PROVE Hand
  BY <1>0, <1>5, <1>7, <1>17, RunTypes
<1>18. ASSUME NEW b \in Backends, StoreDocid(b) PROVE PointersIInv'
  <2>1. PICK n \in Dom : pages' = Stored(n, run[b].doc, pages) /\ disk' = FlushIfFull(n, pages', disk)
    BY <1>18 DEF StoreDocid, HasRoom
  <2>2. run[b].doc \in Docs
    BY <1>0, <1>18, RunTypes DEF StoreDocid, At
  <2>3. /\ DOMAIN pages' = Dom /\ Len(pages') = Len(pages)
        /\ \A m \in Dom : pages'[m].kind = pages[m].kind /\ pages'[m].next = pages[m].next
    <3>1. pages \in Seq(Pages)
      BY <1>0
    <3> DEFINE d == run[b].doc
    <3>2. d \in Docs /\ pages' = Stored(n, d, pages)
      BY <2>1, <2>2
    <3> HIDE DEF d
    <3> QED
      BY <3>1, <3>2, StoredLinks
  <2>4. \A m \in Dom : disk'[m] \in {disk[m], pages'[m]}
    BY <1>0, <2>1, <2>3, FlushedPages
  <2>5. Kept
    BY <2>3
  <2>6. Agree /\ Next2
    BY <1>0, <1>1, <1>3, <2>3, <2>4, <2>5
  <2>7. Metas
    BY <1>1, <1>3, <1>18, <2>5 DEF StoreDocid
  <2>8. Hand
    BY <1>17, <1>18, <2>5 DEF StoreDocid
  <2> QED
    BY <1>2, <2>6, <2>7, <2>8
<1>19. ASSUME NEW b \in Backends, NewDocidPage(b) PROVE PointersIInv'
  <2> DEFINE p   == Page("docids", {})
             new == Len(pages) + 1
  <2>1. p \in Pages /\ p.kind = "docids" /\ p.next = None
    BY PageType DEF PageKinds
  <2> HIDE DEF p
  <2>2. pages' = Append(pages, p) /\ disk' = Append(disk, p) /\ UNCHANGED <<meta, diskMeta>>
    BY <1>19 DEF NewDocidPage, p
  <2>3. /\ DOMAIN pages' = Dom \cup {new} /\ pages'[new] = p /\ Len(pages') = new
        /\ \A n \in Dom : pages'[n] = pages[n]
    BY <1>0, <2>1, <2>2, AppendPage
  <2>4. disk'[new] = p /\ \A n \in Dom : disk'[n] = disk[n]
    BY <1>0, <2>1, <2>2, AppendPage
  <2>5. Kept
    BY <2>3
  <2>6. Agree /\ Next2
    BY <1>0, <1>1, <1>3, <2>1, <2>3, <2>4, <2>5 DEF Leads
  <2>7. /\ run'[b].at = "chain" /\ run'[b].block = new
        /\ \A c \in Backends \ {b} : run'[c] = run[c]
    <3>1. run[b].task = "insert"
      BY <1>0, <1>19, RunTypes DEF NewDocidPage, At
    <3>2. run' = [run EXCEPT ![b].at = "chain", ![b].block = new] /\ new \in Nat
      BY <1>0, <1>19, <2>3 DEF NewDocidPage
    <3> QED
      BY <1>0, <3>1, <3>2, NewBlockType
  <2>8. Hand
    BY <1>3, <1>7, <2>1, <2>3, <2>5, <2>7 DEF Hand, BlockInHand, At
  <2>9. Metas
    BY <1>1, <1>3, <2>2, <2>5
  <2> QED
    BY <1>2, <2>6, <2>8, <2>9
<1>20. ASSUME NEW b \in Backends, ChainDocidPage(b) PROVE PointersIInv'
  <2> DEFINE n == run[b].block
             d == run[b].doc
  <2>1. n \in Dom /\ pages[n].kind = "docids" /\ n \in Nat /\ d \in Docs
    <3>1. n \in Dom /\ pages[n].kind = "docids"
      BY <1>20 DEF PointersIInv, BlockInHand, ChainDocidPage
    <3> QED
      BY <1>0, <1>20, <3>1, RunTypes DEF ChainDocidPage, At
  <2>2. CASE /\ meta' = [meta EXCEPT !.first = n]
             /\ diskMeta' = meta'
             /\ pages' = Stored(n, d, pages)
             /\ disk' = FlushIfFull(n, pages', disk)
    <3>1. /\ DOMAIN pages' = Dom /\ Len(pages') = Len(pages)
          /\ \A m \in Dom : pages'[m].kind = pages[m].kind /\ pages'[m].next = pages[m].next
      <4>1. pages \in Seq(Pages) /\ d \in Docs /\ pages' = Stored(n, d, pages)
        BY <1>0, <2>1, <2>2
      <4> HIDE DEF d, n
      <4> QED
        BY <4>1, StoredLinks
    <3>2. \A m \in Dom : disk'[m] \in {disk[m], pages'[m]}
      BY <1>0, <2>1, <2>2, <3>1, FlushedPages
    <3>3. Kept
      BY <3>1
    <3>4. Agree /\ Next2
      BY <1>0, <1>1, <1>3, <3>1, <3>2, <3>3
    <3>5. meta'.first = n /\ meta'.head = meta.head
      BY <1>0, <2>2 DEF MetaPages
    <3>6. Metas
      BY <1>1, <1>3, <2>1, <2>2, <3>1, <3>3, <3>5 DEF Leads
    <3>7. Hand
      BY <1>17, <1>20, <3>3 DEF ChainDocidPage
    <3> QED
      BY <1>2, <3>4, <3>6, <3>7
  <2>3. ASSUME NEW last \in LastDocidPages,
               pages' = Stored(n, d, Linked(last, n, pages)),
               disk' = FlushIfFull(n, pages', [disk EXCEPT ![last] = Linked(last, n, pages)[last]]),
               UNCHANGED <<meta, diskMeta>>
        PROVE  PointersIInv'
    <3> DEFINE ps == Linked(last, n, pages)
               dk == [disk EXCEPT ![last] = ps[last]]
    <3>1. last \in Dom /\ pages[last].kind = "docids"
      BY DEF LastDocidPages
    <3>2. /\ ps \in Seq(Pages) /\ Len(ps) = Len(pages) /\ DOMAIN ps = Dom
          /\ \A m \in Dom : /\ ps[m].kind = pages[m].kind
                            /\ ps[m].next = IF m = last THEN n ELSE pages[m].next
      BY <1>0, <2>1, LinkedPages
    <3>3. ps[last] \in Pages
      BY <1>0, <3>1, <3>2, ElementOfSeq
    <3>4. /\ dk \in Seq(Pages) /\ Len(dk) = Len(disk) /\ DOMAIN dk = Dom
          /\ \A m \in Dom : dk[m] = IF m = last THEN ps[last] ELSE disk[m]
      <4>1. disk \in Seq(Pages) /\ Len(disk) = Len(pages) /\ DOMAIN disk = Dom
        BY <1>0
      <4> DEFINE p == ps[last]
      <4>2. p \in Pages /\ dk = [disk EXCEPT ![last] = p]
        BY <3>3
      <4> HIDE DEF p, dk, ps
      <4>3. /\ dk \in Seq(Pages) /\ Len(dk) = Len(disk) /\ DOMAIN dk = DOMAIN disk
            /\ \A m \in DOMAIN disk : dk[m] = IF m = last THEN p ELSE disk[m]
        BY <4>1, <4>2, ChangeBlock
      <4> QED
        BY <4>1, <4>3 DEF p
    <3>5. pages' = Stored(n, d, ps) /\ disk' = FlushIfFull(n, pages', dk)
      BY <2>3
    <3> HIDE DEF ps, dk
    <3>6. /\ DOMAIN pages' = Dom /\ Len(pages') = Len(pages)
          /\ \A m \in Dom : pages'[m].kind = ps[m].kind /\ pages'[m].next = ps[m].next
      <4>1. ps \in Seq(Pages) /\ d \in Docs /\ pages' = Stored(n, d, ps)
        BY <2>1, <3>2, <3>5
      <4> HIDE DEF d, n
      <4>2. /\ DOMAIN pages' = DOMAIN ps /\ Len(pages') = Len(ps)
            /\ \A m \in DOMAIN ps : /\ pages'[m].kind = ps[m].kind
                                    /\ pages'[m].next = ps[m].next
        BY <4>1, StoredLinks
      <4> QED
        BY <3>2, <4>2
    <3>7. \A m \in Dom : disk'[m] \in {dk[m], pages'[m]}
      BY <1>0, <2>1, <3>4, <3>5, <3>6, FlushedPages
    <3>8. Kept
      BY <3>2, <3>6
    <3>9. Leads(n, "docids", pages')
      BY <2>1, <3>8 DEF Leads
    <3>10. \A m \in Dom : Leads(ps[m].next, pages[m].kind, pages')
      BY <1>1, <1>3, <3>1, <3>2, <3>8, <3>9
    <3>11. Agree /\ Next2
      <4>1. \A m \in Dom : /\ pages'[m].kind = pages[m].kind /\ pages'[m].next = ps[m].next
                           /\ Leads(pages'[m].next, pages'[m].kind, pages')
        BY <3>2, <3>6, <3>10
      <4>2. \A m \in Dom : Leads(disk[m].next, pages[m].kind, pages')
        BY <1>1, <1>3, <3>8
      <4>3. \A m \in Dom : dk[m].kind = pages[m].kind /\ Leads(dk[m].next, pages[m].kind, pages')
        BY <1>0, <3>1, <3>2, <3>4, <3>10, <4>2
      <4>4. \A m \in Dom : \/ disk'[m] = dk[m]
                           \/ disk'[m] = pages'[m]
        BY <3>7
      <4> QED
        BY <3>6, <4>1, <4>3, <4>4
    <3>12. Metas
      BY <1>1, <1>3, <2>3, <3>8
    <3>13. Hand
      BY <1>17, <1>20, <3>8 DEF ChainDocidPage
    <3> QED
      BY <1>2, <3>11, <3>12, <3>13
  <2> QED
    BY <1>20, <2>2, <2>3 DEF ChainDocidPage
<1>21. ASSUME UNCHANGED <<run, buffers>> PROVE Kept /\ Hand
  <2>1. Kept
    BY <1>21
  <2> QED
    BY <1>3, <1>21, <2>1 DEF Hand, BlockInHand, At
<1>22. CASE WriteBack
  <2>1. UNCHANGED <<run, buffers>> /\ Hand
    BY <1>21, <1>22 DEF WriteBack
  <2>2. CASE diskMeta' = meta /\ UNCHANGED disk
    BY <1>0, <1>1, <1>2, <2>1, <2>2
  <2>3. ASSUME NEW n \in Dom, disk' = [disk EXCEPT ![n] = pages[n]], UNCHANGED diskMeta
        PROVE  PointersIInv'
    <3>1. \A m \in Dom : disk'[m] = IF m = n THEN pages[n] ELSE disk[m]
      BY <1>0, <2>3
    <3>2. Agree /\ Next2
      BY <1>0, <1>1, <2>1, <3>1
    <3> QED
      BY <1>1, <1>2, <2>1, <2>3, <3>2
  <2> QED
    BY <1>22, <2>2, <2>3 DEF WriteBack
\* Recovery from either copy.
<1>23. ASSUME NEW m \in {meta, diskMeta}, NEW ps \in {pages, disk}, Recover(m, ps)
       PROVE  PointersIInv'
  <2>1. /\ meta'.first \in {m.first, None} /\ meta'.head = m.head /\ diskMeta' = meta'
        /\ disk' = pages' /\ DOMAIN pages' = Dom
        /\ run' = [b \in Backends |-> Idle]
        /\ \A n \in Dom : /\ pages'[n].kind = pages[n].kind
                          /\ pages'[n].next \in {ps[n].next, None}
    BY <1>0, <1>23, RecoverFacts
  <2>2. Kept
    BY <2>1
  <2>3. Next2
    BY <1>1, <1>3, <1>23, <2>1, <2>2 DEF Leads
  <2>4. Metas
    BY <1>1, <1>3, <1>23, <2>1, <2>2 DEF Leads
  <2>5. Hand
    BY <2>1, RunTypes DEF Hand, BlockInHand, At
  <2> QED
    BY <1>2, <2>1, <2>3, <2>4, <2>5
<1>24. CASE Restart
  BY <1>23, <1>24 DEF Restart
<1>25. CASE Crash
  BY <1>23, <1>25 DEF Crash
<1>26. CASE UNCHANGED vars
  BY <1>4, <1>21, <1>26 DEF vars
<1> QED
  BY <1>9, <1>10, <1>11, <1>12, <1>13, <1>14, <1>15, <1>16, <1>18, <1>19, <1>20, <1>22, <1>24,
     <1>25, <1>26 DEF Next, SpillStep

\* Whatever has reached the disk, and whoever wrote it: every pointer there
\* leads to a block that is on disk with the kind the pointer is meant for.
THEOREM DiskPointersAlways == Spec => []DiskPointersSound
<1>1. PointersIInv => DiskPointersSound
  BY DEF PointersIInv
<1> QED
  BY <1>1, InitPointers, PointersStep, PTL DEF Spec

-----------------------------------------------------------------------------
(* Chains. *)

\* A set of numbers has a least one.
LEMMA LeastNumber ==
    ASSUME NEW T, T \subseteq Nat, T # {}
    PROVE  \E m \in T : \A n \in T : m <= n
<1>1. PICK m \in T : \A n \in T : ~ (<<n, m>> \in OpToRel(<, Nat))
  BY WFMin, NatLessThanWellFounded
<1>2. \A n \in T : n \in Nat /\ m \in Nat /\ ~ (n < m)
  BY <1>1 DEF OpToRel
<1> QED
  BY <1>2

\* Block m is there and has the given kind: a chain of that kind goes on with it.
Good(m, ps, kind) == m \in DOMAIN ps /\ ps[m].kind = kind

\* The blocks are those of a sequence of pages, so their numbers are not None.
LEMMA GoodBlocks ==
    ASSUME NEW ps \in Seq(Pages), NEW kind, NEW m, Good(m, ps, kind)
    PROVE  m \in Nat /\ m # None /\ m \in DOMAIN ps /\ ps[m] \in Pages /\ ps[m].next \in Nat
<1>1. m \in 1 .. Len(ps) /\ Len(ps) \in Nat
  BY LenProperties DEF Good
<1>2. ps[m] \in Pages
  BY <1>1, ElementOfSeq
<1> QED
  BY <1>1, <1>2 DEF Good, Pages, None

\* A set that contains the good blocks among m and the successors of its blocks.
Closed(S, m, ps, kind) ==
    /\ Good(m, ps, kind) => m \in S
    /\ \A n \in S : Good(n, ps, kind) /\ (Good(ps[n].next, ps, kind) => ps[n].next \in S)

\* The least such set.
Reached(m, ps, kind) ==
    {n \in DOMAIN ps : \A S \in SUBSET DOMAIN ps : Closed(S, m, ps, kind) => n \in S}

\* What is reached from a block is the block and what is reached from the next.
LEMMA ReachedUnfold ==
    ASSUME NEW ps \in Seq(Pages), NEW kind, NEW m
    PROVE  Reached(m, ps, kind) =
              IF Good(m, ps, kind) THEN {m} \cup Reached(ps[m].next, ps, kind) ELSE {}
<1> DEFINE R(n) == Reached(n, ps, kind)
           good == {n \in DOMAIN ps : Good(n, ps, kind)}
<1>1. \A n, x : x \in R(n) <=>
          x \in DOMAIN ps /\ \A S \in SUBSET DOMAIN ps : Closed(S, n, ps, kind) => x \in S
  BY DEF Reached
<1>2. \A n : R(n) \subseteq good
  <2>1. \A n : Closed(good, n, ps, kind)
    BY DEF Closed, Good
  <2> QED
    BY <1>1, <2>1
<1>3. \A n : Closed(R(n), n, ps, kind)
  <2> TAKE n
  <2>1. Good(n, ps, kind) => n \in R(n)
    BY <1>1 DEF Closed, Good
  <2>2. ASSUME NEW x \in R(n), Good(ps[x].next, ps, kind) PROVE ps[x].next \in R(n)
    BY <1>1, <2>2 DEF Closed, Good
  <2>3. \A x \in R(n) : Good(x, ps, kind)
    BY <1>2
  <2> HIDE DEF R
  <2> QED
    BY <2>1, <2>2, <2>3 DEF Closed
<1> HIDE DEF R
<1>4. CASE ~Good(m, ps, kind)
  <2>1. Closed({}, m, ps, kind)
    BY <1>4 DEF Closed
  <2> QED
    BY <1>1, <1>4, <2>1 DEF R
<1>5. CASE Good(m, ps, kind)
  <2>1. R(ps[m].next) \subseteq R(m)
    <3>1. \A S : Closed(S, m, ps, kind) => Closed(S, ps[m].next, ps, kind)
      BY <1>5 DEF Closed
    <3> QED
      BY <1>1, <3>1
  <2>2. m \in R(m)
    BY <1>3, <1>5 DEF Closed
  <2>3. R(m) \subseteq {m} \cup R(ps[m].next)
    <3> DEFINE S == {m} \cup R(ps[m].next)
    <3>1. S \in SUBSET DOMAIN ps
      BY <1>2, <1>5 DEF Good
    <3>2. Closed(S, m, ps, kind)
      BY <1>3, <1>5 DEF Closed
    <3> HIDE DEF S
    <3>3. R(m) \subseteq S
      BY <1>1, <3>1, <3>2
    <3> QED
      BY <3>3 DEF S
  <2> QED
    BY <1>5, <2>1, <2>2, <2>3 DEF R
<1> QED
  BY <1>4, <1>5

\* So the recursion of Chain has a solution, and Chain unfolds as it is written.
LEMMA ChainUnfold ==
    ASSUME NEW ps \in Seq(Pages), NEW kind, NEW m \in Nat
    PROVE  Chain(m, ps, kind) =
              IF Good(m, ps, kind) THEN {m} \cup Chain(ps[m].next, ps, kind) ELSE {}
<1> DEFINE step(f) == [n \in Nat |->
              IF n \in DOMAIN ps /\ ps[n].kind = kind THEN {n} \cup f[ps[n].next] ELSE {}]
           from == CHOOSE f : f = step(f)
           reach == [n \in Nat |-> Reached(n, ps, kind)]
<1>1. reach = step(reach)
  <2>1. ASSUME NEW n \in Nat
        PROVE  reach[n] =
                  IF n \in DOMAIN ps /\ ps[n].kind = kind THEN {n} \cup reach[ps[n].next] ELSE {}
    BY GoodBlocks, ReachedUnfold DEF Good
  <2> QED
    BY <2>1
<1> HIDE DEF reach
<1>2. from = step(from)
  BY <1>1
<1>3. \A n \in Nat : Chain(n, ps, kind) = from[n]
  BY DEF Chain
<1> HIDE DEF from
<1>4. from[m] = IF Good(m, ps, kind) THEN {m} \cup from[ps[m].next] ELSE {}
  BY <1>2 DEF Good
<1> QED
  BY <1>3, <1>4, GoodBlocks

\* The pointers between blocks never come round: every block has a rank that is
\* higher than that of the block it points at.
Ranked(ps) ==
    \E N \in Nat : \E rank \in [DOMAIN ps -> 0 .. N] :
        \A n \in DOMAIN ps : ps[n].next \in DOMAIN ps => rank[ps[n].next] < rank[n]

\* So a set of blocks has one that does not point into the set.
LEMMA LeastRank ==
    ASSUME NEW ps, Ranked(ps), NEW T, T \subseteq DOMAIN ps, T # {}
    PROVE  \E m \in T : ps[m].next \notin T
<1>0. PICK N \in Nat : \E rank \in [DOMAIN ps -> 0 .. N] :
          \A n \in DOMAIN ps : ps[n].next \in DOMAIN ps => rank[ps[n].next] < rank[n]
  BY DEF Ranked
<1>1. PICK rank \in [DOMAIN ps -> 0 .. N] :
          \A n \in DOMAIN ps : ps[n].next \in DOMAIN ps => rank[ps[n].next] < rank[n]
  BY <1>0
<1>2. \A n \in T : rank[n] \in Nat
  OBVIOUS
<1> DEFINE ranks == {rank[n] : n \in T}
<1>3. PICK r \in ranks : \A q \in ranks : r <= q
  <2>1. ranks \subseteq Nat /\ ranks # {}
    BY <1>2
  <2> HIDE DEF ranks
  <2> QED
    BY <2>1, LeastNumber
<1>4. PICK m \in T : rank[m] = r
  OBVIOUS
<1>5. ASSUME ps[m].next \in T PROVE FALSE
  <2>1. rank[ps[m].next] < rank[m] /\ r <= rank[ps[m].next]
    BY <1>1, <1>3, <1>5
  <2> QED
    BY <1>2, <1>4, <1>5, <2>1
<1> QED
  BY <1>5

\* From these blocks a chain leads only to these blocks, and ends.
Path(K, ps, kind) == \A n \in K : Good(n, ps, kind) /\ ps[n].next \in K \cup {None}

\* Chains of None.
LEMMA NoChain ==
    ASSUME NEW ps \in Seq(Pages), NEW kind
    PROVE  Chain(None, ps, kind) = {} /\ ~Good(None, ps, kind)
<1>1. None \in Nat /\ ~Good(None, ps, kind)
  BY GoodBlocks DEF None
<1> QED
  BY <1>1, ChainUnfold

\* A chain that starts on a path stays there.
LEMMA ChainWithin ==
    ASSUME NEW ps \in Seq(Pages), NEW kind, Ranked(ps),
           NEW K, Path(K, ps, kind), NEW m \in K \cup {None}
    PROVE  Chain(m, ps, kind) \subseteq K
<1> DEFINE T == {n \in K : ~(Chain(n, ps, kind) \subseteq K)}
<1>1. \A n \in K : n \in DOMAIN ps
  BY DEF Path, Good
<1>2. Chain(None, ps, kind) \subseteq K
  BY NoChain
<1>3. ASSUME T # {} PROVE FALSE
  <2>1. PICK n \in T : ps[n].next \notin T
    <3>1. T \subseteq DOMAIN ps
      BY <1>1
    <3> HIDE DEF T
    <3> QED
      BY <1>3, <3>1, LeastRank
  <2>2. Good(n, ps, kind) /\ ps[n].next \in K \cup {None} /\ n \in Nat
    BY GoodBlocks DEF Path
  <2>3. Chain(ps[n].next, ps, kind) \subseteq K
    BY <1>2, <2>1, <2>2
  <2>4. Chain(n, ps, kind) = {n} \cup Chain(ps[n].next, ps, kind)
    BY <2>2, ChainUnfold
  <2> QED
    BY <2>3, <2>4
<1> QED
  BY <1>2, <1>3

\* The blocks of the path keep their kind and their successors, in the second
\* case with x behind the last.
SameOn(K, ps, qs, kind) == \A n \in K : Good(n, qs, kind) /\ qs[n].next = ps[n].next
MoreOn(K, ps, qs, kind, last, x) ==
    \A n \in K : Good(n, qs, kind) /\ qs[n].next = IF n = last THEN x ELSE ps[n].next

\* It stays the same as long as they do.
LEMMA ChainSame ==
    ASSUME NEW ps \in Seq(Pages), NEW qs \in Seq(Pages), NEW kind, Ranked(ps),
           NEW K, Path(K, ps, kind), NEW m \in K \cup {None}, SameOn(K, ps, qs, kind)
    PROVE  Chain(m, qs, kind) = Chain(m, ps, kind)
<1> DEFINE T == {n \in K : Chain(n, qs, kind) # Chain(n, ps, kind)}
<1>1. \A n \in K : n \in DOMAIN ps
  BY DEF Path, Good
<1>2. Chain(None, qs, kind) = Chain(None, ps, kind)
  BY NoChain
<1>3. ASSUME T # {} PROVE FALSE
  <2>1. PICK n \in T : ps[n].next \notin T
    <3>1. T \subseteq DOMAIN ps
      BY <1>1
    <3> HIDE DEF T
    <3> QED
      BY <1>3, <3>1, LeastRank
  <2>2. /\ Good(n, ps, kind) /\ Good(n, qs, kind) /\ qs[n].next = ps[n].next
        /\ ps[n].next \in K \cup {None} /\ n \in Nat
    BY GoodBlocks DEF Path, SameOn
  <2>3. Chain(ps[n].next, qs, kind) = Chain(ps[n].next, ps, kind)
    BY <1>2, <2>1, <2>2
  <2>4. Chain(n, ps, kind) = {n} \cup Chain(ps[n].next, ps, kind)
    BY <2>2, ChainUnfold
  <2>5. Chain(n, qs, kind) = {n} \cup Chain(qs[n].next, qs, kind)
    BY <2>2, ChainUnfold
  <2> QED
    BY <2>2, <2>3, <2>4, <2>5
<1> QED
  BY <1>2, <1>3

\* A block linked behind the last block of the path joins every chain that
\* comes by that block.
LEMMA ChainExtended ==
    ASSUME NEW ps \in Seq(Pages), NEW qs \in Seq(Pages), NEW kind, Ranked(ps),
           NEW K, Path(K, ps, kind), NEW m \in K \cup {None},
           NEW last \in K, ps[last].next = None,
           NEW x, Good(x, qs, kind), qs[x].next = None, MoreOn(K, ps, qs, kind, last, x)
    PROVE  Chain(m, qs, kind) =
              Chain(m, ps, kind) \cup (IF last \in Chain(m, ps, kind) THEN {x} ELSE {})
<1> DEFINE More(n) == IF last \in Chain(n, ps, kind) THEN {x} ELSE {}
           T == {n \in K : Chain(n, qs, kind) # Chain(n, ps, kind) \cup More(n)}
<1>1. \A n \in K : n \in DOMAIN ps
  BY DEF Path, Good
<1>2. Chain(None, qs, kind) = Chain(None, ps, kind) \cup More(None)
  BY NoChain
<1>3. Chain(x, qs, kind) = {x}
  BY GoodBlocks, ChainUnfold, NoChain
<1>4. ASSUME T # {} PROVE FALSE
  <2>1. PICK n \in T : ps[n].next \notin T
    <3>1. T \subseteq DOMAIN ps
      BY <1>1
    <3> HIDE DEF T
    <3> QED
      BY <1>4, <3>1, LeastRank
  <2>2. /\ Good(n, ps, kind) /\ Good(n, qs, kind)
        /\ qs[n].next = IF n = last THEN x ELSE ps[n].next
        /\ ps[n].next \in K \cup {None} /\ n \in Nat
    BY GoodBlocks DEF Path, MoreOn
  <2>3. Chain(ps[n].next, qs, kind) = Chain(ps[n].next, ps, kind) \cup More(ps[n].next)
    BY <1>2, <2>1, <2>2
  <2>4. Chain(n, ps, kind) = {n} \cup Chain(ps[n].next, ps, kind)
    BY <2>2, ChainUnfold
  <2>5. Chain(n, qs, kind) = {n} \cup Chain(qs[n].next, qs, kind)
    BY <2>2, ChainUnfold
  <2>6. Chain(n, qs, kind) # Chain(n, ps, kind) \cup More(n)
    OBVIOUS
  <2> HIDE DEF T
  <2>7. CASE n = last
    <3>1. Chain(n, ps, kind) = {n} /\ More(n) = {x}
      BY <2>4, <2>7, NoChain
    <3>2. Chain(n, qs, kind) = {n} \cup {x}
      BY <1>3, <2>2, <2>5, <2>7
    <3> QED
      BY <2>6, <3>1, <3>2
  <2>8. CASE n # last
    <3>1. More(n) = More(ps[n].next)
      BY <2>4, <2>8
    <3>2. Chain(n, qs, kind) = {n} \cup Chain(ps[n].next, qs, kind)
      BY <2>2, <2>5, <2>8
    <3> HIDE DEF More
    <3> QED
      BY <2>3, <2>4, <2>6, <3>1, <3>2
  <2> QED
    BY <2>7, <2>8
<1> QED
  BY <1>2, <1>4

\* A chain that starts has a last block.
LEMMA ChainHasLast ==
    ASSUME NEW ps \in Seq(Pages), NEW kind, Ranked(ps),
           NEW K, Path(K, ps, kind), NEW m \in K
    PROVE  \E last \in Chain(m, ps, kind) : ps[last].next = None
<1> DEFINE T == {n \in K : \A l \in Chain(n, ps, kind) : ps[l].next # None}
<1>1. \A n \in K : n \in DOMAIN ps
  BY DEF Path, Good
<1>2. ASSUME T # {} PROVE FALSE
  <2>1. PICK n \in T : ps[n].next \notin T
    <3>1. T \subseteq DOMAIN ps
      BY <1>1
    <3> HIDE DEF T
    <3> QED
      BY <1>2, <3>1, LeastRank
  <2>2. Good(n, ps, kind) /\ ps[n].next \in K \cup {None} /\ n \in Nat
    BY GoodBlocks DEF Path
  <2>3. Chain(n, ps, kind) = {n} \cup Chain(ps[n].next, ps, kind)
    BY <2>2, ChainUnfold
  <2> QED
    BY <2>1, <2>2, <2>3
<1> QED
  BY <1>2

\* Following the pointers of a path ends in None: recovery cuts nothing.
LEMMA ChainEnds ==
    ASSUME NEW ps \in Seq(Pages), NEW kind, Ranked(ps),
           NEW K, Path(K, ps, kind), NEW m \in K \cup {None},
           \A n \in DOMAIN ps : Good(n, ps, kind) => ps[n].next = None \/ Good(ps[n].next, ps, kind)
    PROVE  ChainEnd(m, ps, kind) = None
<1> DEFINE step(f) == [n \in Nat |->
              IF n \in DOMAIN ps /\ ps[n].kind = kind THEN f[ps[n].next] ELSE n]
           end == CHOOSE f : f = step(f)
           ends == [n \in Nat |-> IF Good(n, ps, kind) THEN None ELSE n]
           T == {n \in K : end[n] # None}
<1>1. ends = step(ends)
  <2>1. ASSUME NEW n \in Nat
        PROVE  ends[n] = IF n \in DOMAIN ps /\ ps[n].kind = kind THEN ends[ps[n].next] ELSE n
    <3>1. CASE Good(n, ps, kind)
      <4>1. ps[n].next \in Nat /\ (ps[n].next = None \/ Good(ps[n].next, ps, kind))
        BY <3>1, GoodBlocks DEF Good
      <4>2. ends[ps[n].next] = None
        BY <4>1, NoChain
      <4> QED
        BY <3>1, <4>2 DEF Good
    <3>2. CASE ~Good(n, ps, kind)
      BY <3>2 DEF Good
    <3> QED
      BY <3>1, <3>2
  <2> QED
    BY <2>1
<1> HIDE DEF ends
<1>2. end = step(end)
  BY <1>1
<1>3. \A n \in Nat : ChainEnd(n, ps, kind) = end[n]
  BY DEF ChainEnd
<1> HIDE DEF end
<1>4. \A n \in Nat : end[n] = IF Good(n, ps, kind) THEN end[ps[n].next] ELSE n
  BY <1>2 DEF Good
<1>5. None \in Nat /\ end[None] = None
  BY <1>4, NoChain DEF None
<1>6. \A n \in K : n \in DOMAIN ps /\ n \in Nat
  BY GoodBlocks DEF Path, Good
<1>7. ASSUME T # {} PROVE FALSE
  <2>1. PICK n \in T : ps[n].next \notin T
    <3>1. T \subseteq DOMAIN ps
      BY <1>6
    <3> HIDE DEF T
    <3> QED
      BY <1>7, <3>1, LeastRank
  <2>2. Good(n, ps, kind) /\ ps[n].next \in K \cup {None} /\ n \in Nat
    BY GoodBlocks DEF Path
  <2> QED
    BY <1>4, <1>5, <2>1, <2>2
<1> QED
  BY <1>3, <1>5, <1>6, <1>7

\* Nothing comes round that did not before when pointers only disappear.
LEMMA RankedKept ==
    ASSUME NEW ps \in Seq(Pages), NEW qs \in Seq(Pages), Ranked(ps), DOMAIN qs = DOMAIN ps,
           \A n \in DOMAIN ps : qs[n].next \in {ps[n].next, None}
    PROVE  Ranked(qs)
<1>1. PICK N \in Nat : \E rank \in [DOMAIN ps -> 0 .. N] :
          \A n \in DOMAIN ps : ps[n].next \in DOMAIN ps => rank[ps[n].next] < rank[n]
  BY DEF Ranked
<1>2. PICK rank \in [DOMAIN ps -> 0 .. N] :
          \A n \in DOMAIN ps : ps[n].next \in DOMAIN ps => rank[ps[n].next] < rank[n]
  BY <1>1
<1>3. None \notin DOMAIN ps
  BY LenProperties DEF None
<1>4. rank \in [DOMAIN qs -> 0 .. N]
  OBVIOUS
<1>5. \A n \in DOMAIN qs : qs[n].next \in DOMAIN qs => rank[qs[n].next] < rank[n]
  BY <1>2, <1>3
<1> QED
  BY <1>4, <1>5 DEF Ranked

\* Nor by a new block that points nowhere yet.
LEMMA RankedAppended ==
    ASSUME NEW ps \in Seq(Pages), NEW p \in Pages, Ranked(ps), p.next = None,
           \A n \in DOMAIN ps : ps[n].next # Len(ps) + 1
    PROVE  Ranked(Append(ps, p))
<1>1. PICK N \in Nat : \E rank \in [DOMAIN ps -> 0 .. N] :
          \A n \in DOMAIN ps : ps[n].next \in DOMAIN ps => rank[ps[n].next] < rank[n]
  BY DEF Ranked
<1>2. PICK rank \in [DOMAIN ps -> 0 .. N] :
          \A n \in DOMAIN ps : ps[n].next \in DOMAIN ps => rank[ps[n].next] < rank[n]
  BY <1>1
<1> DEFINE qs == Append(ps, p)
<1>3. /\ qs \in Seq(Pages) /\ DOMAIN qs = DOMAIN ps \cup {Len(ps) + 1}
      /\ \A n \in DOMAIN ps : qs[n] = ps[n]
      /\ qs[Len(ps) + 1] = p
  BY AppendPage
<1> HIDE DEF qs
<1> DEFINE more == [n \in DOMAIN qs |-> IF n \in DOMAIN ps THEN rank[n] ELSE 0]
<1>4. more \in [DOMAIN qs -> 0 .. N]
  OBVIOUS
<1>5. None \notin DOMAIN qs
  BY <1>3, LenProperties DEF None
<1>6. ASSUME NEW n \in DOMAIN qs, qs[n].next \in DOMAIN qs PROVE more[qs[n].next] < more[n]
  <2>1. n \in DOMAIN ps /\ qs[n].next = ps[n].next
    BY <1>3, <1>5, <1>6
  <2>2. ps[n].next \in DOMAIN ps
    BY <1>3, <1>6, <2>1
  <2> QED
    BY <1>2, <1>3, <2>1, <2>2
<1>7. Ranked(qs)
  BY <1>4, <1>6 DEF Ranked
<1> QED
  BY <1>7 DEF qs

\* Nor by linking a block that nothing points at in front of another.
LEMMA RankedFront ==
    ASSUME NEW ps \in Seq(Pages), NEW qs, Ranked(ps), DOMAIN qs = DOMAIN ps,
           NEW x \in DOMAIN ps, \A n \in DOMAIN ps : ps[n].next # x,
           qs[x].next # x, \A n \in DOMAIN ps : n # x => qs[n].next = ps[n].next
    PROVE  Ranked(qs)
<1>1. PICK N \in Nat : \E rank \in [DOMAIN ps -> 0 .. N] :
          \A n \in DOMAIN ps : ps[n].next \in DOMAIN ps => rank[ps[n].next] < rank[n]
  BY DEF Ranked
<1>2. PICK rank \in [DOMAIN ps -> 0 .. N] :
          \A n \in DOMAIN ps : ps[n].next \in DOMAIN ps => rank[ps[n].next] < rank[n]
  BY <1>1
<1> DEFINE more == [n \in DOMAIN ps |-> IF n = x THEN N + 1 ELSE rank[n]]
<1>3. \A n \in DOMAIN ps : rank[n] \in 0 .. N + 1 /\ rank[n] < N + 1
  BY <1>1
<1>4. N + 1 \in Nat /\ N + 1 \in 0 .. N + 1
  BY <1>1
<1>5. more \in [DOMAIN qs -> 0 .. N + 1]
  BY <1>3, <1>4
<1>6. ASSUME NEW n \in DOMAIN qs, qs[n].next \in DOMAIN qs PROVE more[qs[n].next] < more[n]
  <2>1. CASE n = x
    BY <1>3, <1>6, <2>1
  <2>2. CASE n # x
    <3>1. qs[n].next = ps[n].next /\ qs[n].next # x
      BY <2>2
    <3> QED
      BY <1>2, <1>6, <2>2, <3>1
  <2> QED
    BY <2>1, <2>2
<1> QED
  BY <1>4, <1>5, <1>6 DEF Ranked

\* Nor by linking such a block, as long as it points nowhere, behind another.
LEMMA RankedBack ==
    ASSUME NEW ps \in Seq(Pages), NEW qs, Ranked(ps), DOMAIN qs = DOMAIN ps,
           NEW x \in DOMAIN ps, \A n \in DOMAIN ps : ps[n].next # x, qs[x].next = None,
           NEW last \in DOMAIN ps, last # x, qs[last].next = x,
           \A n \in DOMAIN ps : n # x /\ n # last => qs[n].next = ps[n].next
    PROVE  Ranked(qs)
<1>1. PICK N \in Nat : \E rank \in [DOMAIN ps -> 0 .. N] :
          \A n \in DOMAIN ps : ps[n].next \in DOMAIN ps => rank[ps[n].next] < rank[n]
  BY DEF Ranked
<1>2. PICK rank \in [DOMAIN ps -> 0 .. N] :
          \A n \in DOMAIN ps : ps[n].next \in DOMAIN ps => rank[ps[n].next] < rank[n]
  BY <1>1
<1> DEFINE more == [n \in DOMAIN ps |-> IF n = x THEN 0 ELSE rank[n] + 1]
<1>3. \A n \in DOMAIN ps : rank[n] \in Nat /\ rank[n] + 1 \in 0 .. N + 1 /\ 0 < rank[n] + 1
  BY <1>1
<1>4. N + 1 \in Nat /\ 0 \in 0 .. N + 1
  BY <1>1
<1>5. more \in [DOMAIN qs -> 0 .. N + 1]
  BY <1>3, <1>4
<1>6. None \notin DOMAIN ps
  BY LenProperties DEF None
<1>7. \A m, n \in DOMAIN ps : rank[m] < rank[n] => rank[m] + 1 < rank[n] + 1
  BY <1>3
<1>8. ASSUME NEW n \in DOMAIN qs, qs[n].next \in DOMAIN qs PROVE more[qs[n].next] < more[n]
  <2>1. n # x
    BY <1>6, <1>8
  <2>2. CASE n = last
    BY <1>3, <2>1, <2>2
  <2>3. CASE n # last
    <3>1. qs[n].next = ps[n].next /\ qs[n].next # x
      BY <2>1, <2>3
    <3>2. rank[qs[n].next] < rank[n]
      BY <1>2, <1>8, <3>1
    <3> QED
      BY <1>7, <1>8, <2>1, <3>1, <3>2
  <2> QED
    BY <2>2, <2>3
<1> QED
  BY <1>4, <1>5, <1>8 DEF Ranked

-----------------------------------------------------------------------------
(* What a step makes of the runs. *)

\* The other backends stay where they are; backend b goes on with its task.
Others(b)   == \A c \in Backends \ {b} : run'[c] = run[c]
SameTask(b) == run'[b].task = run[b].task /\ run'[b].doc = run[b].doc

\* An insert starts, at the spill when one is due.
LEMMA InsertRun ==
    ASSUME TypeOK, NEW b \in Backends, NEW d \in Docs, Insert(b, d)
    PROVE  /\ Others(b) /\ run'[b].task = "insert" /\ run'[b].doc = d
           /\ run'[b].at \in {"write", "docid"}
           /\ run'[b].at = "write" => SpillThreshold # 0
<1>1. SpillThreshold \in Nat
  BY BoundsAssumption
<1>2. PICK step \in {"write", "docid"} :
          /\ run' = [run EXCEPT ![b] = Busy("insert", step, d)]
          /\ step = "write" => SpillThreshold > 0
  BY DEF Insert
<1>3. run'[b] = Busy("insert", step, d) /\ Others(b)
  BY <1>2 DEF TypeOK, Others
<1> QED
  BY <1>1, <1>2, <1>3 DEF Busy

\* A spill starts: bm25_spill_index, or the check before the commit.
LEMMA SpillRun ==
    ASSUME TypeOK, NEW b \in Backends
    PROVE  /\ SpillIndex(b) => Others(b) /\ run'[b].task = "manual" /\ run'[b].at = "write"
           /\ BulkSpill(b) => Others(b) /\ run'[b].task = "commit" /\ run'[b].at = "write"
BY DEF TypeOK, SpillIndex, BulkSpill, Others, Busy

\* A step of the same task, with or without another block in hand.
LEMMA SameRun ==
    ASSUME TypeOK, NEW b \in Backends, NEW step, GoTo(b, step)
    PROVE  /\ Others(b) /\ SameTask(b)
           /\ run'[b].at = step /\ run'[b].block = run[b].block
<1>1. run \in [Backends -> Runs] /\ run[b] \in Runs
  BY DEF TypeOK
<1>2. run'[b] = [run[b] EXCEPT !.at = step] /\ Others(b)
  BY <1>1 DEF GoTo, Others
<1> QED
  BY <1>1, <1>2 DEF Runs, SameTask

\* The steps between making a segment and linking it.
LEMMA ClearRun ==
    ASSUME TypeOK, NEW b \in Backends
    PROVE  /\ ClearMemtable(b) =>
                 /\ Others(b) /\ SameTask(b) /\ run'[b].block = run[b].block
                 /\ run'[b].at = IF run[b].task = "insert" THEN "forget" ELSE "link"
           /\ ForgetDocids(b) =>
                 /\ Others(b) /\ SameTask(b) /\ run'[b].block = run[b].block
                 /\ run'[b].at = "link"
<1>1. ClearMemtable(b) => GoTo(b, IF run[b].task = "insert" THEN "forget" ELSE "link")
  BY DEF ClearMemtable
<1>2. ForgetDocids(b) => GoTo(b, "link")
  BY DEF ForgetDocids
<1> QED
  BY <1>1, <1>2, SameRun

\* A new block in hand.
LEMMA NewBlockRun ==
    ASSUME TypeOK, NEW b \in Backends
    PROVE  /\ WriteSegment(b) =>
                 /\ Others(b) /\ SameTask(b)
                 /\ run'[b].at = "clear" /\ run'[b].block = Len(pages')
           /\ NewDocidPage(b) =>
                 /\ Others(b) /\ SameTask(b)
                 /\ run'[b].at = "chain" /\ run'[b].block = Len(pages')
<1>1. run \in [Backends -> Runs] /\ run[b] \in Runs
  BY DEF TypeOK
<1>2. ASSUME NEW step, run' = [run EXCEPT ![b].at = step, ![b].block = Len(pages')]
      PROVE  /\ Others(b) /\ SameTask(b)
             /\ run'[b].at = step /\ run'[b].block = Len(pages')
  <2>1. run'[b] = [run[b] EXCEPT !.at = step, !.block = Len(pages')] /\ Others(b)
    BY <1>1, <1>2 DEF Others
  <2> QED
    BY <1>1, <2>1 DEF Runs, SameTask
<1> QED
  BY <1>2 DEF WriteSegment, NewDocidPage

\* The end of a spill, by what the spill belongs to.
LEMMA EndSpillRun ==
    ASSUME TypeOK, NEW b \in Backends, EndSpill(b)
    PROVE  /\ Others(b)
           /\ \/ /\ run[b].task = "insert" /\ SameTask(b) /\ run'[b].at = "docid"
                 /\ lock' = lock
              \/ /\ run[b].task = "commit" /\ SameTask(b) /\ run'[b].at = "commit"
                 /\ lock' = lock
              \/ /\ run[b].task = "manual" /\ run'[b] = Idle
                 /\ lock' = IF lock = b THEN Nobody ELSE lock
<1>1. CASE run[b].task = "insert" /\ GoTo(b, "docid") /\ UNCHANGED lock
  BY <1>1, SameRun
<1>2. CASE run[b].task = "commit" /\ GoTo(b, "commit") /\ UNCHANGED lock
  BY <1>2, SameRun
<1>3. CASE /\ run[b].task = "manual" /\ run' = [run EXCEPT ![b] = Idle]
           /\ lock' = IF lock = b THEN Nobody ELSE lock
  <2>1. Others(b) /\ run'[b] = Idle
    BY <1>3 DEF TypeOK, Others
  <2> QED
    BY <1>3, <2>1
<1> QED
  BY <1>1, <1>2, <1>3 DEF EndSpill

\* The end of an insert, and of a transaction.
LEMMA IdleRun ==
    ASSUME TypeOK, NEW b \in Backends,
           StoreDocid(b) \/ ChainDocidPage(b) \/ Commit(b) \/ Abort(b)
    PROVE  Others(b) /\ run'[b] = Idle
<1>1. run' = [run EXCEPT ![b] = Idle]
  BY DEF StoreDocid, ChainDocidPage, Commit, Abort, EndXact
<1> QED
  BY <1>1 DEF TypeOK, Others

-----------------------------------------------------------------------------
(* The chains end properly, whenever a crash comes. *)

\* From the time it is made until it is linked, a block is in somebody's hand.
Holding == {"clear", "forget", "link", "chain"}

\* Nothing points at the block in hand, which points nowhere.
Unlinked(n, m, ps) ==
    /\ ps[n].next = None
    /\ n # m.first /\ n # m.head
    /\ \A k \in DOMAIN ps : ps[k].next # n

HandsFree ==
    /\ \A b \in Backends : run[b].at \in Holding => Unlinked(run[b].block, meta, pages)
    /\ \A b, c \in Backends :
          run[b].at \in Holding /\ run[c].at \in Holding /\ run[b].block = run[c].block => b = c

\* A pointer is set once: on disk there is the same one, or none yet.
OldLinks == \A n \in DOMAIN disk : disk[n].next \in {pages[n].next, None}

ChainsIInv == PointersIInv /\ Ranked(pages) /\ HandsFree /\ OldLinks

\* What the invariant says of the two copies of the blocks and of the hands.
LEMMA ChainsTyped ==
    ASSUME ChainsIInv
    PROVE  /\ TypeOK /\ run \in [Backends -> Runs]
           /\ pages \in Seq(Pages) /\ disk \in Seq(Pages) /\ DOMAIN disk = DOMAIN pages
           /\ meta \in MetaPages /\ meta.head \in Nat /\ meta.first \in Nat
           /\ \A n \in DOMAIN pages : pages[n] \in Pages /\ n \in Nat /\ n # None
           /\ \A b \in Backends : run[b].at \in Holding => run[b].block \in DOMAIN pages
<1>1. TypeOK
  BY DEF ChainsIInv, PointersIInv
<1>2. /\ run \in [Backends -> Runs] /\ meta \in MetaPages
      /\ pages \in Seq(Pages) /\ disk \in Seq(Pages) /\ Len(disk) = Len(pages)
  BY <1>1 DEF TypeOK
<1>3. DOMAIN disk = DOMAIN pages /\ DOMAIN pages = 1 .. Len(pages)
  BY <1>2, LenProperties
<1>4. \A n \in DOMAIN pages : pages[n] \in Pages /\ n \in Nat /\ n # None
  BY <1>2, <1>3, ElementOfSeq DEF None
<1>5. \A b \in Backends : run[b].at \in Holding => run[b].block \in DOMAIN pages
  BY DEF ChainsIInv, PointersIInv, BlockInHand, Holding, At
<1>6. meta.head \in Nat /\ meta.first \in Nat
  BY <1>2 DEF MetaPages
<1> QED
  BY <1>1, <1>2, <1>3, <1>4, <1>5, <1>6

\* Steps that set no pointer between blocks and put no new block into a hand.
LEMMA LinksStay ==
    ASSUME ChainsIInv, PointersIInv', OldLinks', DOMAIN pages' = DOMAIN pages,
           \A n \in DOMAIN pages : pages'[n].next = pages[n].next,
           \A c \in Backends : run'[c].at \in Holding =>
              /\ run[c].at \in Holding /\ run'[c].block = run[c].block
              /\ run[c].block # meta'.first /\ run[c].block # meta'.head
    PROVE  ChainsIInv'
<1>1. pages \in Seq(Pages) /\ pages' \in Seq(Pages)
  BY DEF ChainsIInv, PointersIInv, TypeOK
<1>2. Ranked(pages')
  BY <1>1, RankedKept DEF ChainsIInv
<1>3. \A c \in Backends : run'[c].at \in Holding => Unlinked(run'[c].block, meta', pages')
  <2>1. \A c \in Backends : run'[c].at \in Holding => run[c].block \in DOMAIN pages
    BY ChainsTyped
  <2> QED
    BY <2>1 DEF ChainsIInv, HandsFree, Unlinked
<1>4. HandsFree'
  BY <1>3 DEF ChainsIInv, HandsFree
<1> QED
  BY <1>2, <1>4 DEF ChainsIInv

\* The hands that a quiet step leaves as they are.
LEMMA HandsStay ==
    ASSUME ChainsIInv, NEW b \in Backends, Others(b),
           \/ run'[b].at \notin Holding
           \/ run[b].at \in Holding /\ run'[b].block = run[b].block,
           meta'.first \in {meta.first, None}, meta'.head = meta.head
    PROVE  \A c \in Backends : run'[c].at \in Holding =>
              /\ run[c].at \in Holding /\ run'[c].block = run[c].block
              /\ run[c].block # meta'.first /\ run[c].block # meta'.head
<1>1. \A c \in Backends : run[c].at \in Holding =>
          /\ run[c].block # meta.first /\ run[c].block # meta.head /\ run[c].block # None
  BY ChainsTyped DEF ChainsIInv, HandsFree, Unlinked
<1>2. \A c \in Backends : run'[c].at \in Holding =>
          run[c].at \in Holding /\ run'[c].block = run[c].block
  BY DEF Others
<1> QED
  BY <1>1, <1>2

\* A new block at the end of the index, in the hand of the backend that made it.
LEMMA LinksAppended ==
    ASSUME ChainsIInv, PointersIInv', OldLinks', NEW p \in Pages, p.next = None,
           pages' = Append(pages, p), meta' = meta,
           NEW b \in Backends, Others(b), run'[b].block = Len(pages')
    PROVE  ChainsIInv'
<1>0. /\ pages \in Seq(Pages) /\ Len(pages) \in Nat /\ DOMAIN pages = 1 .. Len(pages)
      /\ \A n \in DOMAIN pages : pages[n] \in Pages
  BY ChainsTyped, LenProperties
<1>1. /\ DOMAIN pages' = DOMAIN pages \cup {Len(pages) + 1}
      /\ Len(pages) + 1 \notin DOMAIN pages
      /\ \A n \in DOMAIN pages : pages'[n] = pages[n]
      /\ pages'[Len(pages) + 1] = p
      /\ Len(pages') = Len(pages) + 1
  BY <1>0, AppendPage
<1> DEFINE x == Len(pages) + 1
<1>2. x # None /\ x \notin DOMAIN pages
  BY <1>0, <1>1 DEF None
<1>3. /\ \A n \in DOMAIN pages : pages[n].next # x
      /\ meta.first # x /\ meta.head # x
  BY <1>2 DEF ChainsIInv, PointersIInv, PointersSound, Leads
<1>4. Ranked(pages')
  BY <1>0, <1>3, RankedAppended DEF ChainsIInv
<1> HIDE DEF x
<1>5. DOMAIN pages' = DOMAIN pages \cup {x} /\ pages'[x] = p /\ run'[b].block = x
  BY <1>1 DEF x
<1>6. Unlinked(x, meta', pages')
  BY <1>1, <1>2, <1>3, <1>5 DEF Unlinked
<1>7. ASSUME NEW c \in Backends \ {b}, run'[c].at \in Holding
      PROVE  Unlinked(run'[c].block, meta', pages') /\ run'[c].block \in DOMAIN pages
  <2>1. run'[c] = run[c] /\ run[c].block \in DOMAIN pages /\ Unlinked(run[c].block, meta, pages)
    BY <1>7, ChainsTyped DEF Others, ChainsIInv, HandsFree
  <2>2. run[c].block # x
    BY <1>2, <2>1
  <2> QED
    BY <1>1, <1>5, <2>1, <2>2 DEF Unlinked
<1>8. \A c \in Backends : run'[c].at \in Holding => Unlinked(run'[c].block, meta', pages')
  BY <1>5, <1>6, <1>7
<1>9. ASSUME NEW c \in Backends, NEW d \in Backends, run'[c].at \in Holding,
             run'[d].at \in Holding, run'[c].block = run'[d].block
      PROVE  c = d
  <2>1. c # b /\ d # b => run'[c] = run[c] /\ run'[d] = run[d]
    BY DEF Others
  <2>2. CASE c # b /\ d # b
    BY <1>9, <2>1, <2>2 DEF ChainsIInv, HandsFree
  <2>3. CASE c = b \/ d = b
    BY <1>2, <1>5, <1>7, <1>9, <2>3
  <2> QED
    BY <2>2, <2>3
<1>10. HandsFree'
  BY <1>8, <1>9 DEF HandsFree
<1> QED
  BY <1>4, <1>10 DEF ChainsIInv

\* The blocks that are somewhere in a chain or were: not in anybody's hand.
Hands         == {run[b].block : b \in {c \in Backends : run[c].at \in Holding}}
Linkable(kind) == {n \in DOMAIN pages : pages[n].kind = kind} \ Hands

\* The chains of the metapage, and every chain they lead to, are made of these.
LEMMA ChainPaths ==
    ASSUME ChainsIInv
    PROVE  /\ \A kind : Path(Linkable(kind), pages, kind)
           /\ meta.first \in Linkable("docids") \cup {None}
           /\ meta.head \in Linkable("segment") \cup {None}
           /\ DocidChain \subseteq Linkable("docids")
           /\ SegmentChain \subseteq Linkable("segment")
<1>1. /\ \A n \in Hands : /\ n # meta.first /\ n # meta.head
                          /\ \A k \in DOMAIN pages : pages[k].next # n
      /\ PointersSound(meta, pages) /\ Ranked(pages) /\ pages \in Seq(Pages)
  BY ChainsTyped DEF ChainsIInv, HandsFree, Unlinked, Hands, PointersIInv
<1>2. \A kind : Path(Linkable(kind), pages, kind)
  BY <1>1 DEF Path, Linkable, Good, PointersSound, Leads
<1>3. /\ meta.first \in Linkable("docids") \cup {None}
      /\ meta.head \in Linkable("segment") \cup {None}
  BY <1>1 DEF Linkable, PointersSound, Leads
<1>4. DocidChain \subseteq Linkable("docids") /\ SegmentChain \subseteq Linkable("segment")
  BY <1>1, <1>2, <1>3, ChainWithin DEF DocidChain, SegmentChain
<1> QED
  BY <1>2, <1>3, <1>4

\* tp_link_l0_chain_head: a block in hand gets the head as its successor.
LEMMA LinksPushed ==
    ASSUME ChainsIInv, PointersIInv', NEW b \in Backends, At(b, "link"),
           pages' = Linked(run[b].block, meta.head, pages),
           meta' = [meta EXCEPT !.head = run[b].block], disk' = disk,
           Others(b), run'[b].at \notin Holding
    PROVE  ChainsIInv'
<1> PICK x : x = run[b].block
  OBVIOUS
<1>1. x \in DOMAIN pages /\ run[b].at \in Holding /\ Unlinked(x, meta, pages)
  BY ChainsTyped DEF At, Holding, ChainsIInv, HandsFree
<1>2. /\ pages' \in Seq(Pages) /\ DOMAIN pages' = DOMAIN pages
      /\ \A n \in DOMAIN pages : pages'[n].next = IF n = x THEN meta.head ELSE pages[n].next
  BY <1>1, ChainsTyped, LinkedPages
<1>3. meta'.head = x /\ meta'.first = meta.first
  BY ChainsTyped DEF MetaPages
<1>4. Ranked(pages')
  BY <1>1, <1>2, ChainsTyped, RankedFront DEF ChainsIInv, Unlinked
<1>5. ASSUME NEW c \in Backends, run'[c].at \in Holding
      PROVE  /\ c # b /\ run'[c] = run[c] /\ run[c].block # x
             /\ Unlinked(run[c].block, meta, pages) /\ run[c].block \in DOMAIN pages
  <2>1. c # b /\ run'[c] = run[c]
    BY <1>5 DEF Others
  <2> QED
    BY <1>1, <1>5, <2>1, ChainsTyped DEF ChainsIInv, HandsFree
<1>6. \A c \in Backends : run'[c].at \in Holding => Unlinked(run'[c].block, meta', pages')
  BY <1>1, <1>2, <1>3, <1>5 DEF Unlinked
<1>7. HandsFree'
  BY <1>5, <1>6 DEF ChainsIInv, HandsFree
<1>8. OldLinks'
  BY <1>1, <1>2, ChainsTyped DEF ChainsIInv, OldLinks, Unlinked
<1> QED
  BY <1>4, <1>7, <1>8 DEF ChainsIInv

\* tp_add_docid_to_pages: a block in hand becomes the successor of the last.
LEMMA LinksExtended ==
    ASSUME ChainsIInv, PointersIInv', NEW b \in Backends, At(b, "chain"),
           NEW last \in LastDocidPages, UNCHANGED meta, OldLinks',
           DOMAIN pages' = DOMAIN pages,
           \A n \in DOMAIN pages :
              pages'[n].next = IF n = last THEN run[b].block ELSE pages[n].next,
           Others(b), run'[b].at \notin Holding
    PROVE  ChainsIInv'
<1> PICK x : x = run[b].block
  OBVIOUS
<1>1. x \in DOMAIN pages /\ run[b].at \in Holding /\ Unlinked(x, meta, pages)
  BY ChainsTyped DEF At, Holding, ChainsIInv, HandsFree
<1>2. last \in DOMAIN pages /\ last \notin Hands /\ pages[last].next = None
  BY ChainPaths DEF LastDocidPages, Linkable
<1>3. last # x
  BY <1>1, <1>2 DEF Hands
<1>4. Ranked(pages')
  <2>1. pages \in Seq(Pages) /\ Ranked(pages) /\ pages'[x].next = None
    BY <1>1, <1>3, ChainsTyped DEF ChainsIInv, Unlinked
  <2> QED
    BY <1>1, <1>2, <1>3, <2>1, RankedBack DEF Unlinked
<1>5. ASSUME NEW c \in Backends, run'[c].at \in Holding
      PROVE  /\ c # b /\ run'[c] = run[c] /\ run[c].block # x /\ run[c].block # last
             /\ Unlinked(run[c].block, meta, pages) /\ run[c].block \in DOMAIN pages
  <2>1. c # b /\ run'[c] = run[c]
    BY <1>5 DEF Others
  <2>2. run[c].block # x /\ Unlinked(run[c].block, meta, pages) /\ run[c].block \in DOMAIN pages
    BY <1>1, <1>5, <2>1, ChainsTyped DEF ChainsIInv, HandsFree
  <2> QED
    BY <1>2, <1>5, <2>1, <2>2 DEF Hands
<1>6. \A c \in Backends : run'[c].at \in Holding => Unlinked(run'[c].block, meta', pages')
  BY <1>1, <1>2, <1>5 DEF Unlinked
<1>7. HandsFree'
  BY <1>5, <1>6 DEF ChainsIInv, HandsFree
<1> QED
  BY <1>4, <1>7 DEF ChainsIInv

\* No block and nothing in hand.
LEMMA InitChains == Init => ChainsIInv
<1> SUFFICES ASSUME Init PROVE ChainsIInv
  OBVIOUS
<1>1. PointersIInv
  BY InitPointers
<1>2. pages = <<>> /\ disk = pages /\ DOMAIN pages = {}
  BY EmptySeq DEF Init
<1>3. Ranked(pages)
  <2>1. [n \in {} |-> 0] \in [DOMAIN pages -> 0 .. 0]
    BY <1>2
  <2> QED
    BY <1>2, <2>1 DEF Ranked
<1>4. HandsFree
  BY DEF Init, HandsFree, Holding, Idle, Busy
<1>5. OldLinks
  BY <1>2 DEF OldLinks
<1> QED
  BY <1>1, <1>3, <1>4, <1>5 DEF ChainsIInv

\* The document of an insert, and the block the insert is about to chain.
LEMMA InsertsDocument ==
    ASSUME ChainsIInv, NEW b \in Backends, run[b].at \in {"forget", "docid", "chain"}
    PROVE  /\ run[b].task = "insert" /\ run[b].doc \in Docs
           /\ run[b].at = "chain" =>
                 run[b].block \in DOMAIN pages /\ pages[run[b].block].kind = "docids"
<1>1. run[b] \in Runs
  BY ChainsTyped
<1> QED
  BY <1>1, RunTypes DEF ChainsIInv, PointersIInv, BlockInHand, At

\* Block n of ps has got a docid; of each block one of two copies is on disk.
Written(ps, n, d, qs) ==
    /\ DOMAIN qs = DOMAIN ps
    /\ \A m \in DOMAIN ps : /\ qs[m].kind = ps[m].kind /\ qs[m].next = ps[m].next
                            /\ qs[m].docs = IF m = n THEN ps[m].docs \cup {d} ELSE ps[m].docs
                            /\ m # n => qs[m] = ps[m]
OneOf(dk, ps, qs) == \A m \in DOMAIN ps : qs[m] \in {dk[m], ps[m]}

\* Writing a docid sets no pointer; the block is flushed or not.
LEMMA DocidWritten ==
    ASSUME NEW ps \in Seq(Pages), NEW dk \in Seq(Pages), Len(dk) = Len(ps), NEW n \in DOMAIN ps,
           NEW d \in Docs, NEW qs, qs = Stored(n, d, ps)
    PROVE  Written(ps, n, d, qs) /\ OneOf(dk, qs, FlushIfFull(n, qs, dk))
<1>1. qs \in Seq(Pages) /\ Len(qs) = Len(ps) /\ DOMAIN qs = DOMAIN ps
  BY StoredPages
<1>2. DOMAIN dk = DOMAIN ps
  BY LenProperties
<1>3. \A m \in DOMAIN ps : /\ qs[m].kind = ps[m].kind /\ qs[m].next = ps[m].next
                           /\ qs[m].docs = IF m = n THEN ps[m].docs \cup {d} ELSE ps[m].docs
  <2>1. \A m \in DOMAIN ps : qs[m].kind = ps[m].kind /\ qs[m].next = ps[m].next
    BY StoredLinks
  <2>2. qs[n].docs = ps[n].docs \cup {d} /\ \A m \in DOMAIN ps : m # n => qs[m].docs = ps[m].docs
    BY StoredPages
  <2> QED
    BY <2>1, <2>2
<1>4. ASSUME NEW m \in DOMAIN ps, m # n PROVE qs[m] = ps[m]
  <2>1. qs[m] = IF m = n THEN [ps[m] EXCEPT !.docs = @ \cup {d}] ELSE ps[m]
    BY DEF Stored
  <2> QED
    BY <1>4, <2>1
<1>5. OneOf(dk, qs, FlushIfFull(n, qs, dk))
  BY <1>1, <1>2, FlushedPages DEF OneOf
<1> QED
  BY <1>1, <1>3, <1>4, <1>5 DEF Written

\* tp_add_docid_to_pages, to a page with room.
LEMMA StoreFacts ==
    ASSUME ChainsIInv, NEW b \in Backends, StoreDocid(b)
    PROVE  \E n \in DocidTargets(b) \cap DOMAIN pages :
              /\ Cardinality(pages[n].docs) < Capacity
              /\ cache' = [cache EXCEPT ![b] = n]
              /\ Written(pages, n, run[b].doc, pages')
              /\ OneOf(disk, pages', disk')
<1>1. PICK n \in DocidTargets(b) : /\ HasRoom(n)
                                   /\ pages' = Stored(n, run[b].doc, pages)
                                   /\ disk' = FlushIfFull(n, pages', disk)
                                   /\ cache' = [cache EXCEPT ![b] = n]
  BY DEF StoreDocid
<1>2. run[b].doc \in Docs /\ n \in DOMAIN pages /\ Cardinality(pages[n].docs) < Capacity
  BY <1>1, InsertsDocument DEF StoreDocid, At, HasRoom
<1>3. pages \in Seq(Pages) /\ disk \in Seq(Pages) /\ Len(disk) = Len(pages)
  BY ChainsTyped DEF TypeOK
<1>4. Written(pages, n, run[b].doc, pages') /\ OneOf(disk, pages', disk')
  BY <1>1, <1>2, <1>3, DocidWritten
<1> QED
  BY <1>1, <1>2, <1>4

\* The page behind which another is linked, and what is then on disk.
Extended(ps, last, n, qs) ==
    /\ DOMAIN qs = DOMAIN ps
    /\ \A m \in DOMAIN ps : /\ qs[m].kind = ps[m].kind /\ qs[m].docs = ps[m].docs
                            /\ qs[m].next = IF m = last THEN n ELSE ps[m].next
                            /\ m # last => qs[m] = ps[m]
NextOneOf(dk, ps, qs) == \A m \in DOMAIN ps : qs[m].next \in {dk[m].next, ps[m].next}

\* The same for the page in hand, the first one or the one behind the last.
LEMMA ChainFacts ==
    ASSUME ChainsIInv, NEW b \in Backends, ChainDocidPage(b)
    PROVE  \E chained :
              /\ Written(chained, run[b].block, run[b].doc, pages')
              /\ NextOneOf(disk, pages', disk')
              /\ \/ /\ LastDocidPages = {} /\ meta' = [meta EXCEPT !.first = run[b].block]
                    /\ chained = pages
                 \/ /\ meta' = meta
                    /\ \E last \in LastDocidPages : Extended(pages, last, run[b].block, chained)
<1> PICK n : n = run[b].block
  OBVIOUS
<1> PICK d : d = run[b].doc
  OBVIOUS
<1>1. d \in Docs /\ n \in DOMAIN pages /\ pages[n].kind = "docids" /\ n \in Nat
  BY InsertsDocument, ChainsTyped DEF ChainDocidPage, At
<1>2. pages \in Seq(Pages) /\ disk \in Seq(Pages) /\ Len(disk) = Len(pages)
  BY ChainsTyped DEF TypeOK
<1>3. CASE /\ LastDocidPages = {} /\ meta' = [meta EXCEPT !.first = n]
           /\ pages' = Stored(n, d, pages) /\ disk' = FlushIfFull(n, pages', disk)
  <2>1. Written(pages, n, d, pages') /\ OneOf(disk, pages', disk')
    BY <1>1, <1>2, <1>3, DocidWritten
  <2>2. NextOneOf(disk, pages', disk')
    BY <2>1 DEF OneOf, NextOneOf
  <2> QED
    BY <1>3, <2>1, <2>2
<1>4. ASSUME NEW last \in LastDocidPages, pages' = Stored(n, d, Linked(last, n, pages)),
             disk' = FlushIfFull(n, pages', [disk EXCEPT ![last] = Linked(last, n, pages)[last]]),
             UNCHANGED <<meta, diskMeta>>
      PROVE  \E ps : /\ Written(ps, n, d, pages') /\ NextOneOf(disk, pages', disk')
                     /\ meta' = meta /\ Extended(pages, last, n, ps)
  <2> PICK ps : ps = Linked(last, n, pages)
    OBVIOUS
  <2> PICK dk : dk = [disk EXCEPT ![last] = ps[last]]
    OBVIOUS
  <2>1. /\ ps \in Seq(Pages) /\ DOMAIN ps = DOMAIN pages /\ Len(ps) = Len(pages)
        /\ \A m \in DOMAIN pages : /\ ps[m].kind = pages[m].kind /\ ps[m].docs = pages[m].docs
                                   /\ ps[m].next = IF m = last THEN n ELSE pages[m].next
    BY <1>1, <1>2, LinkedPages
  <2>2. \A m \in DOMAIN pages : m # last => ps[m] = pages[m]
    <3> TAKE m \in DOMAIN pages
    <3>1. ps[m] = IF m = last THEN [pages[m] EXCEPT !.next = n] ELSE pages[m]
      BY DEF Linked
    <3> QED
      BY <3>1
  <2>3. Extended(pages, last, n, ps)
    BY <2>1, <2>2 DEF Extended
  <2>4. last \in DOMAIN pages /\ ps[last] \in Pages /\ DOMAIN disk = DOMAIN pages
    BY <1>2, <2>1, LenProperties, ElementOfSeq DEF LastDocidPages
  <2>5. /\ dk \in Seq(Pages) /\ Len(dk) = Len(ps)
        /\ \A m \in DOMAIN pages : dk[m] = IF m = last THEN ps[last] ELSE disk[m]
    BY <1>2, <2>1, <2>4, ChangeBlock
  <2>6. pages' = Stored(n, d, ps) /\ disk' = FlushIfFull(n, pages', dk)
    BY <1>4
  <2>7. Written(ps, n, d, pages') /\ OneOf(dk, pages', disk')
    BY <1>1, <2>1, <2>5, <2>6, DocidWritten
  <2>8. NextOneOf(disk, pages', disk')
    <3> SUFFICES ASSUME NEW m \in DOMAIN pages'
                 PROVE  disk'[m].next \in {disk[m].next, pages'[m].next}
      BY DEF NextOneOf
    <3>1. m \in DOMAIN pages /\ pages'[m].next = ps[m].next
      BY <2>1, <2>7 DEF Written
    <3>2. disk'[m] \in {dk[m], pages'[m]}
      BY <2>7 DEF OneOf
    <3>3. dk[m].next \in {disk[m].next, pages'[m].next}
      BY <2>1, <2>5, <3>1
    <3> QED
      BY <3>2, <3>3
  <2> QED
    BY <1>4, <2>3, <2>7, <2>8
<1>5. \/ /\ LastDocidPages = {} /\ meta' = [meta EXCEPT !.first = n]
         /\ pages' = Stored(n, d, pages) /\ disk' = FlushIfFull(n, pages', disk)
      \/ \E last \in LastDocidPages :
            /\ pages' = Stored(n, d, Linked(last, n, pages))
            /\ disk' = FlushIfFull(n, pages', [disk EXCEPT ![last] = Linked(last, n, pages)[last]])
            /\ UNCHANGED <<meta, diskMeta>>
  BY DEF ChainDocidPage
<1> QED
  BY <1>3, <1>4, <1>5

\* The copies on disk do not come round either.
LEMMA DiskRanked == ChainsIInv => Ranked(disk)
BY ChainsTyped, RankedKept DEF ChainsIInv, OldLinks

\* A backend that is not in the middle of anything holds no block.
LEMMA IdleHoldsNothing ==
    /\ Idle.at \notin Holding
    /\ {"idle", "write", "docid", "commit"} \cap Holding = {}
    /\ {"clear", "forget", "link", "chain"} \subseteq Holding
BY DEF Idle, Busy, Holding

\* Recovery from either copy.
LEMMA ChainsRecovered ==
    ASSUME ChainsIInv, PointersIInv', NEW m \in {meta, diskMeta}, NEW ps \in {pages, disk},
           Recover(m, ps)
    PROVE  ChainsIInv'
<1>1. m \in MetaPages /\ ps \in Seq(Pages) /\ Ranked(ps)
  BY ChainsTyped, DiskRanked DEF ChainsIInv, TypeOK
<1>2. /\ disk' = pages' /\ DOMAIN pages' = DOMAIN ps /\ pages' \in Seq(Pages)
      /\ run' = [b \in Backends |-> Idle]
      /\ \A n \in DOMAIN ps : pages'[n].next \in {ps[n].next, None}
  BY <1>1, RecoverFacts
<1>3. Ranked(pages')
  BY <1>1, <1>2, RankedKept
<1>4. HandsFree' /\ OldLinks'
  BY <1>2, IdleHoldsNothing DEF HandsFree, OldLinks
<1> QED
  BY <1>3, <1>4 DEF ChainsIInv

\* Every step, with any number of writers and whatever reaches the disk, keeps
\* the chains from coming round and the blocks in hand from being linked twice.
LEMMA ChainsStep == ChainsIInv /\ [Next]_vars => ChainsIInv'
<1> SUFFICES ASSUME ChainsIInv, [Next]_vars PROVE ChainsIInv'
  OBVIOUS
<1> USE DEF memory, buffers, storage, history
<1>0. TypeOK /\ PointersIInv' /\ TypeOK'
  <2>1. PointersIInv'
    BY PointersStep DEF ChainsIInv
  <2> QED
    BY <2>1, ChainsTyped DEF PointersIInv
\* Steps that leave the blocks and the head alone.
<1>1. ASSUME pages' = pages, OldLinks', NEW b \in Backends, Others(b),
             \/ run'[b].at \notin Holding
             \/ run[b].at \in Holding /\ run'[b].block = run[b].block,
             meta'.first \in {meta.first, None}, meta'.head = meta.head
      PROVE  ChainsIInv'
  BY <1>0, <1>1, HandsStay, LinksStay
<1>2. ASSUME UNCHANGED <<pages, disk>> PROVE OldLinks'
  BY <1>2 DEF ChainsIInv, OldLinks
<1>3. ASSUME NEW b \in Backends, NEW d \in Docs, Insert(b, d) PROVE ChainsIInv'
  BY <1>0, <1>1, <1>2, <1>3, InsertRun, IdleHoldsNothing DEF Insert
<1>4. ASSUME NEW b \in Backends, SpillIndex(b) \/ BulkSpill(b) PROVE ChainsIInv'
  BY <1>0, <1>1, <1>2, <1>4, SpillRun, IdleHoldsNothing DEF SpillIndex, BulkSpill
<1>5. ASSUME NEW b \in Backends, Commit(b) \/ Abort(b) PROVE ChainsIInv'
  BY <1>0, <1>1, <1>2, <1>5, IdleRun, IdleHoldsNothing DEF Commit, Abort, EndXact
<1>6. ASSUME NEW b \in Backends, EndSpill(b) PROVE Others(b) /\ run'[b].at \notin Holding
  BY <1>0, <1>6, EndSpillRun, IdleHoldsNothing
<1>7. ASSUME NEW b \in Backends, NothingToSpill(b) PROVE ChainsIInv'
  BY <1>1, <1>2, <1>6, <1>7 DEF NothingToSpill
<1>8. ASSUME NEW b \in Backends, ClearMemtable(b) PROVE ChainsIInv'
  BY <1>0, <1>1, <1>2, <1>8, ClearRun, IdleHoldsNothing DEF ClearMemtable, At
<1>9. ASSUME NEW b \in Backends, ForgetDocids(b) PROVE ChainsIInv'
  <2>1. meta'.first = None /\ meta'.head = meta.head
    BY <1>9, ChainsTyped DEF ForgetDocids, MetaPages
  <2> QED
    BY <1>0, <1>1, <1>2, <1>9, <2>1, ClearRun, IdleHoldsNothing DEF ForgetDocids, At
<1>10. ASSUME NEW b \in Backends, WriteSegment(b) PROVE ChainsIInv'
  <2> PICK p : p = Page("segment", memtable)
    OBVIOUS
  <2>1. p \in Pages /\ p.next = None
    BY <1>0, PageType DEF TypeOK, PageKinds
  <2>2. pages' = Append(pages, p) /\ disk' = pages' /\ meta' = meta
    BY <1>10 DEF WriteSegment
  <2>3. OldLinks'
    BY <2>2 DEF OldLinks
  <2> QED
    BY <1>0, <1>10, <2>1, <2>2, <2>3, NewBlockRun, LinksAppended
<1>11. ASSUME NEW b \in Backends, NewDocidPage(b) PROVE ChainsIInv'
  <2> PICK p : p = Page("docids", {})
    OBVIOUS
  <2>1. p \in Pages /\ p.next = None
    BY PageType DEF PageKinds
  <2>2. pages' = Append(pages, p) /\ disk' = Append(disk, p) /\ meta' = meta
    BY <1>11 DEF NewDocidPage
  <2>3. pages \in Seq(Pages) /\ disk \in Seq(Pages) /\ Len(disk) = Len(pages)
    BY <1>0 DEF TypeOK
  <2>4. OldLinks'
    <3>1. /\ DOMAIN disk' = DOMAIN disk \cup {Len(pages) + 1}
          /\ \A n \in DOMAIN disk : disk'[n] = disk[n]
          /\ disk'[Len(pages) + 1] = p
      BY <2>1, <2>2, <2>3, AppendPage
    <3>2. /\ \A n \in DOMAIN pages : pages'[n] = pages[n]
          /\ pages'[Len(pages) + 1] = p
      BY <2>1, <2>2, <2>3, AppendPage
    <3> QED
      BY <3>1, <3>2, ChainsTyped DEF ChainsIInv, OldLinks
  <2> QED
    BY <1>0, <1>11, <2>1, <2>2, <2>4, NewBlockRun, LinksAppended
<1>12. ASSUME NEW b \in Backends, LinkHead(b) PROVE ChainsIInv'
  <2>1. /\ pages' = Linked(run[b].block, meta.head, pages)
        /\ meta' = [meta EXCEPT !.head = run[b].block]
        /\ disk' = disk /\ At(b, "link") /\ EndSpill(b)
    BY <1>12 DEF LinkHead
  <2> QED
    BY <1>0, <1>6, <2>1, LinksPushed
<1>13. ASSUME NEW b \in Backends, StoreDocid(b) PROVE ChainsIInv'
  <2>1. Others(b) /\ run'[b].at \notin Holding
    BY <1>0, <1>13, IdleRun, IdleHoldsNothing
  <2>2. PICK n \in DOMAIN pages : Written(pages, n, run[b].doc, pages') /\ OneOf(disk, pages', disk')
    BY <1>13, StoreFacts
  <2>3. DOMAIN pages' = DOMAIN pages /\ \A m \in DOMAIN pages : pages'[m].next = pages[m].next
    BY <2>2 DEF Written
  <2>4. OldLinks'
    <3>1. DOMAIN disk' = DOMAIN pages'
      BY <1>0, LenProperties DEF TypeOK
    <3> QED
      BY <2>2, <2>3, <3>1, ChainsTyped DEF OneOf, ChainsIInv, OldLinks
  <2>5. meta' = meta
    BY <1>13 DEF StoreDocid
  <2> QED
    BY <1>0, <2>1, <2>3, <2>4, <2>5, HandsStay, LinksStay
<1>14. ASSUME NEW b \in Backends, ChainDocidPage(b) PROVE ChainsIInv'
  <2> PICK x : x = run[b].block
    OBVIOUS
  <2>1. Others(b) /\ run'[b].at \notin Holding /\ At(b, "chain")
    BY <1>0, <1>14, IdleRun, IdleHoldsNothing DEF ChainDocidPage
  <2>2. DOMAIN disk' = DOMAIN pages'
    BY <1>0, LenProperties DEF TypeOK
  <2>3. x \in DOMAIN pages /\ Unlinked(x, meta, pages) /\ run[b].at \in Holding
    BY <2>1, ChainsTyped, IdleHoldsNothing DEF At, ChainsIInv, HandsFree
  <2>4. PICK ps : /\ Written(ps, x, run[b].doc, pages')
                  /\ NextOneOf(disk, pages', disk')
                  /\ \/ /\ meta' = [meta EXCEPT !.first = x] /\ ps = pages
                     \/ /\ meta' = meta
                        /\ \E last \in LastDocidPages : Extended(pages, last, x, ps)
    BY <1>14, ChainFacts
  <2>5. CASE meta' = [meta EXCEPT !.first = x] /\ ps = pages
    <3>1. meta'.first = x /\ meta'.head = meta.head
      BY <2>5, ChainsTyped DEF MetaPages
    <3>2. DOMAIN pages' = DOMAIN pages /\ \A m \in DOMAIN pages : pages'[m].next = pages[m].next
      BY <2>4, <2>5 DEF Written
    <3>3. OldLinks'
      BY <2>2, <2>4, <3>2, ChainsTyped DEF NextOneOf, ChainsIInv, OldLinks
    <3>4. ASSUME NEW c \in Backends, run'[c].at \in Holding
          PROVE  /\ run[c].at \in Holding /\ run'[c].block = run[c].block
                 /\ run[c].block # x /\ run[c].block # meta.head
      <4>1. c # b /\ run'[c] = run[c]
        BY <2>1, <3>4 DEF Others
      <4> QED
        BY <2>3, <3>4, <4>1 DEF ChainsIInv, HandsFree, Unlinked
    <3> QED
      BY <1>0, <3>1, <3>2, <3>3, <3>4, LinksStay
  <2>6. ASSUME NEW last \in LastDocidPages, meta' = meta, Extended(pages, last, x, ps)
        PROVE  ChainsIInv'
    <3>1. /\ DOMAIN pages' = DOMAIN pages
          /\ \A m \in DOMAIN pages : pages'[m].next = IF m = last THEN x ELSE pages[m].next
      <4>1. DOMAIN pages' = DOMAIN ps /\ \A m \in DOMAIN ps : pages'[m].next = ps[m].next
        BY <2>4 DEF Written
      <4>2. /\ DOMAIN ps = DOMAIN pages
            /\ \A m \in DOMAIN pages : ps[m].next = IF m = last THEN x ELSE pages[m].next
        BY <2>6 DEF Extended
      <4> QED
        BY <4>1, <4>2
    <3>2. last \in DOMAIN pages /\ pages[last].next = None
      BY DEF LastDocidPages
    <3>3. OldLinks'
      <4> SUFFICES ASSUME NEW m \in DOMAIN pages'
                   PROVE  disk'[m].next \in {pages'[m].next, None}
        BY <2>2 DEF OldLinks
      <4>1. disk[m].next \in {pages[m].next, None}
        BY <3>1, ChainsTyped DEF ChainsIInv, OldLinks
      <4>2. disk'[m].next \in {disk[m].next, pages'[m].next}
        BY <2>4 DEF NextOneOf
      <4> QED
        BY <3>1, <3>2, <4>1, <4>2
    <3> QED
      BY <1>0, <2>1, <2>6, <3>1, <3>3, LinksExtended
  <2> QED
    BY <2>4, <2>5, <2>6
<1>15. CASE UNCHANGED <<run, meta, pages>> /\ OldLinks'
  <2>1. \A c \in Backends : run'[c].at \in Holding =>
              /\ run[c].at \in Holding /\ run'[c].block = run[c].block
              /\ run[c].block # meta'.first /\ run[c].block # meta'.head
    BY <1>15 DEF ChainsIInv, HandsFree, Unlinked
  <2> QED
    BY <1>0, <1>15, <2>1, LinksStay
<1>16. ASSUME NEW b \in Backends, Scan(b) PROVE ChainsIInv'
  BY <1>2, <1>15, <1>16 DEF Scan
<1>17. CASE WriteBack
  <2>1. UNCHANGED <<run, meta, pages>>
    BY <1>17 DEF WriteBack
  <2>2. disk' = disk \/ \E n \in DOMAIN pages : disk' = [disk EXCEPT ![n] = pages[n]]
    BY <1>17 DEF WriteBack
  <2>3. OldLinks'
    BY <2>1, <2>2, ChainsTyped DEF ChainsIInv, OldLinks
  <2> QED
    BY <1>15, <2>1, <2>3
<1>18. CASE Restart \/ Crash
  BY <1>0, <1>18, ChainsRecovered DEF Restart, Crash
<1>19. CASE UNCHANGED vars
  BY <1>2, <1>15, <1>19 DEF vars
<1> QED
  BY <1>3, <1>4, <1>5, <1>7, <1>8, <1>9, <1>10, <1>11, <1>12, <1>13, <1>14, <1>16, <1>17,
     <1>18, <1>19 DEF Next, SpillStep

\* Both chains of a metapage end in None, in either copy.
LEMMA ChainsEnd ==
    ASSUME NEW m \in MetaPages, NEW ps \in Seq(Pages), PointersSound(m, ps), Ranked(ps)
    PROVE  /\ ChainEnd(m.first, ps, "docids") = None
           /\ ChainEnd(m.head, ps, "segment") = None
<1> DEFINE K(kind) == {n \in DOMAIN ps : ps[n].kind = kind}
<1>1. \A kind : Path(K(kind), ps, kind)
  BY DEF PointersSound, Leads, Path, Good
<1>2. m.first \in K("docids") \cup {None} /\ m.head \in K("segment") \cup {None}
  BY DEF PointersSound, Leads
<1>3. \A kind : \A n \in DOMAIN ps :
          Good(n, ps, kind) => ps[n].next = None \/ Good(ps[n].next, ps, kind)
  BY DEF PointersSound, Leads, Good
<1> HIDE DEF K
<1> QED
  BY <1>1, <1>2, <1>3, ChainEnds

\* Whenever a crash comes, and whatever has reached the disk by then, both chains
\* on disk end in None: recovery finds no zeroed or foreign block and cuts nothing.
THEOREM DiskChainsAlways == Spec => []DiskChainsSound
<1>1. ChainsIInv /\ [Next]_vars => ChainsIInv'
  BY ChainsStep
<1>2. ChainsIInv => DiskChainsSound
  <2> SUFFICES ASSUME ChainsIInv PROVE DiskChainsSound
    OBVIOUS
  <2>1. PointersSound(diskMeta, disk) /\ Ranked(disk)
    BY DiskRanked DEF ChainsIInv, PointersIInv, DiskPointersSound
  <2>2. diskMeta \in MetaPages /\ disk \in Seq(Pages)
    BY ChainsTyped DEF TypeOK
  <2> QED
    BY <2>1, <2>2, ChainsEnd DEF DiskChainsSound
<1> QED
  BY <1>1, <1>2, InitChains, PTL DEF Spec

=============================================================================
