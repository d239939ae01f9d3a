------------------------- MODULE SegmentBlocksProofs ------------------------
(***************************************************************************)
(* The steps of SegmentLevels that write, link and free segments keep its  *)
(* inductive invariant, and what follows from it.                          *)
(***************************************************************************)
EXTENDS SegmentLevelsProofs

-----------------------------------------------------------------------------
(* Chains after a step. *)

\* Sequences that are sound chains of the levels are their chains.
LEMMA NewChains ==
    ASSUME pages' \in Seq(Segments), NEW ch,
           \A l \in Levels : Sound(meta'.heads[l], ch[l], pages') /\ meta'.counts[l] = Len(ch[l]),
           \A l, m \in Levels : l # m => Elements(ch[l]) \cap Elements(ch[m]) = {}
    PROVE  /\ ChainsSound'
           /\ \A l \in Levels : Chain(l)' = ch[l] /\ Linked(l)' = Elements(ch[l])
           /\ AllLinked' = UNION {Elements(ch[l]) : l \in Levels}
<1>1. \A l \in Levels : Chain(l)' = ch[l]
  BY SoundIsChain DEF Chain
<1>2. \A l \in Levels : Linked(l)' = Elements(ch[l])
  BY <1>1 DEF Linked
<1>3. AllLinked' = UNION {Elements(ch[l]) : l \in Levels}
  BY <1>2 DEF AllLinked
<1>4. ChainsSound'
  BY <1>1, <1>2 DEF ChainsSound
<1> QED
  BY <1>1, <1>2, <1>3, <1>4

\* Chains stay when linked blocks, heads and counts do.
LEMMA SameChains ==
    ASSUME Right, pages' \in Seq(Segments),
           meta'.heads = meta.heads, meta'.counts = meta.counts,
           \A b \in AllLinked : b \in 1 .. Len(pages') /\ pages'[b] = pages[b]
    PROVE  /\ ChainsSound' /\ AllLinked' = AllLinked
           /\ \A l \in Levels : Chain(l)' = Chain(l) /\ Linked(l)' = Linked(l)
           /\ \A b \in AllLinked : DocsAt(b)' = DocsAt(b) /\ SegmentAt(b)' = SegmentAt(b)
           /\ DocsOn(AllLinked)' = DocsOn(AllLinked)
           /\ \A l : Bounded(l)' <=> Bounded(l)
<1> DEFINE ch == [l \in Levels |-> Chain(l)]
<1>1. ASSUME NEW l \in Levels
      PROVE  Sound(meta'.heads[l], ch[l], pages') /\ meta'.counts[l] = Len(ch[l])
  <2>1. /\ Sound(meta.heads[l], Chain(l), pages) /\ meta.counts[l] = Len(Chain(l))
        /\ \A i \in 1 .. Len(Chain(l)) : Chain(l)[i] \in Linked(l)
    BY ChainTyped
  <2>2. \A i \in 1 .. Len(Chain(l)) : Chain(l)[i] \in AllLinked
    BY <2>1 DEF AllLinked
  <2>3. pages \in Seq(Segments)
    BY DEF Right, TypeOK
  <2>4. Elements(Chain(l)) \subseteq 1 .. Len(pages')
    <3>1. Elements(Chain(l)) \subseteq AllLinked
      BY DEF AllLinked, Linked
    <3> QED
      BY <3>1
  <2>5. Keeps(Chain(l), pages, pages')
    BY <2>2 DEF Keeps
  <2>6. Sound(meta.heads[l], Chain(l), pages')
    BY <2>1, <2>3, <2>4, <2>5, SoundKept
  <2> QED
    BY <2>1, <2>6
<1>2. \A l, m \in Levels : l # m => Elements(ch[l]) \cap Elements(ch[m]) = {}
  BY DEF Right, ChainsSound, Linked
<1>3. /\ ChainsSound'
      /\ \A l \in Levels : Chain(l)' = ch[l] /\ Linked(l)' = Elements(ch[l])
      /\ AllLinked' = UNION {Elements(ch[l]) : l \in Levels}
  <2> HIDE DEF ch
  <2> QED
    BY <1>1, <1>2, NewChains
<1>4. \A l \in Levels : Chain(l)' = Chain(l) /\ Linked(l)' = Linked(l)
  BY <1>3 DEF Linked
<1>5. AllLinked' = AllLinked
  BY <1>4 DEF AllLinked
<1>6. \A b \in AllLinked : DocsAt(b)' = DocsAt(b) /\ SegmentAt(b)' = SegmentAt(b)
  <2>1. \A b \in AllLinked : b \in 1 .. Len(pages)
    BY DEF Right, BlocksPlaced
  <2>2. DOMAIN pages = 1 .. Len(pages) /\ DOMAIN pages' = 1 .. Len(pages')
    BY LenProperties DEF Right, TypeOK
  <2> QED
    BY <2>1, <2>2 DEF DocsAt, SegmentAt
<1>7. DocsOn(AllLinked)' = DocsOn(AllLinked)
  BY <1>5, <1>6 DEF DocsOn
<1>8. \A l : Bounded(l)' <=> Bounded(l)
  BY DEF Bounded
<1> QED
  BY <1>3, <1>4, <1>5, <1>6, <1>7, <1>8

\* A segment is written to a block that is free or new.
LEMMA StoreIs ==
    ASSUME Right, NEW b \in Allocatable, NEW docs \in SUBSET Docs, Store(b, docs)
    PROVE  /\ pages' \in Seq(Segments) /\ free' = free \ {b} /\ b \in Nat \ {None}
           /\ 1 .. Len(pages') = (1 .. Len(pages)) \cup {b}
           /\ b \notin AllLinked /\ b \notin Held
           /\ \A c : c # b => SegmentAt(c)' = SegmentAt(c) /\ DocsAt(c)' = DocsAt(c)
           /\ SegmentAt(b)' = Segment(docs) /\ DocsAt(b)' = docs
           /\ \A c \in 1 .. Len(pages) : c # b => pages'[c] = pages[c]
<1>1. /\ pages \in Seq(Segments) /\ Len(pages) \in Nat /\ DOMAIN pages = 1 .. Len(pages)
      /\ free \subseteq 1 .. Len(pages)
      /\ AllLinked \cup free \cup Held = 1 .. Len(pages)
      /\ AllLinked \cap free = {} /\ free \cap Held = {}
  BY LenProperties DEF Right, TypeOK, BlocksPlaced
<1>2. Segment(docs) \in Segments
  BY DEF Segment, Segments, None
<1>3. /\ free' = free \ {b}
      /\ b \in DOMAIN pages => pages' = [pages EXCEPT ![b] = Segment(docs)]
      /\ b \notin DOMAIN pages => pages' = Append(pages, Segment(docs))
  BY DEF Store
<1>4. /\ pages' \in Seq(Segments) /\ DOMAIN pages' = (1 .. Len(pages)) \cup {b}
      /\ 1 .. Len(pages') = (1 .. Len(pages)) \cup {b} /\ b \in Nat \ {0}
      /\ pages'[b] = Segment(docs)
      /\ \A c \in 1 .. Len(pages) : c # b => pages'[c] = pages[c]
  <2>1. CASE b \in free
    <3>1. b \in 1 .. Len(pages) /\ b \in DOMAIN pages
      BY <1>1, <2>1
    <3>2. pages' = [pages EXCEPT ![b] = Segment(docs)]
      BY <1>3, <3>1
    <3>3. pages' \in Seq(Segments) /\ Len(pages') = Len(pages)
      BY <1>1, <1>2, <3>1, <3>2, ExceptSeq
    <3>4. /\ DOMAIN pages' = 1 .. Len(pages) /\ pages'[b] = Segment(docs)
          /\ \A c \in 1 .. Len(pages) : c # b => pages'[c] = pages[c]
      BY <1>1, <3>1, <3>2
    <3>5. (1 .. Len(pages)) \cup {b} = 1 .. Len(pages) /\ b \in Nat \ {0}
      BY <3>1
    <3> QED
      BY <3>3, <3>4, <3>5
  <2>2. CASE b \notin free
    <3>1. b = Len(pages) + 1
      BY <2>2 DEF Allocatable
    <3>2. /\ b \notin 1 .. Len(pages) /\ b \in Nat \ {0}
          /\ 1 .. Len(pages) + 1 = (1 .. Len(pages)) \cup {b}
      BY <1>1, <3>1
    <3>3. b \notin DOMAIN pages
      BY <1>1, <3>2
    <3>4. pages' = Append(pages, Segment(docs))
      BY <1>3, <3>3
    <3>5. /\ pages' \in Seq(Segments) /\ Len(pages') = Len(pages) + 1
          /\ \A c \in 1 .. Len(pages) : pages'[c] = pages[c]
          /\ pages'[Len(pages) + 1] = Segment(docs)
      BY <1>1, <1>2, <3>4, AppendProperties
    <3>6. DOMAIN pages' = 1 .. Len(pages) + 1
      BY <3>5, LenProperties
    <3> QED
      BY <3>1, <3>2, <3>5, <3>6
  <2> QED
    BY <2>1, <2>2
<1>5. b \notin AllLinked /\ b \notin Held
  <2>1. CASE b \in free
    BY <1>1, <2>1
  <2>2. CASE b \notin free
    <3>1. b = Len(pages) + 1
      BY <2>2 DEF Allocatable
    <3>2. b \notin 1 .. Len(pages)
      BY <1>1, <3>1
    <3> QED
      BY <1>1, <3>2
  <2> QED
    BY <2>1, <2>2
<1>6. \A c : c # b => SegmentAt(c)' = SegmentAt(c)
  BY <1>1, <1>4 DEF SegmentAt
<1>7. SegmentAt(b)' = Segment(docs) /\ Segment(docs).docs = docs
  BY <1>4 DEF SegmentAt, Segment
<1> QED
  BY <1>3, <1>4, <1>5, <1>6, <1>7 DEF DocsAt, None

\* Writing a segment does not disturb the chains.
LEMMA StoreKeepsChains ==
    ASSUME Right, NEW b \in Allocatable, NEW docs \in SUBSET Docs, Store(b, docs), meta' = meta
    PROVE  /\ ChainsSound' /\ AllLinked' = AllLinked
           /\ \A l \in Levels : Chain(l)' = Chain(l) /\ Linked(l)' = Linked(l)
           /\ DocsOn(AllLinked)' = DocsOn(AllLinked)
           /\ \A l : Bounded(l)' <=> Bounded(l)
<1>1. /\ pages' \in Seq(Segments) /\ 1 .. Len(pages') = (1 .. Len(pages)) \cup {b}
      /\ b \notin AllLinked
      /\ \A c \in 1 .. Len(pages) : c # b => pages'[c] = pages[c]
  BY StoreIs
<1>2. \A c \in AllLinked : c \in 1 .. Len(pages') /\ pages'[c] = pages[c]
  BY <1>1 DEF Right, BlocksPlaced
<1> QED
  BY <1>1, <1>2, SameChains

\* Pages ps are the pages old, with another successor of b.
Relinked(old, ps, b, v) ==
    /\ ps \in Seq(Segments) /\ Len(ps) = Len(old) /\ DOMAIN ps = DOMAIN old
    /\ ps[b].next = v
    /\ \A c \in 1 .. Len(old) : c # b => ps[c] = old[c]
    /\ \A c \in 1 .. Len(old) : ps[c].docs = old[c].docs

LEMMA RelinkIs ==
    ASSUME NEW old \in Seq(Segments), NEW b \in 1 .. Len(old), NEW v \in Nat
    PROVE  Relinked(old, [old EXCEPT ![b].next = v], b, v)
<1> PICK ps : ps = [old EXCEPT ![b].next = v]
  OBVIOUS
<1>1. DOMAIN old = 1 .. Len(old) /\ old[b] \in Segments
  BY LenProperties, ElementOfSeq
<1>2. [old[b] EXCEPT !.next = v] \in Segments
  BY <1>1 DEF Segments
<1>3. ps = [old EXCEPT ![b] = [old[b] EXCEPT !.next = v]]
  OBVIOUS
<1>4. ps \in Seq(Segments) /\ Len(ps) = Len(old)
  BY <1>1, <1>2, <1>3, ExceptSeq
<1> QED
  BY <1>1, <1>3, <1>4 DEF Segments, Relinked

\* level_counts has 16 bits: no level is so long that one segment more would not
\* be counted.
FewSegments == \A l \in Levels : meta.counts[l] < 65535

\* Short of that, counts do not wrap.
LEMMA IncrementedIs ==
    ASSUME NEW n \in Nat, n < 65535
    PROVE  Incremented(n) = n + 1
<1>1. (n + 1) % 65536 = n + 1
  OBVIOUS
<1> QED
  BY <1>1 DEF Incremented

LEMMA DecrementedIs ==
    ASSUME NEW n \in Nat, n > 0, n < 65535
    PROVE  Decremented(n) = n - 1
<1>1. (n - 1 + 65536) % 65536 = n - 1
  OBVIOUS
<1>2. n + 65535 = n - 1 + 65536
  OBVIOUS
<1> QED
  BY <1>1, <1>2 DEF Decremented

Metas == [heads : [Levels -> Nat], counts : [Levels -> Nat], docs : Nat]

\* Metapage m2 is m with another head and one more segment in level l.
PushedTo(m, m2, l, b) ==
    /\ m2 \in Metas /\ m2.heads[l] = b /\ m2.counts[l] = m.counts[l] + 1
    /\ \A x \in Levels \ {l} : m2.heads[x] = m.heads[x] /\ m2.counts[x] = m.counts[x]

\* It has the fields of a metapage and no others.
LEMMA PushedIsMeta ==
    ASSUME NEW m \in Metas, NEW l \in Levels, NEW b \in Nat, NEW m2, m2 = Pushed(m, l, b)
    PROVE  m2 = [heads |-> m2.heads, counts |-> m2.counts, docs |-> m2.docs]
BY DEF Pushed, Metas

LEMMA PushedIs ==
    ASSUME NEW m \in Metas, NEW l \in Levels, NEW b \in Nat, m.counts[l] < 65535
    PROVE  PushedTo(m, Pushed(m, l, b), l, b)
<1>0. PICK m2 : m2 = Pushed(m, l, b)
  OBVIOUS
<1>1. m.heads \in [Levels -> Nat] /\ m.counts \in [Levels -> Nat] /\ m.docs \in Nat
  BY DEF Metas
<1>2. m2 = [heads |-> m2.heads, counts |-> m2.counts, docs |-> m2.docs]
  BY <1>0, PushedIsMeta
<1>3. /\ m2.heads = [m.heads EXCEPT ![l] = b] /\ m2.docs = m.docs
      /\ m2.counts = [m.counts EXCEPT ![l] = Incremented(m.counts[l])]
  BY <1>0 DEF Pushed, Metas
<1>4. Incremented(m.counts[l]) = m.counts[l] + 1
  BY <1>1, IncrementedIs
<1>5. m2.heads \in [Levels -> Nat] /\ m2.counts \in [Levels -> Nat]
  BY <1>1, <1>3, <1>4
<1>6. m2 \in Metas
  BY <1>1, <1>2, <1>3, <1>5 DEF Metas
<1>7. PushedTo(m, m2, l, b)
  BY <1>1, <1>3, <1>4, <1>6 DEF PushedTo
<1> QED
  BY <1>0, <1>7

\* Documents stay where they are when only successors change.
LEMMA SameDocs ==
    ASSUME pages \in Seq(Segments), pages' \in Seq(Segments), Len(pages') = Len(pages),
           \A c \in 1 .. Len(pages) : pages'[c].docs = pages[c].docs
    PROVE  (\A b : DocsAt(b)' = DocsAt(b)) /\ (\A bs : DocsOn(bs)' = DocsOn(bs))
<1>1. DOMAIN pages' = 1 .. Len(pages) /\ DOMAIN pages = 1 .. Len(pages)
  BY LenProperties
<1>2. \A b : SegmentAt(b)'.docs = SegmentAt(b).docs
  BY <1>1 DEF SegmentAt, Segment
<1> QED
  BY <1>2 DEF DocsAt, DocsOn

\* Only the levels that a process excuses may have become too long.
LEMMA StillExcused ==
    ASSUME Right, NEW p \in Procs, Works(p), Works(p)',
           \A l \in Levels \ {Top} :
              Bounded(l) \/ l \in Excused(p) => Bounded(l)' \/ l \in Excused(p)'
    PROVE  LongExcused'
BY DEF Right, LongExcused, Works

\* What DocsRight says, of documents by the block that holds them.
LEMMA DocsApart ==
    /\ NoDocTwice <=>
          /\ \A a, b \in AllLinked : a # b => DocsAt(a) \cap DocsAt(b) = {}
          /\ memtable \cap (Spilled \cup DocsOn(AllLinked)) = {}
          /\ Spilled \cap DocsOn(AllLinked) = {}
    /\ \A bs, d : d \in DocsOn(bs) <=> \E b \in bs : d \in DocsAt(b)
BY DEF NoDocTwice, DocsAt, DocsOn
LEMMA DocsApartThen ==
    (/\ NoDocTwice <=>
          /\ \A a, b \in AllLinked : a # b => DocsAt(a) \cap DocsAt(b) = {}
          /\ memtable \cap (Spilled \cup DocsOn(AllLinked)) = {}
          /\ Spilled \cap DocsOn(AllLinked) = {}
     /\ \A bs, d : d \in DocsOn(bs) <=> \E b \in bs : d \in DocsAt(b))'
  BY DocsApart, PTL

\* The blocks of a chain are blocks of the index.
LEMMA LinkedPlaced ==
    ASSUME Right, NEW l \in Levels
    PROVE  Linked(l) \subseteq AllLinked /\ Linked(l) \subseteq 1 .. Len(pages)
BY DEF Right, BlocksPlaced, AllLinked

-----------------------------------------------------------------------------
(* A spill. *)

\* The memtable has become a segment that nobody can reach yet.
LEMMA WriteSegmentKeeps ==
    ASSUME ~Overlap, Right, NEW p \in Procs, WriteSegment(p)
    PROVE  Right' /\ Found' = Found /\ heap' = heap
<1>1. /\ TypeOK /\ Works(p) /\ run[p].at = "write" /\ JobRight(p) /\ job[p] \in Jobs
      /\ memtable # {} /\ memtable \in SUBSET Docs /\ memtable' = {} /\ meta' = meta
  BY WorksAlone DEF WriteSegment, Right, JobsRight, Resting, TypeOK
<1>2. PICK b \in Allocatable : Store(b, memtable) /\ With(p, [job[p] EXCEPT !.new = b])
  BY DEF WriteSegment
<1>3. /\ pages' \in Seq(Segments) /\ free' = free \ {b} /\ b \in Nat \ {None}
      /\ 1 .. Len(pages') = (1 .. Len(pages)) \cup {b}
      /\ b \notin AllLinked /\ b \notin Held
      /\ \A c : c # b => SegmentAt(c)' = SegmentAt(c) /\ DocsAt(c)' = DocsAt(c)
      /\ DocsAt(b)' = memtable
  BY <1>1, <1>2, StoreIs
<1>4. /\ ChainsSound' /\ AllLinked' = AllLinked
      /\ DocsOn(AllLinked)' = DocsOn(AllLinked)
      /\ \A l : Bounded(l)' <=> Bounded(l)
  BY <1>1, <1>2, StoreKeepsChains
<1>5. [job[p] EXCEPT !.new = b] \in Jobs
  BY <1>1, <1>3 DEF Jobs
<1>6. /\ run'[p] = [task |-> run[p].task, at |-> "link"] /\ job'[p] = [job[p] EXCEPT !.new = b]
      /\ \A q \in Procs \ {p} : run'[q] = run[q] /\ job'[q] = job[q]
      /\ run' \in [Procs -> Runs] /\ job' \in [Procs -> Jobs]
  BY <1>1, <1>2, <1>5, Steps1, Works1 DEF WriteSegment, Steps
<1>7. /\ job'[p].new = b /\ job'[p].max = job[p].max /\ job'[p].level = job[p].level
      /\ run'[p].at = "link" /\ run'[p].task = run[p].task
  BY <1>1, <1>6 DEF Jobs
<1>8. TypeOK'
  BY <1>1, <1>3, <1>6 DEF WriteSegment, TypeOK
<1>9. JobRight(p)'
  BY <1>1, <1>3, <1>7 DEF JobRight, MergeSteps
<1>10. Works(p)' /\ JobsRight'
  BY <1>1, <1>6, <1>9, StillAlone
<1>11. Held = {} /\ Held' = {b}
  <2>1. InHand(p) = {}
    BY <1>1 DEF JobRight, InHand
  <2>2. InHand(p)' = {b}
    BY <1>3, <1>7 DEF InHand
  <2> QED
    BY <1>1, <1>10, <2>1, <2>2 DEF Works
<1>12. BlocksPlaced'
  BY <1>3, <1>4, <1>11 DEF Right, BlocksPlaced
<1>13. Spilled = {} /\ Spilled' = memtable
  BY <1>1, <1>3, <1>7, <1>10 DEF Works
<1>14. Found' = Found
  BY <1>1, <1>4, <1>13 DEF Found
<1>15. DocsRight'
  <2>1. \A c \in AllLinked : DocsAt(c)' = DocsAt(c)
    BY <1>3
  <2>2. NoDocTwice'
    BY <1>1, <1>4, <1>13, <2>1, DocsApart, DocsApartThen DEF Right, DocsRight
  <2> QED
    BY <1>4, <1>14, <2>1, <2>2 DEF Right, DocsRight, WriteSegment
<1>16. LongExcused'
  BY <1>1, <1>4, <1>10, StillExcused DEF Excused, MergeSteps
<1>17. VacuumRight'
  BY <1>1, <1>6, VacuumElsewhere DEF WriteSegment
<1> QED
  BY <1>4, <1>8, <1>10, <1>12, <1>14, <1>15, <1>16, <1>17 DEF Right, Works, WriteSegment

\* It has become the head of level 0.
LEMMA LinkSegmentKeeps ==
    ASSUME ~Overlap, Right, FewSegments, NEW p \in Procs, LinkSegment(p)
    PROVE  Right' /\ Found' = Found /\ heap' = heap
<1> PICK b : b = job[p].new
  OBVIOUS
<1> DEFINE ch == [l \in Levels |-> IF l = 0 THEN Front(b, Chain(0)) ELSE Chain(l)]
<1>1. /\ TypeOK /\ Works(p) /\ run[p].at = "link" /\ JobRight(p) /\ job[p] \in Jobs
      /\ memtable' = memtable /\ free' = free /\ 0 \in Levels
      /\ pages \in Seq(Segments) /\ meta.heads \in [Levels -> Nat]
      /\ meta.counts \in [Levels -> Nat]
  BY WorksAlone, JobLevels DEF LinkSegment, Right, JobsRight, Resting, TypeOK
<1>2. /\ pages' = [pages EXCEPT ![b].next = meta.heads[0]]
      /\ meta' = Pushed(meta, 0, b) /\ Goto(p, "check") /\ With(p, Job(0, job[p].max))
  BY DEF LinkSegment
<1>3. b # None /\ DocsAt(b) # {} /\ Held = {b} /\ Spilled = DocsAt(b)
  <2>1. b # None /\ DocsAt(b) # {}
    BY <1>1 DEF JobRight
  <2>2. InHand(p) = {b}
    BY <1>1, <2>1 DEF InHand
  <2> QED
    BY <1>1, <2>1, <2>2 DEF Works
<1>4. b \in 1 .. Len(pages) /\ b \notin AllLinked /\ b \notin free
  BY <1>3 DEF Right, BlocksPlaced
<1>5. /\ pages' \in Seq(Segments) /\ Len(pages') = Len(pages)
      /\ pages'[b].next = meta.heads[0]
      /\ \A c \in 1 .. Len(pages) : c # b => pages'[c] = pages[c]
      /\ \A c \in 1 .. Len(pages) : pages'[c].docs = pages[c].docs
  <2>1. meta.heads[0] \in Nat
    BY <1>1
  <2>2. Relinked(pages, pages', b, meta.heads[0])
    BY <1>1, <1>2, <1>4, <2>1, RelinkIs
  <2> QED
    BY <2>2 DEF Relinked
<1>6. (\A c : DocsAt(c)' = DocsAt(c)) /\ (\A bs : DocsOn(bs)' = DocsOn(bs))
  BY <1>1, <1>5, SameDocs
<1>7. /\ meta' \in Metas /\ meta'.heads[0] = b /\ meta'.counts[0] = meta.counts[0] + 1
      /\ \A l \in Levels \ {0} : meta'.heads[l] = meta.heads[l] /\ meta'.counts[l] = meta.counts[l]
  <2>1. b \in Nat /\ meta \in Metas /\ meta.counts[0] < 65535
    BY <1>1 DEF Jobs, TypeOK, Metas, FewSegments
  <2>2. meta' = Pushed(meta, 0, b) /\ 0 \in Levels
    BY <1>1, <1>2
  <2>3. PushedTo(meta, meta', 0, b)
    BY <2>1, <2>2, PushedIs
  <2> QED
    BY <2>3 DEF PushedTo
<1>8. ASSUME NEW l \in Levels
      PROVE  /\ Sound(meta'.heads[l], ch[l], pages') /\ meta'.counts[l] = Len(ch[l])
             /\ Elements(ch[l]) = IF l = 0 THEN Linked(l) \cup {b} ELSE Linked(l)
  <2>1. /\ Sound(meta.heads[l], Chain(l), pages) /\ meta.counts[l] = Len(Chain(l))
        /\ \A i \in 1 .. Len(Chain(l)) : Chain(l)[i] \in Linked(l) /\ Chain(l)[i] \in 1 .. Len(pages)
    BY ChainTyped
  <2>2. b \notin Elements(Chain(l)) /\ Elements(Chain(l)) = Linked(l)
    BY <1>4 DEF AllLinked, Linked
  <2>3. Keeps(Chain(l), pages, pages')
    BY <1>5, <2>1, <2>2 DEF Keeps
  <2>4. CASE l = 0
    <3>1. /\ Sound(b, Front(b, Chain(0)), pages')
          /\ Len(Front(b, Chain(0))) = Len(Chain(0)) + 1
          /\ Elements(Front(b, Chain(0))) = Elements(Chain(0)) \cup {b}
      BY <1>1, <1>4, <1>5, <2>1, <2>2, <2>3, <2>4, SoundPushed
    <3> QED
      BY <1>1, <1>7, <2>1, <2>2, <2>4, <3>1
  <2>5. CASE l # 0
    <3>1. Elements(Chain(l)) \subseteq 1 .. Len(pages')
      BY <1>5, LinkedPlaced DEF Linked
    <3>2. Sound(meta.heads[l], Chain(l), pages')
      BY <1>1, <1>5, <2>1, <2>3, <3>1, SoundKept
    <3> QED
      BY <1>1, <1>7, <2>1, <2>2, <2>5, <3>2
  <2> QED
    BY <2>4, <2>5
<1>9. \A l, m \in Levels : l # m => Elements(ch[l]) \cap Elements(ch[m]) = {}
  <2>1. \A l \in Levels : b \notin Linked(l)
    BY <1>4 DEF AllLinked
  <2> HIDE DEF ch
  <2> QED
    BY <1>8, <2>1 DEF Right, ChainsSound
<1>10. ChainsSound' /\ AllLinked' = AllLinked \cup {b}
  <2> HIDE DEF ch
  <2>1. ChainsSound' /\ AllLinked' = UNION {Elements(ch[l]) : l \in Levels}
    BY <1>5, <1>8, <1>9, NewChains
  <2>2. UNION {Elements(ch[l]) : l \in Levels} = AllLinked \cup {b}
    <3>1. \A c : (\E l \in Levels : c \in Elements(ch[l]))
                    <=> (\E l \in Levels : c \in Linked(l)) \/ c = b
      BY <1>1, <1>8
    <3> QED
      BY <3>1 DEF AllLinked
  <2> QED
    BY <2>1, <2>2
<1> HIDE DEF ch
<1>11. Job(0, job[p].max) \in Jobs
  BY <1>1 DEF Jobs, Job, None
<1>12. /\ run'[p] = [task |-> run[p].task, at |-> "check"] /\ job'[p] = Job(0, job[p].max)
       /\ \A q \in Procs \ {p} : run'[q] = run[q] /\ job'[q] = job[q]
       /\ run' \in [Procs -> Runs] /\ job' \in [Procs -> Jobs]
  BY <1>1, <1>2, <1>11, Steps1, Works1 DEF Steps
<1>13. /\ job'[p].new = None /\ job'[p].max = job[p].max /\ job'[p].level = 0
       /\ run'[p].at = "check" /\ run'[p].task = run[p].task
  BY <1>12 DEF Job
<1>14. TypeOK'
  BY <1>1, <1>5, <1>7, <1>12 DEF LinkSegment, TypeOK, Metas
<1>15. JobRight(p)'
  BY <1>1, <1>13, JobLevels, LevelsAssumption DEF JobRight, MergeSteps, Levels, Top
<1>16. Works(p)' /\ JobsRight'
  BY <1>1, <1>12, <1>15, StillAlone
<1>17. Held' = {} /\ Spilled' = {}
  <2>1. InHand(p)' = {}
    BY <1>13 DEF InHand
  <2> QED
    BY <1>13, <1>16, <2>1 DEF Works
<1>18. BlocksPlaced'
  BY <1>1, <1>3, <1>4, <1>5, <1>10, <1>17 DEF Right, BlocksPlaced
<1>19. DocsOn(AllLinked)' = DocsOn(AllLinked) \cup DocsAt(b)
  BY <1>6, <1>10 DEF DocsOn, DocsAt
<1>20. Found' = Found
  BY <1>1, <1>3, <1>17, <1>19 DEF Found
<1>21. DocsRight'
  <2>1. /\ \A c, d \in AllLinked : c # d => DocsAt(c) \cap DocsAt(d) = {}
        /\ memtable \cap (Spilled \cup DocsOn(AllLinked)) = {}
        /\ Spilled \cap DocsOn(AllLinked) = {}
    BY DocsApart DEF Right, DocsRight
  <2>2. \A c \in AllLinked : DocsAt(c) \cap DocsAt(b) = {}
    BY <1>3, <2>1, DocsApart
  <2>3. NoDocTwice'
    BY <1>1, <1>3, <1>6, <1>10, <1>17, <1>19, <2>1, <2>2, DocsApartThen
  <2> QED
    BY <1>3, <1>6, <1>10, <1>20, <2>3 DEF Right, DocsRight, LinkSegment
<1>22. LongExcused'
  <2>1. \A l \in Levels \ {Top} : l # 0 => (Bounded(l)' <=> Bounded(l))
    BY <1>1, <1>7 DEF Bounded
  <2>2. \A l : l \notin Excused(p)
    BY <1>1 DEF Excused, MergeSteps
  <2>3. 0 \in Excused(p)'
    BY <1>13 DEF Excused
  <2> QED
    BY <1>1, <1>16, <2>1, <2>2, <2>3, StillExcused
<1>23. VacuumRight'
  BY <1>1, <1>12, VacuumElsewhere DEF LinkSegment
<1> QED
  BY <1>10, <1>14, <1>16, <1>18, <1>20, <1>21, <1>22, <1>23 DEF Right, Works, LinkSegment

-----------------------------------------------------------------------------
(* A merge. *)

\* The segments that a merge has taken are the first of the chain of its level.
LEMMA SourcesAre ==
    ASSUME Right, NEW p \in Procs, run[p].at \in {"merge", "swap"},
           NEW k, k = job[p].level, NEW n, n = Taken(p)
    PROVE  /\ k \in Levels /\ k + 1 \in Levels /\ k < Top /\ k + 1 <= Top
           /\ Len(Chain(k)) \in Nat /\ n \in 1 .. Len(Chain(k))
           /\ Len(job[p].sources) = n
           /\ Elements(job[p].sources) = Among(Chain(k), 1, n)
           /\ Elements(job[p].sources) \subseteq Linked(k)
           /\ job[p].rest = Remainder(Chain(k), n) /\ job[p].rest \in Nat
           /\ job[p].total = Len(Chain(k))
           /\ IF run[p].task = "force" THEN job[p].max = All ELSE job[p].max \in Fanouts
<1>1. JobRight(p) /\ k < Top
  BY DEF Right, JobsRight, JobRight, MergeSteps
<1>2. k \in Levels /\ k + 1 \in Levels /\ k + 1 <= Top
  BY <1>1, JobLevels DEF Levels, Top
<1>3. /\ job[p].total = Len(Chain(k)) /\ Len(Chain(k)) > 0
      /\ job[p].sources = SubSeq(Chain(k), 1, n) /\ job[p].rest = Remainder(Chain(k), n)
      /\ IF run[p].task = "force" THEN job[p].max = All ELSE job[p].max \in Fanouts
  BY <1>1 DEF JobRight, MergeSteps
<1>4. job[p].max \in Nat /\ job[p].max > 0
  BY <1>3, LimitPositive
<1>5. Len(Chain(k)) \in Nat /\ Linked(k) = {Chain(k)[i] : i \in 1 .. Len(Chain(k))}
  BY <1>2, ChainTyped
<1>6. n \in 0 .. Len(Chain(k)) /\ n > 0
  BY <1>3, <1>4, <1>5, SmallerIs DEF Taken
<1>7. n \in 1 .. Len(Chain(k))
  BY <1>5, <1>6
<1>8. /\ Len(SubSeq(Chain(k), 1, n)) = n /\ Remainder(Chain(k), n) \in Nat
      /\ Elements(SubSeq(Chain(k), 1, n)) = {Chain(k)[i] : i \in 1 .. n}
  BY <1>2, <1>6, FirstOfChain
<1>9. {Chain(k)[i] : i \in 1 .. n} \subseteq Linked(k)
  <2>1. \A i \in 1 .. n : i \in 1 .. Len(Chain(k))
    BY <1>5, <1>7
  <2> QED
    BY <1>5, <2>1
<1>10. /\ Len(job[p].sources) = n /\ job[p].rest \in Nat
       /\ Elements(job[p].sources) = Among(Chain(k), 1, n)
  BY <1>3, <1>8 DEF Among
<1>11. Elements(job[p].sources) \subseteq Linked(k)
  BY <1>9, <1>10 DEF Among
<1> QED
  BY <1>1, <1>2, <1>3, <1>5, <1>7, <1>10, <1>11

\* The merged segment is written, its sources are still linked.
LEMMA MergeWriteKeeps ==
    ASSUME ~Overlap, Right, NEW p \in Procs, MergeWrite(p)
    PROVE  Right' /\ Found' = Found /\ heap' = heap
<1> PICK k : k = job[p].level
  OBVIOUS
<1> PICK n : n = Taken(p)
  OBVIOUS
<1> PICK src : src = job[p].sources
  OBVIOUS
<1>1. /\ TypeOK /\ Works(p) /\ run[p].at = "merge" /\ JobRight(p) /\ job[p] \in Jobs
      /\ memtable' = memtable /\ meta' = meta
  BY WorksAlone DEF MergeWrite, Right, JobsRight, Resting, TypeOK
<1>2. PICK b \in Allocatable :
          Store(b, DocsOn(Elements(src))) /\ With(p, [job[p] EXCEPT !.new = b])
  BY DEF MergeWrite
<1>3. /\ pages' \in Seq(Segments) /\ free' = free \ {b} /\ b \in Nat \ {None}
      /\ 1 .. Len(pages') = (1 .. Len(pages)) \cup {b}
      /\ b \notin AllLinked /\ b \notin Held
      /\ \A c : c # b => SegmentAt(c)' = SegmentAt(c) /\ DocsAt(c)' = DocsAt(c)
      /\ DocsAt(b)' = DocsOn(Elements(src))
  BY <1>1, <1>2, StoreIs, SegmentTyped
<1>4. /\ ChainsSound' /\ AllLinked' = AllLinked
      /\ DocsOn(AllLinked)' = DocsOn(AllLinked)
      /\ \A l : Bounded(l)' <=> Bounded(l)
      /\ \A l \in Levels : Chain(l)' = Chain(l)
  BY <1>1, <1>2, StoreKeepsChains, SegmentTyped
<1>5. [job[p] EXCEPT !.new = b] \in Jobs
  BY <1>1, <1>3 DEF Jobs
<1>6. /\ run'[p] = [task |-> run[p].task, at |-> "swap"] /\ job'[p] = [job[p] EXCEPT !.new = b]
      /\ \A q \in Procs \ {p} : run'[q] = run[q] /\ job'[q] = job[q]
      /\ run' \in [Procs -> Runs] /\ job' \in [Procs -> Jobs]
  BY <1>1, <1>2, <1>5, Steps1, Works1 DEF MergeWrite, Steps
<1>7. /\ job'[p].new = b /\ job'[p].max = job[p].max /\ job'[p].level = k
      /\ job'[p].sources = src /\ job'[p].rest = job[p].rest /\ job'[p].total = job[p].total
      /\ run'[p].at = "swap" /\ run'[p].task = run[p].task
  BY <1>1, <1>6 DEF Jobs
<1>8. TypeOK'
  BY <1>1, <1>3, <1>6 DEF MergeWrite, TypeOK
<1>9. k \in Levels /\ k < Top /\ Elements(src) \subseteq AllLinked
  <2>1. k \in Levels /\ k < Top /\ Elements(src) \subseteq Linked(k)
    BY <1>1, SourcesAre
  <2> QED
    BY <2>1 DEF AllLinked
<1>10. JobRight(p)'
  <2>1. DocsOn(Elements(src))' = DocsOn(Elements(src))
    BY <1>3, <1>9 DEF DocsOn
  <2>2. Taken(p)' = Taken(p) /\ Chain(k)' = Chain(k)
    BY <1>4, <1>7, <1>9 DEF Taken
  <2> QED
    BY <1>1, <1>3, <1>7, <1>9, <2>1, <2>2 DEF JobRight, MergeSteps
<1>11. Works(p)' /\ JobsRight'
  BY <1>1, <1>6, <1>10, StillAlone
<1>12. Held = {} /\ Held' = {b}
  <2>1. InHand(p) = {}
    BY <1>1 DEF JobRight, InHand
  <2>2. InHand(p)' = {b}
    BY <1>3, <1>7 DEF InHand
  <2> QED
    BY <1>1, <1>11, <2>1, <2>2 DEF Works
<1>13. BlocksPlaced'
  BY <1>3, <1>4, <1>12 DEF Right, BlocksPlaced
<1>14. Spilled = {} /\ Spilled' = {}
  BY <1>1, <1>7, <1>11 DEF Works
<1>15. Found' = Found
  BY <1>1, <1>4, <1>14 DEF Found
<1>16. DocsRight'
  <2>1. \A c \in AllLinked : DocsAt(c)' = DocsAt(c)
    BY <1>3
  <2>2. NoDocTwice'
    BY <1>1, <1>4, <1>14, <2>1, DocsApart, DocsApartThen DEF Right, DocsRight
  <2> QED
    BY <1>4, <1>15, <2>1, <2>2 DEF Right, DocsRight, MergeWrite
<1>17. LongExcused'
  <2>1. Excused(p)' = Excused(p)
    BY <1>1, <1>7 DEF Excused, MergeSteps
  <2> QED
    BY <1>1, <1>4, <1>11, <2>1, StillExcused
<1>18. VacuumRight'
  BY <1>1, <1>6, VacuumElsewhere DEF MergeWrite
<1> QED
  BY <1>4, <1>8, <1>11, <1>13, <1>15, <1>16, <1>17, <1>18 DEF Right, Works, MergeWrite

\* No chain is longer than there are documents: its segments hold different ones.
LEMMA ChainShort ==
    ASSUME Right, NEW l \in Levels
    PROVE  Len(Chain(l)) <= MaxDocs
<1> PICK s : s = Chain(l)
  OBVIOUS
<1> DEFINE first == [i \in 1 .. Len(s) |-> CHOOSE d \in Docs : d \in DocsAt(s[i])]
<1>1. /\ Len(s) \in Nat /\ \A i \in 1 .. Len(s) : s[i] \in AllLinked
      /\ \A i, j \in 1 .. Len(s) : s[i] = s[j] => i = j
  <2>1. Sound(meta.heads[l], s, pages) /\ Len(s) \in Nat /\ Linked(l) = {s[i] : i \in 1 .. Len(s)}
    BY ChainTyped
  <2> QED
    BY <2>1 DEF Sound, AllLinked
<1>2. /\ \A a, b \in AllLinked : a # b => DocsAt(a) \cap DocsAt(b) = {}
      /\ \A b \in AllLinked : DocsAt(b) # {} /\ DocsAt(b) \in SUBSET Docs
  BY DocsApart, SegmentTyped DEF Right, DocsRight
<1>3. \A i \in 1 .. Len(s) : first[i] \in Docs /\ first[i] \in DocsAt(s[i])
  BY <1>1, <1>2
<1> HIDE DEF first
<1>4. first \in [1 .. Len(s) -> Docs]
  <2>1. first = [i \in 1 .. Len(s) |-> first[i]]
    BY DEF first
  <2> QED
    BY <1>3, <2>1
<1>5. \A i, j \in 1 .. Len(s) : first[i] = first[j] => i = j
  BY <1>1, <1>2, <1>3
<1>6. first \in Injection(1 .. Len(s), Docs)
  BY <1>4, <1>5 DEF Injection, IsInjective
<1>7. /\ IsFiniteSet(Docs) /\ Cardinality(Docs) = MaxDocs
      /\ Cardinality(1 .. Len(s)) = Len(s)
  BY <1>1, CountNumbers, LevelsAssumption DEF Docs
<1>8. Cardinality(1 .. Len(s)) <= Cardinality(Docs)
  BY <1>6, <1>7, FS_Injection
<1> QED
  BY <1>7, <1>8

\* The metapage with another head and another count for level k.
SetLevel(m, k, rest, left) == [m EXCEPT !.heads[k] = rest, !.counts[k] = left]

LevelSet(m, m2, k, rest, left) ==
    /\ m2 \in Metas /\ m2.heads[k] = rest /\ m2.counts[k] = left
    /\ \A l \in Levels \ {k} : m2.heads[l] = m.heads[l] /\ m2.counts[l] = m.counts[l]

LEMMA SetLevelIs ==
    ASSUME NEW m \in Metas, NEW k \in Levels, NEW rest \in Nat, NEW left \in Nat
    PROVE  LevelSet(m, SetLevel(m, k, rest, left), k, rest, left)
<1>0. PICK m2 : m2 = SetLevel(m, k, rest, left)
  OBVIOUS
<1>1. m.heads \in [Levels -> Nat] /\ m.counts \in [Levels -> Nat] /\ m.docs \in Nat
  BY DEF Metas
<1>2. m2 = [heads |-> [m.heads EXCEPT ![k] = rest], counts |-> [m.counts EXCEPT ![k] = left],
            docs |-> m.docs]
  BY <1>0 DEF SetLevel, Metas
<1>3. m2.heads = [m.heads EXCEPT ![k] = rest] /\ m2.counts = [m.counts EXCEPT ![k] = left]
  BY <1>2
<1>4. m2.heads \in [Levels -> Nat] /\ m2.counts \in [Levels -> Nat]
  BY <1>1, <1>3
<1>5. m2 \in Metas
  BY <1>1, <1>2, <1>3, <1>4 DEF Metas
<1>6. LevelSet(m, m2, k, rest, left)
  BY <1>1, <1>3, <1>5 DEF LevelSet
<1> QED
  BY <1>0, <1>6

\* Metapage m2 is m after a merge of level k into level u.
Swapped(m, m2, k, u, b, rest, left) ==
    /\ m2 \in Metas
    /\ m2.heads[k] = rest /\ m2.heads[u] = b
    /\ m2.counts[k] = left /\ m2.counts[u] = m.counts[u] + 1
    /\ \A l \in Levels \ {k, u} : m2.heads[l] = m.heads[l] /\ m2.counts[l] = m.counts[l]

LEMMA SwappedIs ==
    ASSUME NEW m \in Metas, NEW k \in Levels, NEW u \in Levels, u # k, NEW b \in Nat,
           NEW rest \in Nat, NEW left \in Nat, m.counts[u] < 65535
    PROVE  Swapped(m, Pushed(SetLevel(m, k, rest, left), u, b), k, u, b, rest, left)
<1>1. PICK r : r = SetLevel(m, k, rest, left)
  OBVIOUS
<1>2. PICK m2 : m2 = Pushed(r, u, b)
  OBVIOUS
<1>3. LevelSet(m, r, k, rest, left)
  BY <1>1, SetLevelIs
<1>4. r \in Metas
  BY <1>3 DEF LevelSet
<1>5. PushedTo(r, m2, u, b)
  <2>1. r.counts[u] < 65535
    BY <1>3 DEF LevelSet
  <2> QED
    BY <1>2, <1>4, <2>1, PushedIs
<1>6. Swapped(m, m2, k, u, b, rest, left)
  BY <1>3, <1>5 DEF LevelSet, PushedTo, Swapped
<1> QED
  BY <1>1, <1>2, <1>6

\* The merged segment has taken the place of its sources, which are nobody's yet.
LEMMA MergeSwapKeeps ==
    ASSUME ~Overlap, Right, FewSegments, NEW p \in Procs, MergeSwap(p)
    PROVE  Right' /\ Found' = Found /\ heap' = heap
<1> PICK k : k = job[p].level
  OBVIOUS
<1> PICK n : n = Taken(p)
  OBVIOUS
<1> PICK src : src = Elements(job[p].sources)
  OBVIOUS
<1> PICK b : b = job[p].new
  OBVIOUS
<1> PICK s : s = Chain(k)
  OBVIOUS
<1> PICK cut : cut = Behind(s, n)
  OBVIOUS
<1> PICK up : up = Front(b, Chain(k + 1))
  OBVIOUS
<1> DEFINE ch == [l \in Levels |-> IF l = k THEN cut
                                   ELSE IF l = k + 1 THEN up ELSE Chain(l)]
<1>1. /\ TypeOK /\ Works(p) /\ run[p].at = "swap" /\ JobRight(p) /\ job[p] \in Jobs
      /\ memtable' = memtable /\ free' = free
      /\ pages \in Seq(Segments) /\ meta \in Metas
  BY WorksAlone DEF MergeSwap, Right, JobsRight, Resting, TypeOK, Metas
<1>2. /\ k \in Levels /\ k + 1 \in Levels /\ k < Top /\ k # k + 1
      /\ Len(s) \in Nat /\ n \in 1 .. Len(s) /\ n \in 0 .. Len(s)
      /\ Len(job[p].sources) = n /\ src = Among(s, 1, n) /\ src \subseteq Linked(k)
      /\ job[p].rest = Remainder(s, n) /\ job[p].rest \in Nat /\ job[p].total = Len(s)
      /\ run[p].task = "force" => job[p].max = All
  <2>1. /\ k \in Levels /\ k + 1 \in Levels /\ k < Top
        /\ Len(s) \in Nat /\ n \in 1 .. Len(s)
        /\ Len(job[p].sources) = n /\ src = Among(s, 1, n) /\ src \subseteq Linked(k)
        /\ job[p].rest = Remainder(s, n) /\ job[p].rest \in Nat /\ job[p].total = Len(s)
        /\ run[p].task = "force" => job[p].max = All
    <3>1. /\ k \in Levels /\ k + 1 \in Levels /\ k < Top
          /\ Len(Chain(k)) \in Nat /\ n \in 1 .. Len(Chain(k)) /\ Len(job[p].sources) = n
          /\ Elements(job[p].sources) = Among(Chain(k), 1, n)
          /\ Elements(job[p].sources) \subseteq Linked(k)
          /\ job[p].rest = Remainder(Chain(k), n) /\ job[p].rest \in Nat
          /\ job[p].total = Len(Chain(k))
          /\ IF run[p].task = "force" THEN job[p].max = All ELSE job[p].max \in Fanouts
      BY <1>1, SourcesAre
    <3> QED
      BY <3>1
  <2>2. k # k + 1 /\ n \in 0 .. Len(s)
    BY <2>1 DEF Levels
  <2> QED
    BY <2>1, <2>2
<1>3. b \in Nat /\ b # None /\ DocsAt(b) = DocsOn(src) /\ Held = {b} /\ Spilled = {}
  <2>1. b # None /\ DocsAt(b) = DocsOn(src)
    BY <1>1 DEF JobRight, MergeSteps
  <2>2. InHand(p) = {b}
    BY <1>1, <2>1 DEF InHand
  <2> QED
    BY <1>1, <2>1, <2>2 DEF Works, Jobs
<1>4. b \in 1 .. Len(pages) /\ b \notin AllLinked /\ b \notin free
  BY <1>3 DEF Right, BlocksPlaced
<1>5. /\ pages' = [pages EXCEPT ![b].next = meta.heads[k + 1]] /\ meta.heads[k + 1] \in Nat
      /\ meta' = Pushed(SetLevel(meta, k, job[p].rest, LeftOver(job[p])), k + 1, b)
      /\ Goto(p, "free") /\ With(p, [job[p] EXCEPT !.new = None])
  BY <1>1, <1>2 DEF MergeSwap, Metas, SetLevel
<1>6. /\ pages' \in Seq(Segments) /\ Len(pages') = Len(pages)
      /\ pages'[b].next = meta.heads[k + 1]
      /\ \A c \in 1 .. Len(pages) : c # b => pages'[c] = pages[c]
      /\ \A c \in 1 .. Len(pages) : pages'[c].docs = pages[c].docs
  <2>1. Relinked(pages, pages', b, meta.heads[k + 1])
    BY <1>1, <1>4, <1>5, RelinkIs
  <2> QED
    BY <2>1 DEF Relinked
<1>7. (\A c : DocsAt(c)' = DocsAt(c)) /\ (\A bs : DocsOn(bs)' = DocsOn(bs))
  BY <1>1, <1>6, SameDocs
<1>8. /\ meta' \in Metas
      /\ meta'.heads[k] = Remainder(s, n) /\ meta'.heads[k + 1] = b
      /\ meta'.counts[k] = Len(s) - n /\ meta'.counts[k + 1] = meta.counts[k + 1] + 1
      /\ \A l \in Levels \ {k, k + 1} : /\ meta'.heads[l] = meta.heads[l]
                                        /\ meta'.counts[l] = meta.counts[l]
  <2>1. LeftOver(job[p]) = Len(s) - n /\ Len(s) - n \in Nat
    BY <1>2 DEF LeftOver
  <2>2. Swapped(meta, meta', k, k + 1, b, job[p].rest, LeftOver(job[p]))
    <3>1. /\ meta \in Metas /\ k \in Levels /\ k + 1 \in Levels /\ k # k + 1 /\ b \in Nat
          /\ job[p].rest \in Nat /\ LeftOver(job[p]) \in Nat /\ meta.counts[k + 1] < 65535
          /\ meta' = Pushed(SetLevel(meta, k, job[p].rest, LeftOver(job[p])), k + 1, b)
      BY <1>1, <1>2, <1>3, <1>5, <2>1 DEF FewSegments
    <3> QED
      BY <3>1, SwappedIs
  <2> QED
    BY <1>2, <2>1, <2>2 DEF Swapped
<1>9. ASSUME NEW l \in Levels
      PROVE  /\ Sound(meta.heads[l], Chain(l), pages) /\ meta.counts[l] = Len(Chain(l))
             /\ \A i \in 1 .. Len(Chain(l)) : Chain(l)[i] \in Linked(l)
             /\ b \notin Elements(Chain(l)) /\ Elements(Chain(l)) = Linked(l)
             /\ Keeps(Chain(l), pages, pages')
             /\ Sound(meta.heads[l], Chain(l), pages')
  <2>1. /\ Sound(meta.heads[l], Chain(l), pages) /\ meta.counts[l] = Len(Chain(l))
        /\ \A i \in 1 .. Len(Chain(l)) :
              Chain(l)[i] \in Linked(l) /\ Chain(l)[i] \in 1 .. Len(pages)
    BY ChainTyped
  <2>2. b \notin Elements(Chain(l)) /\ Elements(Chain(l)) = Linked(l)
    BY <1>4 DEF AllLinked, Linked
  <2>3. Keeps(Chain(l), pages, pages')
    BY <1>6, <2>1, <2>2 DEF Keeps
  <2>4. Sound(meta.heads[l], Chain(l), pages')
    <3>1. Elements(Chain(l)) \subseteq 1 .. Len(pages')
      BY <1>6, LinkedPlaced DEF Linked
    <3> QED
      BY <1>1, <1>6, <2>1, <2>3, <3>1, SoundKept
  <2> QED
    BY <2>1, <2>2, <2>3, <2>4
<1>10. /\ Sound(Remainder(s, n), cut, pages') /\ Len(cut) = Len(s) - n
       /\ Elements(cut) = Among(s, n + 1, Len(s))
  <2>1. Sound(meta.heads[k], s, pages')
    BY <1>2, <1>9
  <2> QED
    BY <1>2, <1>6, <2>1, SoundCut
<1>11. /\ Sound(b, up, pages') /\ Len(up) = Len(Chain(k + 1)) + 1
       /\ Elements(up) = Linked(k + 1) \cup {b}
  <2> PICK t : t = Chain(k + 1)
    OBVIOUS
  <2> PICK h : h = meta.heads[k + 1]
    OBVIOUS
  <2> PICK ps : ps = pages
    OBVIOUS
  <2>1. /\ Sound(h, t, ps) /\ b \notin Elements(t) /\ Elements(t) = Linked(k + 1)
        /\ Keeps(t, ps, pages') /\ ps \in Seq(Segments) /\ b \in 1 .. Len(ps)
        /\ pages' \in Seq(Segments) /\ Len(pages') = Len(ps) /\ pages'[b].next = h
    BY <1>1, <1>2, <1>4, <1>6, <1>9
  <2>2. /\ Sound(b, Front(b, t), pages') /\ Len(Front(b, t)) = Len(t) + 1
        /\ Elements(Front(b, t)) = Elements(t) \cup {b}
    BY <2>1, SoundPushed
  <2> QED
    BY <2>1, <2>2
<1>12. src \cap Elements(cut) = {} /\ src \cup Elements(cut) = Linked(k)
  <2>1. Sound(meta.heads[k], s, pages) /\ Elements(s) = Linked(k)
    BY <1>2, <1>9
  <2>2. /\ Among(s, 1, n) \cap Among(s, n + 1, Len(s)) = {}
        /\ Among(s, 1, n) \cup Among(s, n + 1, Len(s)) = Elements(s)
    BY <1>1, <1>2, <2>1, Apart
  <2> QED
    BY <1>2, <1>10, <2>1, <2>2
<1>13. ASSUME NEW l \in Levels
       PROVE  /\ Sound(meta'.heads[l], ch[l], pages') /\ meta'.counts[l] = Len(ch[l])
              /\ Elements(ch[l]) = IF l = k THEN Linked(k) \ src
                                   ELSE IF l = k + 1 THEN Linked(k + 1) \cup {b} ELSE Linked(l)
  <2>1. CASE l = k
    <3>1. ch[l] = cut /\ Elements(cut) = Linked(k) \ src
      BY <1>12, <2>1
    <3> QED
      BY <1>8, <1>10, <2>1, <3>1
  <2>2. CASE l = k + 1
    <3>1. ch[l] = up
      BY <1>2, <2>2
    <3> HIDE DEF ch
    <3> QED
      BY <1>2, <1>8, <1>9, <1>11, <2>2, <3>1
  <2>3. CASE l \notin {k, k + 1}
    <3>1. ch[l] = Chain(l)
      BY <2>3
    <3> HIDE DEF ch
    <3> QED
      BY <1>8, <1>9, <2>3, <3>1
  <2> QED
    BY <2>1, <2>2, <2>3
<1> HIDE DEF ch
<1>14. \A l, m \in Levels : l # m => Elements(ch[l]) \cap Elements(ch[m]) = {}
  <2>1. \A l \in Levels : b \notin Linked(l)
    BY <1>4 DEF AllLinked
  <2>2. \A l, m \in Levels : l # m => Linked(l) \cap Linked(m) = {}
    BY DEF Right, ChainsSound
  <2>3. \A l \in Levels : Elements(ch[l]) \subseteq Linked(l) \cup (IF l = k + 1 THEN {b} ELSE {})
    BY <1>13
  <2> QED
    BY <2>1, <2>2, <2>3
<1>15. ChainsSound' /\ AllLinked' = (AllLinked \ src) \cup {b}
  <2>1. ChainsSound' /\ AllLinked' = UNION {Elements(ch[l]) : l \in Levels}
    <3>1. \A l \in Levels : Sound(meta'.heads[l], ch[l], pages') /\ meta'.counts[l] = Len(ch[l])
      BY <1>13
    <3> QED
      BY <1>6, <1>14, <3>1, NewChains
  <2>2. \A l \in Levels : l # k => Linked(l) \cap src = {}
    BY <1>2 DEF Right, ChainsSound
  <2>3. ASSUME NEW c
        PROVE  (\E l \in Levels : c \in Elements(ch[l]))
                    <=> ((\E l \in Levels : c \in Linked(l)) /\ c \notin src) \/ c = b
    <3>1. ASSUME NEW l \in Levels, c \in Elements(ch[l])
          PROVE  (c \in Linked(l) /\ c \notin src) \/ c = b
      <4>1. CASE l = k
        BY <1>13, <3>1, <4>1
      <4>2. CASE l # k
        BY <1>13, <2>2, <3>1, <4>2
      <4> QED
        BY <4>1, <4>2
    <3>2. ASSUME NEW l \in Levels, c \in Linked(l), c \notin src
          PROVE  c \in Elements(ch[l])
      BY <1>13, <3>2
    <3>3. b \in Elements(ch[k + 1])
      BY <1>2, <1>13
    <3> QED
      BY <1>2, <3>1, <3>2, <3>3
  <2>4. UNION {Elements(ch[l]) : l \in Levels} = (AllLinked \ src) \cup {b}
    BY <2>3 DEF AllLinked
  <2> QED
    BY <2>1, <2>4
<1>16. [job[p] EXCEPT !.new = None] \in Jobs
  BY <1>1 DEF Jobs, None
<1>17. /\ run'[p] = [task |-> run[p].task, at |-> "free"]
       /\ job'[p] = [job[p] EXCEPT !.new = None]
       /\ \A q \in Procs \ {p} : run'[q] = run[q] /\ job'[q] = job[q]
       /\ run' \in [Procs -> Runs] /\ job' \in [Procs -> Jobs]
  BY <1>1, <1>5, <1>16, Steps1, Works1 DEF Steps
<1>18. /\ job'[p].new = None /\ job'[p].max = job[p].max /\ job'[p].level = k
       /\ job'[p].sources = job[p].sources
       /\ run'[p].at = "free" /\ run'[p].task = run[p].task
  BY <1>1, <1>17 DEF Jobs
<1>19. TypeOK'
  <2>1. UNCHANGED <<heap, memtable, lock, free, vac>>
    BY DEF MergeSwap
  <2> QED
    BY <1>1, <1>6, <1>8, <1>17, <2>1 DEF TypeOK, Metas
<1>20. JobRight(p)'
  <2>1. run[p].task = "force" => meta'.counts[k] = 0
    <3>1. SUFFICES ASSUME run[p].task = "force" PROVE n = Len(s)
      BY <1>2, <1>8
    <3>2. Len(s) <= MaxDocs /\ job[p].max = MaxDocs + 1 /\ MaxDocs \in Nat
      BY <1>2, <3>1, ChainShort, LevelsAssumption DEF All
    <3>3. n = Smaller(Len(s), job[p].max) /\ Len(s) <= job[p].max /\ job[p].max \in Nat
      BY <1>2, <3>2 DEF Taken
    <3> QED
      BY <1>2, <3>3, SmallerIs
  <2> QED
    BY <1>1, <1>2, <1>18, <2>1 DEF JobRight, MergeSteps
<1>21. Works(p)' /\ JobsRight'
  BY <1>1, <1>17, <1>20, StillAlone
<1>22. Held' = src /\ Spilled' = {}
  <2>1. InHand(p)' = src
    BY <1>18 DEF InHand, Elements
  <2> QED
    BY <1>18, <1>21, <2>1 DEF Works
<1>23. src \subseteq AllLinked
  BY <1>2 DEF AllLinked
<1>24. BlocksPlaced'
  BY <1>1, <1>3, <1>4, <1>6, <1>15, <1>22, <1>23 DEF Right, BlocksPlaced
<1>25. DocsOn(AllLinked)' = DocsOn(AllLinked)
  <2>1. DocsOn(AllLinked)' = DocsOn((AllLinked \ src) \cup {b})
    BY <1>7, <1>15
  <2>2. DocsOn((AllLinked \ src) \cup {b}) = DocsOn(AllLinked \ src) \cup DocsAt(b)
    BY DEF DocsOn, DocsAt
  <2>3. DocsOn(AllLinked \ src) \cup DocsOn(src) = DocsOn(AllLinked)
    BY <1>23 DEF DocsOn
  <2> QED
    BY <1>3, <2>1, <2>2, <2>3
<1>26. Found' = Found
  BY <1>1, <1>3, <1>22, <1>25 DEF Found
<1>27. DocsRight'
  <2>1. /\ \A c, d \in AllLinked : c # d => DocsAt(c) \cap DocsAt(d) = {}
        /\ memtable \cap (Spilled \cup DocsOn(AllLinked)) = {}
        /\ \A c \in AllLinked : DocsAt(c) # {}
    BY DocsApart DEF Right, DocsRight
  <2>2. \A c \in AllLinked \ src : DocsAt(c) \cap DocsAt(b) = {}
    <3>1. \A c \in AllLinked \ src, d \in src : DocsAt(c) \cap DocsAt(d) = {}
      BY <1>23, <2>1
    <3> QED
      BY <1>3, <3>1, DocsApart
  <2>3. DocsAt(b) # {}
    <3>1. s[1] \in src /\ s[1] \in AllLinked
      BY <1>2, <1>23 DEF Among
    <3>2. DocsAt(s[1]) \subseteq DocsOn(src) /\ DocsAt(s[1]) # {}
      BY <2>1, <3>1, DocsApart
    <3> QED
      BY <1>3, <3>2
  <2>4. NoDocTwice'
    <3>1. \A c, d \in AllLinked' : c # d => DocsAt(c) \cap DocsAt(d) = {}
      BY <1>15, <2>1, <2>2
    <3> QED
      BY <1>1, <1>3, <1>7, <1>22, <1>25, <2>1, <3>1, DocsApartThen
  <2> QED
    BY <1>7, <1>15, <1>26, <2>1, <2>3, <2>4 DEF Right, DocsRight, MergeSwap
<1>28. LongExcused'
  <2>1. \A l \in Levels \ {k, k + 1} : Bounded(l)' <=> Bounded(l)
    BY <1>8 DEF Bounded
  <2>2. Excused(p) = {k, k + 1} /\ Excused(p)' = {k, k + 1}
    BY <1>1, <1>18 DEF Excused, MergeSteps
  <2> QED
    BY <1>1, <1>21, <2>1, <2>2, StillExcused
<1>29. VacuumRight'
  BY <1>1, <1>17, VacuumElsewhere DEF MergeSwap
<1> QED
  BY <1>15, <1>19, <1>21, <1>24, <1>26, <1>27, <1>28, <1>29 DEF Right, Works, MergeSwap

\* The sources of a merge are free.
LEMMA MergeFreeKeeps ==
    ASSUME ~Overlap, Right, IInv, NEW p \in Procs, MergeFree(p)
    PROVE  Right' /\ Found' = Found /\ heap' = heap
<1> PICK k : k = job[p].level
  OBVIOUS
<1> PICK src : src = Elements(job[p].sources)
  OBVIOUS
<1> PICK m : m = job[p].max
  OBVIOUS
<1> PICK forced : forced = (run[p].task = "force")
  OBVIOUS
<1> DEFINE step == IF forced THEN "force" ELSE "recheck"
           next == IF forced THEN Job(k + 1, m) ELSE Job(k, m)
<1>1. /\ TypeOK /\ Works(p) /\ run[p].at = "free" /\ JobRight(p) /\ job[p] \in Jobs
      /\ k \in Nat /\ m \in Nat /\ forced \in BOOLEAN
  BY WorksAlone DEF MergeFree, Right, JobsRight, Resting, TypeOK, Jobs
<1>2. /\ free' = free \cup src /\ pages' = pages /\ meta' = meta /\ memtable' = memtable
      /\ heap' = heap /\ vac' = vac /\ lock' = lock
      /\ Goto(p, step) /\ With(p, next)
  BY DEF MergeFree
<1>3. /\ k < Top /\ k \in Levels /\ k + 1 \in Levels /\ k + 1 <= Top /\ job[p].new = None
      /\ IF forced THEN m = All ELSE m \in Fanouts
      /\ forced => meta.counts[k] = 0
  <2>1. /\ k < Top /\ job[p].new = None
        /\ IF forced THEN m = All ELSE m \in Fanouts
        /\ forced => meta.counts[k] = 0
    BY <1>1 DEF JobRight, MergeSteps
  <2>2. k \in Levels /\ k + 1 \in Levels /\ k + 1 <= Top
    BY <1>1, <2>1, JobLevels DEF Levels, Top
  <2> QED
    BY <2>1, <2>2
<1>4. Held = src /\ Spilled = {}
  <2>1. InHand(p) = src
    BY <1>1, <1>3 DEF InHand
  <2> QED
    BY <1>1, <2>1 DEF Works
<1>5. /\ ChainsSound' /\ AllLinked' = AllLinked
      /\ DocsOn(AllLinked)' = DocsOn(AllLinked)
      /\ \A l : Bounded(l)' <=> Bounded(l)
  <2>1. pages' \in Seq(Segments) /\ \A b \in AllLinked : b \in 1 .. Len(pages') /\ pages'[b] = pages[b]
    BY <1>1, <1>2 DEF TypeOK, Right, BlocksPlaced
  <2> QED
    BY <1>2, <2>1, SameChains
<1>6. next \in Jobs /\ step \in Steps
  BY <1>1, <1>3 DEF Jobs, Job, None, Steps
<1>7. /\ next.new = None /\ next.max = m /\ next.level = IF forced THEN k + 1 ELSE k
  BY DEF Job
<1> HIDE DEF next, step
<1>8. /\ run'[p] = [task |-> run[p].task, at |-> step] /\ job'[p] = next
      /\ \A q \in Procs \ {p} : run'[q] = run[q] /\ job'[q] = job[q]
      /\ run' \in [Procs -> Runs] /\ job' \in [Procs -> Jobs]
  BY <1>1, <1>2, <1>6, Steps1, Works1
<1>9. /\ job'[p].new = None /\ job'[p].max = m
      /\ job'[p].level = IF forced THEN k + 1 ELSE k
      /\ run'[p].at = (IF forced THEN "force" ELSE "recheck")
      /\ run'[p].task = run[p].task
  BY <1>7, <1>8 DEF step
<1>10. src \subseteq 1 .. Len(pages)
  BY <1>4 DEF Right, BlocksPlaced
<1>11. TypeOK'
  BY <1>1, <1>2, <1>8, <1>10 DEF TypeOK
<1>12. JobRight(p)'
  BY <1>1, <1>3, <1>9 DEF JobRight, MergeSteps
<1>13. Works(p)' /\ JobsRight'
  BY <1>1, <1>8, <1>12, StillAlone
<1>14. Held' = {} /\ Spilled' = {}
  <2>1. InHand(p)' = {}
    BY <1>9 DEF InHand
  <2> QED
    BY <1>9, <1>13, <2>1 DEF Works
<1>15. BlocksPlaced'
  BY <1>2, <1>4, <1>5, <1>14 DEF Right, BlocksPlaced
<1>16. Found' = Found
  BY <1>2, <1>4, <1>5, <1>14 DEF Found
<1>17. DocsRight'
  <2>1. \A c : DocsAt(c)' = DocsAt(c)
    BY <1>2 DEF DocsAt, SegmentAt
  <2>2. NoDocTwice'
    BY <1>2, <1>4, <1>5, <1>14, <2>1, DocsApart, DocsApartThen DEF Right, DocsRight
  <2> QED
    BY <1>2, <1>5, <1>16, <2>1, <2>2 DEF Right, DocsRight
<1>18. LongExcused'
  <2>1. Excused(p) = {k, k + 1}
    BY <1>1 DEF Excused, MergeSteps
  <2>2. Excused(p)' = IF forced THEN {k + 1} ELSE {k, k + 1}
    BY <1>9 DEF Excused, MergeSteps
  <2>3. forced => Bounded(k)
    <3>1. PICK f \in Fanouts : f \in Nat /\ 0 < f
      <4>1. \A f \in Nat \ {0, 1} : f \in Nat /\ 0 < f
        OBVIOUS
      <4>2. PICK f : f \in Fanouts
        BY LevelsAssumption
      <4> QED
        BY <4>1, <4>2, LevelsAssumption
    <3> QED
      BY <1>3, <3>1 DEF Bounded
  <2> QED
    BY <1>1, <1>5, <1>13, <2>1, <2>2, <2>3, StillExcused
<1>19. VacuumRight'
  <2>1. p = Vacuum => run'[p].at \notin {"sweep", "replace", "finish", "idle"}
    BY <1>9
  <2> QED
    BY <1>1, <1>2, <1>8, <2>1, VacuumElsewhere
<1> QED
  BY <1>2, <1>5, <1>11, <1>13, <1>15, <1>16, <1>17, <1>18, <1>19 DEF Right, Works

-----------------------------------------------------------------------------
(* The truncation. *)

\* The last block worth keeping: no linked one comes after it.
LEMMA LastUsedIs ==
    ASSUME Right
    PROVE  /\ LastUsed \in 0 .. Len(pages)
           /\ \A b \in AllLinked : b \in 1 .. LastUsed
<1>1. AllLinked \subseteq 1 .. Len(pages) /\ Len(pages) \in Nat
  BY LenProperties DEF Right, TypeOK, BlocksPlaced
<1>2. CASE AllLinked = {}
  BY <1>1, <1>2 DEF LastUsed
<1>3. CASE AllLinked # {}
  <2> DEFINE T == {Len(pages) - c : c \in AllLinked}
  <2>1. T \subseteq Nat /\ T # {}
    BY <1>1, <1>3
  <2>2. PICK t \in T : \A u \in T : t <= u
    <3> HIDE DEF T
    <3> QED
      BY <2>1, LeastNumber
  <2>3. PICK b \in AllLinked : t = Len(pages) - b
    OBVIOUS
  <2>4. \A c \in AllLinked : c <= b
    <3> TAKE c \in AllLinked
    <3>1. Len(pages) - b <= Len(pages) - c
      BY <2>2, <2>3
    <3>2. b \in Nat /\ c \in Nat
      BY <1>1
    <3> QED
      BY <1>1, <3>1, <3>2
  <2>5. PICK u : u = LastUsed
    OBVIOUS
  <2>6. u \in AllLinked /\ \A c \in AllLinked : c <= u
    <3>1. u = CHOOSE d \in AllLinked : \A c \in AllLinked : c <= d
      BY <1>3, <2>5 DEF LastUsed
    <3> QED
      BY <2>4, <3>1
  <2>7. u \in 0 .. Len(pages) /\ \A c \in AllLinked : c \in 1 .. u
    BY <1>1, <2>6
  <2> QED
    BY <2>5, <2>7
<1> QED
  BY <1>2, <1>3

\* The blocks behind the last one in use are gone, from the free space map too.
LEMMA TruncateKeeps ==
    ASSUME ~Overlap, Right, NEW p \in Backends, Truncate(p)
    PROVE  Right' /\ Found' = Found /\ heap' = heap
<1> p \in Procs /\ p # Vacuum
  BY ProcessesAssumption DEF Procs
<1> PICK n : n = LastUsed
  OBVIOUS
<1>1. /\ TypeOK /\ Works(p) /\ run[p].at = "truncate" /\ JobRight(p)
      /\ pages \in Seq(Segments) /\ Len(pages) \in Nat
  BY WorksAlone, LenProperties DEF Truncate, Right, JobsRight, Resting, TypeOK
<1>2. n \in 0 .. Len(pages) /\ \A b \in AllLinked : b \in 1 .. n
  BY LastUsedIs
<1>3. /\ free' = {b \in free : b <= n} /\ pages' = SubSeq(pages, 1, n)
      /\ meta' = meta /\ memtable' = memtable /\ heap' = heap /\ vac' = vac /\ lock' = lock
      /\ Begin(p, "none", "idle") /\ With(p, NoJob)
  <2>1. Smaller(n, Len(pages)) = n
    BY <1>1, <1>2 DEF Smaller
  <2> QED
    BY <2>1 DEF Truncate, FreeBefore
<1>4. /\ pages' \in Seq(Segments) /\ Len(pages') = n
      /\ \A b \in 1 .. n : pages'[b] = pages[b]
  <2>1. 1 \in Int /\ n \in Int /\ \A i \in 1 .. n : pages[i] \in Segments
    <3>1. \A i \in 1 .. n : i \in 1 .. Len(pages)
      BY <1>1, <1>2
    <3> QED
      BY <1>1, <1>2, <3>1, ElementOfSeq
  <2>2. PICK s : s = SubSeq(pages, 1, n)
    OBVIOUS
  <2>3. /\ s \in Seq(Segments) /\ Len(s) = (IF 1 <= n THEN n - 1 + 1 ELSE 0)
        /\ \A i \in 1 .. n - 1 + 1 : s[i] = pages[1 + i - 1]
    BY <2>1, <2>2, SubSeqProperties
  <2>4. n \in Nat /\ n - 1 + 1 = n /\ (~ (1 <= n) => n = 0) /\ \A i \in 1 .. n : 1 + i - 1 = i
    BY <1>2
  <2>5. s \in Seq(Segments) /\ Len(s) = n
    BY <2>3, <2>4
  <2>6. \A i \in 1 .. n : s[i] = pages[i]
    BY <2>3, <2>4
  <2> QED
    BY <1>3, <2>2, <2>5, <2>6
<1>5. Held = {} /\ Spilled = {}
  <2>1. InHand(p) = {}
    BY <1>1 DEF InHand, JobRight
  <2> QED
    BY <1>1, <2>1 DEF Works
<1>6. /\ ChainsSound' /\ AllLinked' = AllLinked
      /\ DocsOn(AllLinked)' = DocsOn(AllLinked)
      /\ \A b \in AllLinked : DocsAt(b)' = DocsAt(b)
      /\ \A l : Bounded(l)' <=> Bounded(l)
  BY <1>2, <1>3, <1>4, SameChains
<1>7. NoJob \in Jobs /\ NoJob.new = None
  BY DEF NoJob, Job, Jobs, None
<1>8. /\ run'[p] = [task |-> "none", at |-> "idle"] /\ job'[p] = NoJob
      /\ \A q \in Procs \ {p} : run'[q] = run[q] /\ job'[q] = job[q]
      /\ run' \in [Procs -> Runs] /\ job' \in [Procs -> Jobs]
  BY <1>1, <1>3, <1>7, Begins1, Works1 DEF Tasks, Steps
<1>9. run'[p].at = "idle" /\ job'[p].new = None
  BY <1>7, <1>8
<1>10. free' \subseteq 1 .. n
  <2>1. free \subseteq 1 .. Len(pages)
    BY <1>1 DEF TypeOK
  <2>2. \A b \in 1 .. Len(pages) : b <= n => b \in 1 .. n
    BY <1>1, <1>2
  <2> QED
    BY <1>3, <2>1, <2>2
<1>11. TypeOK'
  BY <1>1, <1>3, <1>4, <1>8, <1>10 DEF TypeOK
<1>12. JobRight(p)'
  BY <1>9 DEF JobRight, MergeSteps
<1>13. Works(p)' /\ JobsRight'
  BY <1>1, <1>8, <1>12, StillAlone
<1>14. Held' = {} /\ Spilled' = {}
  <2>1. InHand(p)' = {}
    BY <1>9 DEF InHand
  <2> QED
    BY <1>9, <1>13, <2>1 DEF Works
<1>15. BlocksPlaced'
  <2>1. AllLinked \cap free = {} /\ AllLinked \cup free = 1 .. Len(pages)
    BY <1>5 DEF Right, BlocksPlaced
  <2>2. \A b \in 1 .. n : b \in 1 .. Len(pages) /\ b <= n
    BY <1>1, <1>2
  <2>3. AllLinked \cup free' = 1 .. n
    BY <1>2, <1>3, <1>10, <2>1, <2>2
  <2> QED
    BY <1>3, <1>4, <1>6, <1>14, <2>1, <2>3 DEF BlocksPlaced
<1>16. Found' = Found
  BY <1>3, <1>5, <1>6, <1>14 DEF Found
<1>17. DocsRight'
  <2>1. NoDocTwice'
    BY <1>3, <1>5, <1>6, <1>14, DocsApart, DocsApartThen DEF Right, DocsRight
  <2> QED
    BY <1>3, <1>6, <1>16, <2>1 DEF Right, DocsRight
<1>18. LongExcused'
  BY <1>1, <1>6, <1>13, StillExcused DEF Excused, MergeSteps
<1>19. VacuumRight'
  BY <1>1, <1>3, <1>8, VacuumElsewhere
<1> QED
  BY <1>3, <1>6, <1>11, <1>13, <1>15, <1>16, <1>17, <1>18, <1>19 DEF Right, Works

-----------------------------------------------------------------------------
(* Vacuum. *)

\* What vacuum knows of a level stays known as long as its chain and the
\* documents in it stay.
LEMMA LookingThere ==
    ASSUME Right, vac'.dead = vac.dead, vac'.segs = vac.segs, NEW l \in Levels,
           Chain(l)' = Chain(l), \A b \in Linked(l) : DocsAt(b)' = DocsAt(b)
    PROVE  /\ Clean(Linked(l))' <=> Clean(Linked(l))
           /\ \A i, k \in Nat : Ahead(l, i, k)' <=> Ahead(l, i, k)
           /\ \A i \in 1 .. Len(Chain(l)) : Clean({Chain(l)[i]})' <=> Clean({Chain(l)[i]})
<1>1. Linked(l)' = Linked(l) /\ Len(Chain(l)) \in Nat
  BY ChainTyped DEF Linked
<1>2. \A i \in 1 .. Len(Chain(l)) : Chain(l)[i] \in Linked(l)
  BY ChainTyped
<1>3. Clean(Linked(l))' <=> Clean(Linked(l))
  BY <1>1 DEF Clean, DocsOn, DocsAt
<1>4. ASSUME NEW i \in Nat, NEW k \in Nat PROVE Ahead(l, i, k)' <=> Ahead(l, i, k)
  <2>1. \A n \in 1 .. Len(Chain(l)) - k : DocsAt(Chain(l)[k + n])' = DocsAt(Chain(l)[k + n])
    <3> TAKE n \in 1 .. Len(Chain(l)) - k
    <3>1. k + n \in 1 .. Len(Chain(l))
      BY <1>1
    <3>2. PICK b : b = Chain(l)[k + n]
      OBVIOUS
    <3>3. DocsAt(b)' = DocsAt(b)
      BY <1>2, <3>1, <3>2
    <3> QED
      BY <3>2, <3>3
  <2> QED
    BY <2>1 DEF Ahead
<1>5. \A i \in 1 .. Len(Chain(l)) : Clean({Chain(l)[i]})' <=> Clean({Chain(l)[i]})
  BY <1>2 DEF Clean, DocsOn, DocsAt
<1> QED
  BY <1>3, <1>4, <1>5

\* A segment with dead documents is written again without them, unless it had no
\* others.  It is still linked.
LEMMA RebuildSegmentKeeps ==
    ASSUME ~Overlap, Right, RebuildSegment
    PROVE  Right' /\ Found' = Found /\ heap' = heap
<1>0. Vacuum \in Procs
  BY DEF Procs
<1> PICK l : l = vac.level
  OBVIOUS
<1> PICK root : root = Here.root
  OBVIOUS
<1> PICK docs : docs = DocsAt(root) \ vac.dead
  OBVIOUS
<1> PICK new : new = job'[Vacuum].new
  OBVIOUS
<1> PICK hand : hand = IF new = None THEN {} ELSE {new}
  OBVIOUS
<1>1. /\ TypeOK /\ Works(Vacuum) /\ run[Vacuum].at = "sweep" /\ InLevel /\ JobRight(Vacuum)
      /\ job[Vacuum] \in Jobs /\ vac \in Vacuums /\ pages \in Seq(Segments)
  BY <1>0, WorksAlone DEF RebuildSegment, Sweeping, Right, JobsRight, Resting, TypeOK
<1>2. /\ Goto(Vacuum, "replace") /\ vac' = [vac EXCEPT !.kept = @ + Cardinality(docs)]
      /\ heap' = heap /\ memtable' = memtable /\ lock' = lock /\ meta' = meta
      /\ IF docs = {} THEN UNCHANGED <<pages, free, job>>
         ELSE \E b \in Allocatable : Store(b, docs) /\ With(Vacuum, [NoJob EXCEPT !.new = b])
  BY DEF RebuildSegment, DocsAt
<1>3. PICK k \in 0 .. Len(Chain(l)) : Standing(k)
  BY <1>1 DEF Right, VacuumRight, SweepRight
<1>4. /\ l \in Levels /\ vac.i \in Nat \ {0} /\ root = Chain(l)[k + 1]
      /\ k + 1 \in 1 .. Len(Chain(l)) /\ Len(Chain(l)) \in Nat /\ k \in Nat
  BY <1>1, <1>3, HereIs, ChainTyped
<1>5. root \in Linked(l) /\ root \in AllLinked
  <2>1. Linked(l) = {Chain(l)[i] : i \in 1 .. Len(Chain(l))}
    BY <1>4, ChainTyped
  <2>2. root \in Linked(l)
    BY <1>4, <2>1
  <2> QED
    BY <1>4, <2>2 DEF AllLinked
<1>6. docs \in SUBSET Docs /\ Cardinality(docs) \in Nat
  <2>1. docs \in SUBSET Docs
    BY <1>1, SegmentTyped
  <2> QED
    BY <2>1, DocsFinite
<1>7. Held = {} /\ Spilled = {} /\ job[Vacuum].new = None
  <2>1. InHand(Vacuum) = {} /\ job[Vacuum].new = None
    BY <1>1 DEF InHand, JobRight
  <2> QED
    BY <1>0, <1>1, <2>1 DEF Works
<1>8. /\ pages' \in Seq(Segments) /\ job' \in [Procs -> Jobs]
      /\ \A q \in Procs \ {Vacuum} : job'[q] = job[q]
      /\ AllLinked \cup free' \cup hand = 1 .. Len(pages')
      /\ AllLinked \cap free' = {} /\ AllLinked \cap hand = {} /\ free' \cap hand = {}
      /\ \A c \in AllLinked : pages'[c] = pages[c]
      /\ IF new = None THEN docs = {} ELSE docs # {} /\ DocsAt(new)' = docs
  <2>1. CASE docs = {}
    <3>1. pages' = pages /\ free' = free /\ job' = job
      BY <1>2, <2>1
    <3>2. new = None /\ hand = {}
      BY <1>7, <3>1
    <3>3. /\ AllLinked \cup free \cup hand = 1 .. Len(pages)
          /\ AllLinked \cap free = {}
      BY <1>7, <3>2 DEF Right, BlocksPlaced
    <3> QED
      BY <1>1, <2>1, <3>1, <3>2, <3>3 DEF TypeOK
  <2>2. CASE docs # {}
    <3>1. PICK b \in Allocatable : Store(b, docs) /\ With(Vacuum, [NoJob EXCEPT !.new = b])
      BY <1>2, <2>2
    <3>2. /\ pages' \in Seq(Segments) /\ free' = free \ {b} /\ b \in Nat \ {None}
          /\ 1 .. Len(pages') = (1 .. Len(pages)) \cup {b}
          /\ b \notin AllLinked /\ DocsAt(b)' = docs
          /\ \A c \in 1 .. Len(pages) : c # b => pages'[c] = pages[c]
      BY <1>6, <3>1, StoreIs
    <3>3. [NoJob EXCEPT !.new = b] \in Jobs /\ [NoJob EXCEPT !.new = b].new = b
      <4>1. NoJob \in Jobs
        BY DEF NoJob, Job, Jobs, None
      <4> QED
        BY <3>2, <4>1 DEF Jobs
    <3>4. /\ job'[Vacuum] = [NoJob EXCEPT !.new = b] /\ job' \in [Procs -> Jobs]
          /\ \A q \in Procs \ {Vacuum} : job'[q] = job[q]
      BY <1>0, <1>1, <3>1, <3>3, Works1
    <3>5. new = b /\ hand = {b}
      BY <3>2, <3>3, <3>4
    <3>6. /\ AllLinked \cup free = 1 .. Len(pages) /\ AllLinked \cap free = {}
      BY <1>7 DEF Right, BlocksPlaced
    <3>7. \A c \in AllLinked : pages'[c] = pages[c]
      BY <3>2, <3>6
    <3> QED
      BY <2>2, <3>2, <3>4, <3>5, <3>6, <3>7
  <2> QED
    BY <2>1, <2>2
<1>9. /\ ChainsSound' /\ AllLinked' = AllLinked
      /\ DocsOn(AllLinked)' = DocsOn(AllLinked)
      /\ \A m \in Levels : Chain(m)' = Chain(m) /\ Linked(m)' = Linked(m)
      /\ \A c \in AllLinked : DocsAt(c)' = DocsAt(c)
      /\ \A m : Bounded(m)' <=> Bounded(m)
  <2>1. \A c \in AllLinked : c \in 1 .. Len(pages') /\ pages'[c] = pages[c]
    BY <1>8
  <2> QED
    BY <1>2, <1>8, <2>1, SameChains
<1>10. /\ run'[Vacuum] = [task |-> run[Vacuum].task, at |-> "replace"]
       /\ \A q \in Procs \ {Vacuum} : run'[q] = run[q] /\ job'[q] = job[q]
       /\ run' \in [Procs -> Runs]
  BY <1>0, <1>1, <1>2, <1>8, Steps1 DEF Steps
<1>11. run'[Vacuum].at = "replace"
  BY <1>10
<1>12. /\ vac'.dead = vac.dead /\ vac'.segs = vac.segs /\ vac'.level = l
       /\ vac'.i = vac.i /\ vac'.prev = vac.prev /\ vac' \in Vacuums
  <2>1. vac.kept + Cardinality(docs) \in Nat
    BY <1>1, <1>6 DEF Vacuums
  <2> QED
    BY <1>1, <1>2, <2>1 DEF Vacuums
<1>13. TypeOK'
  BY <1>1, <1>2, <1>8, <1>10, <1>12 DEF TypeOK
<1>14. JobRight(Vacuum)'
  BY <1>11 DEF JobRight, MergeSteps
<1>15. Works(Vacuum)' /\ JobsRight'
  BY <1>0, <1>1, <1>10, <1>14, StillAlone
<1>16. Held' = hand /\ Spilled' = {}
  <2>1. InHand(Vacuum)' = hand
    BY <1>11 DEF InHand
  <2> QED
    BY <1>0, <1>11, <1>15, <2>1 DEF Works
<1>17. BlocksPlaced'
  BY <1>8, <1>9, <1>16 DEF BlocksPlaced
<1>18. Found' = Found
  BY <1>2, <1>7, <1>9, <1>16 DEF Found
<1>19. DocsRight'
  <2>1. NoDocTwice'
    BY <1>2, <1>7, <1>9, <1>16, DocsApart, DocsApartThen DEF Right, DocsRight
  <2> QED
    BY <1>2, <1>9, <1>18, <2>1 DEF Right, DocsRight
<1>20. LongExcused'
  BY <1>0, <1>1, <1>9, <1>15, StillExcused DEF Excused, MergeSteps
<1>21. \A m \in Levels : /\ Clean(Linked(m))' <=> Clean(Linked(m))
                         /\ \A i, j \in Nat : Ahead(m, i, j)' <=> Ahead(m, i, j)
                         /\ \A i \in 1 .. Len(Chain(m)) :
                                Clean({Chain(m)[i]})' <=> Clean({Chain(m)[i]})
  <2> TAKE m \in Levels
  <2>1. \A c \in Linked(m) : DocsAt(c)' = DocsAt(c)
    BY <1>9 DEF AllLinked
  <2> QED
    BY <1>9, <1>12, <2>1, LookingThere
<1>22. SweepRight'
  <2>1. SweepRight
    BY DEF Right, VacuumRight
  <2>2. Standing(k)'
    <3>1. \A n \in 1 .. k : n \in 1 .. Len(Chain(l))
      BY <1>4
    <3> QED
      BY <1>3, <1>4, <1>9, <1>12, <1>21, <3>1 DEF Standing
  <2> QED
    BY <1>1, <1>3, <1>4, <1>9, <1>12, <1>21, <2>1, <2>2 DEF SweepRight
<1>23. ReplaceRight'
  <2>1. InLevel' /\ Here' = Here /\ DocsAt(root)' = DocsAt(root)
    BY <1>1, <1>5, <1>9, <1>12 DEF InLevel, Here
  <2>2. DocsAt(Here.root)' = DocsAt(root)
    BY <2>1
  <2>3. vac'.dead = vac.dead /\ job'[Vacuum].new = new
    BY <1>12
  <2>4. new # None => DocsAt(job[Vacuum].new)' = DocsAt(root) \ vac.dead /\ docs # {}
    BY <1>8, <2>3
  <2>5. new = None => DocsAt(root) \subseteq vac.dead
    BY <1>8
  <2> QED
    BY <2>1, <2>2, <2>3, <2>4, <2>5 DEF ReplaceRight
<1>24. VacuumRight'
  BY <1>1, <1>2, <1>11, <1>12, <1>22, <1>23 DEF Right, VacuumRight
<1> QED
  BY <1>0, <1>2, <1>9, <1>13, <1>15, <1>17, <1>18, <1>19, <1>20, <1>24 DEF Right, Works

\* Where vacuum is when it replaces a segment: the chain s of its level, the
\* blocks it has passed, and the segment it holds, if there is one.
At(s, k, new) ==
    /\ vac.level \in Levels /\ s = Chain(vac.level)
    /\ Sound(meta.heads[vac.level], s, pages) /\ Elements(s) = Linked(vac.level)
    /\ k \in Nat /\ k < Len(s) /\ Len(s) \in Nat
    /\ InLevel /\ Here.root = s[k + 1] /\ Standing(k)
    /\ new = job[Vacuum].new /\ new \in Nat
    /\ new # None => new \in 1 .. Len(pages)
    /\ new \notin AllLinked /\ new \notin free
    /\ Held = IF new = None THEN {} ELSE {new}

LEMMA ReplaceAt ==
    ASSUME ~Overlap, Right, run[Vacuum].at = "replace"
    PROVE  \E s, k, new : At(s, k, new)
<1>0. Vacuum \in Procs
  BY DEF Procs
<1>1. /\ TypeOK /\ Works(Vacuum) /\ job[Vacuum] \in Jobs /\ InLevel
  BY <1>0, WorksAlone DEF Right, Resting, TypeOK, VacuumRight, ReplaceRight
<1>2. PICK l : l = vac.level
  OBVIOUS
<1>3. PICK s : s = Chain(l)
  OBVIOUS
<1>4. PICK new : new = job[Vacuum].new
  OBVIOUS
<1>5. PICK k \in 0 .. Len(s) : Standing(k)
  BY <1>2, <1>3 DEF Right, VacuumRight, SweepRight
<1>6. l \in Levels /\ k + 1 \in 1 .. Len(s) /\ Here.root = s[k + 1]
  BY <1>1, <1>2, <1>3, <1>5, HereIs
<1>7. /\ Sound(meta.heads[l], s, pages) /\ Elements(s) = Linked(l) /\ Len(s) \in Nat
  BY <1>3, <1>6, ChainTyped DEF Linked
<1>8. k \in Nat /\ k < Len(s)
  BY <1>5, <1>6, <1>7
<1>9. Held = (IF new = None THEN {} ELSE {new}) /\ new \in Nat
  <2>1. InHand(Vacuum) = IF new = None THEN {} ELSE {new}
    BY <1>4 DEF InHand
  <2>2. new \in Nat
    BY <1>1, <1>4 DEF Jobs
  <2> QED
    BY <1>1, <2>1, <2>2 DEF Works
<1>10. /\ new # None => new \in 1 .. Len(pages)
       /\ new \notin AllLinked /\ new \notin free
  <2>1. /\ AllLinked \cap Held = {} /\ free \cap Held = {}
        /\ AllLinked \cup free \cup Held = 1 .. Len(pages)
    BY DEF Right, BlocksPlaced
  <2>2. None \notin 1 .. Len(pages)
    BY DEF None
  <2> QED
    BY <1>9, <2>1, <2>2
<1>11. At(s, k, new)
  BY <1>1, <1>2, <1>3, <1>4, <1>5, <1>6, <1>7, <1>8, <1>9, <1>10 DEF At
<1> QED
  BY <1>11

\* The pages and the metapage afterwards.
LEMMA ReplaceIs ==
    ASSUME Right, FewSegments, ReplaceSegment, NEW s, NEW k, NEW new, At(s, k, new),
           NEW next, next = Remainder(s, k + 1), NEW here, here = IF new # None THEN new ELSE next
    PROVE  /\ Spliced(pages, pages', s, k, new, next)
           /\ LevelSet(meta, meta', vac.level, IF k = 0 THEN here ELSE meta.heads[vac.level],
                       IF new = None THEN meta.counts[vac.level] - 1 ELSE meta.counts[vac.level])
<1>1. PICK l : l = vac.level
  OBVIOUS
<1>2. PICK root : root = s[k + 1]
  OBVIOUS
<1>3. PICK prev : prev = vac.prev
  OBVIOUS
<1>4. /\ pages \in Seq(Segments) /\ DOMAIN pages = 1 .. Len(pages) /\ Len(pages) \in Nat
      /\ meta \in Metas /\ l \in Levels
  BY <1>1, LenProperties DEF Right, TypeOK, Metas, At
<1>5. /\ Len(s) \in Nat /\ k \in Nat /\ k + 1 \in 1 .. Len(s) /\ (k # 0 => k \in 1 .. Len(s))
      /\ \A i \in 1 .. Len(s) : s[i] \in 1 .. Len(pages) /\ s[i] # None /\ s[i] # new
      /\ \A i, j \in 1 .. Len(s) : s[i] = s[j] => i = j
  <2>1. Sound(meta.heads[l], s, pages) /\ Len(s) \in Nat /\ k \in Nat /\ k < Len(s)
    BY <1>1 DEF At
  <2>2. \A i \in 1 .. Len(s) : s[i] \in 1 .. Len(pages) /\ s[i] \in Elements(s)
    BY <1>4, <2>1, SoundSeq
  <2>3. Elements(s) \subseteq AllLinked /\ new \notin AllLinked
    BY <1>1, <1>4 DEF At, AllLinked
  <2>4. \A c \in 1 .. Len(pages) : c # None
    BY <1>4 DEF None
  <2>5. k + 1 \in 1 .. Len(s) /\ (k # 0 => k \in 1 .. Len(s))
    BY <2>1
  <2> QED
    BY <2>1, <2>2, <2>3, <2>4, <2>5 DEF Sound
<1>6. prev = (IF k = 0 THEN None ELSE s[k]) /\ (prev = None <=> k = 0)
  BY <1>3, <1>5 DEF At, Standing
<1>7. /\ Here.root = root /\ root \in 1 .. Len(pages) /\ SegmentAt(root) = pages[root]
      /\ pages[root].next = next /\ next \in Nat
  <2>1. Here.root = root /\ root \in 1 .. Len(pages)
    BY <1>2, <1>5 DEF At
  <2>2. SegmentAt(root) = pages[root]
    BY <1>4, <2>1 DEF SegmentAt
  <2>3. pages[root].next = next
    BY <1>2, <1>5 DEF At, Sound
  <2>4. pages[root] \in Segments
    BY <1>4, <2>1, ElementOfSeq
  <2> QED
    BY <2>1, <2>2, <2>3, <2>4 DEF Segments
<1>8. new = job[Vacuum].new /\ new \in Nat /\ (new # None => new \in 1 .. Len(pages)) /\ here \in Nat
  BY <1>7 DEF At
<1>9. PICK ps : ps = IF new # None THEN [pages EXCEPT ![new].next = next] ELSE pages
  OBVIOUS
<1>10. /\ pages' = IF prev = None THEN ps ELSE [ps EXCEPT ![prev].next = here]
       /\ meta' = [meta EXCEPT !.heads[l] = IF prev = None THEN here ELSE @,
                               !.counts[l] = IF new = None THEN Decremented(@) ELSE @]
  BY <1>1, <1>3, <1>7, <1>8, <1>9 DEF ReplaceSegment
<1>11. Spliced(pages, pages', s, k, new, next)
  <2>1. /\ ps \in Seq(Segments) /\ Len(ps) = Len(pages)
        /\ \A c \in 1 .. Len(pages) : ps[c].docs = pages[c].docs
        /\ \A c \in 1 .. Len(pages) : (new = None \/ c # new) => ps[c].next = pages[c].next
        /\ new # None => ps[new].next = next
    <3>1. CASE new = None
      BY <1>4, <1>9, <3>1
    <3>2. CASE new # None
      <4>1. ps = [pages EXCEPT ![new].next = next]
        BY <1>9, <3>2
      <4>2. Relinked(pages, ps, new, next)
        BY <1>4, <1>7, <1>8, <3>2, <4>1, RelinkIs
      <4> QED
        BY <3>2, <4>2 DEF Relinked
    <3> QED
      BY <3>1, <3>2
  <2>2. CASE k = 0
    <3>1. pages' = ps
      BY <1>6, <1>10, <2>2
    <3> QED
      BY <2>1, <2>2, <3>1 DEF Spliced
  <2>3. CASE k # 0
    <3>1. prev = s[k] /\ prev \in 1 .. Len(ps) /\ prev # new /\ pages' = [ps EXCEPT ![prev].next = here]
      BY <1>5, <1>6, <1>10, <2>1, <2>3
    <3>2. /\ pages' \in Seq(Segments) /\ Len(pages') = Len(ps)
          /\ pages'[prev].next = here
          /\ \A c \in 1 .. Len(ps) : c # prev => pages'[c] = ps[c]
          /\ \A c \in 1 .. Len(ps) : pages'[c].docs = ps[c].docs
      <4>1. Relinked(ps, pages', prev, here)
        BY <1>8, <2>1, <3>1, RelinkIs
      <4> QED
        BY <4>1 DEF Relinked
    <3> QED
      BY <1>8, <2>1, <2>3, <3>1, <3>2 DEF Spliced
  <2> QED
    BY <2>2, <2>3
<1>12. PICK head : head = IF k = 0 THEN here ELSE meta.heads[l]
  OBVIOUS
<1>13. PICK count : count = IF new = None THEN meta.counts[l] - 1 ELSE meta.counts[l]
  OBVIOUS
<1>14. meta.heads[l] \in Nat /\ meta.counts[l] \in Nat /\ head \in Nat
  BY <1>4, <1>8, <1>12 DEF Metas
<1>15. count \in Nat /\ (new = None => Decremented(meta.counts[l]) = count)
  <2>1. meta.counts[l] = Len(s)
    BY <1>1, <1>4 DEF At, Right, ChainsSound
  <2>2. meta.counts[l] > 0 /\ meta.counts[l] < 65535
    BY <1>4, <1>5, <2>1 DEF FewSegments
  <2> QED
    BY <1>13, <1>14, <2>2, DecrementedIs
<1>16. meta' = SetLevel(meta, l, head, count)
  BY <1>6, <1>10, <1>12, <1>13, <1>15 DEF SetLevel
<1>17. LevelSet(meta, meta', l, head, count)
  BY <1>4, <1>14, <1>15, <1>16, SetLevelIs
<1> QED
  BY <1>1, <1>11, <1>12, <1>13, <1>17

\* A linked segment has given way to the new one, or to none: t is the chain of
\* its level now.
Replacing(s, k, new, t) ==
    /\ pages' \in Seq(Segments) /\ Len(pages') = Len(pages) /\ meta' \in Metas
    /\ ChainsSound' /\ Passed(t, s, k, new)
    /\ \A m \in Levels : Chain(m)' = IF m = vac.level THEN t ELSE Chain(m)
    /\ AllLinked' = (AllLinked \ {s[k + 1]}) \cup IF new = None THEN {} ELSE {new}
    /\ \A c : DocsAt(c)' = DocsAt(c)
    /\ \A bs : DocsOn(bs)' = DocsOn(bs)
    /\ \A m \in Levels : Bounded(m) => Bounded(m)'

LEMMA ReplaceChains ==
    ASSUME Right, FewSegments, ReplaceSegment, NEW s, NEW k, NEW new, At(s, k, new)
    PROVE  \E t : Replacing(s, k, new, t)
<1>1. PICK l : l = vac.level
  OBVIOUS
<1>2. PICK next : next = Remainder(s, k + 1)
  OBVIOUS
<1>3. PICK here : here = IF new # None THEN new ELSE next
  OBVIOUS
<1>4. PICK head : head = IF k = 0 THEN here ELSE meta.heads[l]
  OBVIOUS
<1>5. PICK count : count = IF new = None THEN meta.counts[l] - 1 ELSE meta.counts[l]
  OBVIOUS
<1>6. PICK hand : hand = IF new = None THEN {} ELSE {new}
  OBVIOUS
<1>7. /\ Spliced(pages, pages', s, k, new, next)
      /\ LevelSet(meta, meta', l, head, count)
  BY <1>1, <1>2, <1>3, <1>4, <1>5, ReplaceIs
<1>8. /\ l \in Levels /\ Sound(meta.heads[l], s, pages) /\ Elements(s) = Linked(l)
      /\ k \in Nat /\ k < Len(s) /\ Len(s) \in Nat /\ new \in Nat /\ s = Chain(l)
      /\ new # None => new \in 1 .. Len(pages)
      /\ new \notin AllLinked /\ new \notin Elements(s)
      /\ pages \in Seq(Segments)
  BY <1>1 DEF At, AllLinked, Right, TypeOK
<1>9. /\ pages' \in Seq(Segments) /\ Len(pages') = Len(pages)
      /\ \A c \in 1 .. Len(pages) : pages'[c].docs = pages[c].docs
      /\ \A c \in 1 .. Len(pages) : c # new /\ c \notin Elements(s) => pages'[c].next = pages[c].next
  <2>1. k # 0 => s[k] \in Elements(s)
    <3>1. k # 0 => k \in 1 .. Len(s)
      BY <1>8
    <3> QED
      BY <1>8, <3>1, SoundSeq
  <2> QED
    BY <1>7, <2>1 DEF Spliced
<1>10. (\A c : DocsAt(c)' = DocsAt(c)) /\ (\A bs : DocsOn(bs)' = DocsOn(bs))
  BY <1>8, <1>9, SameDocs
<1>11. /\ meta' \in Metas /\ meta'.heads[l] = head /\ meta'.counts[l] = count
       /\ \A m \in Levels \ {l} : meta'.heads[m] = meta.heads[m] /\ meta'.counts[m] = meta.counts[m]
  BY <1>7 DEF LevelSet
<1>12. PICK t : Sound(head, t, pages') /\ Passed(t, s, k, new)
  BY <1>2, <1>3, <1>4, <1>7, <1>8, SoundPassed
<1>13. PICK ch : ch = [m \in Levels |-> IF m = l THEN t ELSE Chain(m)]
  OBVIOUS
<1>14. /\ Len(t) = count /\ Elements(t) = (Linked(l) \ {s[k + 1]}) \cup hand
  <2>1. meta.counts[l] = Len(s)
    BY <1>8, ChainTyped
  <2> QED
    BY <1>5, <1>6, <1>8, <1>12, <2>1 DEF Passed
<1>15. \A m \in Levels \ {l} :
          /\ ch[m] = Chain(m) /\ Elements(ch[m]) = Linked(m)
          /\ Sound(meta'.heads[m], ch[m], pages') /\ meta'.counts[m] = Len(ch[m])
  <2> TAKE m \in Levels \ {l}
  <2>1. /\ Sound(meta.heads[m], Chain(m), pages) /\ meta.counts[m] = Len(Chain(m))
        /\ \A i \in 1 .. Len(Chain(m)) : Chain(m)[i] \in Linked(m) /\ Chain(m)[i] \in 1 .. Len(pages)
    BY ChainTyped
  <2>2. Linked(m) \cap Linked(l) = {} /\ new \notin Linked(m)
    BY <1>8 DEF AllLinked, Right, ChainsSound
  <2>3. Keeps(Chain(m), pages, pages')
    BY <1>8, <1>9, <2>1, <2>2 DEF Keeps
  <2>4. Elements(Chain(m)) \subseteq 1 .. Len(pages')
    BY <1>9, LinkedPlaced DEF Linked
  <2>5. Sound(meta.heads[m], Chain(m), pages')
    BY <1>8, <1>9, <2>1, <2>3, <2>4, SoundKept
  <2> QED
    BY <1>11, <1>13, <2>1, <2>5 DEF Linked
<1>16. ch[l] = t
  BY <1>8, <1>13
<1>17. \A m \in Levels :
          Sound(meta'.heads[m], ch[m], pages') /\ meta'.counts[m] = Len(ch[m])
  BY <1>11, <1>12, <1>14, <1>15, <1>16
<1>18. \A m, n \in Levels : m # n => Elements(ch[m]) \cap Elements(ch[n]) = {}
  <2>1. \A m, n \in Levels : m # n => Linked(m) \cap Linked(n) = {}
    BY DEF Right, ChainsSound
  <2>2. \A m \in Levels : hand \cap Linked(m) = {}
    BY <1>6, <1>8 DEF AllLinked
  <2>3. \A m \in Levels : Elements(ch[m]) \subseteq Linked(m) \cup IF m = l THEN hand ELSE {}
    BY <1>14, <1>15, <1>16
  <2> QED
    BY <2>1, <2>2, <2>3
<1>19. /\ ChainsSound'
       /\ \A m \in Levels : Chain(m)' = ch[m]
       /\ AllLinked' = UNION {Elements(ch[m]) : m \in Levels}
  BY <1>9, <1>17, <1>18, NewChains
<1>20. AllLinked' = (AllLinked \ {s[k + 1]}) \cup hand
  <2>1. \A m \in Levels : s[k + 1] \in Linked(m) => m = l
    <3>1. k + 1 \in 1 .. Len(s)
      BY <1>8
    <3>2. s[k + 1] \in Linked(l)
      BY <1>8, <3>1, SoundSeq
    <3> QED
      BY <1>8, <3>2 DEF Right, ChainsSound
  <2>2. \A c : (\E m \in Levels : c \in Elements(ch[m]))
                  <=> ((\E m \in Levels : c \in Linked(m)) /\ c # s[k + 1]) \/ c \in hand
    BY <1>8, <1>14, <1>15, <1>16, <2>1
  <2> QED
    BY <1>19, <2>2 DEF AllLinked
<1>21. \A m \in Levels : Bounded(m) => Bounded(m)'
  <2>1. meta.counts \in [Levels -> Nat]
    BY DEF Right, TypeOK
  <2>2. count <= meta.counts[l]
    BY <1>5, <1>8, <2>1
  <2>3. count \in Nat
    BY <1>5, <1>8, <1>11, <2>1 DEF Metas
  <2>4. ASSUME NEW f \in Fanouts, meta.counts[l] < f PROVE count < f
    BY <1>8, <2>1, <2>2, <2>3, <2>4, LevelsAssumption
  <2> QED
    BY <1>11, <2>4 DEF Bounded
<1>22. \A m \in Levels : Chain(m)' = IF m = vac.level THEN t ELSE Chain(m)
  BY <1>1, <1>13, <1>19
<1>23. Replacing(s, k, new, t)
  BY <1>6, <1>9, <1>10, <1>11, <1>12, <1>19, <1>20, <1>21, <1>22 DEF Replacing
<1> QED
  BY <1>23

\* Vacuum stands behind the new segment then, or where it stood.
LEMMA ReplaceStanding ==
    ASSUME ~Overlap, Right, ReplaceSegment, NEW s, NEW k, NEW new, At(s, k, new), NEW t,
           Replacing(s, k, new, t), NEW j, j = IF new = None THEN k ELSE k + 1,
           vac'.dead = vac.dead, vac'.segs = vac.segs, vac'.level = vac.level,
           vac'.i = vac.i + 1, vac'.prev = IF new # None THEN new ELSE vac.prev
    PROVE  j \in 0 .. Len(t) /\ Standing(j)' /\ vac'.i \in 1 .. Len(vac'.segs[vac'.level]) + 1
<1>1. PICK l : l = vac.level
  OBVIOUS
<1>2. PICK i : i = vac.i
  OBVIOUS
<1>3. PICK found : found = vac.segs[l]
  OBVIOUS
<1>4. /\ l \in Levels /\ s = Chain(l) /\ k \in Nat /\ k < Len(s) /\ Len(s) \in Nat
      /\ new \in Nat /\ InLevel /\ Standing(k) /\ run[Vacuum].at = "replace"
  BY <1>1 DEF At, ReplaceSegment
<1>5. i \in Nat \ {0} /\ Len(found) \in Nat /\ i <= Len(found)
  <2>1. k \in 0 .. Len(Chain(vac.level))
    BY <1>1, <1>4
  <2>2. vac.i \in Nat \ {0} /\ Len(vac.segs[vac.level]) \in Nat
    BY <1>4, <2>1, HereIs
  <2> QED
    BY <1>1, <1>2, <1>3, <1>4, <2>2 DEF InLevel
<1>6. /\ Len(s) + i = Len(found) + k + 1
      /\ \A n \in 1 .. Len(s) - k : /\ found[i - 1 + n].root = s[k + n]
                                    /\ found[i - 1 + n].hit <=> DocsAt(s[k + n]) \cap vac.dead # {}
      /\ vac.prev = IF k = 0 THEN None ELSE s[k]
      /\ \A n \in 1 .. k : Clean({s[n]})
  BY <1>1, <1>2, <1>3, <1>4 DEF Standing, Ahead
<1>7. /\ Len(t) = IF new = None THEN Len(s) - 1 ELSE Len(s)
      /\ \A n \in 1 .. Len(s) - (k + 1) : t[j + n] = s[k + 1 + n]
      /\ \A n \in 1 .. k : t[n] = s[n]
      /\ new # None => t[k + 1] = new
  BY DEF Replacing, Passed
<1>8. /\ \A c : DocsAt(c)' = DocsAt(c)
      /\ Chain(l)' = t
  BY <1>1, <1>4 DEF Replacing
<1>9. \A b : Clean({b})' <=> DocsAt(b) \cap vac.dead = {}
  <2>1. \A bs : DocsOn(bs)' = DocsOn(bs)
    BY DEF Replacing
  <2>2. \A b : DocsOn({b}) = DocsAt(b)
    BY DEF DocsOn, DocsAt
  <2> QED
    BY <2>1, <2>2 DEF Clean
<1>10. /\ j \in Nat /\ j \in 0 .. Len(t) /\ Len(t) - j = Len(s) - (k + 1) /\ Len(t) \in Nat
       /\ Len(t) + (i + 1) = Len(found) + j + 1
  <2>1. CASE new = None
    BY <1>4, <1>5, <1>6, <1>7, <2>1
  <2>2. CASE new # None
    BY <1>4, <1>5, <1>6, <1>7, <2>2
  <2> QED
    BY <2>1, <2>2
<1>11. vac'.prev = IF j = 0 THEN None ELSE t[j]
  <2>1. CASE new = None
    <3>1. k # 0 => k \in 1 .. k
      BY <1>4
    <3> QED
      BY <1>6, <1>7, <2>1, <3>1
  <2>2. CASE new # None
    <3>1. j # 0
      BY <1>4, <2>2
    <3> QED
      BY <1>7, <2>2, <3>1
  <2> QED
    BY <2>1, <2>2
<1>12. \A n \in 1 .. Len(t) - j :
           /\ found[(i + 1) - 1 + n].root = t[j + n]
           /\ found[(i + 1) - 1 + n].hit <=> DocsAt(t[j + n]) \cap vac.dead # {}
  <2> TAKE n \in 1 .. Len(t) - j
  <2>1. /\ n \in 1 .. Len(s) - (k + 1) /\ n + 1 \in 1 .. Len(s) - k
        /\ (i + 1) - 1 + n = i - 1 + (n + 1) /\ k + (n + 1) = k + 1 + n
    <3>1. n \in Nat /\ n \in 1 .. Len(s) - (k + 1)
      BY <1>4, <1>10
    <3>2. \A a, b \in Nat : (a + 1) - 1 + b = a - 1 + (b + 1) /\ k + (b + 1) = k + 1 + b
      BY <1>4
    <3>3. \A a \in Nat : \A b \in 1 .. a - (k + 1) : b + 1 \in 1 .. a - k
      BY <1>4
    <3> QED
      BY <1>4, <1>5, <3>1, <3>2, <3>3
  <2>2. /\ found[i - 1 + (n + 1)].root = s[k + (n + 1)]
        /\ found[i - 1 + (n + 1)].hit <=> DocsAt(s[k + (n + 1)]) \cap vac.dead # {}
    BY <1>6, <2>1
  <2> QED
    BY <1>7, <2>1, <2>2
<1>13. \A n \in 1 .. j : Clean({t[n]})'
  <2> TAKE n \in 1 .. j
  <2>1. CASE n \in 1 .. k
    <3>1. DocsAt(s[n]) \cap vac.dead = {}
      BY <1>6, <2>1, CleanIs
    <3> QED
      BY <1>7, <1>9, <2>1, <3>1
  <2>2. CASE n \notin 1 .. k
    <3>1. new # None /\ n = k + 1
      BY <1>4, <2>2
    <3>2. DocsAt(new) \cap vac.dead = {}
      <4>1. new = job[Vacuum].new
        BY DEF At
      <4>2. ReplaceRight
        BY DEF Right, VacuumRight
      <4>3. DocsAt(new) = DocsAt(Here.root) \ vac.dead
        BY <1>4, <3>1, <4>1, <4>2 DEF ReplaceRight
      <4> QED
        BY <4>3
    <3> QED
      BY <1>7, <1>9, <3>1, <3>2
  <2> QED
    BY <2>1, <2>2
<1>14. Ahead(l, i + 1, j)'
  <2>1. \A n \in 1 .. Len(t) - j : DocsAt(Chain(l)[j + n])' = DocsAt(t[j + n])
    <3> TAKE n \in 1 .. Len(t) - j
    <3>1. PICK b : b = t[j + n]
      OBVIOUS
    <3>2. DocsAt(b)' = DocsAt(b)
      BY <1>8
    <3> QED
      BY <1>8, <3>1, <3>2
  <2>2. vac'.segs[l] = found /\ Chain(l)' = t /\ vac'.dead = vac.dead
    BY <1>3, <1>8
  <2> QED
    BY <1>10, <1>12, <2>1, <2>2 DEF Ahead
<1>15. Standing(j)'
  BY <1>1, <1>2, <1>8, <1>11, <1>13, <1>14 DEF Standing
<1>16. i + 1 \in 1 .. Len(found) + 1
  BY <1>5
<1> QED
  BY <1>1, <1>2, <1>3, <1>10, <1>15, <1>16

\* A segment with dead documents gives way to the one without them: only dead
\* documents leave the index.
LEMMA ReplaceSegmentKeeps ==
    ASSUME ~Overlap, Right, FewSegments, ReplaceSegment
    PROVE  /\ Right' /\ heap' = heap
           /\ Found' \subseteq Found /\ \A d \in Found \ Found' : heap[d] = "dead"
<1>0. Vacuum \in Procs
  BY DEF Procs
<1>1. /\ TypeOK /\ Works(Vacuum) /\ run[Vacuum].at = "replace" /\ vac \in Vacuums
      /\ VacuumRight /\ ReplaceRight /\ SweepRight
      /\ heap' = heap /\ memtable' = memtable /\ lock' = lock
  BY <1>0, WorksAlone DEF ReplaceSegment, Right, Resting, TypeOK, VacuumRight
<1>2. PICK s, k, new : At(s, k, new)
  BY <1>1, ReplaceAt
<1>3. PICK t : Replacing(s, k, new, t)
  BY <1>2, ReplaceChains
<1>4. PICK l : l = vac.level
  OBVIOUS
<1>5. PICK root : root = s[k + 1]
  OBVIOUS
<1>6. PICK hand : hand = IF new = None THEN {} ELSE {new}
  OBVIOUS
<1>7. PICK all : all = AllLinked'
  OBVIOUS
<1>8. /\ l \in Levels /\ s = Chain(l) /\ k \in Nat /\ k < Len(s) /\ Len(s) \in Nat
      /\ InLevel /\ Here.root = root /\ new = job[Vacuum].new /\ new \in Nat
      /\ (new # None => new \in 1 .. Len(pages)) /\ new \notin AllLinked /\ new \notin free
      /\ Held = hand /\ root \in Linked(l) /\ root \in AllLinked
  <2>1. k + 1 \in 1 .. Len(s) /\ l \in Levels /\ s = Chain(l)
    BY <1>2, <1>4 DEF At
  <2>2. root \in Linked(l)
    BY <1>5, <2>1, ChainTyped
  <2> QED
    BY <1>2, <1>4, <1>5, <1>6, <2>1, <2>2 DEF At, AllLinked
<1>9. /\ pages' \in Seq(Segments) /\ Len(pages') = Len(pages) /\ meta' \in Metas
      /\ ChainsSound' /\ AllLinked' = (AllLinked \ {root}) \cup hand
      /\ \A m \in Levels : Chain(m)' = IF m = l THEN t ELSE Chain(m)
      /\ \A c : DocsAt(c)' = DocsAt(c)
      /\ \A bs : DocsOn(bs)' = DocsOn(bs)
      /\ \A m \in Levels : Bounded(m) => Bounded(m)'
  BY <1>3, <1>4, <1>5, <1>6 DEF Replacing
<1>10. /\ run'[Vacuum] = [task |-> run[Vacuum].task, at |-> "sweep"] /\ job'[Vacuum] = NoJob
       /\ \A q \in Procs \ {Vacuum} : run'[q] = run[q] /\ job'[q] = job[q]
       /\ run' \in [Procs -> Runs] /\ job' \in [Procs -> Jobs] /\ NoJob.new = None
  <2>1. NoJob \in Jobs /\ NoJob.new = None
    BY DEF NoJob, Job, Jobs, None
  <2> QED
    BY <1>0, <1>1, <2>1, Steps1, Works1 DEF ReplaceSegment, Steps
<1>11. run'[Vacuum].at = "sweep" /\ job'[Vacuum].new = None
  BY <1>10
<1>12. /\ vac'.dead = vac.dead /\ vac'.segs = vac.segs /\ vac'.level = vac.level
       /\ vac'.i = vac.i + 1 /\ vac'.prev = (IF new # None THEN new ELSE vac.prev)
       /\ vac' \in Vacuums
  <2>1. vac' = [vac EXCEPT !.i = @ + 1, !.prev = IF new # None THEN new ELSE @]
    BY <1>8 DEF ReplaceSegment
  <2>2. vac.i + 1 \in Nat /\ (IF new # None THEN new ELSE vac.prev) \in Nat
    BY <1>1, <1>8 DEF Vacuums
  <2> QED
    BY <1>1, <2>1, <2>2 DEF Vacuums
<1>13. free' = free \cup {root} /\ root \in 1 .. Len(pages)
  BY <1>8, LinkedPlaced DEF ReplaceSegment
<1>14. TypeOK'
  <2>1. free' \in SUBSET (1 .. Len(pages'))
    BY <1>1, <1>9, <1>13 DEF TypeOK
  <2> QED
    BY <1>1, <1>9, <1>10, <1>12, <2>1 DEF TypeOK, Metas
<1>15. JobRight(Vacuum)'
  BY <1>11 DEF JobRight, MergeSteps
<1>16. Works(Vacuum)' /\ JobsRight'
  BY <1>0, <1>1, <1>10, <1>15, StillAlone
<1>17. Held' = {} /\ Spilled' = {} /\ Spilled = {}
  <2>1. InHand(Vacuum)' = {}
    BY <1>11 DEF InHand
  <2> QED
    BY <1>0, <1>1, <1>11, <1>16, <2>1 DEF Works
<1>18. BlocksPlaced'
  <2>1. /\ AllLinked \cap free = {} /\ AllLinked \cap hand = {} /\ free \cap hand = {}
        /\ AllLinked \cup free \cup hand = 1 .. Len(pages)
    BY <1>8 DEF Right, BlocksPlaced
  <2>2. 1 .. Len(pages') = 1 .. Len(pages)
    BY <1>9
  <2> QED
    BY <1>8, <1>9, <1>13, <1>17, <2>1, <2>2 DEF BlocksPlaced
<1>19. IF new = None THEN DocsAt(root) \subseteq vac.dead
       ELSE DocsAt(new) = DocsAt(root) \ vac.dead /\ DocsAt(new) # {}
  BY <1>1, <1>8 DEF ReplaceRight
<1>20. PICK gone : gone = DocsAt(root) \cap vac.dead
  OBVIOUS
<1>21. /\ \A a, b \in AllLinked : a # b => DocsAt(a) \cap DocsAt(b) = {}
       /\ memtable \cap DocsOn(AllLinked) = {}
       /\ \A bs, d : d \in DocsOn(bs) <=> \E b \in bs : d \in DocsAt(b)
  BY DocsApart DEF Right, DocsRight
<1>22. DocsOn(AllLinked)' = DocsOn(AllLinked) \ gone
  <2>1. all = (AllLinked \ {root}) \cup hand
    BY <1>7, <1>9
  <2>2. DocsOn(all) = DocsOn(AllLinked) \ gone
    <3>1. ASSUME NEW d, NEW b \in AllLinked \ {root}, d \in DocsAt(b)
          PROVE  d \in DocsOn(AllLinked) /\ d \notin gone
      BY <1>8, <1>20, <1>21, <3>1
    <3>2. ASSUME NEW d, NEW b \in hand, d \in DocsAt(b)
          PROVE  d \in DocsOn(AllLinked) /\ d \notin gone
      BY <1>6, <1>8, <1>19, <1>20, <1>21, <3>2
    <3>3. ASSUME NEW d, d \in DocsAt(root), d \notin gone
          PROVE  \E b \in hand : d \in DocsAt(b)
      BY <1>6, <1>19, <1>20, <3>3
    <3>4. \A d : d \in DocsOn(all) => d \in DocsOn(AllLinked) /\ d \notin gone
      BY <1>21, <2>1, <3>1, <3>2
    <3>5. \A d : d \in DocsOn(AllLinked) /\ d \notin gone => d \in DocsOn(all)
      BY <1>21, <2>1, <3>3
    <3> QED
      BY <3>4, <3>5
  <2>3. DocsOn(all)' = DocsOn(all)
    BY <1>9
  <2>4. DocsOn(AllLinked)' = DocsOn(all)'
    BY <1>7 DEF DocsOn
  <2> QED
    BY <2>2, <2>3, <2>4
<1>23. Found' \subseteq Found /\ Found \ Found' \subseteq gone
  BY <1>1, <1>17, <1>22 DEF Found
<1>24. \A d \in Found \ Found' : heap[d] = "dead"
  BY <1>1, <1>20, <1>23 DEF VacuumRight
<1>25. NoDocTwice'
  <2>1. \A a, b \in all : a # b => DocsAt(a) \cap DocsAt(b) = {}
    BY <1>6, <1>7, <1>8, <1>9, <1>19, <1>21
  <2>2. \A a, b \in AllLinked' : a # b => DocsAt(a)' \cap DocsAt(b)' = {}
    BY <1>7, <1>9, <2>1
  <2> QED
    BY <1>1, <1>17, <1>21, <1>22, <2>2, DocsApartThen
<1>26. DocsRight'
  <2>1. \A b \in AllLinked : DocsAt(b) # {}
    BY DEF Right, DocsRight
  <2>2. \A b \in all : DocsAt(b) # {}
    BY <1>6, <1>7, <1>9, <1>19, <2>1
  <2>3. \A b \in AllLinked' : DocsAt(b)' # {}
    BY <1>7, <1>9, <2>2
  <2>4. \A d \in Found' : heap'[d] \in {"live", "dead"}
    BY <1>1, <1>23 DEF Right, DocsRight
  <2> QED
    BY <1>25, <2>3, <2>4 DEF DocsRight
<1>27. LongExcused'
  BY <1>0, <1>1, <1>9, <1>16, StillExcused DEF Excused, MergeSteps
<1>28. PICK j : j = IF new = None THEN k ELSE k + 1
  OBVIOUS
<1>29. j \in 0 .. Len(t) /\ Standing(j)' /\ vac'.i \in 1 .. Len(vac'.segs[vac'.level]) + 1
  BY <1>2, <1>3, <1>12, <1>28, ReplaceStanding
<1>30. ASSUME NEW m \in Levels, m # l
       PROVE  (Clean(Linked(m))' <=> Clean(Linked(m))) /\ (Ahead(m, 1, 0)' <=> Ahead(m, 1, 0))
  <2>1. Chain(m)' = Chain(m) /\ \A b \in Linked(m) : DocsAt(b)' = DocsAt(b)
    BY <1>9, <1>30
  <2> QED
    BY <1>12, <2>1, LookingThere
<1>31. SweepRight'
  <2>1. /\ \A m \in Levels : m < l => Clean(Linked(m)) /\ m # l
        /\ \A m \in Levels : m > l => Ahead(m, 1, 0) /\ m # l
    <3>1. \A m \in Levels : m < l \/ m > l => m # l
      BY <1>8 DEF Levels
    <3>2. /\ \A m \in Levels : m < l => Clean(Linked(m))
          /\ \A m \in Levels : m > l => Ahead(m, 1, 0)
      BY <1>1, <1>4 DEF SweepRight
    <3> QED
      BY <3>1, <3>2
  <2>2. /\ \A m \in Levels : m < l => Clean(Linked(m))'
        /\ \A m \in Levels : m > l => Ahead(m, 1, 0)'
    BY <1>30, <2>1
  <2>3. Chain(l)' = t
    BY <1>8, <1>9
  <2> QED
    BY <1>4, <1>8, <1>12, <1>29, <2>2, <2>3 DEF SweepRight
<1>32. VacuumRight'
  BY <1>1, <1>11, <1>12, <1>31 DEF VacuumRight, ReplaceRight
<1> QED
  BY <1>1, <1>9, <1>14, <1>16, <1>18, <1>23, <1>24, <1>26, <1>27, <1>32 DEF Right, Works

\* Vacuum has found every dead document gone from the index: the heap may reuse
\* their ctids.
LEMMA FinishVacuumKeeps ==
    ASSUME ~Overlap, Right, FinishVacuum
    PROVE  /\ Right' /\ Found' = Found /\ vac.dead \cap Found = {}
           /\ vac.dead \subseteq {d \in Docs : heap[d] = "dead"}
           /\ heap' = [d \in Docs |-> IF d \in vac.dead THEN "gone" ELSE heap[d]]
<1>0. Vacuum \in Procs
  BY DEF Procs
<1>1. /\ TypeOK /\ Works(Vacuum) /\ run[Vacuum].at = "finish" /\ vac \in Vacuums /\ VacuumRight
      /\ JobRight(Vacuum) /\ meta \in Metas /\ pages \in Seq(Segments) /\ free' = free
      /\ pages' = pages /\ job' = job /\ memtable' = memtable /\ lock' = lock /\ vac' = NoVacuum
      /\ heap' = [d \in Docs |-> IF d \in vac.dead THEN "gone" ELSE heap[d]]
  BY <1>0, WorksAlone DEF FinishVacuum, Right, JobsRight, Resting, TypeOK, Metas
<1>2. /\ run'[Vacuum] = Idle /\ run' \in [Procs -> Runs]
      /\ \A q \in Procs \ {Vacuum} : run'[q] = run[q] /\ job'[q] = job[q]
  BY <1>0, <1>1, Begins1 DEF FinishVacuum, Idle, Steps, Tasks
<1>3. run'[Vacuum].at = "idle"
  BY <1>2 DEF Idle
<1>4. meta' \in Metas /\ meta'.heads = meta.heads /\ meta'.counts = meta.counts
  <2>1. PICK left : left = IF meta.docs >= vac.found THEN meta.docs - vac.found ELSE vac.kept
    OBVIOUS
  <2>2. left \in Nat
    BY <1>1, <2>1 DEF Metas, Vacuums
  <2>3. meta' = meta \/ meta' = [meta EXCEPT !.docs = left]
    BY <2>1 DEF FinishVacuum
  <2> QED
    BY <1>1, <2>2, <2>3 DEF Metas
<1>5. /\ ChainsSound' /\ AllLinked' = AllLinked
      /\ DocsOn(AllLinked)' = DocsOn(AllLinked)
      /\ \A l : Bounded(l)' <=> Bounded(l)
  <2>1. \A b \in AllLinked : b \in 1 .. Len(pages') /\ pages'[b] = pages[b]
    BY <1>1 DEF Right, BlocksPlaced
  <2> QED
    BY <1>1, <1>4, <2>1, SameChains
<1>6. NoVacuum \in Vacuums /\ NoVacuum.dead = {} /\ NoVacuum.level = 0 /\ NoVacuum.i = 1
  BY DEF NoVacuum, Vacuums, None
<1>7. heap' \in [Docs -> {"absent", "live", "dead", "gone"}]
  BY <1>1 DEF TypeOK
<1>8. TypeOK'
  BY <1>1, <1>2, <1>4, <1>6, <1>7 DEF TypeOK, Metas
<1>9. job[Vacuum].new = None /\ InHand(Vacuum) = {} /\ InHand(Vacuum)' = {}
  BY <1>1, <1>3 DEF JobRight, InHand
<1>10. JobRight(Vacuum)'
  BY <1>1, <1>3, <1>9 DEF JobRight, MergeSteps
<1>11. Works(Vacuum)' /\ JobsRight'
  BY <1>0, <1>1, <1>2, <1>10, StillAlone
<1>12. Held = {} /\ Held' = {} /\ Spilled = {} /\ Spilled' = {}
  BY <1>0, <1>1, <1>3, <1>9, <1>11 DEF Works
<1>13. BlocksPlaced'
  BY <1>1, <1>5, <1>12 DEF Right, BlocksPlaced
<1>14. Found' = Found
  BY <1>1, <1>5, <1>12 DEF Found
<1>15. vac.dead \cap Found = {}
  BY <1>1, <1>12 DEF VacuumRight, Clean, Found
<1>16. vac.dead \subseteq {d \in Docs : heap[d] = "dead"}
  BY <1>1 DEF VacuumRight, Vacuums
<1>17. DocsRight'
  <2>1. \A b : DocsAt(b)' = DocsAt(b)
    BY <1>1 DEF DocsAt, SegmentAt
  <2>2. NoDocTwice'
    BY <1>1, <1>5, <1>12, <2>1, DocsApart, DocsApartThen DEF Right, DocsRight
  <2>3. Found \subseteq Docs
    BY <1>1, <1>12, SegmentTyped DEF Found, TypeOK
  <2>4. \A d \in Found : heap'[d] \in {"live", "dead"}
    BY <1>1, <1>15, <2>3 DEF Right, DocsRight
  <2> QED
    BY <1>5, <1>14, <2>1, <2>2, <2>4 DEF Right, DocsRight
<1>18. LongExcused'
  BY <1>0, <1>1, <1>5, <1>11, StillExcused DEF Excused, MergeSteps
<1>19. VacuumRight'
  BY <1>1, <1>3, <1>6 DEF VacuumRight, SweepRight, ReplaceRight, NoVacuum
<1> QED
  BY <1>1, <1>5, <1>8, <1>11, <1>13, <1>14, <1>15, <1>16, <1>17, <1>18, <1>19 DEF Right, Works

-----------------------------------------------------------------------------
(* Every step. *)

LEMMA NothingKeeps ==
    ASSUME Right, UNCHANGED vars
    PROVE  Right' /\ Found' = Found /\ heap' = heap
<1>1. /\ UNCHANGED <<blocks, job>> /\ UNCHANGED <<blocks, job, run, vac>> /\ UNCHANGED blocks
      /\ heap' = heap /\ memtable' = memtable /\ lock' = lock /\ run' = run /\ vac' = vac
      /\ job' = job
  BY DEF vars
<1>2. /\ Alone' /\ ChainsSound' /\ JobsRight' /\ BlocksPlaced' /\ LongExcused'
      /\ Spilled' = Spilled /\ AllLinked' = AllLinked
      /\ DocsOn(AllLinked)' = DocsOn(AllLinked)
  BY <1>1, OthersKeep
<1>3. Found' = Found
  BY <1>1, <1>2 DEF Found
<1>4. VacuumRight'
  BY <1>1, VacuumStays DEF Right, VacuumRight
<1>5. TypeOK'
  BY <1>1 DEF Right, TypeOK, blocks
<1>6. \A b : DocsAt(b)' = DocsAt(b)
  BY <1>1, SameBlocks
<1>7. DocsRight'
  <2>1. NoDocTwice'
    BY <1>1, <1>2, <1>6, DocsApart, DocsApartThen DEF Right, DocsRight
  <2> QED
    BY <1>1, <1>2, <1>3, <1>6, <2>1 DEF Right, DocsRight
<1> QED
  BY <1>1, <1>2, <1>3, <1>4, <1>5, <1>7 DEF Right

\* Every step keeps the invariant, and is a step of IndexContents or none.
Kept == Right' /\ [Contents!Next]_(Contents!vars)

\* A step that only moves documents around is none.
LEMMA Unseen ==
    ASSUME Right', Found' = Found, heap' = heap
    PROVE  Kept
BY DEF Kept, Contents!vars

LEMMA TableKeeps ==
    ASSUME Right, NEW d \in Docs, Insert(d) \/ Delete(d)
    PROVE  Kept
<1>1. CASE Insert(d)
  <2>1. heap[d] = "absent"
    BY <1>1 DEF Insert
  <2>2. Right' /\ heap' = [heap EXCEPT ![d] = "live"] /\ Found' = Found \cup {d}
    BY <1>1, InsertKeeps
  <2> QED
    BY <2>1, <2>2 DEF Kept, Contents!Next, Contents!Insert
<1>2. CASE Delete(d)
  <2>1. heap[d] = "live"
    BY <1>2 DEF Delete
  <2>2. Right' /\ heap' = [heap EXCEPT ![d] = "dead"] /\ Found' = Found
    BY <1>2, DeleteKeeps
  <2> QED
    BY <2>1, <2>2 DEF Kept, Contents!Next, Contents!Delete
<1> QED
  BY <1>1, <1>2

LEMMA SpillsKeep ==
    ASSUME ~Overlap, Right, FewSegments, NEW p \in Procs, Spilling(p)
    PROVE  Kept
BY NothingToSpillKeeps, WriteSegmentKeeps, LinkSegmentKeeps, EndSpillKeepsRight, Unseen DEF Spilling

LEMMA MergesKeep ==
    ASSUME ~Overlap, Right, FewSegments, IInv, NEW p \in Procs, Merging(p)
    PROVE  Kept
BY CheckLevelKeeps, RecheckKeeps, MergeReadKeeps, MergeWriteKeeps, MergeSwapKeeps, MergeFreeKeeps,
   Unseen DEF Merging

LEMMA BackendsKeep ==
    ASSUME ~Overlap, Right, IInv, NEW p \in Backends,
           StartSpill(p) \/ StartForce(p) \/ ForceLevel(p) \/ Truncate(p)
    PROVE  Kept
BY StartSpillKeeps, StartForceKeeps, ForceLevelKeeps, TruncateKeeps, Unseen

LEMMA VacuumsKeep ==
    ASSUME ~Overlap, Right, IInv, FewSegments, Vacuuming
    PROVE  Kept
<1>1. CASE FinishVacuum
  <2>1. /\ Right' /\ Found' = Found /\ vac.dead \cap Found = {}
        /\ vac.dead \in SUBSET {d \in Docs : heap[d] = "dead"}
        /\ heap' = [d \in Docs |-> IF d \in vac.dead THEN "gone" ELSE heap[d]]
    BY <1>1, FinishVacuumKeeps
  <2>2. Contents!Reclaim(vac.dead)
    BY <2>1 DEF Contents!Reclaim
  <2> QED
    BY <2>1, <2>2 DEF Kept, Contents!Next
<1>2. CASE ReplaceSegment
  <2>1. Right' /\ Contents!Remove
    BY <1>2, ReplaceSegmentKeeps DEF Contents!Remove
  <2> QED
    BY <2>1 DEF Kept, Contents!Next
<1>3. CASE StartVacuum \/ LockForVacuum \/ Survey
  BY <1>3, StartVacuumKeeps, LockForVacuumRight, SurveyKeeps, Unseen
<1>4. CASE PassSegment \/ PassLevel \/ RebuildSegment
  BY <1>4, PassSegmentKeeps, PassLevelKeeps, RebuildSegmentKeeps, Unseen
<1> QED
  BY <1>1, <1>2, <1>3, <1>4 DEF Vacuuming

LEMMA EveryStepKeeps ==
    ASSUME ~Overlap, Safe, FewSegments, [Next]_vars
    PROVE  Safe' /\ [Contents!Next]_(Contents!vars)
<1>1. IInv' /\ Right /\ IInv
  BY NextKeeps DEF Safe
<1>2. Kept
  <2>1. ASSUME NEW d \in Docs, Insert(d) \/ Delete(d) PROVE Kept
    BY <1>1, <2>1, TableKeeps
  <2>2. ASSUME NEW p \in Backends, StartSpill(p) \/ StartForce(p) \/ ForceLevel(p) \/ Truncate(p)
        PROVE  Kept
    BY <1>1, <2>2, BackendsKeep
  <2>3. ASSUME NEW p \in Procs, Spilling(p) \/ Merging(p) PROVE Kept
    BY <1>1, <2>3, SpillsKeep, MergesKeep
  <2>4. CASE Vacuuming
    BY <1>1, <2>4, VacuumsKeep
  <2>5. CASE UNCHANGED vars
    BY <1>1, <2>5, NothingKeeps, Unseen
  <2> QED
    BY <2>1, <2>2, <2>3, <2>4, <2>5 DEF Next
<1> QED
  BY <1>1, <1>2 DEF Safe, Kept

-----------------------------------------------------------------------------
(* The beginning. *)

LEMMA InitSafe == Init => Safe
<1> SUFFICES ASSUME Init PROVE Safe
  OBVIOUS
<1>1. /\ heap = [d \in Docs |-> "absent"] /\ memtable = {} /\ lock = Nobody /\ pages = <<>>
      /\ meta = [heads |-> [l \in Levels |-> None], counts |-> [l \in Levels |-> 0], docs |-> 0]
      /\ free = {} /\ run = [p \in Procs |-> Idle] /\ job = [p \in Procs |-> NoJob]
      /\ vac = NoVacuum
  BY DEF Init
<1>2. IInv
  BY <1>1 DEF IInv, RunsTyped, HoldLock, ForcedSteps, InSpill, Idle, Runs, Tasks, Steps,
              SpillSteps, MergeSteps
<1>3. /\ pages \in Seq(Segments) /\ Len(pages) = 0 /\ DOMAIN pages = {}
      /\ \A l \in Levels : meta.heads[l] = None /\ meta.counts[l] = 0
      /\ \A p \in Procs : run[p].at = "idle" /\ job[p].new = None
  BY <1>1, EmptySeq, LenProperties DEF Idle, NoJob, Job
<1>4. TypeOK
  <2>1. Idle \in Runs /\ NoJob \in Jobs /\ NoVacuum \in Vacuums
    <3>1. [l \in Levels |-> <<>>] \in [Levels -> Seq(Surveyed)]
      BY EmptySeq
    <3>2. <<>> \in Seq(Nat)
      BY EmptySeq
    <3> QED
      BY <3>1, <3>2 DEF Idle, Runs, Tasks, Steps, NoJob, Job, Jobs, NoVacuum, Vacuums, None
  <2> QED
    BY <1>1, <1>3, <2>1 DEF TypeOK, None
<1>5. \A p \in Procs : Resting(p) /\ JobRight(p) /\ InHand(p) = {} /\ Excused(p) = {}
  <2>1. \A p \in Procs : Resting(p) /\ job[p].new = None
    BY <1>3 DEF Resting
  <2> QED
    BY <2>1, RestingIs
<1>6. Sound(None, <<>>, pages) /\ Elements(<<>>) = {}
  BY <1>3, EmptySeq, LenProperties DEF Sound, Elements, Remainder, None
<1>7. \A l \in Levels : Chain(l) = <<>> /\ Linked(l) = {}
  <2>1. \A l \in Levels : Chain(l) = <<>>
    BY <1>3, <1>6, SoundIsChain DEF Chain
  <2> QED
    BY <1>6, <2>1 DEF Linked
<1>8. ChainsSound
  BY <1>3, <1>6, <1>7, EmptySeq DEF ChainsSound
<1>9. AllLinked = {} /\ Held = {} /\ Spilled = {} /\ DocsOn({}) = {}
  BY <1>3, <1>5, <1>7 DEF AllLinked, Held, Spilled, DocsOn
<1>10. BlocksPlaced /\ Found = {}
  BY <1>1, <1>3, <1>9 DEF BlocksPlaced, Found
<1>11. DocsRight
  BY <1>1, <1>9, <1>10 DEF DocsRight, NoDocTwice
<1>12. LongExcused
  <2>1. PICK f \in Fanouts : f \in Nat \ {0, 1}
    BY LevelsAssumption
  <2> QED
    BY <1>3, <2>1 DEF LongExcused, Bounded
<1>13. VacuumRight
  <2>1. Vacuum \in Procs
    BY DEF Procs
  <2> QED
    BY <1>1, <1>3, <2>1 DEF VacuumRight, SweepRight, ReplaceRight, NoVacuum
<1> QED
  BY <1>2, <1>4, <1>5, <1>8, <1>10, <1>11, <1>12, <1>13 DEF Safe, Right, Alone, JobsRight

-----------------------------------------------------------------------------
(* What follows from the invariant. *)

\* Every block is in one place.
LEMMA SafeBlocks == ~Overlap /\ Right => BlocksAccounted
<1> SUFFICES ASSUME ~Overlap, Right PROVE BlocksAccounted
  OBVIOUS
<1>1. ASSUME NEW p \in Procs, NEW q \in Procs, p # q
      PROVE  InHand(p) \cap InHand(q) = {}
  <2>1. Resting(p) \/ Resting(q)
    BY <1>1 DEF Right, Alone
  <2> QED
    BY <2>1, RestingIs DEF Right, JobsRight
<1> QED
  BY <1>1 DEF Right, ChainsSound, BlocksPlaced, BlocksAccounted, Held

\* Counts are lengths, of chains that visit no block twice.
LEMMA SafeCounts == Right => CountsRight
<1> SUFFICES ASSUME Right, NEW l \in Levels
             PROVE  meta.counts[l] = Len(Chain(l)) /\ Cardinality(Linked(l)) = Len(Chain(l))
  BY DEF CountsRight
<1> PICK s : s = Chain(l)
  OBVIOUS
<1>1. /\ meta.counts[l] = Len(s) /\ Len(s) \in Nat /\ Linked(l) = {s[i] : i \in 1 .. Len(s)}
      /\ \A i, j \in 1 .. Len(s) : s[i] = s[j] => i = j
  BY ChainTyped DEF Sound
<1>2. IsFiniteSet(1 .. Len(s)) /\ Cardinality(1 .. Len(s)) = Len(s)
  BY <1>1, CountNumbers
<1>3. PICK at : at = [i \in 1 .. Len(s) |-> s[i]]
  OBVIOUS
<1>4. at \in Bijection(1 .. Len(s), Linked(l))
  <2>1. at \in [1 .. Len(s) -> Linked(l)]
    BY <1>1, <1>3
  <2>2. \A i, j \in 1 .. Len(s) : at[i] = at[j] => i = j
    BY <1>1, <1>3
  <2>3. \A b \in Linked(l) : \E i \in 1 .. Len(s) : at[i] = b
    BY <1>1, <1>3
  <2> QED
    BY <2>1, <2>2, <2>3 DEF Bijection, Injection, Surjection, IsInjective
<1>5. Cardinality(Linked(l)) = Cardinality(1 .. Len(s))
  BY <1>2, <1>4, FS_Bijection DEF ExistsBijection
<1> QED
  BY <1>1, <1>2, <1>5

\* Nobody at work excuses no level.
LEMMA SafeLevels == Right => LevelsBounded
BY RestingIs DEF Right, LongExcused, LevelsBounded, Bounded

\* A count is at most the number of documents.
LEMMA SafeFew == Right /\ MaxDocs < 65535 => FewSegments
<1> SUFFICES ASSUME Right, MaxDocs < 65535, NEW l \in Levels PROVE meta.counts[l] < 65535
  BY DEF FewSegments
<1>1. meta.counts[l] = Len(Chain(l)) /\ Len(Chain(l)) \in Nat /\ Len(Chain(l)) <= MaxDocs
  BY ChainTyped, ChainShort
<1> QED
  BY <1>1, LevelsAssumption

-----------------------------------------------------------------------------
(* Theorems.  ~Overlap: nobody rewrites chains while another process does.    *)
(* []FewSegments: level_counts does not leave its 16 bits.                    *)

\* Nothing is assumed of level_counts that a small table does not have: with
\* fewer documents than 65535 no level holds more segments.
THEOREM FewSegmentsAlways ==
    ASSUME ~Overlap, MaxDocs < 65535
    PROVE  Spec => []FewSegments
<1>1. Safe => FewSegments
  BY SafeFew DEF Safe
<1>2. Safe /\ [Next]_vars => Safe'
  BY <1>1, EveryStepKeeps
<1> QED
  BY <1>1, <1>2, InitSafe, PTL DEF Spec

\* The inductive invariant: chains, blocks, documents, and what every process
\* knows of them, are right between any two steps.
THEOREM SafeAlways ==
    ASSUME ~Overlap
    PROVE  Spec /\ []FewSegments => []Safe
<1>1. Safe /\ FewSegments /\ [Next]_vars => Safe'
  BY EveryStepKeeps
<1> QED
  BY <1>1, InitSafe, PTL DEF Spec

\* The state has its types: in particular free holds only blocks of the index,
\* also after bm25_force_merge has cut its end off (tp_truncate_dead_pages).
THEOREM LevelsTyped ==
    ASSUME ~Overlap
    PROVE  Spec /\ []FewSegments => []TypeOK
<1>1. Safe => TypeOK
  BY DEF Safe, Right
<1> QED
  BY <1>1, SafeAlways, PTL

\* Every block is linked once, free, or in one process's hands: no spill, merge,
\* rebuild or truncation gives a linked block away or loses one
\* (allocate_segment_page, tp_segment_free_pages, tp_truncate_dead_pages).
THEOREM BlocksAccountedAlways ==
    ASSUME ~Overlap
    PROVE  Spec /\ []FewSegments => []BlocksAccounted
<1>1. Safe => BlocksAccounted
  BY SafeBlocks DEF Safe
<1> QED
  BY <1>1, SafeAlways, PTL

\* level_counts is the length of the chain, also behind a merge that writes back
\* what it read before (merge_level_segments), and the chain ends.
THEOREM CountsRightAlways ==
    ASSUME ~Overlap
    PROVE  Spec /\ []FewSegments => []CountsRight
<1>1. Safe => CountsRight
  BY SafeCounts DEF Safe
<1> QED
  BY <1>1, SafeAlways, PTL

\* No document is in two segments, or in one and the memtable, so none is scored
\* twice (tp_do_spill, merge_level_segments, tp_vacuum_rebuild_segment).
THEOREM NoDocTwiceAlways ==
    ASSUME ~Overlap
    PROVE  Spec /\ []FewSegments => []NoDocTwice
<1>1. Safe => NoDocTwice
  BY DEF Safe, Right, DocsRight
<1> QED
  BY <1>1, SafeAlways, PTL

\* Between spills every level but the last is shorter than the largest
\* segments_per_level in use: compaction reaches every level it filled
\* (tp_maybe_compact_level).
THEOREM LevelsBoundedAlways ==
    ASSUME ~Overlap
    PROVE  Spec /\ []FewSegments => []LevelsBounded
<1>1. Safe => LevelsBounded
  BY SafeLevels DEF Safe
<1> QED
  BY <1>1, SafeAlways, PTL

\* The segments implement IndexContents: every step of a spill, a merge, a
\* truncation or a vacuum maps to one of its steps or to none.
THEOREM ContentsKeptAlways ==
    ASSUME ~Overlap
    PROVE  Spec /\ []FewSegments => ContentsKept
<1>1. Init => Contents!Init
  <2> SUFFICES ASSUME Init PROVE Contents!Init
    OBVIOUS
  <2>1. heap = [d \in Docs |-> "absent"] /\ memtable = {}
    BY DEF Init
  <2>2. Found = {}
    <3>1. Right /\ \A p \in Procs : run[p].at = "idle"
      BY InitSafe DEF Safe, Init, Idle
    <3>2. \A l \in Levels : meta.counts[l] = 0
      BY DEF Init
    <3>3. \A l \in Levels : Linked(l) = {}
      <4> TAKE l \in Levels
      <4>1. Len(Chain(l)) = 0 /\ Linked(l) = {Chain(l)[i] : i \in 1 .. Len(Chain(l))}
        BY <3>1, <3>2, ChainTyped
      <4>2. 1 .. Len(Chain(l)) = {}
        BY <4>1
      <4> QED
        BY <4>1, <4>2
    <3> QED
      BY <2>1, <3>1, <3>3 DEF Found, Spilled, AllLinked, DocsOn
  <2> QED
    BY <2>1, <2>2 DEF Contents!Init
<1>2. Safe /\ FewSegments /\ [Next]_vars => [Contents!Next]_(Contents!vars)
  BY EveryStepKeeps
<1> QED
  BY <1>1, <1>2, SafeAlways, PTL DEF Spec, ContentsKept, Contents!Spec

\* Every live row is in the memtable, in the spill under way or in a linked
\* segment, whatever vacuum and merges are doing (tp_vacuum_replace_segment).
THEOREM LiveIsFoundAlways ==
    ASSUME ~Overlap
    PROVE  Spec /\ []FewSegments => []LiveIsFound
<1>1. Init => LiveIsFound
  BY DEF Init, LiveIsFound
<1>2. LiveIsFound /\ [Contents!Next]_(Contents!vars) => LiveIsFound'
  <2> SUFFICES ASSUME LiveIsFound, [Contents!Next]_(Contents!vars) PROVE LiveIsFound'
    OBVIOUS
  <2>1. ASSUME NEW d \in Docs, Contents!Insert(d) PROVE LiveIsFound'
    BY <2>1 DEF LiveIsFound, Contents!Insert
  <2>2. ASSUME NEW d \in Docs, Contents!Delete(d) PROVE LiveIsFound'
    BY <2>2 DEF LiveIsFound, Contents!Delete
  <2>3. CASE Contents!Remove
    BY <2>3 DEF LiveIsFound, Contents!Remove
  <2>4. ASSUME NEW gone \in SUBSET {d \in Docs : heap[d] = "dead"}, Contents!Reclaim(gone)
        PROVE  LiveIsFound'
    BY <2>4 DEF LiveIsFound, Contents!Reclaim
  <2>5. CASE UNCHANGED Contents!vars
    BY <2>5 DEF LiveIsFound, Contents!vars
  <2> QED
    BY <2>1, <2>2, <2>3, <2>4, <2>5 DEF Contents!Next
<1>3. Safe /\ FewSegments /\ [Next]_vars => [Contents!Next]_(Contents!vars)
  BY EveryStepKeeps
<1> QED
  BY <1>1, <1>2, <1>3, SafeAlways, PTL DEF Spec

=============================================================================
