------------------------------ MODULE TopKHeap ------------------------------
(***************************************************************************)
(* The min-heap that keeps the best results of a bm25 query.               *)
(*                                                                         *)
(* An entry is a record [score, ctid, seg, doc].  A result from the        *)
(* memtable knows its ctid; one from a segment knows the segment and the   *)
(* doc id in it, and its ctid only when the query is over.                 *)
(***************************************************************************)
EXTENDS Integers, Sequences, FiniteSets

\* The ctid of a segment's result, and the segment of a memtable's.
Unresolved == 0
InMemtable == 0

\* Doc ids count from 1 here and from 0 in the code, which gives a memtable's
\* result the first of them.
FirstDocId == 1

FromMemtable(ctid, score) ==
  [score |-> score, ctid |-> ctid, seg |-> InMemtable, doc |-> FirstDocId]
FromSegment(seg, doc, score) ==
  [score |-> score, ctid |-> Unresolved, seg |-> seg, doc |-> doc]

\* The order of the blocks that segments start at, for which their numbers stand;
\* InvalidBlockNumber, which stands for the memtable, is the greatest.
LaterBlock(s, t) == s # t /\ (s = InMemtable \/ (t # InMemtable /\ s > t))

\* heap_less: e is the weaker result, and nearer to the root.
WeakerReversed(e, f) ==
  IF e.score # f.score THEN e.score < f.score
  ELSE IF e.ctid # Unresolved /\ f.ctid # Unresolved THEN e.ctid < f.ctid
  ELSE IF e.doc # f.doc THEN e.doc < f.doc
  ELSE LaterBlock(e.seg, f.seg)
Weaker(e, f) ==
  IF e.score # f.score THEN e.score < f.score
  ELSE IF e.ctid # Unresolved /\ f.ctid # Unresolved THEN e.ctid > f.ctid
  ELSE IF e.doc # f.doc THEN e.doc > f.doc
  ELSE LaterBlock(e.seg, f.seg)

Swapped(h, i, j) == [h EXCEPT ![i] = h[j], ![j] = h[i]]

\* A loop whose body does nothing once it is done: n rounds, from x on.
Iterated(Round(_), x, n) ==
  LET after[i \in 0..n] == IF i = 0 THEN x ELSE Round(after[i - 1]) IN after[n]

\* One round of heap_sift_up: s is a heap and the position that is looked at.
Risen(s) ==
  LET parent == s.at \div 2
  IN  IF s.at > 1 /\ Weaker(s.heap[s.at], s.heap[parent])
      THEN [heap |-> Swapped(s.heap, s.at, parent), at |-> parent] ELSE s
SiftUp(h, i) == Iterated(Risen, [heap |-> h, at |-> i], Len(h)).heap

\* The weakest of a position and of its children.
Weakest(h, i) ==
  LET left == IF 2 * i <= Len(h) /\ Weaker(h[2 * i], h[i]) THEN 2 * i ELSE i
  IN  IF 2 * i + 1 <= Len(h) /\ Weaker(h[2 * i + 1], h[left]) THEN 2 * i + 1 ELSE left

\* One round of heap_sift_down.
Sunk(s) ==
  LET child == Weakest(s.heap, s.at)
  IN  IF child # s.at THEN [heap |-> Swapped(s.heap, s.at, child), at |-> child] ELSE s
SiftDown(h, i) == Iterated(Sunk, [heap |-> h, at |-> i], Len(h)).heap

\* heap_beats_root.  A tie of a memtable's result with a segment's is not broken.
BeatsRoot(h, e) ==
  \/ e.score > h[1].score
  \/ /\ e.score = h[1].score
     /\ \/ e.ctid # Unresolved /\ h[1].ctid # Unresolved /\ e.ctid < h[1].ctid
        \/ e.ctid = Unresolved /\ h[1].ctid = Unresolved /\ e.doc < h[1].doc

\* tp_topk_add_memtable and tp_topk_add_segment, with k the heap's capacity.
AddOffByOne(h, k, e) ==
  IF Len(h) <= k THEN SiftUp(Append(h, e), Len(h) + 1)
  ELSE IF BeatsRoot(h, e) THEN SiftDown([h EXCEPT ![1] = e], 1)
  ELSE h
Add(h, k, e) ==
  IF Len(h) < k THEN SiftUp(Append(h, e), Len(h) + 1)
  ELSE IF BeatsRoot(h, e) THEN SiftDown([h EXCEPT ![1] = e], 1)
  ELSE h

\* tp_topk_threshold and tp_topk_dominated.
Threshold(h, k) == IF Len(h) >= k THEN h[1].score ELSE 0
Dominated(h, k, score) == Len(h) >= k /\ score < h[1].score

\* tp_topk_resolve_ctids, where ctids[seg][doc] is the ctid of a segment's document.
Resolved(h, ctids) ==
  [i \in DOMAIN h |-> IF h[i].seg = InMemtable THEN h[i]
                      ELSE [h[i] EXCEPT !.ctid = ctids[h[i].seg][h[i].doc], !.seg = InMemtable]]

\* tp_topk_extract: higher scores first, and lower ctids among equal ones.
Better(e, f) == e.score > f.score \/ (e.score = f.score /\ e.ctid < f.ctid)

\* The place of entry i when the heap is sorted: after all that are better.
Place(h, i) ==
  1 + Cardinality({j \in DOMAIN h : Better(h[j], h[i]) \/ (~Better(h[i], h[j]) /\ j < i)})
Extracted(h) ==
  [n \in DOMAIN h |-> LET i == CHOOSE j \in DOMAIN h : Place(h, j) = n
                      IN  <<h[i].ctid, h[i].score>>]

=============================================================================
