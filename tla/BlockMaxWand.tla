---------------------------- MODULE BlockMaxWand ----------------------------
(***************************************************************************)
(* One execution of a bm25 query: the best max_results documents of the    *)
(* memtable and of all segments, found with block-max WAND.                *)
(*                                                                         *)
(* The index is a record:                                                  *)
(*   query     per query term, its frequency in the query;                 *)
(*   memtable  a set of documents [ctid, len, tf], tf being per term;      *)
(*   segments  a sequence of segments.  A segment has the ctids of its     *)
(*             documents, and per term its postings [doc, tf, len] in the  *)
(*             order of the document ids, stored in blocks.                *)
(* Scores are integers.  The search runs under the shared index lock, so   *)
(* nothing of the index changes meanwhile.                                 *)
(***************************************************************************)
EXTENDS TopKHeap, SequencesExt

CONSTANTS
  BlockSize,   \* postings per block (TP_BLOCK_SIZE)
  NoDoc,       \* the document id of an exhausted term (UINT32_MAX)
  Frequencies, \* how often a term may be in a document
  Lengths,     \* the lengths that documents may have
  Saturation(_, _)  \* BM25 less its weight, of a frequency and a length

VARIABLES
  index,
  max_results,
  weight,      \* per query term, its IDF times its frequency in the query
  heap,        \* the results so far, a heap with the weakest at the root
  todo,        \* the memtable's documents that are still to be scored
  seg,         \* the number of the segment being searched; 0 before the first
  terms,       \* a sequence of cursors [term, at], at being a position in the postings
  active,      \* how many cursors are not exhausted
  pivot,       \* [len, doc]: the leading cursors that take part, and their target
  step,        \* where the search is
  results      \* what it returns: a sequence of pairs of a ctid and a score

searchVars == <<max_results, weight, heap, todo, seg, terms, active, pivot, step, results>>

\* A term in a document counts for something, for more the more frequent it is,
\* and for less the longer the document is.
ASSUME SaturationAssumption ==
  /\ Frequencies \subseteq Nat \ {0}
  /\ Lengths \subseteq Nat \ {0}
  /\ \A f, g \in Frequencies, l, m \in Lengths :
       /\ Saturation(f, l) \in Nat \ {0}
       /\ f <= g /\ m <= l => Saturation(f, l) <= Saturation(g, m)

ASSUME BlockAssumption ==
  /\ BlockSize \in Nat \ {0}
  /\ NoDoc \in Nat

NoPivot == [len |-> 0, doc |-> 0]

\* In how many documents of the memtable and of all segments a term occurs.
DocFreq(t) ==
  Cardinality({d \in index.memtable : d.tf[t] > 0})
    + SumFunction([s \in DOMAIN index.segments |-> Len(index.segments[s].postings[t])])

\* The IDF falls with the document frequency; a term that does not occur counts
\* for nothing.  The one term of a query counts once, however often it is there.
Idf(n) == IF n = 0 THEN 0 ELSE IF n <= 2 THEN 3 ELSE IF n <= 5 THEN 2 ELSE 1
Weight(t) == Idf(DocFreq(t)) * (IF Len(index.query) = 1 THEN 1 ELSE index.query[t])

\* compute_bm25_score of one term of one document.
Contribution(t, p) == weight[t] * Saturation(p.tf, p.len)

MemtableScore(d) ==
  SumFunction([t \in DOMAIN index.query |->
    IF d.tf[t] = 0 THEN 0 ELSE weight[t] * Saturation(d.tf[t], d.len)])

-----------------------------------------------------------------------------
(* Postings, blocks and cursors in the segment being searched.             *)

Postings(t) == index.segments[seg].postings[t]
Blocks(t) == (Len(Postings(t)) + BlockSize - 1) \div BlockSize
FirstOf(b) == (b - 1) * BlockSize + 1
LastOf(t, b) == Min({b * BlockSize, Len(Postings(t))})
Block(t, b) == {Postings(t)[i] : i \in FirstOf(b)..LastOf(t, b)}
LastDoc(t, b) == Postings(t)[LastOf(t, b)].doc

\* tp_compute_block_max_score, from the largest frequency and the smallest length.
BlockMaxOfOne(t, b) == Contribution(t, Postings(t)[FirstOf(b)])
BlockMax(t, b) ==
  weight[t] * Saturation(Max({p.tf : p \in Block(t, b)}), Min({p.len : p \in Block(t, b)}))
MaxScore(t) == Max({0} \union {BlockMax(t, b) : b \in 1..Blocks(t)})

Exhausted(c) == c.at > Len(Postings(c.term))
Doc(c) == IF Exhausted(c) THEN NoDoc ELSE Postings(c.term)[c.at].doc
BlockOf(c) == (c.at - 1) \div BlockSize + 1

\* The first posting of block b, from position i on, that is not before the
\* target, or else the start of the next block.
FirstIn(t, b, i, target) ==
  Min({LastOf(t, b) + 1} \union {j \in i..LastOf(t, b) : Postings(t)[j].doc >= target})

\* One round of the binary search over the last document ids of blocks, in a
\* window w of block numbers.
Halved(t, w, target) ==
  LET mid == w.left + (w.right - w.left) \div 2
  IN  IF w.left >= w.right THEN w
      ELSE IF LastDoc(t, mid) < target THEN [w EXCEPT !.left = mid + 1]
      ELSE [w EXCEPT !.right = mid]
Bisect(t, left, right, target) ==
  Iterated(LAMBDA w : Halved(t, w, target), [left |-> left, right |-> right], Blocks(t)).left

\* seek_term_to_doc: the position that a cursor is moved to.
Sought(c, target) ==
  LET t == c.term
      b == Bisect(t, BlockOf(c) + 1, Blocks(t), target)
  IN  IF target <= LastDoc(t, BlockOf(c)) THEN FirstIn(t, BlockOf(c), c.at, target)
      ELSE IF b > Blocks(t) THEN Len(Postings(t)) + 1
      ELSE FirstIn(t, b, FirstOf(b), target)

\* restore_ordering: cursor i goes to position at of its postings, and moves
\* right past those that are before it.
Moved(cs, i, at) ==
  LET c == [cs[i] EXCEPT !.at = at]
      others == RemoveAt(cs, i)
      passed == {j \in i..Len(others) : Doc(others[j]) < Doc(c)}
  IN  InsertAt(others, i + Cardinality(passed), c)

\* The cursor has moved; active_count knows whether it is exhausted.
Move(i, at) ==
  /\ terms' = Moved(terms, i, at)
  /\ active' = IF at > Len(Postings(terms[i].term)) THEN active - 1 ELSE active

-----------------------------------------------------------------------------
(* The steps of a search.                                                  *)

\* tp_score_documents is called.  One term that is nowhere ends the search; the
\* memtable's documents that have a query term are accumulated.
Start(k) ==
  /\ max_results' = k
  /\ heap' = <<>>
  /\ weight' = [t \in DOMAIN index.query |-> Weight(t)]
  /\ todo' = {d \in index.memtable : \E t \in DOMAIN index.query : d.tf[t] > 0}
  /\ seg' = 0
  /\ terms' = <<>>
  /\ active' = 0
  /\ pivot' = NoPivot
  /\ step' = IF Len(index.query) = 1 /\ DocFreq(1) = 0 THEN "done" ELSE "memtable"
  /\ results' = <<>>

\* score_memtable_single_term and score_memtable_multi_term, one document.
AddMemtable ==
  /\ step = "memtable"
  /\ \E d \in todo :
       /\ todo' = todo \ {d}
       /\ heap' = IF Dominated(heap, max_results, MemtableScore(d)) THEN heap
                  ELSE Add(heap, max_results, FromMemtable(d.ctid, MemtableScore(d)))
  /\ UNCHANGED <<index, max_results, weight, seg, terms, active, pivot, step, results>>

\* The cursors at the first postings, in an order that qsort may leave them in.
FirstDoc(list) == IF list = <<>> THEN NoDoc ELSE list[1].doc
Sorted(lists) ==
  {cs \in SetToSeqs({[term |-> t, at |-> 1] : t \in DOMAIN lists}) :
     \A i, j \in DOMAIN cs : i < j => FirstDoc(lists[cs[i].term]) <= FirstDoc(lists[cs[j].term])}

\* The next segment of any level.  A segment without any of the terms is left.
OpenSegment ==
  /\ step = "next" \/ (step = "memtable" /\ todo = {})
  /\ seg < Len(index.segments)
  /\ seg' = seg + 1
  /\ LET lists == index.segments[seg + 1].postings
         found == {t \in DOMAIN lists : lists[t] # <<>>}
     IN  /\ active' = Cardinality(found)
         /\ terms' \in Sorted(lists)
         /\ step' = IF found = {} THEN "next" ELSE IF Len(lists) = 1 THEN "scan" ELSE "pivot"
  /\ UNCHANGED <<index, max_results, weight, heap, todo, pivot, results>>

\* score_segment_single_term_bmw: at its start a block may be passed over.
PassesBlock ==
  LET c == terms[1]
  IN  /\ c.at = FirstOf(BlockOf(c))
      /\ BlockMax(1, BlockOf(c)) < Threshold(heap, max_results)

ScanTo(at) ==
  /\ Move(1, at)
  /\ step' = IF at > Len(Postings(1)) THEN "next" ELSE "scan"

PassBlock ==
  /\ step = "scan"
  /\ PassesBlock
  /\ ScanTo(LastOf(1, BlockOf(terms[1])) + 1)
  /\ UNCHANGED <<index, max_results, weight, heap, todo, seg, pivot, results>>

\* One posting of a block.
ScanPosting ==
  /\ step = "scan"
  /\ ~PassesBlock
  /\ LET p == Postings(1)[terms[1].at]
         score == Contribution(1, p)
     IN  heap' = IF Dominated(heap, max_results, score) THEN heap
                 ELSE Add(heap, max_results, FromSegment(seg, p.doc, score))
  /\ ScanTo(terms[1].at + 1)
  /\ UNCHANGED <<index, max_results, weight, todo, seg, pivot, results>>

\* find_wand_pivot: the positions up to which the maximal scores add up to more
\* than the threshold.
Pivots(n) ==
  /\ Doc(terms[n]) # NoDoc
  /\ SumFunction([i \in 1..n |-> MaxScore(terms[i].term)]) > Threshold(heap, max_results)

FindPivot ==
  /\ step = "pivot"
  /\ active > 0
  /\ LET n == Min({i \in DOMAIN terms : Pivots(i)})
         doc == Doc(terms[n])
     IN  /\ \E i \in DOMAIN terms : Pivots(i)
         /\ pivot' = [len |-> Max({i \in DOMAIN terms : Doc(terms[i]) = doc}), doc |-> doc]
  /\ step' = "seek"
  /\ UNCHANGED <<index, max_results, weight, heap, todo, seg, terms, active, results>>

LeaveSegment ==
  /\ step = "pivot"
  /\ active = 0 \/ ~\E i \in DOMAIN terms : Pivots(i)
  /\ step' = "next"
  /\ UNCHANGED <<index, max_results, weight, heap, todo, seg, terms, active, pivot, results>>

\* seek_to_pivot, one cursor: when it is exhausted, a new pivot is chosen.
Behind == {i \in 1..pivot.len : Doc(terms[i]) < pivot.doc}

SeekToPivot ==
  /\ step = "seek"
  /\ IF Behind = {} THEN step' = "bound" /\ UNCHANGED <<terms, active>>
     ELSE LET i == Min(Behind)
              at == Sought(terms[i], pivot.doc)
          IN  /\ Move(i, at)
              /\ step' = IF at > Len(Postings(terms[i].term)) THEN "pivot" ELSE "seek"
  /\ UNCHANGED <<index, max_results, weight, heap, todo, seg, pivot, results>>

\* compute_block_max_at_pivot.
UpperBound ==
  SumFunction([i \in 1..pivot.len |-> BlockMax(terms[i].term, BlockOf(terms[i]))])

\* block_max_skip_advance seeks past the block that ends first, but not past
\* the first cursor that does not take part.
SkipTargetUnmoved == pivot.doc
SkipTarget ==
  Min({LastDoc(terms[i].term, BlockOf(terms[i])) + 1 : i \in 1..pivot.len}
      \union {Doc(terms[i]) : i \in DOMAIN terms \cap {pivot.len + 1}})

SkipBlocks ==
  /\ step = "bound"
  /\ UpperBound <= Threshold(heap, max_results)
  /\ LET best == Min({i \in 1..pivot.len :
                        \A j \in 1..pivot.len : MaxScore(terms[j].term) <= MaxScore(terms[i].term)})
     IN  Move(best, Sought(terms[best], SkipTarget))
  /\ step' = "pivot"
  /\ UNCHANGED <<index, max_results, weight, heap, todo, seg, pivot, results>>

\* verify_pivot_alignment.
Aligned == \A i \in 1..pivot.len : Doc(terms[i]) = pivot.doc

Repivot ==
  /\ step = "bound"
  /\ UpperBound > Threshold(heap, max_results)
  /\ ~Aligned
  /\ step' = "pivot"
  /\ UNCHANGED <<index, max_results, weight, heap, todo, seg, terms, active, pivot, results>>

\* score_pivot_document.
PivotScore ==
  SumFunction([i \in 1..pivot.len |->
    Contribution(terms[i].term, Postings(terms[i].term)[terms[i].at])])

ScoreDocument ==
  /\ step = "bound"
  /\ UpperBound > Threshold(heap, max_results)
  /\ Aligned
  /\ heap' = IF PivotScore > 0 /\ ~Dominated(heap, max_results, PivotScore)
             THEN Add(heap, max_results, FromSegment(seg, pivot.doc, PivotScore)) ELSE heap
  /\ step' = "advance"
  /\ UNCHANGED <<index, max_results, weight, todo, seg, terms, active, pivot, results>>

\* advance_term_iterator for the last cursor that is still at the pivot.
AdvancePastPivot ==
  /\ step = "advance"
  /\ LET at == {i \in 1..pivot.len : Doc(terms[i]) = pivot.doc}
     IN  IF at = {} THEN step' = "pivot" /\ UNCHANGED <<terms, active>>
         ELSE Move(Max(at), terms[Max(at)].at + 1) /\ step' = "advance"
  /\ UNCHANGED <<index, max_results, weight, heap, todo, seg, pivot, results>>

\* The ctids of segments' documents are looked up and the heap is emptied.
Extract ==
  /\ step = "next" \/ (step = "memtable" /\ todo = {})
  /\ seg = Len(index.segments)
  /\ results' = Extracted(Resolved(heap, [s \in DOMAIN index.segments |-> index.segments[s].ctids]))
  /\ heap' = <<>>
  /\ step' = "done"
  /\ UNCHANGED <<index, max_results, weight, todo, seg, terms, active, pivot>>

SearchStep ==
  \/ AddMemtable \/ OpenSegment \/ PassBlock \/ ScanPosting \/ FindPivot \/ LeaveSegment
  \/ SeekToPivot \/ SkipBlocks \/ Repivot \/ ScoreDocument \/ AdvancePastPivot \/ Extract

=============================================================================
