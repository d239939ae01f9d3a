---------------------------- MODULE MCIndexScan ----------------------------
(***************************************************************************)
(* Small indexes for IndexScan.  A term's postings in the large segment    *)
(* are one of a few patterns, given as the frequency in each document; the *)
(* lengths of the documents are another pattern.                           *)
(***************************************************************************)
EXTENDS IndexScan

\* It rises with the frequency and falls with the length, for lengths 1 and 2.
SmallSaturation(tf, len) == 2 * tf + 1 - len

\* No document, the first and the last, every second, all of them, and so on:
\* with blocks of two, lists of up to three blocks whose ends lie apart.
Patterns == {<<0, 0, 0, 0, 0, 0>>, <<1, 0, 0, 0, 0, 2>>, <<1, 2, 1, 1, 1, 2>>,
             <<0, 2, 0, 1, 0, 1>>, <<0, 0, 1, 1, 2, 0>>}
LengthPatterns == {<<1, 1, 1, 1, 1, 1>>, <<2, 1, 2, 2, 1, 2>>}

PostingsOf(tfs, lens) ==
  SelectSeq([d \in DOMAIN tfs |-> [doc |-> d, tf |-> tfs[d], len |-> lens[d]]],
            LAMBDA p : p.tf > 0)
SegmentOf(tfs, lens, base) ==
  [ctids |-> [d \in DOMAIN lens |-> 2 * d + base],
   postings |-> [t \in DOMAIN tfs |-> PostingsOf(tfs[t], lens)]]

Memtable(n) == {[ctid |-> 1, len |-> 1, tf |-> [t \in 1..n |-> 1]],
                [ctid |-> 9, len |-> 2, tf |-> [t \in 1..n |-> IF t = 1 THEN 2 ELSE 0]]}
Second(n) == SegmentOf([t \in 1..n |-> IF t = 1 THEN <<1, 1, 2>> ELSE <<0, 1, 0>>], <<1, 2, 1>>, 1)

\* Queries of one, two and three terms, the second of which may come twice.
Queries == {<<1>>, <<1, 1>>, <<1, 1, 1>>, <<1, 2, 1>>}

\* The large segment alone; with a second one; with the memtable; the memtable alone.
SmallIndexes ==
  UNION {LET n == Len(q) IN
    UNION {LET first == SegmentOf(tfs, lens, 0) IN
             {[query |-> q, memtable |-> {}, segments |-> <<first>>],
              [query |-> q, memtable |-> Memtable(n), segments |-> <<first, Second(n)>>],
              [query |-> q, memtable |-> Memtable(n), segments |-> <<>>]} :
           tfs \in [1..n -> Patterns], lens \in LengthPatterns} : q \in Queries}

=============================================================================
