------------------------ MODULE IndexContentsProofs -------------------------
(* Proofs about IndexContents. *)
EXTENDS IndexContents, TLAPS

Statuses == {"absent", "live", "dead", "gone"}
IInv     == heap \in [Docs -> Statuses] /\ Dependable

\* Inserts, deletions, removals and reclaimed ctids keep the promise.
LEMMA NextKeeps == IInv /\ [Next]_vars => IInv'
<1> SUFFICES ASSUME IInv, [Next]_vars PROVE IInv'
  OBVIOUS
<1> USE DEF IInv, Dependable, Statuses
<1>1. ASSUME NEW d \in Docs, Insert(d) PROVE IInv'
  BY <1>1 DEF Insert
<1>2. ASSUME NEW d \in Docs, Delete(d) PROVE IInv'
  BY <1>2 DEF Delete
<1>3. CASE Remove
  BY <1>3 DEF Remove
<1>4. ASSUME NEW gone \in SUBSET {d \in Docs : heap[d] = "dead"}, Reclaim(gone) PROVE IInv'
  BY <1>4 DEF Reclaim
<1>5. CASE UNCHANGED vars
  BY <1>5 DEF vars
<1> QED
  BY <1>1, <1>2, <1>3, <1>4, <1>5 DEF Next

\* Every index that implements IndexContents finds each live row, and none that
\* the heap may have given to another row.
THEOREM DependableAlways == Spec => []Dependable
<1>1. Init => IInv
  BY DEF Init, IInv, Dependable, Statuses
<1>2. IInv => Dependable
  BY DEF IInv
<1> QED
  BY <1>1, <1>2, NextKeeps, PTL DEF Spec

=============================================================================
