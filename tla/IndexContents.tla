---------------------------- MODULE IndexContents ----------------------------
(***************************************************************************)
(* What a bm25 index promises the table it belongs to while nothing        *)
(* restarts: every inserted document is found until vacuum removes it, and *)
(* vacuum tells the table to reuse the place of a dead row only when the   *)
(* index no longer finds it.  Spills, merges and truncation do not show.   *)
(***************************************************************************)
EXTENDS Naturals

CONSTANT Docs           \* documents, known by their ctid

VARIABLES
    heap,       \* what became of each document's heap tuple
    found       \* documents a query of the index can return

vars == <<heap, found>>

Init ==
    /\ heap = [d \in Docs |-> "absent"]
    /\ found = {}

Insert(d) ==
    /\ heap[d] = "absent"
    /\ heap' = [heap EXCEPT ![d] = "live"]
    /\ found' = found \cup {d}

Delete(d) ==
    /\ heap[d] = "live"
    /\ heap' = [heap EXCEPT ![d] = "dead"]
    /\ UNCHANGED found

\* Only documents whose heap tuple is dead leave the index.
Remove ==
    /\ found' \subseteq found
    /\ \A d \in found \ found' : heap[d] = "dead"
    /\ UNCHANGED heap

\* The heap forgets tuples that the index no longer points to.
Reclaim(gone) ==
    /\ gone \cap found = {}
    /\ heap' = [d \in Docs |-> IF d \in gone THEN "gone" ELSE heap[d]]
    /\ UNCHANGED found

Next ==
    \/ \E d \in Docs : Insert(d) \/ Delete(d)
    \/ Remove
    \/ \E gone \in SUBSET {d \in Docs : heap[d] = "dead"} : Reclaim(gone)

Spec == Init /\ [][Next]_vars

-----------------------------------------------------------------------------
\* What a query may rely on: every live row is found, and no row that is not yet
\* inserted or whose ctid the heap has given up (tp_bulkdelete) is.
Dependable ==
    \A d \in Docs :
        /\ heap[d] = "live" => d \in found
        /\ heap[d] \in {"absent", "gone"} => d \notin found

=============================================================================
