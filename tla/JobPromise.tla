----------------------------- MODULE JobPromise -----------------------------
(***************************************************************************)
(* What a client that polls ai.results may rely on, without the outbox,    *)
(* the notifications or the workers that make it happen.                   *)
(*                                                                         *)
(* A request is submitted once.  It gets one outcome: a success whose      *)
(* effect (the document and chunks of an ingest) is committed with it, or  *)
(* an error.  The one revision allowed is that a success is later reported *)
(* as an error, because a worker that never saw the acknowledgement of its *)
(* commit marks the request failed; the effect stays.  An error is never   *)
(* revised and no effect happens twice.                                    *)
(***************************************************************************)
EXTENDS Naturals

CONSTANT Requests

VARIABLES
    status,     \* ai.results.status of each request, "absent" before the row
    stored      \* documents committed to ai.documents for each request

vars == <<status, stored>>

Statuses == {"absent", "pending", "done", "error"}

Init ==
    /\ status = [r \in Requests |-> "absent"]
    /\ stored = [r \in Requests |-> 0]

Submit(r) ==
    /\ status[r] = "absent"
    /\ status' = [status EXCEPT ![r] = "pending"]
    /\ UNCHANGED stored

Succeed(r) ==
    /\ status[r] = "pending"
    /\ status' = [status EXCEPT ![r] = "done"]
    /\ \E n \in {0, 1} : stored' = [stored EXCEPT ![r] = n]

Fail(r) ==
    /\ status[r] = "pending"
    /\ status' = [status EXCEPT ![r] = "error"]
    /\ UNCHANGED stored

\* The commit of a success went through, its acknowledgement did not.
Revise(r) ==
    /\ status[r] = "done"
    /\ status' = [status EXCEPT ![r] = "error"]
    /\ UNCHANGED stored

Next == \E r \in Requests : Submit(r) \/ Succeed(r) \/ Fail(r) \/ Revise(r)

Spec == Init /\ [][Next]_vars

=============================================================================
