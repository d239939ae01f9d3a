---------------------------- MODULE MCAsyncJobs -----------------------------
(* Small instances of AsyncJobs for TLC. *)
EXTENDS AsyncJobs, TLC

\* Requests, and workers, are told apart by nothing but their state.
Interchangeable == Permutations(Requests) \cup Permutations(Workers)

=============================================================================
