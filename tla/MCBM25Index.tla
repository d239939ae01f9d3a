---------------------------- MODULE MCBM25Index -----------------------------
(* Small instances of BM25Index for TLC. *)
EXTENDS BM25Index, TLC

\* Backends are told apart by nothing but their state.
Interchangeable == Permutations(Backends)

=============================================================================
