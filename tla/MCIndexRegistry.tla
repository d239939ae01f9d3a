--------------------------- MODULE MCIndexRegistry ---------------------------
(* Small instances of IndexRegistry for TLC. *)
EXTENDS IndexRegistry, TLC

\* Backends are told apart by nothing but their state.
Interchangeable == Permutations(Backends)

=============================================================================
