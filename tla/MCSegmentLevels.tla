-------------------------- MODULE MCSegmentLevels ---------------------------
(* Small instances of SegmentLevels for TLC. *)
EXTENDS SegmentLevels, TLC

\* Backends are told apart by nothing but their state.
Interchangeable == Permutations(Backends)

=============================================================================
