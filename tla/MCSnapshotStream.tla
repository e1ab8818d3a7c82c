-------------------------- MODULE MCSnapshotStream --------------------------
(* SnapshotStream for TLC: publishers are only compared. *)
EXTENDS SnapshotStream, TLC

Symmetry == Permutations(Publishers)
=============================================================================
