--------------------------- MODULE MCSnapshotStore ---------------------------
(* A small instance of SnapshotStore. *)
EXTENDS SnapshotStore, TLC

Symmetry == Permutations(Jobs)
=============================================================================
