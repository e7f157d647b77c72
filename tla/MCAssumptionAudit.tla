--------------------------- MODULE MCAssumptionAudit ---------------------------
(* Three snapshots, one of them invalid, and two runs of the pipeline. *)
EXTENDS AssumptionAudit, TLC

Symmetry == Permutations(Runs)
================================================================================
