-------------------------- MODULE MCEvidenceBundle ---------------------------
(* Two runs of the civicflow command around the snapshot command. *)
EXTENDS EvidenceBundle, TLC

Symmetry == Permutations(Runs)
=============================================================================
