------------------------- MODULE MCRecoveryRehearsal -------------------------
(* Two rehearsals, each with a backup path of its own. *)
EXTENDS RecoveryRehearsal

CONSTANTS r1, r2, p1, p2
OwnPaths == [r \in {r1, r2} |-> IF r = r1 THEN p1 ELSE p2]
=============================================================================
