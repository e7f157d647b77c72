---------------------------- MODULE MCIngestionApi ----------------------------
(***************************************************************************)
(* Two replicas with a worker thread each.  Batches "ab" and "bc" share a  *)
(* case.  The old credential expires at instant 1, the new one replaces it *)
(* in three deployments, and the reader's only reads.                      *)
(***************************************************************************)
EXTENDS IngestionApi, TLC

MCCaseOrder   == [ab |-> <<"A", "B">>, bc |-> <<"B", "C">>]
MCEventOrder  == [ab |-> <<"a1", "b1">>, bc |-> <<"b2", "c1">>]
MCFingerprint == [ab |-> 1, bc |-> 2]
MCHome        == [s1 |-> "r1", s2 |-> "r2"]

Old    == [token |-> "old", scopes |-> {"cases:write", "cases:read"}, expires |-> 1]
New    == [token |-> "new", scopes |-> {"cases:write"}, expires |-> None]
Reader == [token |-> "reader", scopes |-> {"cases:read"}, expires |-> None]

Symmetry == Permutations(Keys)

Rotation == <<<<Old, Reader>>, <<Old, New>>, <<New>>>>
=============================================================================
