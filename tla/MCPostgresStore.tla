--------------------------- MODULE MCPostgresStore ---------------------------
(***************************************************************************)
(* A small instance of PostgresStore.  Batches "ab" and "ba" hold the same *)
(* two cases in opposite orders, which is what makes a circle of waiting   *)
(* transactions.                                                           *)
(***************************************************************************)
EXTENDS PostgresStore

MCCaseOrder   == [ab |-> <<"A", "B">>, ba |-> <<"B", "A">>]
MCEventOrder  == [ab |-> <<"a1", "b1">>, ba |-> <<"b1", "a2">>]
MCFingerprint == [ab |-> 1, ba |-> 2]
MCDistinct    == [k \in Keys |-> k]
=============================================================================
