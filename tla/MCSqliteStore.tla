---------------------------- MODULE MCSqliteStore ----------------------------
(***************************************************************************)
(* A small instance of SqliteStore: the generated batch "demo" uses one of *)
(* the case ids of "ab" (synthetic ids come from one small range).         *)
(***************************************************************************)
EXTENDS SqliteStore

MCCaseOrder   == [ab |-> <<"A", "B">>, demo |-> <<"A">>]
MCEventOrder  == [ab |-> <<"a1", "b1">>, demo |-> <<"d1">>]
MCFingerprint == [ab |-> 1, demo |-> 2]
=============================================================================
