-------------------------- MODULE MCSchemaMigration --------------------------
(* Three or four replicas on one database. *)
EXTENDS SchemaMigration
=============================================================================
