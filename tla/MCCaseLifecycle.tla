--------------------------- MODULE MCCaseLifecycle ---------------------------
(* Histories of one case with up to four events, or generated ones. *)
EXTENDS CaseLifecycle
=============================================================================
