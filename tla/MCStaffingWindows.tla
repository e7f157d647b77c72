-------------------------- MODULE MCStaffingWindows --------------------------
(* Weeks of two days. *)
EXTENDS StaffingWindows
=============================================================================
