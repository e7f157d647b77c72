-------------------------- MODULE MCOperationsConsole --------------------------
(***************************************************************************)
(* Twenty cases of two departments in two districts.  Their ages and the   *)
(* time they have left hit the bounds of every bucket, and the closed      *)
(* cases of a selection number from none to twelve.  The one closed after  *)
(* five hours was never in progress.                                       *)
(***************************************************************************)
EXTENDS OperationsConsole

Row(opened, elapsed, target, department, district, risk) ==
  [opened |-> opened,
   started |-> CASE elapsed = None -> opened + 1 [] elapsed = 5 -> None [] OTHER -> opened + elapsed \div 3,
   closed |-> IF elapsed = None THEN None ELSE opened + elapsed,
   target |-> target, department |-> department, district |-> district, risk |-> risk]

Table == <<
  Row(216, None, 4, "water", 1, 80),    Row(210, None, 24, "parks", 2, 40),
  Row(176, None, 24, "water", 1, 65),   Row(175, None, 24, "parks", 1, 66),
  Row(152, None, 72, "water", 2, 90),   Row(128, None, 72, "water", 1, 36),
  Row(127, None, 120, "parks", 2, 10),  Row(120, 30, 24, "water", 2, 50),
  Row(110, 10, 24, "water", 1, 50),     Row(100, 80, 72, "parks", 2, 50),
  Row(90, 20, 24, "water", 1, 50),      Row(80, 100, 72, "water", 2, 50),
  Row(70, 50, 72, "water", 1, 50),      Row(60, 60, 72, "water", 1, 50),
  Row(50, 40, 72, "water", 1, 50),      Row(32, None, 120, "water", 1, 70),
  Row(30, 75, 72, "water", 2, 50),      Row(20, 5, 4, "water", 1, 50),
  Row(10, 15, 24, "water", 1, 50),      Row(5, 90, 120, "water", 1, 50) >>

MCFacts     == Table
MCBatches   == {1..2, 3..18, 19..20}
MCGenerated == {3..18, 3..20}
=============================================================================
