CONSTANTS
  r1 = r1
  r2 = r2
  p1 = p1
  p2 = p2
  Rehearsals = {r1, r2}
  Names = {n1, n2}
  Paths = {p1, p2}
  PathOf <- OwnPaths
  Outside = Outside
  Nothing = Nothing
  MaxVersion = 2
SPECIFICATION RehearsalSpec
INVARIANTS ReportMeansClean NoFalseAlarm
PROPERTY DropsOnlyItsOwn
CHECK_DEADLOCK FALSE
