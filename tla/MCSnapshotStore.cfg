CONSTANTS
  Jobs = {j1, j2}
  Earlier = Earlier
  MaxTime = 5
  ExplicitTimes = {2, 5}
  Fragile = {1}
  RetentionDays = 2
  MinimumSnapshots = 2
SYMMETRY Symmetry
SPECIFICATION Spec
INVARIANTS FloorHolds UnfitBlocksRetention
PROPERTIES Immutable WindowHolds
CHECK_DEADLOCK FALSE
