CONSTANTS
  WeekDays = 2
  FirstWeekday = 1
  PlannerWeeks = 3
  BacktestWeeks = 2
  ValidationWeeks = 2
  MaxDays = 10
  MaxLate = 1
SPECIFICATION StaffingSpec
INVARIANTS BacktestIsLive BucketsAreWhole
CHECK_DEADLOCK FALSE
