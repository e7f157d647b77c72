CONSTANTS
  None = None
  MaxTime = 2
  Offsets = {1}
  EventIds = {1, 2, 3, 4}
  MaxEvents = 4
SPECIFICATION Spec
INVARIANTS TruthIsAccepted GeneratedPasses ViewShowsStatus CycleTimesOrdered
CHECK_DEADLOCK FALSE
