CONSTANTS
  None = None
  MaxTime = 2
  Offsets = {0, 2}
  EventIds = {1, 2}
  MaxEvents = 2
SPECIFICATION Spec
INVARIANT TextViewShowsLatest
CHECK_DEADLOCK FALSE
