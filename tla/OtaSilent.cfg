CONSTANTS
  Trackers = {1, 2}
  Total = 3
  RingSize = 2
  MaxParallel = 2
  MaxInFlight = 1
  MaxFaults = 0
SPECIFICATION Spec
INVARIANT RingNeverOverflows
CHECK_DEADLOCK FALSE
