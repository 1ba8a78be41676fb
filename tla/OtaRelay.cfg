CONSTANTS
  Trackers = {1, 2}
  Total = 3
  RingSize = 2
  MaxParallel = 2
  MaxInFlight = 1
  MaxFaults = 1
SPECIFICATION FairSpec
INVARIANTS SessionSound
PROPERTIES RingServes Transferred
CHECK_DEADLOCK FALSE
