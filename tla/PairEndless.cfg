SPECIFICATION FairSpec
CONSTANTS
  d1 = d1
  d2 = d2
  Devices = {d1}
  BadDevices = {}
  MaxTrackers = 1
  QueueCap = 1
  MaxTarget = 1
  Timeouts = {1}
  ExitTicks = 1
  Resets = FALSE
  Preempt = TRUE
  UserOps = {}
PROPERTIES SessionEnds
