SPECIFICATION FairSpec
CONSTANTS
  d1 = d1
  d2 = d2
  Devices = {d1}
  BadDevices = {}
  MaxTrackers = 1
  QueueCap = 1
  MaxTarget = 2
  Timeouts = {0, 2}
  ExitTicks = 1
  Resets = FALSE
  Preempt = FALSE
  UserOps = {"pop", "clear"}
PROPERTIES SessionsEnd
