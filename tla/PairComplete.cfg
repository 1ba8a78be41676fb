SPECIFICATION Spec
CONSTANTS
  d1 = d1
  d2 = d2
  Devices = {d1}
  BadDevices = {}
  MaxTrackers = 1
  QueueCap = 1
  MaxTarget = 1
  Timeouts = {0}
  ExitTicks = 1
  Resets = FALSE
  Preempt = FALSE
  UserOps = {"pop", "clear"}
PROPERTIES CompleteMeansPaired
