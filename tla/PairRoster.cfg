SPECIFICATION Spec
CONSTANTS
  d1 = d1
  d2 = d2
  Devices = {d1, d2}
  BadDevices = {}
  MaxTrackers = 2
  QueueCap = 2
  MaxTarget = 1
  Timeouts = {1}
  ExitTicks = 1
  Resets = TRUE
  Preempt = TRUE
  UserOps = {"add", "pop", "clear"}
SYMMETRY Interchangeable
VIEW LiveView
INVARIANTS RosterSound IdsSurvive NoStaleRequest
