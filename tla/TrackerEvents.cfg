CONSTANTS
  Scenes <- MCScenes
  Offset = 5
  Modulus = 6
  Window = 2
  OpCount = 1
  RxCount = 1
  FifoCap = 1
  CmdCap = 1
  Masks = {{"rest", "op", "power"}}
  Ttl = 1
  RestStale = 1
  CalSilence = 1
  Activity = 1
  Relevance = 2
  Lag = 2
SPECIFICATION Spec
VIEW LiveView
INVARIANTS TypeOK NoForeignRecord ToldIsCurrent
PROPERTIES NeverBack CauseIsCurrent
