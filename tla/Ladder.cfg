CONSTANTS
  MaxTrackers = 1
  Modulus = 32
  CohortMs = 1
  FreshMs = 2
  GraceMs = 3
  ReconfigMinMs = 2
  LossReconfigMinMs = 3
  MonitorMs = 1
  EpochModulus = 2
  TopLevel = 2
  TestAllUsed = TRUE
  CollectUsed = TRUE
  MaxLate = 1
SPECIFICATION Spec
PROPERTIES LadderSound EpochMovesWithLayout
VIEW TimeView
