CONSTANTS
  MaxTrackers = 2
  Modulus = 32
  CohortMs = 1
  FreshMs = 3
  GraceMs = 4
  ReconfigMinMs = 2
  LossReconfigMinMs = 4
  MonitorMs = 2
  EpochModulus = 2
  TopLevel = 0
  TestAllUsed = FALSE
  CollectUsed = FALSE
  MaxLate = 1
SPECIFICATION Spec
INVARIANTS TypeOK LayoutSound NoGhostMember DeadlineTracksChange ChangesTimely DeadlineYoung
PROPERTIES PassesJust
VIEW TimeView
