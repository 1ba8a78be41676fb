SPECIFICATION Spec
CONSTANTS
  Channels = {0, 2}
  AutoChannels = {0, 2}
  FactoryHome = 2
  AnnounceTicks = 1
  MaxGen = 2
  Kinds <- NoKinds
CHECK_DEADLOCK TRUE
PROPERTIES CommitRecognised
