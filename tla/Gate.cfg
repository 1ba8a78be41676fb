SPECIFICATION FairSpec
CONSTANTS
  Channels = {0, 2}
  AutoChannels = {0, 2}
  FactoryHome = 2
  AnnounceTicks = 1
  MaxGen = 2
  Kinds <- AllKinds
CHECK_DEADLOCK TRUE
INVARIANTS RadioOwned HomeServed PinnedStays
PROPERTIES FaultSticky HidTold TrialJudged
