CONSTANTS
  t1 = t1
  t2 = t2
  Trackers = {t1}
  Others = {t2}
  Rates = {0, 3}
  Caps = {1, 3}
  Default = 2
  MaxCmds = 2
  MaxLayouts = 2
  MaxFaults = 1
SPECIFICATION Spec
INVARIANTS TargetedWins PolicySound
PROPERTIES Converges
