CONSTANTS
  t1 = t1
  t2 = t2
  Trackers = {t1, t2}
  Flags = {"meow"}
  MaxReq = 2
  MaxTok = 1
SPECIFICATION Spec
INVARIANTS WomSound HonestCompletion
PROPERTIES RequestEnds
CHECK_DEADLOCK FALSE
VIEW LiveView
