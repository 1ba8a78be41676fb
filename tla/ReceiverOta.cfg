CONSTANTS
  long = long
  even = even
  huge = huge
  Images = {long, even, huge}
  ImageLen <- MCImageLen
  PageLen = 2
  ChunkLen = 3
  RunBase = 2
  FlashEnd = 8
  AppLens = {5, 9}
  Boots = {"mcuboot", "uf2", "none", "acl"}
SPECIFICATION Spec
INVARIANTS SlotsSound CompleteVerifies InstallSafe
PROPERTIES WriterStops
CHECK_DEADLOCK FALSE
VIEW BufferView
