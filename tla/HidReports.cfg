CONSTANTS
  p1 = p1
  p2 = p2
  isr = isr
  Threads = {p1, p2}
  Isr = isr
  Kinds = {"event"}
  IsrKinds = {"stream", "ack"}
  Capacity = 2
  Reserve = 1
  Batch = 2
  MaxPush = 5
  MaxUsb = 1
SPECIFICATION Spec
VIEW LiveView
INVARIANTS RingSound
PROPERTIES ImplementsQueue EveryReportLeaves
