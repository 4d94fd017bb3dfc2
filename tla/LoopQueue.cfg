SPECIFICATION Spec
CONSTANTS
  Value = {a, b}
  Size = 3
  MaxBatch = 2
  None = None
INVARIANTS
  RingOrder
  SlotRaceFree
  SlotStable
PROPERTY
  FifoQueue
