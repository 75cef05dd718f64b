SPECIFICATION Spec
CONSTANTS
  WORD = 64
  WriteLengths = {0, 5}
  MaxWrites = 2
  OutputCap = 7
  FifoSpace = 4
  None = None
  MaxPending = 1
  Workers = {w1, w2}
  MaxPurges = 1
  MaxFailures = 1
CONSTRAINT OneFault
SYMMETRY WorkerSymmetry
INVARIANTS QueuedEstimateExact OutputWithinCap WireBytesInOrder
