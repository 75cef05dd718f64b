SPECIFICATION FairSpec
CONSTANTS
  WORD = 64
  WriteLengths = {3, 5}
  MaxWrites = 2
  OutputCap = 20
  FifoSpace = 4
  None = None
  MaxPending = 1
  Workers = {w1}
  MaxPurges = 0
  MaxFailures = 0
INVARIANTS TypeOK WireIntact TransmitWithinBuffer
PROPERTIES SentOrDrifted TransmitsInOrder
