SPECIFICATION Spec
CONSTANTS
  WORD = 64
  WriteLengths = {3}
  MaxWrites = 2
  OutputCap = 20
  FifoSpace = 4
  None = None
  MaxPending = 1
  Workers = {w1}
  MaxPurges = 0
  MaxFailures = 0
INVARIANT InFlightWithinMax
