SPECIFICATION Spec
CONSTANTS
  WORD = 64
  FrameLengths <- Lengths16
  DummySizes = {0, 1}
  MaxPacket = 2
  InputCap = 2
  Modes = {FALSE}
  AppendStatus = TRUE
  AppendTimestamp = FALSE
  RxMultiple = FALSE
  StatusLength = 1
  TimestampLength = 8
  ReadDpcs = {d1}
  MaxReads = 1
  ReadLengths = {3}
  MaxPurges = 0
  MaxFailures = 1
  MaxFailedReads = 0
CONSTRAINT Prompt
INVARIANTS NoOverread SizeReadsTracked QueuedEstimateExact HeldBounded StreamWithinCap BytesInOrder
