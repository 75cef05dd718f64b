SPECIFICATION Spec
CONSTANTS
  WORD = 64
  FrameLengths <- Lengths21
  DummySizes = {0, 1}
  MaxPacket = 2
  InputCap = 20
  Modes = {FALSE}
  AppendStatus = FALSE
  AppendTimestamp = TRUE
  RxMultiple = TRUE
  StatusLength = 1
  TimestampLength = 1
  ReadDpcs = {d1}
  MaxReads = 2
  ReadLengths = {1, 3}
  MaxPurges = 0
  MaxFailures = 0
  MaxFailedReads = 0
INVARIANTS TypeOK NoOverread FramesIntact ReadWithinBuffer
PROPERTY ReceivesInOrder
