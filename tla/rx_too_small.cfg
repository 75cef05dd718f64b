SPECIFICATION Spec
CONSTANTS
  WORD = 64
  FrameLengths <- Lengths11
  DummySizes = {0, 1}
  MaxPacket = 2
  InputCap = 20
  Modes = {FALSE}
  AppendStatus = TRUE
  AppendTimestamp = FALSE
  RxMultiple = FALSE
  StatusLength = 1
  TimestampLength = 8
  ReadDpcs = {d1}
  MaxReads = 1
  ReadLengths = {2}
  MaxPurges = 1
  MaxFailures = 0
  MaxFailedReads = 0
PROPERTY TooSmallMeansTooSmall
