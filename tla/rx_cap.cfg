SPECIFICATION Spec
CONSTANTS
  WORD = 64
  FrameLengths <- Lengths32
  DummySizes = {0, 1}
  MaxPacket = 2
  InputCap = 3
  Modes = {FALSE}
  AppendStatus = TRUE
  AppendTimestamp = FALSE
  RxMultiple = FALSE
  StatusLength = 1
  TimestampLength = 8
  ReadDpcs = {d1}
  MaxReads = 0
  ReadLengths = {2}
  MaxPurges = 0
  MaxFailures = 0
  MaxFailedReads = 0
INVARIANT HeldWithinCap
