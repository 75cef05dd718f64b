SPECIFICATION FairSpec
CONSTANTS
  WORD = 64
  FrameLengths <- Lengths1
  DummySizes = {0, 1}
  MaxPacket = 2
  InputCap = 20
  Modes = {TRUE, FALSE}
  AppendStatus = TRUE
  AppendTimestamp = FALSE
  RxMultiple = FALSE
  StatusLength = 1
  TimestampLength = 8
  ReadDpcs = {d1, d2}
  MaxReads = 1
  ReadLengths = {0, 2}
  MaxPurges = 1
  MaxFailures = 0
  MaxFailedReads = 0
INVARIANT RequestsHeldOnce
PROPERTIES AnsweredOnce TooSmallExplained PurgeAnswersReads PurgeReturns
