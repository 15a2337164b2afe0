SPECIFICATION Spec
CONSTANTS
  SnModulus = 4
  AmWindowSize = 2
  SduLen = 2
  HeadMin = 1
  HeadMax = 2
  Grants = {1, 3}
  MaxSdus = 5
  ChanCap = 2
  QueueSize = 3
  MaxRetxThresh = 1
  PollPdu = 2
  PollByte = 0
  MaxWindow = 0
  Discardable = {2, 3}
  RetxCountBound = 2
  MaxSnPerStatus = 2
  StatusProhibit = FALSE
INVARIANTS
  TypeOK
  TxWindowContiguous
  RxStateOrder
  WindowsAligned
  AcceptedReportIsTrue
PROPERTIES
  ImplementsService
CHECK_DEADLOCK FALSE
