SPECIFICATION Spec
CONSTANTS
  SnModulus = 4
  AmWindowSize = 2
  SduLen = 3
  HeadMin = 1
  HeadMax = 2
  Grants = {2, 3}
  MaxSdus = 2
  ChanCap = 1
  QueueSize = 1
  MaxRetxThresh = 1
  PollPdu = 0
  PollByte = 0
  MaxWindow = 0
  Discardable = {}
  RetxCountBound = 1
  MaxSnPerStatus = 2
  StatusProhibit = FALSE
INVARIANTS
  RetxOnlyWhatWasSent
  TriggerLooksUpKnownSn
  NoProtocolFailure
PROPERTIES
  ImplementsService
  PollOnLastPdu
CHECK_DEADLOCK FALSE
