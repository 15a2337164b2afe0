SPECIFICATION TimelySpec
CONSTANTS
  SnModulus = 4
  AmWindowSize = 2
  SduLen = 2
  HeadMin = 1
  HeadMax = 2
  Grants = {3}
  MaxSdus = 3
  ChanCap = 2
  QueueSize = 2
  MaxRetxThresh = 2
  PollPdu = 0
  PollByte = 0
  MaxWindow = 0
  Discardable = {}
  RetxCountBound = 3
  MaxSnPerStatus = 2
  StatusProhibit = TRUE
PROPERTIES
  EventuallyResolved
CHECK_DEADLOCK FALSE
