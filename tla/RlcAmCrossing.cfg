SPECIFICATION FairSpec
CONSTANTS
  SnModulus = 4
  AmWindowSize = 2
  SduLen = 2
  HeadMin = 1
  HeadMax = 2
  Grants = {3}
  MaxSdus = 2
  ChanCap = 1
  QueueSize = 2
  MaxRetxThresh = 1
  PollPdu = 0
  PollByte = 0
  MaxWindow = 0
  Discardable = {}
  RetxCountBound = 2
  MaxSnPerStatus = 2
  StatusProhibit = FALSE
PROPERTIES
  PollFollowsExpiry
CHECK_DEADLOCK FALSE
