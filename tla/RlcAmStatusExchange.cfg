SPECIFICATION Spec
CONSTANTS
  MaxReports = 2
  MaxDlPduLength = 1
  MaxBacklog = 2
  Prohibit = TRUE
  DeferMayFail = FALSE
INVARIANTS
  NoSharedBuffer
PROPERTIES
  MacLearnsOfRequest
  RequestIsAnswered
CHECK_DEADLOCK FALSE
