SPECIFICATION Spec
CONSTANTS
  Subscriptions = {kpm, rc}
  MaxSignals = 2
INVARIANTS
  UnsubscribedAtExit
CHECK_DEADLOCK FALSE
