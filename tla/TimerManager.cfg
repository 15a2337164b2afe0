SPECIFICATION Spec
CONSTANTS
  Timers = {1}
  Cached = {}
  Durations = {0, 3}
  WHEEL_SIZE = 2
  TimeModulus = 4
  MaxCmd <- CommandBound
  MaxDeferFailures = 2
INVARIANTS
  TypeOK
  SignalPerCommand
  NoUpdateIsMissed
  ExpiryFindsRunning
PROPERTIES
  ImplementsTimerService
  ResetReturnsTimer
