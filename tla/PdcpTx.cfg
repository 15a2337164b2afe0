SPECIFICATION TimelySpec
CONSTANTS
  Modes = {"am", "um"}
  Starts <- MCStarts
  DiscardTimers = {0, 2}
  TickModulus = 4
  SnCardinality = 8
  CountModulus = 32
  MaxCount = 9
  InitCount = 6
  BufferSizes = {3}
  SduBufferSize = 1
  MaxSdus <- MCMaxSdus
  MaxKeys = 2
  MaxFaults = 1
INVARIANTS
  TypeOK
  KeyAndCountOnce
  SubmittedInOrder
  WaitingPduHasTimer
  DiscardNotLate
  DrainWakesRoutine
CHECK_DEADLOCK FALSE
