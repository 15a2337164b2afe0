SPECIFICATION TimelySpec
CONSTANTS
  Configs <- MCConfigs
  Starts <- MCStarts
  SnCardinality = 8
  CountModulus = 32
  MaxCount = 20
  InitCount = 6
  PduBufferSize = 1
  MaxEvents <- MCMaxEvents
  MaxKeys = 2
  MaxFaults <- MCMaxFaults
INVARIANTS
  TypeOK
  TimerGuardsGap
  CountRecovered
PROPERTIES
  ImplementsPdcpService
  HeldIsDelivered
  RoutineCompletes
CHECK_DEADLOCK FALSE
