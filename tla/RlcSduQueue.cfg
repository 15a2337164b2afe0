SPECIFICATION Spec
CONSTANTS
  Capacity = 2
  ByteLimit = 6
  PdcpSn = {0, 1, 2}
  Sizes = {1, 2}
  Width = 16
  MaxSdus = 4
INVARIANTS
  TypeOK
  NoInvalidRelease
  NoSlotLeak
  DiscardedNeverTaken
  CounterExact
PROPERTIES
  ImplementsFifo
CHECK_DEADLOCK FALSE
