SPECIFICATION Spec
CONSTANTS
  SnModulus = 8
  Span = 4
  SduLen = 3
  MaxNackRange = 3
  SizeofHeader = 3
  SizeofNackSn = 2
  SizeofNackSo = 4
  SizeofNackRange = 1
INVARIANTS
  ReportIsTrue
CHECK_DEADLOCK FALSE
