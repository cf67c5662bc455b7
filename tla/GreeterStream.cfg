SPECIFICATION LiveSpec
CONSTANTS
  NameCount = 4
  Window = 1
INVARIANT
  CompleteWhenOK
PROPERTIES
  ClientEnds
  StopEndsRun
CHECK_DEADLOCK FALSE
