SPECIFICATION LiveSpec
CONSTANTS
  Connections = 2
  NTry = 3
INVARIANTS
  SocketOutlivesSsl
  NeverResumesEarly
  KeptSessionFinished
  KeepAliveInStep
PROPERTY
  ProgramEnds
CHECK_DEADLOCK FALSE
