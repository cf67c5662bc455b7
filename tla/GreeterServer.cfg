SPECIFICATION Spec
CONSTANTS
  MaxSessions = 2
  MaxRequests = 2
  MaxRounds = 2
  TagSpace = 8
INVARIANTS
  NoOverlappedOps
  WriteInFlight
  RepliesInOrder
PROPERTY
  ImplementsFifo
