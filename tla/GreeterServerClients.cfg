SPECIFICATION Spec
CONSTANTS
  MaxSessions = 3
  MaxRequests = 0
  MaxRounds = 2
  TagSpace = 16
INVARIANTS
  TypeOK
  NoOrphanSession
  EventMatchesStatus
  BroadcastBeforeCancel
  ListenerArmed
  NoListenerLeft
