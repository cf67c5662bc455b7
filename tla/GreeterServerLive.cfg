SPECIFICATION LiveSpec
CONSTANTS
  MaxSessions = 2
  MaxRequests = 1
  MaxRounds = 1
  TagSpace = 8
PROPERTIES
  StopEndsProcess
  RequestAnswered
