SPECIFICATION Spec
CONSTANTS
  MaxField = 1
  MaxText = 6
INVARIANT
  PostBodyRead
CHECK_DEADLOCK FALSE
