SPECIFICATION Spec
CONSTANTS
  MaxField = 1
  MaxText = 6
INVARIANTS
  RequestLineRoundTrip
  BodyMatchesFirstHeader
CHECK_DEADLOCK FALSE
