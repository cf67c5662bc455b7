SPECIFICATION LiveSpec
CONSTANT
  MaxSends = 3
INVARIANTS
  TypeOK
  NoOverlappedRead
  ReadUnderWay
  ReportedMeansDone
  ForgottenOnlyAtEnd
PROPERTY
  ClientExits
