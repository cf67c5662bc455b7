SPECIFICATION LiveSpec
CONSTANTS
  Conns = {a, b}
  Capacity = 4
  ClientBuf = 2
  StorageSize = 2
  ReadSize = 1
  WriteSize = 1
  SharedWriteSize = 2
  MaxLine = 2
  MaxLines = 2
INVARIANTS
  HandlerKeepsConnection
  StorageSuffices
  EchoIntact
PROPERTY
  ClientAnswered
CHECK_DEADLOCK FALSE
