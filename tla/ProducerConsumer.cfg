SPECIFICATION LiveSpec
CONSTANTS
  Consumers = {c1, c2}
  MaxItems = 8
INVARIANTS
  FlagMirrorsBuffer
  NoLostWakeup
  InOrderOnce
PROPERTY
  EveryItemConsumed
