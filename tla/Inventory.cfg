SPECIFICATION LiveSpec
CONSTANTS
  Producers = {p1, p2}
  Consumers = {c1, c2}
  MaxInventory = 2
INVARIANTS
  InventoryInRange
  ChangesPrintedOneByOne
PROPERTY
  TestEnds
CHECK_DEADLOCK FALSE
