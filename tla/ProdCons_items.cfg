SPECIFICATION PSpec
CONSTANTS
  Operators = {o1}
  Producers = {p1}
  Consumers = {c1, c2}
  Tasks <- MCTasks
  NoTask = none
  Blocks <- OperatorsBlock
  Signallers = {o1}
  Woken <- MCTasks
  Initial = 0
  MaxQueue = 2
  MaxEntries = 2
  MaxValue = 1
  Items <- MCItems
  Size = 2
  Blank = blank
  NoItem = noitem
INVARIANTS
  MemoryOK
  LockHeld
PROPERTIES
  ItemsInOrder
