SPECIFICATION FairSpec
CONSTANTS
  Operators = {o1, o2}
  Workers = {w1, w2}
  Tasks <- MCTasks
  NoTask = none
  Blocks <- WorkersAndSelves
  Signallers <- MCTasks
  Woken <- MCTasks
  Initial = 1
  MaxQueue = 3
  MaxEntries = 5
  MaxValue = 2
INVARIANTS
  TypeOK
  PausedIsAccounted
PROPERTIES
  SignalsInOrder
  QueuedReleased
