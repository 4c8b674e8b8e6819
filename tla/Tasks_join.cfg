SPECIFICATION FairSpec
CONSTANTS
  NConsoles = 1
  Shell <- MCShell
  Kbd = kbd
  NullTask = null
  Programs = {p1}
  NoTask = none
  Killable <- NoTasks
  Waitable <- NoTasks
  Quantum = 1
  MaxSleep = 0
  MaxAtomic = 0
PROPERTIES
  JoinReturns
