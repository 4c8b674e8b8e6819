SPECIFICATION FairSpec
CONSTANTS
  NConsoles = 1
  Shell <- MCShell
  Kbd = kbd
  NullTask = null
  Programs = {p1}
  NoTask = none
  Killable <- AllTasks
  Waitable <- OnlyShells
  Quantum = 2
  MaxSleep = 2
  MaxAtomic = 1
INVARIANTS
  TypeOK
PROPERTIES
  NobodyOvertakes
  AtomicNotPreempted
  ReadyGetsCPU
  SleeperWakes
