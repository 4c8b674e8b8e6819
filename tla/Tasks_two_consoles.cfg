SPECIFICATION Spec
CONSTANTS
  NConsoles = 2
  Shell <- MCShell
  Kbd = kbd
  NullTask = null
  Programs = {p1, p2, p3}
  NoTask = none
  Killable <- UserTasks
  Waitable <- FirstShellAndPrograms
  Quantum = 0
  MaxSleep = 0
  MaxAtomic = 0
SYMMETRY ProgramSymmetry
INVARIANTS
  NoDanglingTask
  JoinerIsRegistered
  PromptHasFocus
  ChildrenAreSeparate
  IndInv
