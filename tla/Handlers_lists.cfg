SPECIFICATION Spec
CONSTANTS
  Tasks = {t1, t2}
  Kernel = kernel
  NoHandler = none
  KernelHandlers = 1
  TableSize = 5
  ListSize = 2
SYMMETRY TaskSymmetry
CHECK_DEADLOCK FALSE
INVARIANTS
  TypeOK
  ListsAgree
  HeldInstalled
  HandlersAlive
