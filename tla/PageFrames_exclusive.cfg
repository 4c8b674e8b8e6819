SPECIFICATION Spec
CONSTANTS
  Procs = {p1, p2}
  Memory = 16
  Frames <- MCFrames
  Bottom = 0
  KernelDirs <- MCKernelDirs
  StackDirs <- MCStackDirs
  HeapDir <- MCHeapDir
  Entries = 2
  KTable <- MCKTable
  Boot <- MCBoot
  Visit <- MCVisit
CHECK_DEADLOCK FALSE
INVARIANTS
  TypeOK
  FrameExclusive
  KernelTablesKept
  FramesAccounted
