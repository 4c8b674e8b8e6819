SPECIFICATION FairSpec
CONSTANTS
  Consoles = {c1, c2}
  FirstConsole = c1
  NoConsole = none
  Strokes <- AllKeys
  Capacity = 2
  ReadSize = 3
  MaxStrokes = 4
CHECK_DEADLOCK FALSE
INVARIANTS
  TypeOK
  WokenHasLine
  ShiftInStep
PROPERTIES
  ReadsOwnConsole
  EnterWakes
