SPECIFICATION Spec
CONSTANTS
  Consoles = {c1}
  FirstConsole = c1
  NoConsole = none
  Strokes <- Typewriter
  Capacity = 2
  ReadSize = 4
  MaxStrokes = 4
CHECK_DEADLOCK FALSE
INVARIANTS
  ReaderFindsLine
