SPECIFICATION Spec
CONSTANTS
  MaxPid = 2
  MaxFd = 2
  MaxLen = 3
  MaxFiles = 2
  MaxOpen = 3
  MaxChunk = 2
  Vals = {b0}
  Imports <- NoImports
  OpenNames = {"stdin", "a"}
  Faults = TRUE
  OverOpen = TRUE
  JUNK = JUNK
  NULL = NULL
CHECK_DEADLOCK FALSE
INVARIANTS TypeOK PosInFile
