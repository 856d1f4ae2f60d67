SPECIFICATION Spec
CONSTANTS
  MaxPid = 2
  MaxFd = 3
  MaxLen = 3
  MaxFiles = 3
  MaxOpen = 3
  MaxChunk = 2
  Vals = {b0, b1}
  Imports <- ShortImports
  OpenNames = {"a"}
  Faults = FALSE
  OverOpen = FALSE
  JUNK = JUNK
  NULL = NULL
CHECK_DEADLOCK FALSE
SYMMETRY Symmetry
INVARIANTS Written  StdOpen
PROPERTY FileSystemSpec
