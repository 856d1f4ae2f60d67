SPECIFICATION Spec
CONSTANTS
  Pids = {p1, p2}
  MaxCpu = 2
  MaxCore = 2
  MaxDepth = 3
  JUNK = JUNK
  NULL = NULL
CHECK_DEADLOCK FALSE
INVARIANTS TypeOK StopBound
PROPERTIES ActsOnDisplay StopEnds RunsOn
