SPECIFICATION Spec
CONSTANTS
  MaxPid = 2
  MaxCpu = 2
  MaxCore = 2
  Quantum = 2
  StopCap = 3
  DrainMax = 2
  RegVals = {r0, r1, r2}
  InitReg = r0
  CcVals = {c0}
  InitCc = c0
  EraseMayTrap = TRUE
  NULL = NULL
CHECK_DEADLOCK FALSE
INVARIANTS TypeOK Placement ContextIntact PreemptJustified
PROPERTIES WorkConserving CoresSpec
