SPECIFICATION Spec
CONSTANTS
  MaxPid = 1
  MaxCpu = 1
  MaxCore = 1
  Quantum = 1
  StopCap = 1
  DrainMax = 1
  RegVals = {r0}
  InitReg = r0
  CcVals = {c0, c1}
  InitCc = c0
  EraseMayTrap = FALSE
  NULL = NULL
INVARIANTS FlagsIntact
