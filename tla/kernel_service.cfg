SPECIFICATION FairSpec
CONSTANTS
  MaxPid = 3
  MaxCpu = 1
  MaxCore = 2
  Quantum = 1
  StopCap = 9
  DrainMax = 1
  RegVals = {r0}
  InitReg = r0
  CcVals = {c0}
  InitCc = c0
  EraseMayTrap = FALSE
  NULL = NULL
PROPERTIES NoStarvation NoSecondOvertake TableSpec
