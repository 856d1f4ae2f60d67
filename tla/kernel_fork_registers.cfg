SPECIFICATION Spec
CONSTANTS
  MaxPid = 2
  MaxCpu = 1
  MaxCore = 1
  Quantum = 1
  StopCap = 1
  DrainMax = 1
  RegVals = {r0, r1}
  InitReg = r0
  CcVals = {c0}
  InitCc = c0
  EraseMayTrap = FALSE
  NULL = NULL
PROPERTIES ForkCopiesRegisters
