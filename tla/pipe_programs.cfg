SPECIFICATION Spec
CONSTANTS
  WordBits = 4
  MemSize = 4
  PcLimit = 16
  Programs <- AllPrograms
  Asked <- Bubbleless
  Results = {1}
  SignalAt = {"AOK"}
  MaxAge = 4
  NULL = NULL
CHECK_DEADLOCK FALSE
INVARIANTS TypeOK RegistersExact StopPrecise StatusReported ResumesNext SuspendInTime
PROPERTIES InOrder CoreSpec
