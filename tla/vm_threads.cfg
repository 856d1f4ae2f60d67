SPECIFICATION Spec
CONSTANTS
  MaxPid = 2
  PageSize = 4
  StackStart = 4
  ArgsStart = 8
  ArgsEnd = 12
  Frames = 9
  Reserve = 6
  Vals = {0}
  Images <- BlankImages
  Boot <- Blank
  StoreAddrs <- PrivateStores
  Threads = TRUE
  NULL = NULL
CHECK_DEADLOCK FALSE
INVARIANT SharedProtected
