SPECIFICATION Spec
CONSTANTS
  MaxPid = 2
  PageSize = 4
  StackStart = 4
  ArgsStart = 8
  ArgsEnd = 12
  Frames = 10
  Reserve = 6
  Vals = {0, 1}
  Images <- SmallImages
  Boot <- Small
  StoreAddrs <- PrivateStores
  Threads = FALSE
  NULL = NULL
CHECK_DEADLOCK FALSE
INVARIANT SharedProtected
PROPERTY SpacesSpec
