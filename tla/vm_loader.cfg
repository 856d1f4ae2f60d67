SPECIFICATION LoaderSpec
CONSTANTS
  MaxPid = 2
  PageSize = 8
  StackStart = 24
  ArgsStart = 32
  ArgsEnd = 40
  Frames = 12
  Reserve = 6
  Vals <- Byte
  Images <- Scripts
  Boot <- InitScript
  StoreAddrs = {}
  Threads = FALSE
  NULL = NULL
  vnode_list <- Fitting
  Chars = {1, 2}
  NameAddrs <- NameStores
  Stride = 4
  MaxName = 3
CHECK_DEADLOCK FALSE
INVARIANTS TypeOK SharedProtected MappedAllocated SectionsMapped LabelsAreAddresses
PROPERTIES ExecveUnshares ArgsNotSmashed
