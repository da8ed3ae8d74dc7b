SPECIFICATION MemSpec
CONSTANTS
  PMM_PAGE_SIZE = 2
  PMM_MAX_FRAMES = 20
  MemStart = 2
  MemEnd = 40
  PAGE_ENTRIES = 4
  Directories = 9
  IdentityTables = 6
  KernelEnd = 6
  HeapFrom = 30
  HeapTo = 32
  ShellStack = 6
  BlinkyStack = 48
  LowPage = 16
  HighPage = 24
  Executables <- PageAligned
INVARIANTS StacksReachable FramesExclusive SegmentsLoaded NoStrayWrite
PROPERTY FollowsProtocol
CHECK_DEADLOCK FALSE
