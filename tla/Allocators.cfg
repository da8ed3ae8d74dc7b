SPECIFICATION AllocatorsSpec
CONSTANTS
  PMM_PAGE_SIZE = 4096
  PMM_MAX_FRAMES = 8
  MemStart = 4096
  MemEnd = 30720
  heap_start = 12
  heap_end = 48
  HeaderSize = 8
  MinPayload = 4
  Word = 128
  Requests = {1, 5, 127}
INVARIANTS Accounting Partition WellFormed LiveBlocks
PROPERTIES ImplementsAllocator PayloadUntouched ImplementsHeap
