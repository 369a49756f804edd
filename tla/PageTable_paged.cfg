SPECIFICATION FairSpec
CONSTANTS
  MAX_PHYSICAL_PAGES = 5
  MAX_PROCESSES = 2
  MAX_PAGES_PER_PROC = 4
  PAGE_SIZE = 2
  PAGE_NUMBERS = 8
  MaxSize = 7
  MaxAddr = 7
INVARIANTS
  Isolation
  PagedRefCount
  ReallocKeepsOldBlock
  MappedPrefix
PROPERTIES
  MallocAllOrNothing
  FramesNeverFreed
  CallReturns
