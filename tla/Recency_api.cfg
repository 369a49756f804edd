SPECIFICATION RecencySpec
CONSTANTS
  MAX_PHYSICAL_PAGES = 1
  MAX_PROCESSES = 1
  MAX_PAGES_PER_PROC = 2
  PAGE_SIZE = 3
  PAGE_NUMBERS = 2
  MaxSize = 0
  MaxAddr = 3
  CACHE_LINE_SIZE = 1
  CACHE_NUM_SETS = 1
  CACHE_NUM_WAYS = 2
  Bytes <- MCBytes
  CLOCK_MOD = 16
  MaxClock = 11
INVARIANTS
  TypeOK
  FreeIffUnreferenced
  RefBound
  Coherent
  UniqueTag
PROPERTIES
  EvictsLeastRecent
