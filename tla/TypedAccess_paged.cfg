SPECIFICATION AccessSpec
CONSTANTS
  MAX_PHYSICAL_PAGES = 3
  MAX_PROCESSES = 2
  MAX_PAGES_PER_PROC = 3
  PAGE_SIZE = 2
  PAGE_NUMBERS = 8
  MaxSize = 4
  MaxAddr = 5
  CACHE_LINE_SIZE = 2
  CACHE_NUM_SETS = 1
  CACHE_NUM_WAYS = 1
  BYTE = 2
  Bytes <- MCBytes
  CLOCK_MOD = 64
  MaxClock = 9
  AccessAddrs <- MCAccessAddrs
  Accesses <- MCAccesses
INVARIANTS
  DirtyLinesTracked
PROPERTIES
  PrivateMemory
  ValuesAtOnce
