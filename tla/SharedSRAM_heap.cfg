SPECIFICATION SharedSpec
CONSTANTS
  HEAP_TOTAL_SIZE = 14
  HEADER_SIZE = 2
  MIN_SPLIT = 1
  SIZE_MOD = 16
  MaxSize = 1
  Owners <- MCOwners
  MAGIC_OFFSET = 1
  MAX_PHYSICAL_PAGES = 4
  MAX_PROCESSES = 1
  MAX_PAGES_PER_PROC = 2
  PAGE_SIZE = 4
  PAGE_NUMBERS = 8
  MaxAddr = 4
INVARIANTS
  HeapBesidePages
