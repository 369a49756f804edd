SPECIFICATION ClientSpec
CONSTANTS
  MAX_PHYSICAL_PAGES = 4
  MAX_PROCESSES = 1
  MAX_PAGES_PER_PROC = 4
  PAGE_SIZE = 2
  PAGE_NUMBERS = 8
  MaxSize = 4
  MaxAddr = 0
  MaxBlocks = 1
INVARIANTS
  BlocksMapped
