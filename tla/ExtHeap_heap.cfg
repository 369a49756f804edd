SPECIFICATION HeapSpec
CONSTANTS
  HEAP_TOTAL_SIZE = 13
  HEADER_SIZE = 2
  MIN_SPLIT = 1
  SIZE_MOD = 16
  MaxSize = 4
  Owners <- MCOwners
INVARIANTS
  Tiled
  WalkOnHeader
  HeldIntact
  OnlyFirstLeaks
PROPERTIES
  FailsOnlyWhenFull
  DefragComplete
  FreeCounted
  HeapCallReturns
