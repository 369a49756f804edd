SPECIFICATION DriverSpec
CONSTANTS
  BYTE = 2
  CHIP_SIZE = 8
  CallAddrs <- MCCallAddrs
  Calls <- MCCalls
INVARIANTS
  TypedResult
PROPERTIES
  BlocksAtOnce
