SPECIFICATION SketchSpec
CONSTANTS
  MAX_PHYSICAL_PAGES = 3
  MAX_PROCESSES = 3
  MAX_PAGES_PER_PROC = 3
  PAGE_SIZE = 256
  PAGE_NUMBERS = 65536
  MaxSize = 0
  MaxAddr = 0
  Processes <- Pids
  NULL = NULL
  Sensors <- MCSensors
  Loggers <- MCLoggers
  Cleaned <- MCCleaned
INVARIANTS
  KnownOrPageZero
  AccessesMapped
  CleanedUp
  ListIsChildren
  RefCounts
