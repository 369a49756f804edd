SPECIFICATION TimerSpec
CONSTANTS
  OCR1A = 9
  CLOCK_MOD = 23
  MaxLatency = 3
  MaxCall = 4
INVARIANTS
  CountKept
PROPERTIES
  MicrosAtOneInstant
