SPECIFICATION SketchTaskSpec
CONSTANTS
  Task = {t1}
  MAX_TIMED_TASKS = 2
  CLOCK_MOD = 16
  Intervals <- MCIntervals
  MaxGap = 2
PROPERTIES
  RunsOnlyWhenDue
