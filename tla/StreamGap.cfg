SPECIFICATION Spec
CONSTANTS
  ReadLimit = 2
  MaxEvents = 3
  MaxBreaks = 0
  MaxNoProgress = 1
  MaxFailures = 0
INVARIANTS LiveStreamIsComplete
CHECK_DEADLOCK FALSE
