SPECIFICATION FairSpec
CONSTANTS
  Terminal = {a, b}
  None = None
  Chunk = {x}
  MaxRetained = 1
  HistoryLimit = 1
  MaxRequests = 3
  MaxHappenings = 1
INVARIANTS
  ShellIsListedOrEvicted
  FileIsHistory
PROPERTIES
  RequestsReturn
CHECK_DEADLOCK FALSE
