SPECIFICATION FairSpec
CONSTANTS
  ReadLimit = 2
  MaxEvents = 3
  MaxBreaks = 2
  MaxNoProgress = 1
  MaxFailures = 1
INVARIANTS EmitsInOrder StoreIsPrefix NothingObservedIsForgotten
PROPERTIES ImplementsReplica ObservedIsApplied
CHECK_DEADLOCK FALSE
