SPECIFICATION Spec
CONSTANTS
  None = None
  Project = {"p"}
  Thread = {"t"}
  MaxMessages = 20
  MaxCheckpoints = 20
  MaxPlans = 5
  MaxActivities = 5
  ProviderDiff = ProviderDiff
  TurnEnd = {"failed"}
  Calm = FALSE
  MaxTurns = 2
  MaxDiffs = 1
  MaxReverts = 1
  MaxFailures = 1
  MaxDisturbances = 1
INVARIANTS
  TypeOK
  
  RestartKeepsCheckpoints
  CapturesAreNumbered
  DiffHasBaseline
PROPERTIES
  CapturesLast
CHECK_DEADLOCK FALSE
