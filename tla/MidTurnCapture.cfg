SPECIFICATION Spec
CONSTANTS
  None = None
  Project = {"p"}
  Thread = {"t"}
  MaxMessages = 20
  MaxCheckpoints = 20
  MaxPlans = 5
  MaxActivities = 5
  ProviderDiff = ProviderDiff
  TurnEnd = {"completed"}
  Calm = TRUE
  MaxTurns = 1
  MaxDiffs = 1
  MaxReverts = 0
  MaxFailures = 0
  MaxDisturbances = 1
INVARIANTS
  FilesAreTheLastCheckpoint
CHECK_DEADLOCK FALSE
