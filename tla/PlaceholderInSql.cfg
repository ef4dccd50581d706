SPECIFICATION Spec
CONSTANTS
  None = None
  Project = {"p"}
  Thread = {"t"}
  MaxMessages = 20
  MaxCheckpoints = 20
  MaxPlans = 5
  MaxActivities = 5
  ProviderDiff = ProviderDiff
  TurnEnd = {"completed"}
  Calm = FALSE
  MaxTurns = 1
  MaxDiffs = 2
  MaxReverts = 0
  MaxFailures = 0
  MaxDisturbances = 2
PROPERTIES
  StoredCapturesLast
CHECK_DEADLOCK FALSE
