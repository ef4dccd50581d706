SPECIFICATION FairSpec
CONSTANTS
  None = None
  Project = {"p"}
  Thread = {"t"}
  MaxMessages = 20
  MaxCheckpoints = 20
  MaxPlans = 5
  MaxActivities = 5
  ProviderDiff = ProviderDiff
  TurnEnd = {"completed", "interrupted"}
  Calm = TRUE
  MaxTurns = 2
  MaxDiffs = 0
  MaxReverts = 2
  MaxFailures = 3
  MaxDisturbances = 2
INVARIANTS
  CheckpointsAreTheConversation
  FilesAreTheLastCheckpoint
  RestartKeepsMessages
PROPERTIES
  RevertIsAnswered
CHECK_DEADLOCK FALSE
