SPECIFICATION FairSpec
CONSTANTS
  None = None
  Mode = {"full", "supervised"}
  DefaultMode = "full"
  Announce = {"session.started", "session.state.changed"}
  MaxTurns = 2
  MaxModes = 2
  MaxStops = 1
  MaxInterrupts = 1
  MaxRollbacks = 1
  MaxSweeps = 1
  MaxExits = 1
  MaxErrors = 1
  MaxCrashes = 1
  MaxFailures = 2
  MaxHappenings = 3
INVARIANTS
  TypeOK
  ActiveTurnIsRunning
  RunningTurnIsShownWhileUp
  LiveSessionIsBound
PROPERTIES
  TurnsAreAnswered
CHECK_DEADLOCK FALSE
