SPECIFICATION Spec
CONSTANTS
  None = None
  Mode = {"full"}
  DefaultMode = "full"
  Announce = {"session.started", "session.state.changed"}
  MaxTurns = 2
  MaxModes = 0
  MaxStops = 0
  MaxInterrupts = 0
  MaxRollbacks = 0
  MaxSweeps = 0
  MaxExits = 0
  MaxErrors = 0
  MaxCrashes = 1
  MaxFailures = 0
  MaxHappenings = 3
INVARIANTS
  RunningTurnIsShown
CHECK_DEADLOCK FALSE
