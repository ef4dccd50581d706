SPECIFICATION IngestionSpec
CONSTANTS
  Drainer = {d1}
  MayFail = TRUE
  MaxItems = 5
  None = None
  Message = {m1, m2}
  Reasoning = {r1}
  BufferLimit = 1
  MaxTurns = 2
  MaxPieces = 3
  MaxTroubles = 1
  MaxWaiting = 1
INVARIANTS
  TextIsWhatWasSaid
  OnlyWhatWasSaid
  CompletedOnce
  BuffersAreReleased
PROPERTIES
  DrainReturnsIdle
  DrainReturns
CHECK_DEADLOCK FALSE
