SPECIFICATION FairSpec
CONSTANTS
  Key = {k1, k2}
  Nobody = Nobody
  MayFail = TRUE
  MaxSubmissions = 4
INVARIANTS DrainedKeyIsHandled EverySubmissionSomewhere KeysWaitOnce
PROPERTIES EverySubmissionHandled
CHECK_DEADLOCK FALSE
