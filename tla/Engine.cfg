SPECIFICATION FairSpec
CONSTANTS
  None = None
  p1 = p1
  t1 = t1
  Command = {"create", "open", "start"}
  Body <- MCBody
  Events <- MCEvents
  Allowed <- MCAllowed
  Subscriber = {"reactor"}
  Transactional = TRUE
  MaxDispatch = 4
  MaxFailures = 1
  MaxReconcileFailures = 1
  MaxCrashes = 1
INVARIANTS
  ExactlyOnce
  AcknowledgedIsCommitted
  ReadModelIsStore
  SubscribersSeeStore
PROPERTIES
  OutcomesFinal
  ImplementsCommandLog
  EveryDispatchAnswered
CHECK_DEADLOCK FALSE
