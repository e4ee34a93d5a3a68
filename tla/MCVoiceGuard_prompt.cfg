SPECIFICATION FairSpec
CONSTANTS
  MaxRequests = 4
  Token = {"t1", "t2"}
  PendingTtl = 3
  SettledRetain = 2
  ResubmitWindow = 1
  MaxEntries = 2
  MaxTime = 4
  HandlerTime = 1
  LateConfirms = FALSE
INVARIANTS
  OneExecutionAtATime
  NoRerunInsideWindow
PROPERTIES
  EveryRequestAnswered
CHECK_DEADLOCK FALSE
