SPECIFICATION Spec
CONSTANTS
  Caller = {c1}
  Project = {"alpha", "beta"}
  None = "none"
  Title = {"login", "login page"}
  Holds <- MCHolds
  Near = {}
  Label <- MCLabel
  Alias <- MCAlias
  Request <- MCRequest
  Foreground = {}
  MaxCalls = 2
  MaxFaults = 0
  MaxOld = 1
INVARIANTS
  UpsertMakesATask
CHECK_DEADLOCK FALSE
