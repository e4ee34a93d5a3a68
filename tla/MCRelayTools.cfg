SPECIFICATION Spec
CONSTANTS
  Caller = {c1, c2}
  Project = {"alpha", "beta"}
  None = "none"
  Title = {"login", "login page"}
  Holds <- MCHolds
  Near = {}
  Label <- MCLabel
  Alias <- MCAlias
  Request <- MCRequest
  Foreground = {}
  MaxCalls = 2
  MaxFaults = 2
  MaxOld = 1
SYMMETRY Callers
INVARIANTS
  OkMeansDone
  PromotedByAWrite
  TwinsHaveAReason
  BatchReportIsTrue
  ReplayMakesNoMore
CHECK_DEADLOCK FALSE
