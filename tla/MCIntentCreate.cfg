SPECIFICATION Spec
CONSTANTS
  Request = {"ask", "again", "add", "other"}
  Title <- MCTitle
  Body <- MCBody
  Labels <- MCLabels
  Distinct = {}
  Window = 0
  KeyWindow = 2
  MaxTime = 1
  Faults = {"show", "create", "edit", "restart", "evict"}
INVARIANTS
  CompleteAnswerKept
PROPERTIES
  NoSecondBead
CHECK_DEADLOCK FALSE
