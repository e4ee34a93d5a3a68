SPECIFICATION Spec
CONSTANTS
  Caller = {gateway, client}
  Bead = {b1, b2}
  Pause = {v1}
  MaxItems = 2
  MaxTime = 1
  SameInstant = FALSE
SYMMETRY Symmetry
INVARIANTS
  PendingUntilAcknowledged
CHECK_DEADLOCK FALSE
