SPECIFICATION FairSpec
CONSTANTS
  Delivery = {"first", "more", "side"}
  Process = {"p1", "p2"}
  Home <- TwoProcesses
  Title <- MCTitle
  Body <- MCBody
  Labels <- MCLabels
  Promote = {"side"}
  Faults = {"find", "show", "create", "late", "lookup", "edit", "label", "note", "close", "strip", "crash"}
INVARIANTS
  CanonicalStaysOpen
PROPERTIES
  EveryCallerAnswered
CHECK_DEADLOCK FALSE
