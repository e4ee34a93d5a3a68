SPECIFICATION OneSpec
CONSTANTS
  c1 = c1
  c2 = c2
  c3 = c3
  c4 = c4
  k1 = k1
  k2 = k2
  NoCall = NoCall
  Call <- MCCall
  Key <- MCKey
  KeyOf <- MCKeyOf
  Delivery = {"first", "more", "side", "aside"}
  Process = {"p1"}
  Home <- OneProcess
  Title <- MCTitle
  Body <- MCBody
  Labels <- MCLabels
  Promote = {"side", "aside"}
  Faults = {"create", "edit", "label", "close"}
INVARIANTS
  ServedInOrder
  MapDrains
  OneBead
  EveryDeliveryRecorded
  CapturedTextIsKept
PROPERTIES
  ImplementsMutex
CHECK_DEADLOCK FALSE
