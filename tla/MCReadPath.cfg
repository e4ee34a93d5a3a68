SPECIFICATION ReadPathSpec
CONSTANTS
  Bead = {1, 2, 3}
  Busy = {2}
  Rows <- MCRows
  Request <- MCRequest
  TtlOk = 1
  TtlBad = 1
  ProbeTime = 1
  CoolDown = 1
  ScopeTtl = 1
  MaxTime = 3
  MaxWrites = 1
  MaxFaults = 2
  MaxPages = 4
  Node = {1, 2, 3, 4, 5, 6}
  Missing = {5}
  FullId <- MCFullId
  StoreOf <- MCStoreOf
  Links <- MCLinks
  PartOf <- MCPartOf
  Contents <- MCContents
  Op = {"snapshot", "activity", "claimed"}
  MaxDepth = 2
  Caps = {3, 4}
  Fan = 3
  PerStore = 2
  Limit = 2
  MaxChanges = 2
  MaxUnread = 2
INVARIANTS
  EachShownOnce
  SnapshotIsWhole
  VerdictHasEvidence
  NewestAreShown
PROPERTIES
  GuardIsRecent
CHECK_DEADLOCK FALSE
