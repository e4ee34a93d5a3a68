SPECIFICATION Spec
CONSTANTS
  Audience = {"mcp", "jungle"}
  Bridge = "mcp"
  CodeTtl = 1
  AskTtl = 1
  TxTtl = 2
  CookieTtl = 2
  TombTtl = 2
  MaxAsks = 1
  Death = 1
  Limit <- MCLimit
  MaxTime = 3
  Faults = {"write", "restart", "read"}
INVARIANTS
  EveryGrantWasApproved
  PublicCallsNeedTheirCredential
PROPERTIES
  CodesAreSingleUse
  GivenTokensStayLive
  ImplementsGrants
CHECK_DEADLOCK FALSE
