SPECIFICATION Spec
CONSTANTS
  x = x
  None = None
  Contents = {x}
  Scopes = {u}
  MaxDeliveries = 2
  Messages = {m1, m2}
  Sources = {m1, m2}
  Calls <- AllCalls
  Rounds <- ToolRounds
  MaxRounds = 2
  TTL = 1
  MaxTime = 1
  MaxLife = 0
INVARIANTS
  ExportsReachTheirRequest
CHECK_DEADLOCK FALSE
