SPECIFICATION FairSpec
CONSTANTS
  x = x
  None = None
  Contents = {x}
  Scopes = {u}
  MaxDeliveries = 2
  Messages = {m1, m2}
  Sources = {m1, m2}
  Calls <- AllCalls
  Rounds <- ToolRounds
  MaxRounds = 2
  TTL = 1
  MaxTime = 0
  MaxLife = 1
INVARIANTS
  MutationsComeLast
  UsageRecordsAreTrue
  ConfirmationsAreTrue
PROPERTIES
  EveryMessageAnswered
CHECK_DEADLOCK FALSE
