SPECIFICATION Spec
CONSTANTS
  x = x
  None = None
  Contents = {x}
  Scopes = {u}
  MaxDeliveries = 3
  Messages = {m1, m2}
  Sources = {m1, m2}
  Calls <- AllCalls
  Rounds <- WriteRounds
  MaxRounds = 2
  TTL = 1
  MaxTime = 1
  MaxLife = 0
SYMMETRY Interchangeable
INVARIANTS
  RetriesAreNoDuplicates
CHECK_DEADLOCK FALSE
