SPECIFICATION Spec
CONSTANTS
  None = None
  Requests = {r1, r2, r3}
  Addresses = {a, b}
  Kinds = {"send", "other"}
  MaxFails = 2
  Window = 2
  Capacity = 1
  MaxActive = 2
  MaxTime = 3
SYMMETRY Alike
INVARIANTS
  RepliesAreTrue
  SlotsAreCounted
PROPERTIES
  LockoutsAreEarned
CHECK_DEADLOCK FALSE
