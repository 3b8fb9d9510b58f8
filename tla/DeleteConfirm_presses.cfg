SPECIFICATION Spec
CONSTANTS
  x = x
  None = None
  Contents = {x}
  Scopes = {u, v}
  Messages = {m1, m2}
  Interactions = {i1, i2}
  Tokens = {t1, t2}
  Sources <- AllSources
  Edits <- SomeEdits
  TTL = 0
  MaxTime = 1
  MaxLife = 1
SYMMETRY Ids
INVARIANTS
  TokenIsOneUse
  DeletesWhatWasPressed
  RepliesAreTrue
PROPERTIES
  StalePressesAreInert
CHECK_DEADLOCK FALSE
