SPECIFICATION FairSpec
CONSTANTS
  x = x
  y = y
  None = None
  Contents = {x, y}
  Scopes = {u, v}
  Sources = {m1, m2}
  Callers = {c1, c2}
  Batches <- SomeBatches
INVARIANTS
  TypeOK
  AuditIsAChain
  AuditExplainsRows
  ScopeIsolation
  BatchesAreRuns
  AnswersAreDurable
PROPERTIES
  AnswersAsIfAlone
  ImplementsLedger
  EveryCallAnswered
