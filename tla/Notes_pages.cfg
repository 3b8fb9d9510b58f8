SPECIFICATION Spec
CONSTANTS
  None = None
  Pages = {p}
  Limit = 1
  Base = 2
  MaxWrites = 3
  MaxTime = 1
INVARIANTS
  PagesAddUp
  AnswersAreTrue
PROPERTIES
  StaleRequestsHitTheirNote
CHECK_DEADLOCK FALSE
