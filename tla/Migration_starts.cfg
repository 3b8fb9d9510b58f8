SPECIFICATION FairSpec
CONSTANTS
  Processes = {p, q}
  MaxData = 2
  MaxFaults = 3
INVARIANTS
  ServesItsOwnSchema
PROPERTIES
  ImplementsUpgrade
  ComesUp
\* With every process serving and the bounds used up nothing is left to do.
CHECK_DEADLOCK FALSE
