SPECIFICATION SessionSpec
CONSTANTS
  h1 = h1
  h2 = h2
  h3 = h3
  h4 = h4
  t1 = t1
  t2 = t2
  Handles <- MCHandles
  Threads <- MCThreads
  Nil = Nil
  Limit = 2
  TTL = 2
  MaxClock = 3
SYMMETRY Symmetry
INVARIANTS
  TableBounded
PROPERTIES
  ServedWasValid
  SoonestGivesWay
CHECK_DEADLOCK FALSE
