SPECIFICATION Spec
CONSTANTS
  w1 = w1
  w2 = w2
  e1 = e1
  Workers <- TwoWorkers
  Errors <- OneError
  None = None
  MaxRetries = 2
  MaxWrites = 6
SYMMETRY WorkerSymmetry
INVARIANTS
  TypeOK
  NoInventedTrust
  DoubtedUnlessLost
PROPERTIES
  OutcomeOfItsFix
CHECK_DEADLOCK FALSE
