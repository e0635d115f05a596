SPECIFICATION Spec
CONSTANTS
  t1 = t1
  t2 = t2
  Tabs <- TwoTabs
  Requests <- TwoRequests
  MaxSessions = 2
  None = None
SYMMETRY TabSymmetry
INVARIANTS
  TypeOK
  IsolatedUnlessEntered
  AnswersKept
PROPERTIES
  DeletedStaysDeleted
CHECK_DEADLOCK FALSE
