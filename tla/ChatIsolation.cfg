SPECIFICATION Spec
CONSTANTS
  t1 = t1
  t2 = t2
  Tabs <- OneTab
  Requests <- TwoRequests
  MaxSessions = 2
  None = None
INVARIANTS
  SessionIsolation
CHECK_DEADLOCK FALSE
