SPECIFICATION FairSpec
CONSTANTS
  c1 = c1
  c2 = c2
  p1 = p1
  p2 = p2
  p3 = p3
  Clients <- TwoClients
  Procs <- ThreeProcs
  Server = Server
  None = None
  MaxForks = 4
INVARIANTS
  NothingSurvives
PROPERTIES
  EveryRequestEnds
CHECK_DEADLOCK FALSE
