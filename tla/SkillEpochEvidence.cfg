SPECIFICATION Spec
CONSTANTS
  s1 = s1
  s2 = s2
  t1 = t1
  t2 = t2
  a1 = a1
  recipe = recipe
  c1 = c1
  c2 = c2
  Skills <- OneSkill
  Runs <- TwoRuns
  Codes <- OnlyRecipe
  Recipe = recipe
  Admins <- OneAdmin
  Tickets <- TwoTickets
  NoHead = NoHead
  NoRequest = NoRequest
  NoView = NoView
  MaxClock = 1
  MaxRepeats = 0
  MaxAudit = 5
SYMMETRY TicketSymmetry
INVARIANTS
  EvidenceFollowsEpoch
CHECK_DEADLOCK FALSE
