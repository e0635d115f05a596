SPECIFICATION Spec
CONSTANTS
  s1 = s1
  s2 = s2
  t1 = t1
  t2 = t2
  a1 = a1
  recipe = recipe
  c1 = c1
  c2 = c2
  Skills <- OneSkill
  Runs <- TwoRuns
  Codes <- TwoCodes
  Recipe = recipe
  Admins <- OneAdmin
  Tickets <- TwoTickets
  NoHead = NoHead
  NoRequest = NoRequest
  NoView = NoView
  MaxClock = 1
  MaxRepeats = 1
  MaxAudit = 4
SYMMETRY TicketSymmetry
INVARIANTS
  TypeOK
  ActiveIsAdmitted
  ObjectionsAnswered
PROPERTIES
  DeliveryNeedsAdmission
  RevalidationSawCurrent
CHECK_DEADLOCK FALSE
