SPECIFICATION Spec
CONSTANTS
  s1 = s1
  s2 = s2
  t1 = t1
  t2 = t2
  a1 = a1
  recipe = recipe
  c1 = c1
  c2 = c2
  Skills <- TwoSkills
  Runs <- ThreeRuns
  Codes <- ThreeCodes
  Recipe = recipe
  Admins <- NoAdmins
  Tickets <- NoTickets
  NoHead = NoHead
  NoRequest = NoRequest
  NoView = NoView
  MaxClock = 0
  MaxRepeats = 0
  MaxAudit = 0
SYMMETRY IntakeSymmetry
INVARIANTS
  OneSkillPerRun
  VersionsAreOneCode
CHECK_DEADLOCK FALSE
