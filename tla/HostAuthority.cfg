SPECIFICATION Spec
CONSTANTS
  r1 = r1
  r2 = r2
  Runs <- MCRuns
  Skills = {s1}
  Decisions = {d1}
  None = None
  Fallback = Fallback
  Window = 0
  RootLives = {1, 2}
  PolicyLives = {1}
  DecisionLife = 1
  MaxClock = 1
  MaxRevision = 2
  MaxChanges = 1
SYMMETRY Symmetry
INVARIANTS
  TypeOK
  EvidenceInWindow
  HandoffWasAdmitted
  ReuseWasBound
PROPERTIES
  NothingOnStaleEvidence
  TrustNeedsStanding
  ImplementsRootedGrants
CHECK_DEADLOCK FALSE
