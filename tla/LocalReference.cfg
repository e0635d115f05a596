SPECIFICATION Spec
CONSTANTS
  c1 = c1
  c2 = c2
  d1 = d1
  d2 = d2
  r1 = r1
  r2 = r2
  Callers <- MCCallers
  Decisions <- MCDecisions
  References <- MCReferences
  None = None
  TTL = 1
  MaxClock = 1
SYMMETRY Symmetry
INVARIANTS
  OneReference
PROPERTIES
  ImplementsOneShot
  VerifiedIsCurrent
