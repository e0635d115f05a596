SPECIFICATION Spec
CONSTANTS
  p1 = p1
  p2 = p2
  p3 = p3
  m1 = m1
  m2 = m2
  d1 = d1
  d2 = d2
  Packages = {p1, p2, p3}
  Production = {p1, p2}
  Candidates = {p1, p3}
  Contract <- RuntimeOf
  Runtime <- RuntimeOf
  Runtimes = {m1, m2}
  Dispatches <- TwoDispatches
  Runs = {r1}
  Outputs = {x1, x2}
  Operators = {o1}
  Analyses = {a1}
  None = None
SYMMETRY DispatchSymmetry
INVARIANTS
  TypeOK
  ApprovedOnce
  ReceiptStood
  UseIsCovered
  UseIsOfOutput
CHECK_DEADLOCK FALSE
