SPECIFICATION Spec
CONSTANTS
  Request = {c1, c2}
  c1 = c1
  c2 = c2
  Run = {r1, r2}
  r1 = r1
  r2 = r2
  Plan = {p1, p2}
  p1 = p1
  p2 = p2
  None = None
  Case <- Cases
  Op <- Ops
  MaxRequests = 5
SYMMETRY Symmetry
INVARIANT ConfirmedBeforeStart
INVARIANT RepeatedRequestsActOnce
INVARIANT ReviewIsCoherent
INVARIANT RefusalHolds
PROPERTY ImplementsExecution
CHECK_DEADLOCK FALSE
