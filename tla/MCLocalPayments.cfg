SPECIFICATION Spec
CONSTANTS
  p1 = p1
  p2 = p2
  p3 = p3
  k1 = k1
  k2 = k2
  k3 = k3
  h1 = h1
  h2 = h2
  h3 = h3
  Payments = {p1, p2, p3}
  Keys = {k1, k2, k3}
  Handlers = {h1, h2, h3}
  None = None
SYMMETRY MCSymmetry
CHECK_DEADLOCK FALSE
INVARIANT OutcomeArrives
PROPERTY RefinesLifecycle
