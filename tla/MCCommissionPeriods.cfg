SPECIFICATION Spec
CONSTANTS
  s1 = s1
  s2 = s2
  a1 = a1
  Sales = {s1, s2}
  Attendants = {a1}
  Seller <- MCSeller
  Totals = {7700, 7750}
  Bps = {0, 200}
  EffectiveFroms = {0}
  DayTicks = 2
  EatOffset = 1
  MaxTime = 2
  MaxRates = 2
  MaxUnsteady = 1
SYMMETRY MCSymmetry
CHECK_DEADLOCK FALSE
INVARIANTS
  LineRateInEffect
  SaleCommissionedOnce
  ChargedIsCommissioned
  NobodyLeftOut
  PageMatchesLedger
 
