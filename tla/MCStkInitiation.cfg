SPECIFICATION Spec
CONSTANTS
  Requests = {r1, r2, r3}
  Handlers = {}
  Sales = {s1, s2}
  Keys = {k1, k2}
  NoPayment = NoPayment
  MaxCrashes = 1
SYMMETRY Symmetry
CHECK_DEADLOCK FALSE
INVARIANTS
  OnePromptPerSale
  PromptHasRow
  AcceptedSaleHasPayment
