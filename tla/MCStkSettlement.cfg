SPECIFICATION Spec
CONSTANTS
  Requests = {r1}
  Handlers = {h1, h2}
  Sales = {s1}
  Keys = {k1}
  NoPayment = NoPayment
  MaxCrashes = 1
SYMMETRY HandlerSymmetry
CHECK_DEADLOCK FALSE
INVARIANTS
  TypeOK
  PaidMeansCharged
  SettlementAlwaysLegal
  PaidIsBookedAndReported
  LedgerLinesBounded
PROPERTY SettledStaysSettled
