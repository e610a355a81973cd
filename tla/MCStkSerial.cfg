SPECIFICATION FairSpec
CONSTANTS
  Requests = {r1, r2}
  Handlers = {h1}
  Sales = {s1}
  Keys = {k1}
  NoPayment = NoPayment
  MaxCrashes = 1
CHECK_DEADLOCK FALSE
PROPERTIES
  RefinesLifecycle
  LateSuccessWins
