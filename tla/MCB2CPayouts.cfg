SPECIFICATION FairSpec
CONSTANTS
  Requests = {r1, r2}
  Keys = {k1, k2}
  Handlers = {h1, h2}
  NoPayout = NoPayout
  MaxCrashes = 1
CHECK_DEADLOCK FALSE
INVARIANTS
  TypeOK
  AnsweredHasPayout
  CompletedIsBooked
PROPERTIES
  RefinesLifecycle
  ResultIsApplied
