SPECIFICATION FairSpec
CONSTANTS
  Sales = {s1, s2}
  Keys = {k1}
  Handlers = {h1, h2}
  NoSale = NoSale
  MaxCrashes = 1
INVARIANTS TypeOK AnswersNameOneSale PaidMeansCharged
CHECK_DEADLOCK FALSE
PROPERTIES EveryRequestEnds
