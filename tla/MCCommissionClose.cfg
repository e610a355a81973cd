SPECIFICATION Spec
CONSTANTS
  s1 = s1
  s2 = s2
  s3 = s3
  a1 = a1
  a2 = a2
  Sales = {s1, s2, s3}
  Attendants = {a1, a2}
  Seller <- MCSeller
  Priced = {s1, s2, s3}
  Zero = {}
  Contactable = {a1}
  Closers = {c1, c2}
  Handlers = {h1, h2}
  NoAttendant = NoAttendant
  MaxCrashes = 0
SYMMETRY MCSymmetry
CHECK_DEADLOCK FALSE
INVARIANTS
  TypeOK
  NeverOverpaid
  SubmittedMeansPayout
  NoAttendantDropped
PROPERTIES
  PayoutIdIsKept
