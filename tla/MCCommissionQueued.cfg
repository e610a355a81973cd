SPECIFICATION FairSpec
CONSTANTS
  s1 = s1
  s2 = s2
  s3 = s3
  a1 = a1
  a2 = a2
  Sales = {s1, s2}
  Attendants = {a1}
  Seller <- MCSeller
  Priced = {s1, s2}
  Zero = {s2}
  Contactable = {a1}
  Closers = {c1}
  Handlers = {}
  NoAttendant = NoAttendant
  MaxCrashes = 0
CHECK_DEADLOCK FALSE
PROPERTIES
  QueuedPayoutIsSubmitted
