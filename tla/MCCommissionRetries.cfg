SPECIFICATION RetriedSpec
CONSTANTS
  s1 = s1
  s2 = s2
  s3 = s3
  a1 = a1
  a2 = a2
  Sales = {s1, s2}
  Attendants = {a1}
  Seller <- MCSeller
  Priced = {s1, s2}
  Zero = {s2}
  Contactable = {a1}
  Closers = {c1}
  Handlers = {h1, h2}
  NoAttendant = NoAttendant
  MaxCrashes = 1
CHECK_DEADLOCK FALSE
PROPERTIES
  AnsweredIsRecorded
