SPECIFICATION Spec
CONSTANTS
  Sales = {s1, s2}
  Keys = {k1, k2}
  Handlers = {h1}
  NoSale = NoSale
  MaxCrashes = 1
SYMMETRY Symmetry
PROPERTIES RefinesLifecycle
CHECK_DEADLOCK FALSE
