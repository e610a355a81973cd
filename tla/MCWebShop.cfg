SPECIFICATION Spec
CONSTANTS
  f1 = f1
  f2 = f2
  f3 = f3
  None = None
  Ids = {f1, f2, f3}
  MaxSetups = 2
  MaxFaults = 1
SYMMETRY MCSymmetry
CHECK_DEADLOCK FALSE
INVARIANTS
  RowsStayInTenant
  AnswersAreTrue
  RefusedOnlyAfterRace
