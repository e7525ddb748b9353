SPECIFICATION Spec
CONSTANTS
  j1 = j1
  j2 = j2
  e1 = e1
  e2 = e2
  Jobs = {j1, j2}
  Events = {e1, e2}
  DayLength = 2
  Fidelity = 1
  RollupKept = 3
  MaxNow = 6
INVARIANT SummedBeforeDeleted
