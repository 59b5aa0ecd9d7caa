SPECIFICATION Spec
CONSTANTS
  Jobs = {j0, j1}
  FirstJob = j0
  Resumes = {r1, r2}
  Overrides = {FALSE}
  Attempts = 2
  MaxRows = 2
  MaxTrouble = 2
INVARIANTS
  
  OrderIsShipped
  CompletedHasOrder
CHECK_DEADLOCK FALSE
