SPECIFICATION Spec
CONSTANTS
  Jobs = {j0, j1}
  FirstJob = j0
  Resumes = {r1}
  Overrides = {TRUE}
  Attempts = 2
  MaxRows = 2
  MaxTrouble = 2
INVARIANT OverridesAreShipped
CHECK_DEADLOCK FALSE
