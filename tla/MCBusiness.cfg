SPECIFICATION MCSpec
CONSTANTS
  None = None
  y1 = y1
  y2 = y2
  r1 = r1
  r2 = r2
  r3 = r3
  o1 = o1
  o2 = o2
  PoolSize = 2
  Runs = {r1, r2, r3}
  Bought = {o1, o2}
  OrderOf <- MCOrder
  MaxAttempts = 2
  Customers = {u1}
  Steps = {s1, s2}
  FirstSteps = {s1}
  Passes = {y1, y2}
  BatchSize = 1
  NoStep = NoStep
  MaxRows = 2
  MaxEdits = 1
  MaxTrouble = 1
INVARIANTS OrdersAreCounted StepHeardOnce
PROPERTIES SubmissionEnds DueSendSettles
CHECK_DEADLOCK FALSE
