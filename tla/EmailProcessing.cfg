CONSTANTS
  Attachments = {a1, a2}
  Refused = {a2}
  MaxRetryCount = 3
  MaxStalls = 2
  MaxErrors = 5
  MaxRetries = 1
SPECIFICATION JobFairSpec
INVARIANTS HandedOn StatusTells
PROPERTY JobEnds
CHECK_DEADLOCK FALSE
