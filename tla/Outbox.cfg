CONSTANTS
  NumEvents = 2
  NumHandlers = 2
  Slots = {s1}
  Sweeps = {r1}
  RelayMaxAttempts = 2
  RelayBatchSize = 1
  QueueAttempts = 2
  MaxCrashes = 1
  MaxRetries = 1
SPECIFICATION FairSpec
INVARIANTS OneDispatcher DispatchedMeansHandled
PROPERTY Settles
CHECK_DEADLOCK FALSE
