SPECIFICATION FairSpec
CONSTANTS
  Worker = w
  ByHand = {h}
  Statuses <- CourierStatuses
  Waybills = {1, 2}
  FulfillmentOrders = {f1, f2}
  Routings = {"automatic", "manual_upload", "collection"}
  MaxMoves = 2
  MaxTrouble = 1
INVARIANTS ShownIsAnnounced OncePerVisit FulfilledOnce
PROPERTY JobEnds
CHECK_DEADLOCK FALSE
