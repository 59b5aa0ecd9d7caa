SPECIFICATION Spec
CONSTANTS
  None = None
  p1 = p1
  p2 = p2
  l1 = l1
  Vital = {"city", "code"}
  Points = {p1, p2}
  Near <- MCNear
  Confidences = {40, 70, 90}
  Extractions <- MCExtractions
  Overrides <- MCOverrides
  Tenants <- MCTenants
  Profiles <- MCProfiles
  MaxRuns = 2
  MaxActs = 2
INVARIANTS NothingErased SilentMeansComplete ShipmentFits CourierAgrees
CHECK_DEADLOCK FALSE
