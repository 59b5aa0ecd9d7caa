SPECIFICATION PackingSpec
CONSTANTS
  o1 = o1
  o2 = o2
  p1 = p1
  p2 = p2
  t1 = t1
  t2 = t2
  t3 = t3
  a = a
  b = b
  a1 = a1
  a2 = a2
  b1 = b1
  Invitations = {i1, i2}
  Callers = {r1, r2}
  Readers = {p1}
  Ticks = {t1, t2, t3}
  Proc <- MCProc
  Pool <- MCPool
  Packers = {p1, p2}
  Orders = {o1, o2}
  Requests = {r1, r2}
  Modes = {"off", "independents_only"}
  FirstMode = "independents_only"
  FirstWeight <- MCWeight
  Weights = {1, 2}
  Scores = {2}
  Leg <- MCLeg
  FirstPoints <- MCPoints
  Nobody = Nobody
  MaxAssigns = 2
  MaxMoves = 3
INVARIANTS CountsAreOpenAssignments LoadShared LinkNamesItsInvite DigestOnce
SYMMETRY MCSymmetry
CHECK_DEADLOCK FALSE
