SPECIFICATION TenantSpec
CONSTANTS
  None = None
  Procs = {x1, x2}
  MaxRequests = 7
  MaxRows = 2
  Signups = {t1}
  Guests = {g1}
  MaxUsers = 3
  MaxEdits = 2
  MaxTrouble = 1
  Tenants = {t1, t2}
  Owner = t1
  Numbers = {n1}
  q1 = q1
  Purposes = {q1, q2}
  DefaultTypes <- MCDefaultTypes
  e1 = e1
  Events = {e1}
  Type <- MCType
  MaxSends = 2
  c1 = c1
  c2 = c2
  Calls = {c1, c2}
  Batch <- MCBatch
  Topics = {"order_support", "blocked"}
  Threshold = 4
  KeepRecent = 2
  Room = 1
  Urls = {u1, u2}
  Pages <- MCPages
  Kinds = {"url", "sitemap", "products", "upload", "manual"}
  Home = u1
  Edited = "edited"
  MaxDocs = 3
  MaxSyncs = 2
  MaxChanges = 1
  Runs = {r1, r2}
  Texts = {a, b}
  Limit = 1
  DistilFrom = 2
  MaxLessons = 2
  MaxSlips = 1
INVARIANTS ConfiguredIsBacked ActiveIsServed OwnerGetsIn NoticeBudget RowsTellTheTruth OnlySummarisedGo PromiseIsFlagged SyncIsFaithful LastWordIsTaught
SYMMETRY MCSymmetry
CHECK_DEADLOCK FALSE
