SPECIFICATION Spec
CONSTANTS
  Users = {root, ann}
  Bootstrap = root
  AccountTx = {t1, t2}
  MaxSessions = 3
  MaxRevocations = 1

  AlertTx = {a1, a2}
  AlertLevels = {"critical"}
  MaxAlertRows = 3

  c1 = c1
  c2 = c2
  g1 = g1
  Callers = {c1, c2}
  Gateways = {g1}
  Home <- MCHome
  Prompts = {p}
  Limit = 2
  MaxCost = 2
  Permits = 1
  Attempts = 2
  Fragments = 2
  FailOpen = TRUE
  MaxCalls = 2

  k1 = k1
  k2 = k2
  Clients = {k1, k2}
  LimitOf <- MCLimitOf
  Window = 2
  Retention = 3
  MaxBuckets = 2
  LastSecond = 6

  Absent = Absent
  Campaigns = {"a", "b"}
  OwnerOf <- MCOwnerOf
  Feeds = {"f", "g"}
  Batches <- MCBatches
  IngestTx = {i1, i2}
  MaxBatches = 3

  RollUp = RollUp
  MirrorCreatives = {x1, x2}
  Delivered = {1, 2}
  Syncs = {m1, m2}
  BatchSize = 1
  MaxWrites = 3
  MaxSyncs = 3
SYMMETRY Interchangeable
INVARIANTS
  ServicesTypeOK
  AdminRemains
  RevocationIsComplete
  OvershootBounded
  TotalsMatchLedger
  RenderedOnce
  AtMostTwiceTheLimit
  FiringIsListedOnce
  LastWordStands
  ReportsAddUp
  MirrorConverges
CHECK_DEADLOCK FALSE
