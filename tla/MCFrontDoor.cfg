SPECIFICATION Spec
CONSTANTS
  admin = admin
  operator = operator
  u1 = u1
  u2 = u2
  r1 = r1
  r2 = r2
  g1 = g1
  p1 = p1
  Users = {u1, u2}
  Paths = {p1}
  Requests = {r1, r2}
  Replicas = {g1}
  RedisBuild = TRUE
  ServiceLimit = 1
  WriteLimit = 1
  LimitWindow = 2
  Ttl = 1
  MaxEntries = 1
  Addresses = {"a1"}
  MaxIpHits = 1
  MaxUserHits = 1
  Threshold = 70
  HitWindow = 2
  Flight = 1
  MaxClock = 2
  MaxArrivals = 3
  QueueSize = 2
  MaxPushes = 4
  MaxTimers = 1
  People = {admin, operator}
  Dev = admin
  Secrets = {"secret"}
  MaxTokens = 2
  MaxRequests = 2
  AuthProcesses = {"a1", "a2"}
  Clients = {"c1"}
  MaxLogins = 2
  WindowSeconds = 2
  MaxSeconds = 3
  MaxAttempts = 4
SYMMETRY Symmetry
CHECK_DEADLOCK FALSE
INVARIANTS
  TypeOK
  ServedFresh
  RateKept
  OneSource
  QueueIsNewest
  OneActivePerLogin
