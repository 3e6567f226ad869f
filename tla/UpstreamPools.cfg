SPECIFICATION PoolsSpec
CONSTANTS
  r1 = r1
  r2 = r2
  c3 = c3
  q1 = q1
  q2 = q2
  k1 = k1
  k2 = k2
  k3 = k3
  k4 = k4
  o1 = o1
  o2 = o2
  Threads = {r1, r2}
  Keys = {k1, k2, k3, k4}
  Capacity = 3
  DefaultShardCount = 2
  Hash <- HashOf
  MaxValues = 4
  Requests = {r1, r2}
  PoolKeys = {k1, k2}
  MaxConns = 3
  SenderPoolCapacity = 1
  MaxUnits = 2
  PeerFramings = {"None", "Fixed", "Chunked", "CloseDelimited"}
  SendsInterim = FALSE
  None = None
  Http3Requests = {q1, q2}
  Http3Keys = {o1, o2}
  Mode <- ModeOf
  StoreCapacity = 1
  MaxReusable = 1
  TargetActive = 1
  Callers = {r1, r2, c3}
  RateLimit = 3
  Window = 3
  MaxDelay = 2
  MaxTime = 6
SYMMETRY Symmetry
INVARIANTS
  TotalBounded
  PooledAtBoundary
  SentAtMost
  StoreAgrees
  FallbackBeforeAttach
  LimitPerInterval
PROPERTIES GetOrInsertKeeps
CHECK_DEADLOCK FALSE
