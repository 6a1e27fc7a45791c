SPECIFICATION Spec
SYMMETRY Interchangeable
CONSTANTS
  Callers = {c1, c2}
  Arrivals <- ThreeRequests
  Varied = {"q1"}
  Shapes <- RequestShapes
  Plain = "plain"
  RequireHttps = TRUE
  BodyLimit = 1
  TrustProxy = TRUE
  TrustedProxies = {}
  Whitelist = {"office"}
  AllowedOrigins = {"app"}
  Addresses = {"proxy", "office", "home"}
  Origins = {"app", "other"}
  Max = 2
  Window = 3
  Skew = 1
  LimitTime = 5
  LimitRequests = 5
  KeyHashes = {k1, k2, k3}
  Admins = {a1, a2}
  Calls = {s1, s2, s3}
  MaxErasures = 1
  Deliveries = {d1, d2, d3}
  Instances = {"old", "new", "edited"}
  Binary <- ThreeReleases
  Txs = {t1, t2}
  Cap = 1
  Lag = 1
  ReplayFrom = 2
  MaxLedger = 3
  MaxRollbacks = 1
  Readers = {r1, r2}
  MaxChanges = 1
  OneFault = 1
  TwoFaults = 2
INVARIANTS ExecutedOnce AnswerBelongs GuardsPassed LimitHonest KeySuccessor HandledOnce AppliedOnce PendingSurvives CoveredLedgersStored QuietInvalidation SingleFlight
PROPERTIES ActiveKept
CHECK_DEADLOCK FALSE
