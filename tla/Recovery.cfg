SPECIFICATION RecoverySpec
CONSTANTS
  Tokens = {}
  MaxTime = 5
  MaxReceived = 0
  COOLDOWN_SECONDS = 2
  HALF_OPEN_MAX_OPS = 2
  BreakerInputs = {"Closed", "Open", "HalfOpen", "Paused"}
  ERROR_THRESHOLD = 1
  MaxFailures = 2
  MaxAdmitted = 3
  Readers = {r1}
  MaxChanges = 1
  MaxFaults = 2
  Callers = {c1, c2}
  Threshold = 3
  Retries = 1
  MaxRestarts = 2
  MaxCrashes = 3
  MaxRequests = 2
  Clients = {c1, c2}
  RetryAttempts = 2
  MaxHeight = 2
  MaxRows = 3
  MAX_PAGE_LIMIT = 2
  FeaturedLimit = 2
  Fields <- ThreeFields
INVARIANTS AdmissionBudget ReadsHonest WalkExact
PROPERTIES OpenRecovers EventuallyFresh CircuitCloses ShutdownEnds ReadsEnd SchemaJudged
CHECK_DEADLOCK FALSE
