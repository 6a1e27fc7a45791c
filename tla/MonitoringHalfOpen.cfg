SPECIFICATION FairSpec
CONSTANTS
  Tokens = {}
  MaxTime = 5
  MaxReceived = 0
  COOLDOWN_SECONDS = 2
  HALF_OPEN_MAX_OPS = 2
  BreakerInputs = {"HalfOpen"}
  ERROR_THRESHOLD = 1
  MaxFailures = 2
  MaxAdmitted = 3

PROPERTIES ProbeLimitTrips
CHECK_DEADLOCK FALSE
