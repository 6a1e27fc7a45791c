SPECIFICATION Spec
CONSTANTS
  Tokens = {t1}
  Users = {alice, bob}
  NoOne = NoOne
  MaxTime = 2
  MaxReceived = 45
  COOLDOWN_SECONDS = 1
  HALF_OPEN_MAX_OPS = 1
  BreakerInputs = {"Paused", "Closed"}
  BaseFees = {0, 5000}
  MaxMarkets = 1
  MIN_DEADLINE_GAP = 1
  MAX_OUTCOMES_PER_MARKET = 2
  MAX_STALENESS_SECONDS = 1
  PRUNE_GRACE_PERIOD = 1
  DefaultWindow = 1
  MinWindow = 1
  MaxWindow = 2
  Creators = {alice}
  Deadlines = {1}
  ResolutionDeadlines = {2}
  OptionCounts = {2}
  MinResponses <- OneOracle
  Staleness = {1}
  Tiers = {"Basic", "Pro"}
  ParentOutcomes = {0}
  Windows <- DefaultOnly
  Bettors = {alice, bob}
  Amounts = {20}
  Referrers = {NoOne, bob}
  OracleIds = {0}
  OracleOutcomes = {}
  CreationDeposits = {3}
  CreationFees = {2}
  Treasuries = {"treasury"}
  Reputations = {"Pro"}
INVARIANTS PrincipalCovered
CHECK_DEADLOCK FALSE
