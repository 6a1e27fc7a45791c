SPECIFICATION Spec
CONSTANTS
  Tokens = {t1}
  Users = {alice}
  NoOne = NoOne
  MaxTime = 4
  MaxReceived = 0
  COOLDOWN_SECONDS = 2
  HALF_OPEN_MAX_OPS = 1
  BreakerInputs = {}
  BaseFees = {0}
  MaxMarkets = 2
  MIN_DEADLINE_GAP = 1
  MAX_OUTCOMES_PER_MARKET = 2
  MAX_STALENESS_SECONDS = 1
  PRUNE_GRACE_PERIOD = 1
  DefaultWindow = 1
  MinWindow = 1
  MaxWindow = 1
  Creators = {alice}
  Deadlines = {1, 3}
  ResolutionDeadlines = {2, 4}
  OptionCounts = {2}
  MinResponses <- OneOracle
  Staleness = {1}
  Tiers = {"Pro"}
  ParentOutcomes = {1}
  Windows <- DefaultOnly
  Bettors = {}
  Amounts = {}
  Referrers = {}
  OracleIds = {0}
  OracleOutcomes = {1}
  CreationDeposits = {}
  CreationFees = {}
  Treasuries = {"treasury"}
  Reputations = {"Pro"}
INVARIANTS ParentOutcomeStands OracleSettledHasNoChild
PROPERTIES ImplementsMarketStatus
CHECK_DEADLOCK FALSE
