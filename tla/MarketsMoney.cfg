SPECIFICATION Spec
SYMMETRY AnyTokenAnyBettor
CONSTANTS
  Tokens = {t1, t2}
  Users = {alice, bob, carol}
  NoOne = NoOne
  MaxTime = 0
  MaxReceived = 40
  COOLDOWN_SECONDS = 1
  HALF_OPEN_MAX_OPS = 1
  BreakerInputs = {}
  BaseFees = {5000}
  MaxMarkets = 2
  MIN_DEADLINE_GAP = 1
  MAX_OUTCOMES_PER_MARKET = 2
  MAX_STALENESS_SECONDS = 1
  PRUNE_GRACE_PERIOD = 0
  DefaultWindow = 1
  MinWindow = 1
  MaxWindow = 2
  Creators = {carol}
  Deadlines = {1}
  ResolutionDeadlines = {2}
  OptionCounts = {2}
  MinResponses <- OneOracle
  Staleness = {1}
  Tiers = {"Basic"}
  ParentOutcomes = {2}
  Windows <- DefaultOnly
  Bettors = {alice, bob}
  Amounts = {20}
  Referrers = {carol}
  OracleIds = {0}
  OracleOutcomes = {}
  CreationDeposits = {20}
  CreationFees = {20}
  Treasuries = {}
  Reputations = {}
INVARIANTS StakeConservation EscrowAccounting WinnerCountsExact
CHECK_DEADLOCK FALSE
