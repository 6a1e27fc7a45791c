SPECIFICATION FairSpec
CONSTANTS
  Tokens = {t1}
  Users = {alice}
  NoOne = NoOne
  MaxTime = 5
  MaxReceived = 0
  COOLDOWN_SECONDS = 2
  HALF_OPEN_MAX_OPS = 1
  BreakerInputs = {"Open"}
  BaseFees = {0}
  MaxMarkets = 1
  MIN_DEADLINE_GAP = 1
  MAX_OUTCOMES_PER_MARKET = 2
  MAX_STALENESS_SECONDS = 1
  PRUNE_GRACE_PERIOD = 1
  DefaultWindow = 1
  MinWindow = 1
  MaxWindow = 2
  Creators = {alice}
  Deadlines = {1}
  ResolutionDeadlines = {2, 3}
  OptionCounts = {2}
  MinResponses <- TwoOracles
  Staleness = {1}
  Tiers = {"Basic"}
  ParentOutcomes = {0}
  Windows <- TwoWindows
  Bettors = {}
  Amounts = {}
  Referrers = {}
  OracleIds = {0, 1}
  OracleOutcomes = {0}
  CreationDeposits = {}
  CreationFees = {}
  Treasuries = {}
  Reputations = {}
INVARIANTS StatusIndexExact TimesAgreeWithStatus
PROPERTIES TerminalFrozen PendingSettles
CHECK_DEADLOCK FALSE
