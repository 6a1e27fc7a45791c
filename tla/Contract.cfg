SPECIFICATION ContractSpec
SYMMETRY Interchangeable
CONSTANTS
  g2 = g2
  g3 = g3
  Tokens = {fine, coarse}
  MaxTime = 1
  MaxReceived = 40
  COOLDOWN_SECONDS = 1
  HALF_OPEN_MAX_OPS = 1
  BreakerInputs = {}
  Addresses = {owner, g1, g2, g3}
  Owner = owner
  Nobody = Nobody
  Candidates = {owner}
  Operators = {owner}
  Members = {g1, g2, g3}
  Powers = {1}
  PauseVoters = {g1}
  Hashes = {h1}
  Timelocks = {0, 2}
  MAJORITY_THRESHOLD_PERCENT = 51
  TIMELOCK_DURATION = 1
  TIMELOCK_MIN_SECONDS = 1
  TIMELOCK_MAX_SECONDS = 2
  GUARDIAN_REMOVAL_VOTE_WINDOW = 0
  UPGRADE_COOLDOWN_DURATION = 0
  MaxUpgrades = 1
  fine = fine
  coarse = coarse
  v1 = v1
  v2 = v2
  VotingTime = 3
  Voters = {v1, v2}
  Minted <- Holdings
  Decimals <- TwoPrecisions
  SnapshotTokens = {coarse}
  NORMALIZED_DECIMALS = 1
  I128_MAX = 150000
  Weights = {5, 10, 20}
  Options = 2
  CANCEL_OUTCOME_INDEX = 9
  VOTING_PERIOD_SECONDS = 1
  MAJORITY_THRESHOLD_BPS = 6000
  FAILED_MARKET_THRESHOLD_BPS = 7500
  ResolutionDeadline = 2
  OracleOutcome = 0
  PRUNE_GRACE_PERIOD = 1
INVARIANTS RemovalAboutGuardians ApprovalBelongs TallyMatchesVotes LockAccounting NoDoubleVote DecisionBacked
PROPERTIES UpgradeAnnounced
CHECK_DEADLOCK FALSE
