SPECIFICATION Spec
CONSTANTS
  g2 = g2
  g3 = g3
  Tokens = {}
  MaxTime = 1
  MaxReceived = 0
  COOLDOWN_SECONDS = 1
  HALF_OPEN_MAX_OPS = 1
  BreakerInputs = {}
  Addresses = {owner, g1, g2, g3}
  Owner = owner
  Nobody = Nobody
  Candidates = {owner}
  Operators = {owner}
  Members = {g1, g2, g3}
  Powers = {1}
  PauseVoters = {g1}
  Hashes = {h1}
  Timelocks = {0, 2}
  MAJORITY_THRESHOLD_PERCENT = 51
  TIMELOCK_DURATION = 1
  TIMELOCK_MIN_SECONDS = 1
  TIMELOCK_MAX_SECONDS = 2
  GUARDIAN_REMOVAL_VOTE_WINDOW = 0
  UPGRADE_COOLDOWN_DURATION = 0
  MaxUpgrades = 1
PROPERTIES TimelockAfterApproval
CHECK_DEADLOCK FALSE
