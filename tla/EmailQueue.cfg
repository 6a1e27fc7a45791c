SPECIFICATION Spec
SYMMETRY Interchangeable
CONSTANTS
  Jobs = {j1}
  Workers = {w1, w2}
  NoJob = NoJob
  MAX_ATTEMPTS = 2
  MaxFaults = 1
  MaxDoubts = 1
INVARIANTS ResendsExplained UnfinishedTracked
CHECK_DEADLOCK FALSE
