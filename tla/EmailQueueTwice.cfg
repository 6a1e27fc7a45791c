SPECIFICATION Spec
CONSTANTS
  Jobs = {j1}
  Workers = {w1}
  NoJob = NoJob
  MAX_ATTEMPTS = 2
  MaxFaults = 1
  MaxDoubts = 1
INVARIANT AtMostOnce
CHECK_DEADLOCK FALSE
