SPECIFICATION Spec
CONSTANTS Lag = 1 ReplayFrom = 2 MaxLedger = 3 MaxRollbacks = 0 MaxFaults = 2
PROPERTY PurgeMeansReorg
