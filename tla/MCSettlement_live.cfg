SPECIFICATION FairSpec
CONSTANTS
  Workers = {w1, w2}
  NumDeposits = 1
  MaxRetries = 2
  ItemsPerTick = 1
  MemorySafetyLimit = 5
  MaxFaults = 1
  LockMayLapse = FALSE
  AdminPatches = FALSE
  NoOne = NoOne
INVARIANTS
  SettledMeansMoved
  OneWorkerAtATime
PROPERTIES
  InitiatedOnce
  SettlementEnds
