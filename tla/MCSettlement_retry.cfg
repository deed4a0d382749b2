SPECIFICATION Spec
CONSTANTS
  Workers = {w1}
  NumDeposits = 1
  MaxRetries = 1
  ItemsPerTick = 1
  MemorySafetyLimit = 5
  MaxFaults = 0
  LockMayLapse = FALSE
  AdminPatches = FALSE
  NoOne = NoOne
INVARIANTS
  RetrySucceeds
