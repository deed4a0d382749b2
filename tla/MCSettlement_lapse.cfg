SPECIFICATION Spec
CONSTANTS
  Workers = {w1, w2}
  NumDeposits = 1
  MaxRetries = 1
  ItemsPerTick = 1
  MemorySafetyLimit = 5
  MaxFaults = 1
  LockMayLapse = TRUE
  AdminPatches = TRUE
  NoOne = NoOne
SYMMETRY WorkerSymmetry
INVARIANTS
  LedgerMatchesDeposit
  AcknowledgedMoved
  MoneyMovedFirst
PROPERTIES
  OnlyHolderUnlocks
  LedgerPromise
  SettledIsFinal
