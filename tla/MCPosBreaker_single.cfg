SPECIFICATION SpecBreaker
CONSTANTS
  Workers = {w1}
  NumDeposits = 3
  MaxRetries = 3
  ItemsPerTick = 1
  MemorySafetyLimit = 2
  MaxFaults = 1
  LockMayLapse = FALSE
  AdminPatches = FALSE
  NoOne = NoOne
  Threshold = 3
  Recovery = 2
  Amount <- MCAmount
  FinalPrice <- MCFinalPrice
INVARIANTS
  TypeOK
  TypeOKBreaker
  NoneSavedAsSent
  FailedMeansUnmoved
  ManifestAgrees
  AnnouncedOutcome
  CircuitTellsStreak
  AuditsTellTruth
PROPERTIES
  PosLeftInPeace
  RetryUnaskedOnlyWhenOpen
