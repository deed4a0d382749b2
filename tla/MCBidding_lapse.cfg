SPECIFICATION Spec
CONSTANTS
  Requests = {r1, r2}
  Enders = {e1, e2}
  Keys = {k1, k2}
  StartingPrice = 1
  MinIncrement = 2
  ScheduledEnd = 1
  SniperWindow = 2
  Amounts = {3, 5}
  MaxTime = 2
  MaxFaults = 0
  LockMayLapse = TRUE
  AdminPatches = FALSE
  NoOne = NoOne
SYMMETRY BiddingSymmetry
INVARIANTS
  WinnerIsHighest
  IdempotentBids
PROPERTIES
  OutcomePromise
