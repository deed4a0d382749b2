SPECIFICATION Spec
CONSTANTS
  Requests = {r1, r2}
  Enders = {e1}
  Keys = {k1, k2}
  StartingPrice = 1
  MinIncrement = 2
  ScheduledEnd = 2
  SniperWindow = 2
  Amounts = {3, 5}
  MaxTime = 4
  MaxFaults = 0
  LockMayLapse = TRUE
  AdminPatches = FALSE
  NoOne = NoOne
SYMMETRY BiddingSymmetry
PROPERTIES
  SavedOnRowRead
