SPECIFICATION Spec
CONSTANTS
  Requests = {r1}
  Enders = {e1}
  Keys = {k1}
  StartingPrice = 1
  MinIncrement = 2
  ScheduledEnd = 2
  SniperWindow = 2
  Amounts = {3}
  MaxTime = 4
  MaxFaults = 0
  LockMayLapse = FALSE
  AdminPatches = TRUE
  NoOne = NoOne
SYMMETRY BiddingSymmetry
PROPERTIES
  OutcomeFrozen
