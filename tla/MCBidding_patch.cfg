SPECIFICATION Spec
CONSTANTS
  Requests = {r1}
  Enders = {e1, e2}
  Keys = {k1}
  StartingPrice = 1
  MinIncrement = 2
  ScheduledEnd = 1
  SniperWindow = 1
  Amounts = {3}
  MaxTime = 2
  MaxFaults = 1
  LockMayLapse = TRUE
  AdminPatches = TRUE
  NoOne = NoOne
SYMMETRY BiddingSymmetry
PROPERTIES
  OutcomeHeldInSettlement
  ClosedStaysClosed
