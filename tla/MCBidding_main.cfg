SPECIFICATION FairSpec
CONSTANTS
  Requests = {r1, r2}
  Enders = {e1}
  Keys = {k1, k2}
  StartingPrice = 1
  MinIncrement = 2
  ScheduledEnd = 1
  SniperWindow = 2
  Amounts = {3, 4, 5}
  MaxTime = 3
  MaxFaults = 1
  LockMayLapse = FALSE
  AdminPatches = FALSE
  NoOne = NoOne
INVARIANTS
  TypeOK
  RowTellsBids
  BidsApart
PROPERTIES
  ExtensionHonoured
  AuctionEnds
