SPECIFICATION SpecRoom
CONSTANTS
  Clients = {c1}
  Requests = {r1, r2}
  AuctionKey = ak
  RateKeys = {c1, ak}
  Limit <- MCLimit
  Window = 2
  Keys = {k1, k2}
  Amounts = {1, 2}
  Times = {0}
  StartingPrice = 0
  NoBid = NoBid
  NoClient = NoClient
  MaxFaults = 1
  k1 = k1
  k2 = k2
  Offers <- MCOffers
  Late <- MCLate
SYMMETRY RoomSymmetry
INVARIANTS
  TypeOKRoom
  HeardIsTrue
  FinalPriceIsFinal
  RoomKeepsUp
  BelowTwiceTheLimit
  RefusedOnlyAfterPass
