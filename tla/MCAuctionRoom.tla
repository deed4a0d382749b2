--------------------------- MODULE MCAuctionRoom ---------------------------
(* A small instance of AuctionRoom for TLC; the constants are in the cfg file. *)
EXTENDS AuctionRoom, TLC

CONSTANTS k1, k2

\* A user may bid twice in a window, so that three bids pass where two windows meet;
\* the auction's own counter refuses some that the user's has counted.
MCLimit == [k \in RateKeys |-> IF k = AuctionKey THEN 1 ELSE 2]

\* One bid for each key; the second outranks the first.
MCOffers == {[key |-> k1, amount |-> 1, ts |-> 0], [key |-> k2, amount |-> 2, ts |-> 0]}

\* The second one extends the auction.
MCLate == {b \in MCOffers : b.key = k2}

RoomSymmetry == Permutations(Requests)
=============================================================================
