--------------------------- MODULE AuctionOutcome ---------------------------
(***************************************************************************)
(* What the auction service promises about one auction, whoever serves it: *)
(* bids enter while it is live, one per idempotency key; it is closed,     *)
(* then ended with the highest bid as its winner, the earliest among       *)
(* equals; and the winner it was ended with goes into its settlement.      *)
(* Bidding is shown to implement this specification; AuctionRoom builds on *)
(* it.                                                                     *)
(***************************************************************************)
EXTENDS Naturals

CONSTANTS Keys,         \* idempotency keys of bids
          Amounts,      \* amounts of bids
          Times,        \* server timestamps of bids
          NoBid         \* no winner

VARIABLES status,       \* auctions.status
          bids,         \* the rows of auctions.bids
          outcome       \* the winning bid, NoBid while there is none

outcomeVars == <<status, bids, outcome>>

Bids == [key : Keys, amount : Amounts, ts : Times]

OutcomeInit ==
    /\ status = "live"
    /\ bids = {}
    /\ outcome = NoBid

KeyKnown(k) == \E b \in bids : b.key = k

PlaceBid(b) ==
    /\ status = "live"
    /\ UNCHANGED <<status, outcome>>
    /\ ~KeyKnown(b.key)
    /\ bids' = bids \cup {b}

CloseAuction ==
    /\ status = "live"
    /\ status' = "ending"
    /\ UNCHANGED <<bids, outcome>>

Outranks(b, c) == b.amount > c.amount \/ (b.amount = c.amount /\ b.ts < c.ts)

\* Mutant: any bid may win.
AnyWinner(b) == b \in bids

Wins(b) == b \in bids /\ \A c \in bids : ~Outranks(c, b)

EndAuction ==
    /\ status = "ending"
    /\ status' = "ended"
    /\ \/ bids = {} /\ outcome' = NoBid
       \/ \E b \in bids : Wins(b) /\ outcome' = b
    /\ UNCHANGED bids

Settle ==
    /\ status = "ended"
    /\ status' = "settling"
    /\ UNCHANGED <<bids, outcome>>

OutcomeNext ==
    \/ CloseAuction \/ EndAuction \/ Settle
    \/ \E b \in Bids : PlaceBid(b)

OutcomeSpec == OutcomeInit /\ [][OutcomeNext]_outcomeVars
=============================================================================
