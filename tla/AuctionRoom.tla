---------------------------- MODULE AuctionRoom ----------------------------
(***************************************************************************)
(* What the clients of an auction get to know.  The gateway, on any        *)
(* instance, lets clients into the auction's room and serves their bids,   *)
(* the HTTP controller serves bids too, and whoever has changed the        *)
(* auction broadcasts it to the room afterwards: after the transaction,    *)
(* after the bid lock, and not in one step with either.  The auction       *)
(* itself follows AuctionOutcome, which module Bidding implements; the     *)
(* rate limits are module RateLimiter.                                     *)
(***************************************************************************)
EXTENDS AuctionOutcome, RateLimiter, FiniteSets

CONSTANTS
    Clients,        \* WebSocket clients, each one user
    Requests,       \* bids being served, by any instance
    Offers,         \* bound: the bids that clients send
    Late,           \* those that come within the sniper window and extend
    StartingPrice,  \* auctions.starting_price, which the first bid has to exceed
    AuctionKey,     \* the rate limiter's key of the auction
    MaxFaults,      \* bound: lost replies, crashes and outages of Redis
    NoClient        \* a request that came over HTTP has no client

ASSUME RoomAssumption ==
    /\ Offers \subseteq Bids /\ Late \subseteq Offers
    /\ RateKeys = Clients \cup {AuctionKey}
    /\ AuctionKey \notin Clients /\ NoClient \notin Clients
    /\ MaxFaults \in Nat
    /\ Amounts \subseteq Nat /\ StartingPrice \in Nat
    /\ NoBid \notin Bids

VARIABLES
    currentPrice,   \* the auction's row: current_price ?? starting_price
    extendedUntil,  \* its extended_until, which only moves forward: the amount of the
                    \* bid that set it, StartingPrice while it is NULL
    unannounced,    \* values of it that nobody broadcasts (history)
    redis,          \* redisHealthy
    request,        \* each bid request: its step, client, bid, sniper_extended
    worker,         \* what the AuctionEndingWorker has yet to broadcast
    place,          \* where each client is: outside, on its way in, in the room
    picture,        \* the auction as each client can tell it, from AUCTION_STATE and
                    \* from what was broadcast to it, in any order
    missed,         \* what is beyond its picture and was broadcast past it since it read
                    \* the row, or never will be because of a fault (history)
    faults

auctionVars == <<outcomeVars, currentPrice, extendedUntil, unannounced>>
roomVars == <<place, picture, missed>>
servers  == <<redis, request, worker, faults>>
rvars == <<auctionVars, limiterVars, roomVars, servers>>

\* A message stands for what a client can tell from it: how far the auction has come,
\* the highest price and the latest end it has heard of, and the winner.
Price == Amounts \cup {StartingPrice}
Message == [status : {"live", "ending", "ended"}, price : Price, end : Price,
            winner : Bids \cup {NoBid}]
Nothing == [status |-> "live", price |-> StartingPrice, end |-> StartingPrice,
            winner |-> NoBid]

\* AUCTION_STATE (which tells no winner), BID_ACCEPTED, AUCTION_EXTENDED, AUCTION_ENDING,
\* AUCTION_ENDED (whose final_price is 0, lower than any price heard, when nobody bid)
State == [Nothing EXCEPT !.status = status, !.price = currentPrice, !.end = extendedUntil]
Accepted(b)  == [Nothing EXCEPT !.price = b.amount]
Extended(b)  == [Nothing EXCEPT !.end = b.amount]
Ending       == [Nothing EXCEPT !.status = "ending"]
EndedWith(b) == [Nothing EXCEPT !.status = "ended", !.winner = b,
                     !.price = IF b = NoBid THEN StartingPrice ELSE b.amount]

Stage == [live |-> 0, ending |-> 1, ended |-> 2]
Further(s, t) == IF Stage[t] > Stage[s] THEN t ELSE s
Higher(x, y)  == IF y > x THEN y ELSE x

\* What a client can tell from both messages, in either order.
Join(p, q) ==
    [status |-> Further(p.status, q.status), price |-> Higher(p.price, q.price),
     end |-> Higher(p.end, q.end),
     winner |-> IF q.winner # NoBid THEN q.winner ELSE p.winner]

\* What m tells that p does not.
Beyond(m, p) ==
    [status |-> IF Stage[m.status] > Stage[p.status] THEN m.status ELSE "live",
     price |-> IF m.price > p.price THEN m.price ELSE StartingPrice,
     end |-> IF m.end > p.end THEN m.end ELSE StartingPrice, winner |-> NoBid]

RequestStep == {"idle", "userRate", "auctionRate", "place", "broadcast"}
Request == [step : RequestStep, client : Clients \cup {NoClient},
            bid : Bids \cup {NoBid}, extends : BOOLEAN]
Idle == [step |-> "idle", client |-> NoClient, bid |-> NoBid, extends |-> FALSE]

TypeOKRoom ==
    /\ TypeOKLimiter
    /\ status \in {"live", "ending", "ended"}
    /\ bids \subseteq Bids /\ outcome \in Bids \cup {NoBid}
    /\ currentPrice \in Price /\ extendedUntil \in Price /\ unannounced \subseteq Price
    /\ redis \in BOOLEAN
    /\ request \in [Requests -> Request]
    /\ worker \subseteq Message
    /\ place \in [Clients -> {"outside", "read", "room"}]
    /\ picture \in [Clients -> Message]
    /\ missed \in [Clients -> Message]
    /\ faults \in 0..MaxFaults
    /\ \A c \in Clients :
        place[c] = "outside" => picture[c] = Nothing /\ missed[c] = Nothing

InitRoom ==
    /\ OutcomeInit /\ InitLimiter
    /\ currentPrice = StartingPrice /\ extendedUntil = StartingPrice /\ unannounced = {}
    /\ redis = TRUE
    /\ request = [r \in Requests |-> Idle]
    /\ worker = {}
    /\ place = [c \in Clients |-> "outside"]
    /\ picture = [c \in Clients |-> Nothing]
    /\ missed = [c \in Clients |-> Nothing]
    /\ faults = 0

Fault == faults < MaxFaults /\ faults' = faults + 1

-----------------------------------------------------------------------------
(* The room *)

InRoom == {c \in Clients : place[c] = "room"}

\* A message goes to the clients reached, or to nobody.  When a client that has read
\* the row does not get it, it has missed it.
Tell(reached, m) ==
    /\ picture' = [c \in Clients |->
                    IF c \in reached THEN Join(picture[c], m) ELSE picture[c]]
    /\ missed' = [c \in Clients |->
                    IF place[c] = "outside" THEN missed[c]
                    ELSE Beyond(IF c \in reached THEN missed[c] ELSE Join(missed[c], m),
                                picture'[c])]
    /\ UNCHANGED place

\* server.to(room).emit.  The Redis adapter relays it to the other instances, so
\* while Redis is away some clients of the room are not reached.
Broadcast(m) ==
    \E reached \in IF redis THEN {InRoom} ELSE SUBSET InRoom : Tell(reached, m)

TellNobody(m) == Tell({}, m)

\* join_auction of an eligible participant: the row is read ...
ReadSnapshot(c) ==
    /\ place[c] = "outside"
    /\ place' = [place EXCEPT ![c] = "read"]
    /\ picture' = [picture EXCEPT ![c] = State]
    /\ UNCHANGED <<auctionVars, limiterVars, servers, missed>>

\* ... and only then the client enters the room, and is sent what was read.
EnterRoom(c) ==
    /\ place[c] = "read"
    /\ place' = [place EXCEPT ![c] = "room"]
    /\ UNCHANGED <<auctionVars, limiterVars, servers, picture, missed>>

\* Mutant: leaves without a trace being cleared.
LeaveInPart(c) ==
    /\ place[c] # "outside"
    /\ place' = [place EXCEPT ![c] = "outside"]
    /\ UNCHANGED <<auctionVars, limiterVars, servers, picture, missed>>

\* leave_auction, or the end of the connection
Leave(c) ==
    /\ place[c] # "outside"
    /\ place' = [place EXCEPT ![c] = "outside"]
    /\ picture' = [picture EXCEPT ![c] = Nothing]
    /\ missed' = [missed EXCEPT ![c] = Nothing]
    /\ UNCHANGED <<auctionVars, limiterVars, servers>>

-----------------------------------------------------------------------------
(* place_bid, over WebSocket and over HTTP *)

Become(r, step) == request' = [request EXCEPT ![r].step = step]
Answer(r)       == request' = [request EXCEPT ![r] = Idle]

\* A client need not be in the room to bid; while Redis is away it is told so.
SendBid(r, c, b) ==
    /\ request[r] = Idle
    /\ redis
    /\ request' = [request EXCEPT ![r] = [step |-> "userRate", client |-> c,
                                          bid |-> b, extends |-> FALSE]]
    /\ UNCHANGED <<auctionVars, limiterVars, roomVars, redis, worker, faults>>

\* POST /bids has no rate limit of this kind.
PostBid(r, b) ==
    /\ request[r] = Idle
    /\ request' = [request EXCEPT ![r] = [step |-> "place", client |-> NoClient,
                                          bid |-> b, extends |-> FALSE]]
    /\ UNCHANGED <<auctionVars, limiterVars, roomVars, redis, worker, faults>>

\* The limit of the user and then that of the auction; a call that the second
\* one refuses has been counted by the first.
CheckLimit(r, step, key, next) ==
    /\ request[r].step = step
    /\ IF redis
       THEN /\ CheckRateLimit(key)
            /\ IF Allowed(key) THEN Become(r, next) ELSE Answer(r)
       ELSE Answer(r) /\ UNCHANGED limiterVars
    /\ UNCHANGED <<auctionVars, roomVars, redis, worker, faults>>

CheckUserLimit(r) == CheckLimit(r, "userRate", request[r].client, "auctionRate")
CheckAuctionLimit(r) == CheckLimit(r, "auctionRate", AuctionKey, "place")

\* placeBid answers a known key with the bid it stands for, as accepted and as
\* extending nothing.
ReplayBid(r) ==
    /\ request[r].step = "place"
    /\ \E b \in bids :
        /\ b.key = request[r].bid.key
        /\ request' = [request EXCEPT ![r].bid = b, ![r].step = "broadcast"]
    /\ UNCHANGED <<auctionVars, limiterVars, roomVars, redis, worker, faults>>

\* The bid, above the current price, is committed with the row's new price and, when
\* it is late, new end.  When the reply to the commit or to the release of the lock
\* is lost, the client is told that its bid was rejected.
CommitBid(r) ==
    LET b == request[r].bid
        extends == b \in Late
    IN  /\ request[r].step = "place" /\ redis
        /\ b.amount > currentPrice
        /\ PlaceBid(b)
        /\ currentPrice' = b.amount
        /\ extendedUntil' = IF extends THEN b.amount ELSE extendedUntil
        /\ unannounced' = IF extends /\ request[r].client = NoClient
                          THEN unannounced \cup {b.amount} ELSE unannounced
        /\ \/ /\ request' = [request EXCEPT ![r].step = "broadcast",
                                             ![r].extends = extends]
              /\ UNCHANGED <<roomVars, faults>>
           \/ /\ Fault /\ Answer(r)
              /\ TellNobody(Join(Accepted(b), IF extends THEN Extended(b) ELSE Nothing))
        /\ UNCHANGED <<limiterVars, redis, worker>>

RejectBid(r) ==
    /\ request[r].step = "place"
    /\ Answer(r)
    /\ UNCHANGED <<auctionVars, limiterVars, roomVars, redis, worker, faults>>

\* Mutant: the gateway forgets the extension as well.
NewsOfBid(r) == Accepted(request[r].bid)

\* Mutant: the gateway does not look at sniper_extended.
NewsOfEnd(r) == Join(Accepted(request[r].bid), Extended(request[r].bid))

\* BID_ACCEPTED, and behind it AUCTION_EXTENDED, which the HTTP controller does not
\* send.
News(r) ==
    Join(Accepted(request[r].bid),
         IF request[r].extends /\ request[r].client # NoClient
         THEN Extended(request[r].bid) ELSE Nothing)

BroadcastBid(r) ==
    /\ request[r].step = "broadcast"
    /\ Broadcast(News(r))
    /\ Answer(r)
    /\ UNCHANGED <<auctionVars, limiterVars, redis, worker, faults>>

\* The instance dies: so do its requests and their broadcasts.
CrashRequest(r) ==
    /\ request[r] # Idle
    /\ Fault
    /\ TellNobody(IF request[r].step = "broadcast" THEN News(r) ELSE Nothing)
    /\ Answer(r)
    /\ UNCHANGED <<auctionVars, limiterVars, redis, worker>>

-----------------------------------------------------------------------------
(* AuctionEndingWorker *)

\* A transition is committed and has yet to be broadcast; when the reply to the
\* commit is lost, or the instance dies, nobody will.
ThenTell(m) ==
    \/ worker' = worker \cup {m} /\ UNCHANGED <<roomVars, faults>>
    \/ Fault /\ TellNobody(m) /\ UNCHANGED worker

TransitionLiveToEnding ==
    /\ CloseAuction /\ UNCHANGED <<currentPrice, extendedUntil, unannounced>>
    /\ ThenTell(Ending)
    /\ UNCHANGED <<limiterVars, redis, request>>

TransitionEndingToEnded ==
    /\ EndAuction /\ UNCHANGED <<currentPrice, extendedUntil, unannounced>>
    /\ ThenTell(EndedWith(outcome'))
    /\ UNCHANGED <<limiterVars, redis, request>>

BroadcastTransition(m) ==
    /\ m \in worker
    /\ Broadcast(m)
    /\ worker' = worker \ {m}
    /\ UNCHANGED <<auctionVars, limiterVars, redis, request, faults>>

-----------------------------------------------------------------------------
(* Time and Redis *)

ClockTicks ==
    /\ LimiterTicks
    /\ \E k \in RateKeys : ttl[k] > 0 \/ \E a \in Ages : passed[k][a] > 0
    /\ UNCHANGED <<auctionVars, roomVars, servers>>

RedisGoes ==
    /\ redis /\ Fault
    /\ redis' = FALSE
    /\ UNCHANGED <<auctionVars, limiterVars, roomVars, request, worker>>

RedisComesBack ==
    /\ ~redis
    /\ redis' = TRUE
    /\ UNCHANGED <<auctionVars, limiterVars, roomVars, request, worker, faults>>

ClientMoves(c) ==
    ReadSnapshot(c) \/ EnterRoom(c) \/ Leave(c)

RequestMoves(r) ==
    \/ CheckUserLimit(r) \/ CheckAuctionLimit(r)
    \/ ReplayBid(r) \/ CommitBid(r) \/ RejectBid(r) \/ BroadcastBid(r)

NextRoom ==
    \/ \E c \in Clients : ClientMoves(c)
    \/ \E r \in Requests :
        \/ \E b \in Offers : PostBid(r, b) \/ \E c \in Clients : SendBid(r, c, b)
        \/ RequestMoves(r) \/ CrashRequest(r)
    \/ TransitionLiveToEnding \/ TransitionEndingToEnded
    \/ \E m \in worker : BroadcastTransition(m)
    \/ ClockTicks \/ RedisGoes \/ RedisComesBack

SpecRoom == InitRoom /\ [][NextRoom]_rvars

-----------------------------------------------------------------------------
(* Safety *)

\* What a message tells has been committed and is true of the auction now.
IsTrue(m) ==
    /\ m.price = StartingPrice \/ \E b \in bids : b.amount = m.price
    /\ m.end = StartingPrice \/ \E b \in bids \cap Late : b.amount = m.end
    /\ Stage[m.status] <= Stage[status]
    /\ m.winner # NoBid => status = "ended" /\ m.winner = outcome

\* However commits, crashes, replays and broadcasts of several instances interleave,
\* clients are told nothing that has not been committed or will not stay.
HeardIsTrue ==
    \A c \in Clients : IsTrue(picture[c]) /\ IsTrue(missed[c])

\* Whoever has heard of the end, from AUCTION_ENDED or, entering later, from
\* AUCTION_STATE, has been told the price the auction ended with, and no BID_ACCEPTED
\* that arrives behind it exceeds that.
FinalPriceIsFinal ==
    \A c \in InRoom : picture[c].status = "ended" =>
        picture[c].price = IF outcome = NoBid THEN StartingPrice ELSE outcome.amount

OnItsWay ==
    worker \cup {News(r) : r \in {q \in Requests : request[q].step = "broadcast"}}

\* A client in the room is behind the auction only while the news is on its way or
\* when that very news, the latest of its kind, has missed it: broadcast between the
\* client's read and its entry or while Redis was away, or lost with a fault, or an
\* end set over HTTP.  Older losses are made good by the next message.
RoomKeepsUp ==
    \A c \in InRoom : LET heard == {picture[c], missed[c]} \cup OnItsWay IN
        /\ \E m \in heard : m.price = currentPrice
        /\ extendedUntil \in unannounced \/ \E m \in heard : m.end = extendedUntil
        /\ \E m \in heard : m.status = status
=============================================================================
