------------------------------ MODULE Bidding ------------------------------
(***************************************************************************)
(* One live auction until it is being settled: the requests that place     *)
(* bids on it, the Redis locks, the workers that end it when its time is   *)
(* over, the admin PATCH of its status, and the transaction that starts    *)
(* its settlement.  A step is what happens between two                     *)
(* awaits.  PostgreSQL runs READ COMMITTED: a transaction's writes appear  *)
(* at its commit, and the bid it has inserted keeps a share lock on the    *)
(* auction's row (foreign key), which only SELECT ... FOR UPDATE respects. *)
(***************************************************************************)
EXTENDS Naturals, FiniteSets, Lifecycle

CONSTANTS
    Requests,       \* bid requests being served, by any instance
    Enders,         \* instances of AuctionEndingWorker
    Keys,           \* idempotency keys that clients use
    StartingPrice,  \* starting_price
    MinIncrement,   \* minimum_increment
    ScheduledEnd,   \* scheduled_end
    SniperWindow,   \* SNIPER_EXTENSION_SECONDS
    Amounts,        \* bound: amounts that clients bid
    MaxTime,        \* bound: the clock stops here
    MaxFaults,      \* bound: crashes, database and Redis errors per behaviour
    LockMayLapse,   \* may a lock's TTL run out under a live holder?
    AdminPatches,   \* does an admin PATCH the auction's status meanwhile?
    NoOne           \* no holder of a lock, no bid, no PATCH

ASSUME BiddingAssumption ==
    /\ StartingPrice \in Nat /\ MinIncrement \in Nat \ {0}
    /\ ScheduledEnd \in Nat \ {0} /\ SniperWindow \in Nat
    /\ Amounts \subseteq Nat /\ MaxTime \in Nat /\ MaxFaults \in Nat
    /\ LockMayLapse \in BOOLEAN /\ AdminPatches \in BOOLEAN
    /\ NoOne \notin Requests \cup Enders
    /\ Requests \cap Enders = {}

VARIABLES
    auction,   \* the auctions row
    bids,      \* the committed rows of auctions.bids
    bidLock,   \* Redis key of the bid lock: its holder or NoOne
    endLock,   \* Redis key of the ending worker's lock
    now,       \* the clock, of the database and of the instances
    pc,        \* where each request and each worker is
    dto,       \* the request's bid: key, amount, server_ts
    entity,    \* the Auction entity a request works on
    dirty,     \* columns the pending UPDATE of its save will write
    answer,    \* what the request is about to answer
    seen,      \* status under which a worker's query found the auction
    patch,     \* the PATCH under way: target, entity, columns, or NoOne
    promised,  \* latest extended_until any client has been told
    faults     \* faults so far

requestVars == <<dto, entity, dirty, answer>>
vars == <<auction, bids, bidLock, endLock, now, pc, requestVars, seen, patch,
          promised, faults>>

Columns == {"status", "price", "count", "extended", "outcome"}
Bid     == [key : Keys, amount : Amounts, ts : Nat]
\* current_price ?? starting_price; extended_until with 0 for null; outcome is
\* winner_bid_id with the winner_id and final_price written beside it
Auction == [status : AuctionStatus, price : Nat, count : Nat, extended : Nat,
            outcome : Bid \cup {NoOne}]

RequestStep == {"idle", "lock", "recheck", "read", "duplicate", "insert",
                "select", "commit", "unlock"}
EnderStep   == {"idle", "lock", "toEnding", "toEnded", "unlock"}

NoBidYet == [key |-> NoOne, amount |-> 0, ts |-> 0]
NewAuction == [status |-> "live", price |-> StartingPrice, count |-> 0,
               extended |-> 0, outcome |-> NoOne]

TypeOK ==
    /\ auction \in Auction
    /\ bids \subseteq Bid
    /\ bidLock \in Requests \cup {NoOne} /\ endLock \in Enders \cup {NoOne}
    /\ now \in 0..MaxTime
    /\ pc \in [Requests \cup Enders -> RequestStep \cup EnderStep]
    /\ dto \in [Requests -> [key : Keys \cup {NoOne}, amount : {0} \cup Amounts,
                             ts : 0..MaxTime]]
    /\ entity \in [Requests -> Auction]
    /\ dirty \in [Requests -> SUBSET Columns]
    /\ answer \in [Requests -> {"none", "accepted", "rejected"}]
    /\ seen \in [Enders -> {"none", "live", "ending"}]
    /\ patch \in {NoOne} \cup [row : Auction, columns : SUBSET Columns]
    /\ promised \in Nat
    /\ faults \in 0..MaxFaults

Init ==
    /\ auction = NewAuction
    /\ bids = {}
    /\ bidLock = NoOne /\ endLock = NoOne
    /\ now = 0
    /\ pc = [p \in Requests \cup Enders |-> "idle"]
    /\ dto = [r \in Requests |-> NoBidYet]
    /\ entity = [r \in Requests |-> NewAuction]
    /\ dirty = [r \in Requests |-> {}]
    /\ answer = [r \in Requests |-> "none"]
    /\ seen = [e \in Enders |-> "none"]
    /\ patch = NoOne
    /\ promised = 0 /\ faults = 0

-----------------------------------------------------------------------------
(* Helpers *)

Goto(p, step) == pc' = [pc EXCEPT ![p] = step]

\* How a remote step ends: "done"; "rolledBack", an error and no effect; or
\* "unconfirmed", the effect but an error for the caller (reply lost).
Outcome == {"done", "rolledBack", "unconfirmed"}
Fault == faults < MaxFaults /\ faults' = faults + 1
Account(o) == IF o = "done" THEN UNCHANGED faults ELSE Fault

\* Date.now() against extended_until ?? scheduled_end
End(row) == IF row.extended # 0 THEN row.extended ELSE ScheduledEnd

\* TypeORM's save(): a SELECT finds the columns that differ, an UPDATE writes
\* them; the version column is incremented but not compared.
Differing(row, e) == {c \in Columns : row[c] # e[c]}

Written(row, e, columns) ==
    [c \in Columns |-> IF c \in columns THEN e[c] ELSE row[c]]

\* Mutant: the trigger looks at the status only.
StatusAllows(old, new) == AuctionTriggerAllows(old.status, new.status)

\* enforce_auction_outcome_immutability, with its frozen columns
TriggerAllows(old, new) ==
    /\ AuctionTriggerAllows(old.status, new.status)
    /\ old.status \in {"settling", "settlement_failed"} => new.outcome = old.outcome

Existing(key) == {b \in bids : b.key = key}

\* a transaction that has inserted its bid holds a share lock on the row
SharesRow(r) == pc[r] \in {"select", "commit"}

\* Mutant: a plain SELECT.
PlainSelect == TRUE

\* SELECT ... FOR UPDATE waits for the share locks
ForUpdate == \A r \in Requests : ~SharesRow(r)

Answer(r, a) == answer' = [answer EXCEPT ![r] = a] /\ Goto(r, "unlock")

-----------------------------------------------------------------------------
(* placeBid *)

\* A client sends a bid.  A key that is known already is answered at once and
\* changes nothing.
Arrive(r, key, amount) ==
    /\ pc[r] = "idle"
    /\ IF Existing(key) # {} THEN UNCHANGED <<dto, pc>>
       ELSE /\ dto' = [dto EXCEPT ![r] = [key |-> key, amount |-> amount, ts |-> 0]]
            /\ Goto(r, "lock")
    /\ UNCHANGED <<auction, bids, bidLock, endLock, now, entity, dirty, answer,
                   seen, patch, promised, faults>>

\* Mutant: SET without NX.
BidLockIgnored == TRUE

BidLockFree == bidLock = NoOne

\* Ends a request that holds nothing: what it carried is dropped.
Drop(r) ==
    /\ Goto(r, "idle")
    /\ dto' = [dto EXCEPT ![r] = NoBidYet]
    /\ entity' = [entity EXCEPT ![r] = NewAuction]
    /\ dirty' = [dirty EXCEPT ![r] = {}]
    /\ answer' = [answer EXCEPT ![r] = "none"]

\* lock_contention, or an error of Redis, is an answer too
AcquireBidLock(r) ==
    /\ pc[r] = "lock"
    /\ \E o \in Outcome :
        /\ Account(o)
        /\ bidLock' = IF BidLockFree /\ o # "rolledBack" THEN r ELSE bidLock
        /\ IF BidLockFree /\ o = "done"
           THEN Goto(r, "recheck") /\ UNCHANGED requestVars
           ELSE Drop(r)
    /\ UNCHANGED <<auction, bids, endLock, now, seen, patch, promised>>

\* Idempotency again, now inside the transaction.
RecheckKey(r) ==
    /\ pc[r] = "recheck"
    /\ IF Existing(dto[r].key) # {} THEN Answer(r, "accepted")
       ELSE Goto(r, "read") /\ UNCHANGED answer
    /\ UNCHANGED <<auction, bids, bidLock, endLock, now, dto, entity, dirty,
                   seen, patch, promised, faults>>

\* Mutant: any raise will do.
AnyRaise(bid, row) == bid.amount > row.price

Raises(bid, row) == bid.amount >= row.price + MinIncrement

\* Status, eligibility, consent, reference price, minimum increment.  Who is
\* eligible, has consented and knows the price is left to the client: any
\* request may be turned down.
ReadAuction(r) ==
    /\ pc[r] = "read"
    /\ \/ /\ auction.status = "live"
          /\ Raises(dto[r], auction)
          /\ entity' = [entity EXCEPT ![r] = auction]
          /\ Goto(r, "duplicate")
          /\ UNCHANGED answer
       \/ Answer(r, "rejected") /\ UNCHANGED entity
    /\ UNCHANGED <<auction, bids, bidLock, endLock, now, dto, dirty, seen,
                   patch, promised, faults>>

CheckDuplicate(r) ==
    /\ pc[r] = "duplicate"
    /\ IF \E b \in bids : b.amount = dto[r].amount THEN Answer(r, "rejected")
       ELSE Goto(r, "insert") /\ UNCHANGED answer
    /\ UNCHANGED <<auction, bids, bidLock, endLock, now, dto, entity, dirty,
                   seen, patch, promised, faults>>

\* the entity the request is about to save: price, count, sniper extension
Bidded(row, amount) ==
    LET left == End(row) - now
        late == End(row) > now /\ left <= SniperWindow
    IN  [row EXCEPT !.price = amount, !.count = @ + 1,
                    !.extended = IF late THEN now + SniperWindow ELSE @]

\* Mutant: no unique constraint on the idempotency key.
KeyUnchecked(key) == TRUE

\* bids_idempotency_unique
KeyIsNew(key) == Existing(key) = {}

\* INSERT: waits for an uncommitted bid with the same key, fails on a committed
\* one.  The new price and the extension are worked out at once.
InsertBid(r) ==
    /\ pc[r] = "insert"
    /\ \A q \in Requests : SharesRow(q) => dto[q].key # dto[r].key
    /\ \/ /\ KeyIsNew(dto[r].key)
          /\ dto' = [dto EXCEPT ![r].ts = now]
          /\ entity' = [entity EXCEPT ![r] = Bidded(@, dto[r].amount)]
          /\ Goto(r, "select")
          /\ UNCHANGED <<answer, faults>>
       \/ /\ KeyIsNew(dto[r].key) => Fault
          /\ ~KeyIsNew(dto[r].key) => UNCHANGED faults
          /\ Answer(r, "rejected")
          /\ UNCHANGED <<dto, entity>>
    /\ UNCHANGED <<auction, bids, bidLock, endLock, now, dirty, seen, patch,
                   promised>>

SaveSelect(r) ==
    /\ pc[r] = "select"
    /\ dirty' = [dirty EXCEPT ![r] = Differing(auction, entity[r])]
    /\ Goto(r, "commit")
    /\ UNCHANGED <<auction, bids, bidLock, endLock, now, dto, entity, answer,
                   seen, patch, promised, faults>>

NewBid(r) == [key |-> dto[r].key, amount |-> dto[r].amount, ts |-> dto[r].ts]
Extends(r) == "extended" \in dirty[r]

\* UPDATE and COMMIT.  The trigger objects when the status moved on before the
\* SELECT: the entity would put it back.
CommitBid(r) ==
    /\ pc[r] = "commit"
    /\ LET row == Written(auction, entity[r], dirty[r]) IN
       \/ /\ TriggerAllows(auction, row)
          /\ \E o \in Outcome :
              /\ Account(o)
              /\ IF o = "rolledBack" THEN UNCHANGED <<auction, bids>>
                 ELSE auction' = row /\ bids' = bids \cup {NewBid(r)}
              /\ Answer(r, IF o = "done" THEN "accepted" ELSE "rejected")
       \/ /\ ~TriggerAllows(auction, row)
          /\ Answer(r, "rejected")
          /\ UNCHANGED <<auction, bids, faults>>
    /\ UNCHANGED <<bidLock, endLock, now, dto, entity, dirty, seen, patch,
                   promised>>

AfterUnlock(r) == IF bidLock = r THEN NoOne ELSE bidLock

\* Release, then the answer leaves: an error of Redis here replaces it.  The
\* gateway broadcasts an extension only after that.
Unlock(r) ==
    /\ pc[r] = "unlock"
    /\ \E o \in Outcome :
        /\ Account(o)
        /\ bidLock' = IF o = "rolledBack" THEN bidLock ELSE AfterUnlock(r)
        /\ promised' = IF o = "done" /\ answer[r] = "accepted" /\ Extends(r)
                       THEN entity[r].extended ELSE promised
    /\ Drop(r)
    /\ UNCHANGED <<auction, bids, endLock, now, seen, patch>>

-----------------------------------------------------------------------------
(* AuctionEndingWorker *)

\* Mutant: an auction that a crash has left ending is not looked for.
LiveOnly == auction.status = "live" /\ now >= End(auction)

\* Mutant: the query does not look at the status.
AnyStatus == now >= End(auction)

Expired == auction.status \in {"live", "ending"} /\ now >= End(auction)

\* The query that finds auctions past their end, under no lock.
FindExpired(e) ==
    /\ pc[e] = "idle"
    /\ Expired
    /\ seen' = [seen EXCEPT ![e] = auction.status]
    /\ Goto(e, "lock")
    /\ UNCHANGED <<auction, bids, bidLock, endLock, now, requestVars, patch,
                   promised, faults>>

Rest(e) == Goto(e, "idle") /\ seen' = [seen EXCEPT ![e] = "none"]

\* When Redis fails, the whole tick ends.
AcquireEndLock(e) ==
    /\ pc[e] = "lock"
    /\ \E o \in Outcome :
        /\ Account(o)
        /\ endLock' = IF endLock = NoOne /\ o # "rolledBack" THEN e ELSE endLock
        /\ IF endLock = NoOne /\ o = "done"
           THEN /\ Goto(e, IF seen[e] = "live" THEN "toEnding" ELSE "toEnded")
                /\ seen' = [seen EXCEPT ![e] = "none"]
           ELSE Rest(e)
    /\ UNCHANGED <<auction, bids, bidLock, now, requestVars, patch, promised>>

\* Mutant: the end is not looked at again under the row lock.
EndUnchecked == auction.status = "live"

MayEnd == auction.status = "live" /\ End(auction) <= now

\* LIVE -> ENDING
TransitionLiveToEnding(e) ==
    /\ pc[e] = "toEnding"
    /\ ForUpdate
    /\ \E o \in Outcome :
        /\ Account(o)
        /\ auction' = IF MayEnd /\ o # "rolledBack"
                      THEN [auction EXCEPT !.status = "ending"] ELSE auction
        /\ Goto(e, IF o = "done" THEN "toEnded" ELSE "unlock")
    /\ UNCHANGED <<bids, bidLock, endLock, now, requestVars, seen, patch, promised>>

\* Mutant: the latest bid wins.
LatestBids == {b \in bids : \A c \in bids : c.ts <= b.ts}

\* ORDER BY amount DESC, server_ts ASC
FirstBids ==
    {b \in bids : \A c \in bids :
        c.amount < b.amount \/ (c.amount = b.amount /\ b.ts <= c.ts)}

\* ENDING -> ENDED, with the winner
TransitionEndingToEnded(e) ==
    /\ pc[e] = "toEnded"
    /\ ForUpdate
    /\ \E o \in Outcome :
        /\ Account(o)
        /\ IF auction.status = "ending" /\ o # "rolledBack"
           THEN \E b \in IF bids = {} THEN {auction.outcome} ELSE FirstBids :
                  auction' = [auction EXCEPT !.status = "ended", !.outcome = b]
           ELSE UNCHANGED auction
    /\ Goto(e, "unlock")
    /\ UNCHANGED <<bids, bidLock, endLock, now, requestVars, seen, patch, promised>>

ReleaseEndLock(e) ==
    /\ pc[e] = "unlock"
    /\ \E o \in Outcome :
        /\ Account(o)
        /\ endLock' = IF endLock = e /\ o # "rolledBack" THEN NoOne ELSE endLock
    /\ Rest(e)
    /\ UNCHANGED <<auction, bids, bidLock, now, requestVars, patch, promised>>

-----------------------------------------------------------------------------
(* PATCH /auctions/:id/status *)

\* Validated against a plain read; the client knows the current version.
PatchRead(status) ==
    /\ AdminPatches /\ patch = NoOne
    /\ status \in ServiceTransitions[auction.status]
    /\ patch' = [row |-> [auction EXCEPT !.status = status], columns |-> {}]
    /\ UNCHANGED <<auction, bids, bidLock, endLock, now, pc, requestVars, seen,
                   promised, faults>>

PatchSelect ==
    /\ patch # NoOne /\ patch.columns = {}
    /\ IF Differing(auction, patch.row) = {} THEN patch' = NoOne
       ELSE patch' = [patch EXCEPT !.columns = Differing(auction, patch.row)]
    /\ UNCHANGED <<auction, bids, bidLock, endLock, now, pc, requestVars, seen,
                   promised, faults>>

PatchUpdate ==
    /\ patch # NoOne /\ patch.columns # {}
    /\ LET row == Written(auction, patch.row, patch.columns) IN
       auction' = IF TriggerAllows(auction, row) THEN row ELSE auction
    /\ patch' = NoOne
    /\ UNCHANGED <<bids, bidLock, endLock, now, pc, requestVars, seen, promised,
                   faults>>

-----------------------------------------------------------------------------
(* SettlementService *)

\* The winner has gone into a manifest, which module Settlement follows; the
\* transaction locks the row FOR UPDATE.
InitiateSettlement ==
    /\ auction.status = "ended"
    /\ ForUpdate
    /\ auction' = [auction EXCEPT !.status = "settling"]
    /\ UNCHANGED <<bids, bidLock, endLock, now, pc, requestVars, seen, patch,
                   promised, faults>>

-----------------------------------------------------------------------------
(* Time and crashes *)

ClockTicks ==
    /\ now < MaxTime
    /\ now' = now + 1
    /\ UNCHANGED <<auction, bids, bidLock, endLock, pc, requestVars, seen, patch,
                   promised, faults>>

\* A key's TTL runs out: when its holder is gone, or under a slow holder.
BidLockLapses ==
    /\ bidLock # NoOne
    /\ LockMayLapse \/ pc[bidLock] \in {"idle", "lock"}
    /\ bidLock' = NoOne
    /\ UNCHANGED <<auction, bids, endLock, now, pc, requestVars, seen, patch,
                   promised, faults>>

EndLockLapses ==
    /\ endLock # NoOne
    /\ LockMayLapse \/ pc[endLock] \in {"idle", "lock"}
    /\ endLock' = NoOne
    /\ UNCHANGED <<auction, bids, bidLock, now, pc, requestVars, seen, patch,
                   promised, faults>>

\* The instance dies; PostgreSQL rolls back what it had not committed.
CrashRequest(r) ==
    /\ pc[r] # "idle"
    /\ Fault
    /\ Drop(r)
    /\ UNCHANGED <<auction, bids, bidLock, endLock, now, seen, patch, promised>>

CrashEnder(e) ==
    /\ pc[e] # "idle"
    /\ Fault
    /\ Rest(e)
    /\ UNCHANGED <<auction, bids, bidLock, endLock, now, requestVars, patch,
                   promised>>

-----------------------------------------------------------------------------
RequestMoves(r) ==
    \/ AcquireBidLock(r) \/ RecheckKey(r) \/ ReadAuction(r) \/ CheckDuplicate(r)
    \/ InsertBid(r) \/ SaveSelect(r) \/ CommitBid(r) \/ Unlock(r)

EnderMoves(e) ==
    \/ FindExpired(e) \/ AcquireEndLock(e) \/ TransitionLiveToEnding(e)
    \/ TransitionEndingToEnded(e) \/ ReleaseEndLock(e)

Next ==
    \/ \E r \in Requests :
        \/ \E k \in Keys, a \in Amounts : Arrive(r, k, a)
        \/ RequestMoves(r) \/ CrashRequest(r)
    \/ \E e \in Enders : EnderMoves(e) \/ CrashEnder(e)
    \/ \E s \in AuctionStatus : PatchRead(s)
    \/ PatchSelect \/ PatchUpdate \/ InitiateSettlement
    \/ ClockTicks \/ BidLockLapses \/ EndLockLapses

Spec == Init /\ [][Next]_vars

\* Timers keep firing, no await of a request or a worker is endless, Redis drops
\* a key whose TTL has run out, and time passes.  Clients owe nobody a bid.
FairSpec ==
    /\ Spec
    /\ \A r \in Requests : WF_vars(RequestMoves(r))
    /\ \A e \in Enders : WF_vars(EnderMoves(e))
    /\ WF_vars(BidLockLapses) /\ WF_vars(EndLockLapses) /\ WF_vars(ClockTicks)

-----------------------------------------------------------------------------
(* Safety *)

Ended == auction.status \in {"ended", "settling", "settled", "settlement_failed"}

Beats(b, c) == b.amount > c.amount \/ (b.amount = c.amount /\ b.ts < c.ts)

\* The winner of an ended auction is its highest committed bid, the earliest
\* among equals, and no bid has come in since: whatever locks lapsed meanwhile,
\* because SELECT ... FOR UPDATE waits for every bid already inserted.
WinnerIsHighest ==
    Ended =>
        IF bids = {} THEN auction.outcome = NoOne
            ELSE /\ auction.outcome \in bids
                 /\ \A b \in bids : ~Beats(b, auction.outcome)

\* Bids enter a live auction only: one that found it live and was overtaken by
\* the worker is rolled back by the trigger.
BidsOnlyWhileLive == [][bids' # bids => auction.status = "live"]_vars

\* A key is spent once, however many requests carry it at the same time.
IdempotentBids == \A b, c \in bids : b.key = c.key => b = c

\* The denormalised price and counter of the auctions row say what the bids
\* table says, at every commit (while no lock lapses under its holder).
RowTellsBids ==
    /\ auction.count = Cardinality(bids)
    /\ bids = {} => auction.price = StartingPrice
    /\ bids # {} => \E b \in bids : b.amount = auction.price
    /\ \A b \in bids : b.amount <= auction.price

\* Every bid was at least an increment above every bid before it, so any two
\* differ by an increment and an auction has no tie.
BidsApart ==
    \A b, c \in bids :
        b # c => \/ b.amount >= c.amount + MinIncrement
                 \/ c.amount >= b.amount + MinIncrement

\* An extension that a client has been told is kept: no worker that saw the old
\* end closes the auction before the new one.
ExtensionHonoured ==
    [][auction.status = "live" /\ auction'.status = "ending" => now >= promised]_vars

\* An auction that has been closed is not reopened: a bid in flight still holds
\* an entity that says live, and a PATCH does not wait for its share lock.
ClosedStaysClosed ==
    [][auction.status # "live" => auction'.status # "live"]_vars

\* Once the winner has gone into a settlement manifest nobody replaces it, not
\* even a PATCH that was validated and diffed while the auction was ending.
OutcomeHeldInSettlement ==
    [][auction.status \in {"settling", "settlement_failed"} =>
         auction'.outcome = auction.outcome]_vars

\* Bids, end, winner and start of the settlement follow the AuctionOutcome
\* promise, whatever locks lapse, while no PATCH interferes: every step is one of
\* its steps or changes none of what it speaks of.
AO == INSTANCE AuctionOutcome WITH
          Keys <- Keys, Amounts <- Amounts, Times <- 0..MaxTime, NoBid <- NoOne,
          status <- auction.status, bids <- bids, outcome <- auction.outcome
OutcomePromise == AO!OutcomeSpec

(* Liveness *)

\* A live auction ends, although bids extend it, take its row's share lock and
\* crash, and two workers compete for it.
AuctionEnds == auction.status = "live" ~> auction.status = "ended"

(* Claims of the repository that the code does not keep *)

\* bid.service.ts, the optimistic lock: a bid is committed onto the very version
\* of the auction's row that it was validated against (each bid counts one up).
SavedOnRowRead ==
    [][\A r \in Requests :
         pc[r] = "commit" /\ bids' # bids /\ bids' = bids \cup {NewBid(r)} =>
            entity[r].count = auction.count + 1]_vars

\* Migration 011: once an auction has ended, its outcome is frozen.
OutcomeFrozen == [][Ended => auction'.outcome = auction.outcome]_vars
=============================================================================
