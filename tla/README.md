# NetTapu auctions: TLA+ models and proofs

This directory models the part of the NetTapu platform that decides who wins a
land auction and what happens to the deposits afterwards: bidding, the ending of
an auction, what its clients get to know, its settlement with the payment
provider behind a circuit breaker, the audits of the result and the admin
endpoints that reach into all this; and, from the monolith, the sessions of a
user. TLC checks the models on small instances; TLAPS proves every safety
property that the passing runs check, for every number of workers, deposits,
bids, clients and devices (three of them for a single instance of the service,
which the code needs). The two liveness properties are left to TLC.

Paths below are relative to the repository; `A/` stands for
`apps/auction-service/src/modules/auctions/`.

## 1. The system

NestJS services over PostgreSQL 16 and Redis 7. Several instances of the auction
service run behind nginx; each serves REST and WebSocket clients and runs both
polling workers.

| Component | Where | State | Operations | What is hard |
|---|---|---|---|---|
| BidService | `A/services/bid.service.ts`, `A/controllers/bid.controller.ts` | `auctions.bids`, price, count, end of the auction's row, Redis bid lock | `placeBid`: idempotency, lock, checks, insert, sniper extension, save, commit, release | a 5 s lock over a transaction; two rows that must agree; no version check |
| AuctionEndingWorker | `A/workers/auction-ending.worker.ts` | the auction's status and winner, Redis lock per auction | every second: find expired, LIVE→ENDING, ENDING→ENDED with the winner | bids in flight, extensions after the query, crash between the two transactions |
| AuctionService | `A/services/auction.service.ts` | the auction's row | create, list, `updateStatus` (PATCH) | validated on a plain read, saves a stale entity |
| SettlementWorker | `A/workers/settlement.worker.ts` | in memory: its copy of the manifest, its place in the tick | every 5 s: initiate, then list, lock, process five items, save, finalise, broadcast, release | copies read before the lock, TTL shorter than the work, crashes |
| SettlementService | `A/services/settlement.service.ts` | manifest row, deposits, payment ledger, refunds, auction status | initiate, capture, refund, finalise, complete, escalate | remote money between two transactions, retries, lost replies |
| Payment service | `A/services/payment.service.ts` | POS; one circuit breaker per instance, in memory | capture, refund, timeout; open, half-open, closed | late success after a timeout; an open circuit costs retries |
| Redis locks, rate limiter | `A/services/redis-lock.service.ts` | keys with a TTL | acquire, release, count | TTL under a live holder; windows that meet |
| DB retry | `A/utils/db-retry.util.ts` | none | repeat a transaction after a transient error | repeat of one that had committed |
| Triggers | `database/migrations/011`, `012`, `020` | none | refuse transitions and changes of frozen columns | the last guard against every stale writer |
| Admin settlement | `A/controllers/admin-settlement.controller.ts` | manifest and auction | retry of an escalated manifest | must agree with the trigger |
| Admin finance | `A/controllers/admin-finance.controller.ts` | none | lists, summary, reconciliation | its checks must fit what the settlement really leaves behind |
| Ledger validation | `scripts/validate-ledger-integrity.ts` | none | audits all settled and failed auctions | the same |
| AuctionGateway | `A/gateways/auction.gateway.ts`, `apps/auction-service/src/adapters/redis-io.adapter.ts` | Socket.IO rooms | join, leave, place bid, broadcasts | snapshot against broadcasts; two instances; Redis away |
| Authentication | `apps/monolith/src/modules/auth/auth.service.ts` | users, refresh tokens | register, login, refresh, logout | rotation in separate statements |
| Other monolith modules | `apps/monolith/src/modules/*` | entities only | none yet | |

How they interact: BidService and the worker meet on the auction's row only (they
take different Redis locks); the worker and SettlementWorker meet on the status
`ended`; SettlementWorkers of different instances meet on the manifest row, on
one Redis lock and on the deposits; the PATCH endpoint may touch the auction's
row at any moment; triggers see every UPDATE. Everybody who has changed an
auction tells the gateway afterwards, outside the transaction and the lock, and
the gateway tells the room through Redis. The settlement reaches the POS through
the breaker of its own instance. The audits read what all this has left. The
monolith shares nothing with the auctions but the tokens it signs.

What makes them correct:

- bidding: one winner, the highest committed bid; price and counter tell what
  the bids table tells; one bid per idempotency key; an extension that was
  announced is kept; a live auction ends;
- settlement: every deposit moves at most once, to the right side, with one
  ledger line per step and never before the money moved; acknowledged means
  moved; settled means all moved; manifest, auction and announcements agree;
  every ended auction is settled or fails;
- the room: what a client hears is committed and stays true, the final price is
  final, and a client in the room falls behind by the latest message of a kind at
  most, and for one of a few known causes;
- the breaker and the limits: they count what they should, hold back for as long
  as they should and no longer;
- audits: they find what is wrong and nothing else;
- sessions: a token is meant to be exchanged once, which a rotation in separate
  statements cannot promise: tokens that nobody holds, and devices left without a
  session, must not be more than the crashes, lost answers and second tabs that
  cost them; the reuse alarm has a cause;
- admin: no PATCH or retry breaks any of this.

`PROJECT.json` lists every hazard at its line with the properties that cover it.

## 2. Modules

| Module | Contents |
|---|---|
| `Lifecycle` | statuses and transition tables: the triggers' (`AuctionTriggerAllows`, `DepositTriggerAllows`) and the PATCH handler's (`ServiceTransitions`) |
| `DepositLedger` | abstract specification of the payment tables: capture in one step, refund in two, one ledger line each |
| `Settlement` | settlement of one ended auction by any number of workers |
| `SettlementProofs` | theorems about the money of `Settlement`, its lock, and their proofs |
| `ManifestProofs` | theorems about the manifest of `Settlement`, its copies and the outcome; EXTENDS `SettlementProofs` |
| `PosBreaker` | the circuit breaker between the workers of `Settlement` and the POS |
| `PosBreakerProofs` | theorems about `PosBreaker`, on top of `ManifestProofs` |
| `Reconciliation` | the audits, as definitions over the state of `Settlement` |
| `ReconciliationProofs` | the theorem about the audits, on top of `ManifestProofs` and `SumLemmas` |
| `SumLemmas` | lemmas about sums over finite sets, for the audits and the limits |
| `AuctionOutcome` | abstract specification of an auction: bids, closing, the winner, the start of the settlement |
| `Bidding` | one live auction: bids, ending workers, PATCH, start of the settlement |
| `BiddingProofs` | theorems about `Bidding` and their proofs |
| `RateLimiter` | the fixed-window counters in Redis |
| `AuctionRoom` | gateway, controllers and workers as the clients of one auction see them; composes `AuctionOutcome` and `RateLimiter` |
| `AuctionRoomProofs` | theorems about `AuctionRoom` and `RateLimiter` |
| `RefreshTokens` | the accounts and sessions of one user in the monolith |
| `RefreshTokensProofs` | theorems about `RefreshTokens` |
| `MCSettlement`, `MCPosBreaker`, `MCBidding`, `MCAuctionRoom`, `MCRefreshTokens` | symmetry sets and constants that a `.cfg` file cannot hold |

`Lifecycle` is extended by `Settlement` and `Bidding`. Two refinements tie the
levels together: `Settlement` instantiates `DepositLedger` (`DL`) on its own
`deposit`, `ledger` and `refund`; `Bidding` instantiates `AuctionOutcome` (`AO`)
on the status and outcome of its row and on its bids. `AuctionRoom` EXTENDS
`AuctionOutcome`: its auction takes exactly the steps that `Bidding` was shown to
take, so the rooms need not repeat placeBid's phases. `PosBreaker` EXTENDS
`Settlement` and narrows its POS steps; `Reconciliation` EXTENDS `Settlement` and
adds no step.

### Grain of the steps

A step is what happens between two `await`s: one query, one transaction, one
remote call. A transaction that only its own rows can disturb, because it locks
them FOR UPDATE, is one step at its commit. A transaction that reads without a
lock (placeBid) is several. Every remote step ends in one of three ways
(`Outcome`): `done`, `rolledBack` (error, no effect) or `unconfirmed` (effect,
but the caller sees an error), the latter two counted by `MaxFaults`. Where the
code wraps a transaction in `executeWithRetry` an error may be transient
(`RetryOrThrow`): the same transaction then runs again, also when the first one
had committed.

`save()` of TypeORM is two steps, `SaveSelect` and `SaveUpdate`/`CommitBid`/
`PatchUpdate`: a SELECT finds the columns that differ from the entity, an UPDATE
writes those columns, stale values included. The version column is incremented
and never compared. This and the row locks of PostgreSQL, the expiry of Redis
keys and the POS are outside the repository and marked external in the map.

### Settlement

`auction`, `manifest`, `deposit`, `ledger`, `refund` are the rows; `posMoved` is
what the provider has really done, `posLate` the calls nobody waits for any
more; `mem[w]` is the manifest entity worker *w* carries from the query at
`settlement.worker.ts:192` to its save at `:298`; `pc[w]`, `cur[w]`, `count[w]`
are its place in the tick. `winner` is the deposit to capture (0: nobody bid);
`Goal(d)` is `captured` for it and `refunded` for the others. A deposit that is
not `held` when the settlement starts is skipped, as in the code, and gets no item.

Actions follow the code in order: `StartTick`, `TryLock`, `InitiateSettlement`
(`settlement.service.ts:77-214`), `FinalizeEmpty`, `ListActive`,
`ExpireOrEscalate`, `BeginItems`, `ReadDeposit`, `InitiateRefund`,
`RecheckInitiation`, `PosSucceeds`/`PosRefuses`/`PosTimesOut`, `RecordSuccess`,
`RecheckAfterError`, `SaveSelect`, `SaveUpdate`, `CompleteSettlement`,
`EscalateSettlement`, `StillInProgress`, `Unlock`; and outside the worker
`PosMovesLate`, `LockLapses`, `ManifestLapses`, `Crash`, `PatchValidate`,
`PatchSave`, `AdminRetry`.

Abstractions: one auction (the loop over three manifests per tick is left out);
participants and deposits are loaded in one piece; amounts are equal, so one
ledger line is one amount; a second POS call with the same idempotency key does
not move the money twice (that is what the key is for, and a real gateway has to
honour it); a deposit row never disappears; the broadcast is part of the step
that decides the outcome; the tick that is skipped while Redis is unhealthy is a
tick that does not fire.

### Bidding

`auction` is the row (status, price, count, `extended_until`, and `outcome`,
which stands for `winner_id`, `winner_bid_id` and `final_price` together);
`bids` the committed bids; `entity[r]`, `dto[r]`, `dirty[r]`, `answer[r]` what a
request carries; `seen[e]` the status under which a worker's query found the
auction; `patch` a PATCH under way; `promised` the latest end that a client has
been told; `now` the clock, one for the database and all instances.

Actions: `Arrive`, `AcquireBidLock`, `RecheckKey`, `ReadAuction`,
`CheckDuplicate`, `InsertBid`, `SaveSelect`, `CommitBid`, `Unlock` are the phases
of `placeBid`; `FindExpired`, `AcquireEndLock`, `TransitionLiveToEnding`,
`TransitionEndingToEnded`, `ReleaseEndLock` the ending worker; `PatchRead`,
`PatchSelect`, `PatchUpdate` the PATCH; `InitiateSettlement` the transaction that
moves the row to `settling`; `ClockTicks`, `BidLockLapses`, `EndLockLapses`,
`CrashRequest`, `CrashEnder` the environment.

An inserted bid references the auction's row, so PostgreSQL holds a FOR KEY
SHARE lock on it until the transaction ends. FOR UPDATE waits for that lock
(`ForUpdate`), a plain UPDATE does not. This foreign key, and not the Redis
lock, is what keeps the winner right.

Abstractions: eligibility, consent and the reference price are a free choice to
reject; `bid_rejections` is never read and left out; the UPDATE and the COMMIT
of a bid are one step; the loop over all expired auctions is left out.

### PosBreaker

`circuit[w]` is the `CircuitBreaker` object of the instance (`CLOSED`, `OPEN`,
`HALF_OPEN`, the failure count and the time since the last failure); `asked[w]`
says whether the item in hand has reached the POS in this attempt; `unanswered[w]`
is the history the properties compare it with. `Admit`, `TurnDown`,
`PosAnswersInTime`, `PosIsSilent` replace the POS steps of `Settlement`;
`WorksOn`, `CrashWithBreaker` and `Surroundings` are the rest of it. Each worker
is an instance, which has one breaker, and one worker, so at most one call is
under way per breaker; capture and refund share it. The cfg has threshold 3 for
the code's 5, which opens the circuit within the retries of two items.

### Reconciliation

The fields of the summary, the eleven checks of the report and those of the
script, as operators over `Settlement`'s variables. The code reads several
tables one after the other; the audits are taken at one moment, since
`AuditsTellTruth` speaks of settled and failed auctions whose deposits have
stopped changing, and for the summary of a running one says only that it is
never above what has moved. `MCPosBreaker` chooses amounts such that one deposit
does not cover the price.

### AuctionRoom

`currentPrice` and `extendedUntil` are the columns of the row that clients are
told of. A message is a record of what it tells: how far the auction is, a price,
an end, a winner. `State` is AUCTION_STATE, which has no winner and no bids, only
the row's status, price and end; `Accepted`, `Extended`, `Ending`, `EndedWith` are
the broadcasts. `place` says of each client whether it is outside, between the
query of `join_auction` (`ReadSnapshot`) and the `join` of the room (`EnterRoom`),
or in it. `picture[c]` is what the client can tell from AUCTION_STATE and from the
broadcasts that have reached it, in any order, since two instances deliver in any
order: the furthest status, the highest price, the latest end, the winner
(`Join`). `missed` is a history: what was broadcast past the client since it read
the row, or is lost for good, as far as its picture does not have it (`Beyond`).

`request[r]` is a bid under way, over WebSocket (`SendBid`, `CheckUserLimit`,
`CheckAuctionLimit`) or HTTP (`PostBid`); `ReplayBid`, `CommitBid` and `RejectBid`
are placeBid seen from outside; `BroadcastBid` comes after the bid lock. `worker`
holds what an ending worker has committed and not broadcast yet. While Redis is
away a broadcast may reach any part of the room, limits refuse and bids fail.
`Late` says which bids extend the auction: the clock of the sniper window is in
`Bidding`.

In `RateLimiter` a counter stays at its limit when calls are refused, since every
value from the limit on refuses alike, and `passed` is the history of what was let
through at each step of the clock.

Abstractions: one auction, each client one user; a client that may not join does
not come; a commit sets price and end to what the bid says, which is what
`RowTellsBids` and `ExtensionHonoured` prove of `Bidding` without PATCHes and
with a bid lock that does not lapse; an end is named by the bid that set it;
BID_ACCEPTED and the AUCTION_EXTENDED right behind it are one broadcast; a
picture keeps the highest price, so that the order in which a client shows
messages is not in it; counts of bids, participants and watchers are left out,
also the -1 that a repeated key is broadcast with; a client joins a live, ending
or ended auction, not one before or in settlement, whose messages come from the
settlement worker and are in `Settlement` (`AnnouncedOutcome`).

### RefreshTokens

`row[t]` is the row of a token (absent, live, revoked), `expired` those past
their time, `account` and `active` the user; `request[q]` is a request at its
next statement. The devices are no part of the repository and marked external:
they keep the token of the last answer, drop it when it is refused or given
back, and log in when they have none. `presented` and `swept` are histories;
`upsets` counts crashes, lost answers and second tabs of one device. Every
statement of `register`, `login`, `refresh`, `logout` and `logoutAll` is a step.

## 3. Runs

Bounds, in all runs: two instances of each kind that races (a third one meets
only situations that two already make), symmetric where nothing but their
identity differs and no liveness is checked. Two workers and several deposits
together add little that the proofs do not cover for every number of both.

| Run | Instance | What it shows |
|---|---|---|
| `settlement_breaker` | 1 worker with its breaker (threshold 3, recovery 2), up to 3 deposits (3 exceed the size limit), 3 retries, 1 fault | `TypeOK`, `TypeOKBreaker`; manifest, auction and announcements agree (`ManifestAgrees`, `AnnouncedOutcome`); a failure before 48 h leaves something to move (`FailedMeansUnmoved`); no item is stranded (`NoneSavedAsSent`); the breaker counts and holds back as it should (`CircuitTellsStreak`, `PosLeftInPeace`, `RetryUnaskedOnlyWhenOpen`); the audits are right (`AuditsTellTruth`) |
| `settlement_lapse` | 2 workers, 1 deposit (winner's, loser's or skipped), lapsing lock, PATCHes, 1 fault | both workers inside the same item, transactions run twice: `LedgerMatchesDeposit`, `AcknowledgedMoved`, `MoneyMovedFirst`, `OnlyHolderUnlocks`, the refinement `LedgerPromise`, and `SettledIsFinal` |
| `settlement_live` | 2 workers, 1 deposit, 2 retries, 1 fault, fair | stale copies between the ticks of two instances: `SettledMeansMoved`, `OneWorkerAtATime`, `InitiatedOnce`; and `SettlementEnds` |
| `settlement_stale` | 2 workers, no fault | violated: see finding 1 |
| `settlement_retry` | 1 worker | violated: see finding 2 |
| `bid_main` | 2 requests, 3 amounts, 1 ending worker, 1 fault, fair | `TypeOK`, `RowTellsBids`, `BidsApart`, `ExtensionHonoured`, `AuctionEnds` |
| `bid_lapse` | 2 requests, 2 workers, lapsing locks, no fault, clock up to 2 | `WinnerIsHighest`, `IdempotentBids`, the refinement `OutcomePromise` |
| `bid_patch` | 1 request, 2 workers, lapsing locks, PATCHes, settlement, 1 fault | `OutcomeHeldInSettlement`, `ClosedStaysClosed` |
| `bid_version` | 2 requests, lapsing lock | violated: see finding 3 |
| `bid_outcome` | 1 request, PATCHes | violated: see finding 4 |
| `room` | 1 client, 2 requests, 2 bids of which the second extends, a limit of 2 for the user and 1 for the auction in a window of 2, 1 fault | what clients are told is true (`HeardIsTrue`), the final price reaches whoever hears of the end (`FinalPriceIsFinal`), nobody falls behind for good (`RoomKeepsUp`); the limits let through and hold back what they should (`BelowTwiceTheLimit`, `RefusedOnlyAfterPass`); `TypeOKRoom` |
| `tokens` | 2 devices, 2 requests, 3 tokens, 2 upsets | `TypeOK`, `OrphanPerUpset`, `StrandedByUpset`, `AlarmHasCause` |

Bounds on data. Amounts 3, 4, 5 over a price of 1 with increment 2 hold two bids
that are far enough apart and one that is too close to either. In `bid_main` the
clock stops at 3, the last end that its two bids can extend the auction to (a bid at
0 to 2, another one at 1 to 3), so that no extension is cut off; the runs with one
request stop no earlier than their last end either. `bid_lapse` stops at 2: an
auction extended twice does not end there, and without faults no instance dies
between its two transactions. For both, and for crashes with lapsed locks in
general, the winner rests on the theorem `HighestBidWins`, which bounds neither.
Retries below the code's three are used where two workers multiply the states;
the limit is a constant of the code and of the proofs. `MaxFaults` counts errors
and crashes of a whole behaviour; each run says above how many. One client is
enough for the room since no property compares two and a broadcast that misses
it is a broadcast that reaches others only. With the user's limit of 2 in a window
of 2, a call at the start of a window, one at its end and two in the next one follow
each other, so that three of them pass within two steps of the clock: one below twice
the limit, which `BelowTwiceTheLimit` allows and which is more than the limit itself.
The auction's limit of 1 refuses calls that the user's has counted. Three tokens
are a login on each device and one rotation, or a login and two rotations.

Every property has a mutant: a changed definition (beside the original, marked
"Mutant:") that makes TLC find the property violated in the same run.

### Fairness

`Settlement`: WF of each worker's step (`setInterval` fires in every live
instance, and no `await` is endless since the POS call is cut off by
`withTimeout`) and of `LockLapses` (Redis drops a key at its TTL). No fairness
for the POS, which may refuse or stay silent for ever, for the 48 hours, or for
the admin. `Bidding`: the same for requests, ending workers and locks, and the
clock; clients owe nobody a bid. The other modules state safety only: a client
may stay, a POS be silent, a device rest for ever. Deadlock is checked in every
run.

### Findings

1. **A stale copy reopens a completed manifest** (`settlement_stale`).
   `settlement.worker.ts:192` lists manifests before the lock at `:218` and does
   not read them again. A late worker finds its items already moved, acknowledges
   them and saves its copy, `status: active` included; the auction stays settled,
   AUCTION_SETTLED is broadcast at every tick and after 48 h the manifest expires.
2. **The admin retry can never succeed** (`settlement_retry`): the trigger of
   migration 020 lets `settlement_failed` become `settled` only.
3. **The save of a bid does not check the version** (`bid_version`), against the
   comment at `bid.service.ts:260`. After the 5 s lock has lapsed two bids are
   saved over the same row: `bid_count` loses one, `current_price` may drop. The
   winner stays right (`bid_lapse`).
4. **A PATCH can erase the winner of an ended auction** (`bid_outcome`). It is
   validated while the auction is ending and saved after the worker has ended
   it; the trigger protects the outcome of `settling` and `settlement_failed`
   rows (`bid_patch`), not of `ended` ones.

Met on the way, in the model but without a run of their own: a PATCH to ENDED
chooses no winner; one from ENDED to SETTLING leaves an auction settling without
a manifest; one that ends or cancels a live auction does not wait for a bid in
flight (the trigger refuses to reopen it, `ClosedStaysClosed`, but the bid's row
is there, so that `WinnerIsHighest` and `OutcomePromise` hold without PATCHes
only); with two workers a stale copy whose items are struck out may escalate a
settlement whose deposits have all moved, so that `FailedMeansUnmoved` is checked
with one worker; an open circuit uses up retries of items that the POS was never
asked about; an extension by a bid over HTTP, the news of a commit whose reply
was lost and what was broadcast while a client was joining are told to nobody;
a client that joins an ended auction learns the price it ended with but never who
has won; a repeated idempotency key is broadcast as a new bid, with -1 bids;
the reconciliation report asks that the winner's deposit covers the price, which
nothing enforces; a logout everywhere turns the next refresh of every other
device into an alarm, which ends the sessions opened since; and a login or
refresh under way when all sessions are ended leaves one that is not.

## 4. Proofs

`SettlementProofs` proves, for any finite or infinite set of workers, any number
of deposits, retries and faults, with lapsing locks, PATCHes, crashes and retries:

| Theorem | States |
|---|---|
| `TypeCorrect` | `Spec => []TypeOK` |
| `LedgerCorrect` | `Spec => []LedgerMatchesDeposit` |
| `MoneyFirst` | `Spec => []MoneyMovedFirst` |
| `AcknowledgedCorrect` | `Spec => []AcknowledgedMoved` |
| `ImplementsLedger` | `Spec => LedgerPromise` (refinement of `DepositLedger`) |
| `ReleaseByHolder` | `Spec => OnlyHolderUnlocks` |
| `MutualExclusion` | `~LockMayLapse` implies `Spec => []OneWorkerAtATime` |

The only assumption is `SettlementAssumption`, stated in `Settlement` and
evaluated by TLC in every run.

The inductive invariant is `IInv == TypeOK /\ InHand /\ MoneyInv /\
AcknowledgedMoved`. None of the three safety properties is inductive alone: that
a worker may record a success, or acknowledge an item it finds moved, depends on
what it has in hand between two awaits. `InHand` says it: the item a worker has
sent to the POS belongs to a deposit that is either awaiting exactly that move or
has arrived at its goal, whatever another worker with a lapsed lock did
meanwhile, and a worker about to record has a POS success behind it. It is
stable because deposits move forward only and because every transaction rechecks
the status under the row lock; that is the argument by which the code survives
its 30 s lock.

Lemmas per conjunct (`StepType`, `InHandPreserved`, `MoneyPreserved`,
`AcknowledgedPreserved`) have one step per action. The refinement maps each
recording step to `Capture`, `InitiateRefund` or `CompleteRefund` and the rest to
stuttering. Mutual exclusion has its own small invariant: without lapses the key
in Redis names the only worker past `acquire`.

`ManifestProofs` proves about the manifest, for as many workers, deposits and faults:

| Theorem | Assumes | States |
|---|---|---|
| `NothingLeftSent` | | `Spec => []NoneSavedAsSent` |
| `ManifestMadeOnce` | | `Spec => InitiatedOnce` |
| `SettledStays` | | `Spec => SettledIsFinal` |
| `SettledHasMoved` | `~AdminPatches` | `Spec => []SettledMeansMoved` |
| `RowAgrees` | `~AdminPatches`, one worker | `Spec => []ManifestAgrees` |
| `RoomHearsTheOutcome` | `~AdminPatches`, one worker | `Spec => []AnnouncedOutcome` |
| `FailedHasUnmoved` | `~AdminPatches`, one worker | `Spec => []FailedMeansUnmoved` |

The invariant added to `IInv` is `MInv`: a copy, however old, lists the deposits
that the row lists, and an item of it is `sent` only while its worker has it in
hand or gives the tick up over it (`Copied`); the row lists only deposits that were
held, and nothing in it is `sent` (`RowSound`). So a worker that finds its whole
copy acknowledged knows it of the row's deposits, and that is `SettledHasMoved`:
with any number of workers a stale copy may spoil the row (finding 1), but not
settle an auction too early. A PATCH from ENDED to SETTLING or on to SETTLED skips
the manifest, hence the assumption (`Unpatched`).

The last three are false with two instances, even without faults and lapses (TLC
finds each violated with two workers, one deposit and one retry): a copy listed
before the lock brings an old row back, or old strikes, or old news (finding 1). With one instance the copy differs from the row in
the item in hand only, and that item is due in the row. `Solo` says so for every
step of the tick (`OnRow`), across crashes, lost replies and a lock that may
lapse, and adds what the outcome depends on: no item that is out of retries has
been moved (`Struck`), neither in the copy nor in the row, since a worker fails an
item only when it has seen its deposit unmoved; and nothing of an oversized
manifest has been moved (`Large`), so that giving it up leaves something to move.
`SkippedUntouched`, shared with the audits, says of the deposits that no manifest
lists that nobody touches them.

`BiddingProofs` proves, for any sets of requests, ending workers, keys and
amounts, any times and faults:

| Theorem | States |
|---|---|
| `TypeCorrect` | `Spec => []TypeOK` |
| `KeysSpentOnce` | `Spec => []IdempotentBids` |
| `HighestBidWins` | `~AdminPatches` implies `Spec => []WinnerIsHighest` |
| `NoLateBids` | `~AdminPatches` implies `Spec => BidsOnlyWhileLive` |
| `ImplementsOutcome` | `~AdminPatches` implies `Spec => OutcomePromise` (refinement of `AuctionOutcome`) |

The only assumption is `BiddingAssumption`, in `Bidding`. Neither Redis lock is
used: both may lapse at any time. `KeysApart` strengthens `IdempotentBids`: an
inserted, uncommitted bid has a key that no committed bid and no other such bid
has, which the unique index keeps by making the second insert wait. `ReadLive`
is the argument for the other two: a request works on an entity that it read
while the auction was live; an UPDATE that leaves the status alone still finds
it live, since the worker's FOR UPDATE waits for the request's share lock, and
one that writes the status back is refused by the trigger. So a commit takes
effect in a live auction only, and the worker chooses the winner from all bids
there will ever be. `OthersLeaveRequests`, `OthersChangeStatus` and
`RequestReads` say once what each party's steps leave alone.

The refinement uses the same two invariants: a commit is `PlaceBid` because the
auction is still live (`CommitsWhileLive`) and the key new (`KeysApart`); the
other steps are `CloseAuction`, `EndAuction`, `Settle` or stutter.

The last part is about the row of the live auction:

| Theorem | Assumes | States |
|---|---|---|
| `ClosingIsFinal` | | `Spec => ClosedStaysClosed` |
| `SettlementHoldsOutcome` | | `Spec => OutcomeHeldInSettlement` |
| `RowIsTrue` | `~AdminPatches`, `~LockMayLapse` | `Spec => []RowTellsBids` |
| `NoTies` | `~AdminPatches`, `~LockMayLapse` | `Spec => []BidsApart` |
| `ExtensionsHold` | `~AdminPatches`, `~LockMayLapse` | `Spec => ExtensionHonoured` |

The first two follow from the trigger, which every UPDATE meets (`TriggerObeyed`).
The other three are where the Redis lock is needed after all: finding 3 is what
happens without it. `LInv` says that the only request past `acquire` is the lock's
holder, that its entity is the row plus its own bid, that its pending UPDATE writes
exactly the columns the bid changes (`Faithful`), and that the end a client has been
told is not past the row's (`PromiseKept`). An extension by a bid whose commit went
unconfirmed is in the row and was announced to nobody.

`PosBreakerProofs` proves, for any threshold and recovery time, workers and
deposits:

| Theorem | States |
|---|---|
| `BreakerRefines` | `SpecBreaker => Spec`: the breaker only narrows the settlement |
| `SafeWithBreaker` | hence types, ledger, acknowledgement and money first hold with it |
| `BreakerTypeCorrect` | `SpecBreaker => []TypeOKBreaker` |
| `CircuitCorrect` | `SpecBreaker => []CircuitTellsStreak` |
| `LeavesPosInPeace` | `SpecBreaker => PosLeftInPeace` |
| `RetriesAreAsked` | `SpecBreaker => RetryUnaskedOnlyWhenOpen` |
| `OutcomeWithBreaker` | `~AdminPatches` and one worker imply `SpecBreaker => [](ManifestAgrees /\ AnnouncedOutcome /\ FailedMeansUnmoved)` |

The assumptions are `SettlementAssumption` and `BreakerAssumption`. The invariant
`BInv` says that the failure count is the streak of unanswered calls, that a
circuit is closed exactly below the threshold, and that it is half open only
while its probe is under way; the last part is what makes the probe a single one.
`RetriesAreAsked` needs `RInv` (what is being recorded or rechecked has been asked
for; a refund that is looked at again had been initiated) and, from `MInv`, that a
listed deposit is held, awaits its move or has made it: any other status would
cost a retry without a call.

`ReconciliationProofs` proves `AuditsCorrect`: `~AdminPatches` implies
`Spec => []AuditsTellTruth`, for any number of workers and deposits, any amounts
(`AmountAssumption`) and faults, stale copies and lapsing locks; the run checks it
with one instance behind a breaker. `Audited` is the conjunction of `IInv`, `MInv`,
`Unpatched`, `SettledMeansMoved` and `SkippedUntouched`: in a settled auction the
captured deposit is the listed winner's, the refunded ones are the other listed ones
and the rest were never touched, so that each balance of the report closes exactly if
no deposit was skipped. The ledger's line counts are `LedgerMatchesDeposit`, summed.

`AuctionRoomProofs` proves, for any clients, requests, offers, limits, window and
faults:

| Theorem | States |
|---|---|
| `TypeCorrect` | `SpecRoom => []TypeOKRoom` |
| `RoomKeepsPromise` | `SpecRoom => OutcomeSpec` |
| `HeardCorrect` | `SpecRoom => []HeardIsTrue` |
| `FinalPriceCorrect` | `SpecRoom => []FinalPriceIsFinal` |
| `KeepsUpCorrect` | `SpecRoom => []RoomKeepsUp` |
| `RefusalsJustified` | `SpecRoom => []RefusedOnlyAfterPass` |
| `TwiceTheLimitNever` | `SpecRoom => []BelowTwiceTheLimit` |

The assumptions are `RoomAssumption` and `LimiterAssumption`. The invariant `SInv`
has four parts besides types. `AuctionSound`: the outcome of an ended auction
outranks all its bids, the row's price is the highest bid's and its end was set by
the highest late bid; so the row, and with it AUCTION_STATE, tells at the end the
price that the outcome has (`FinalPriceCorrect`). `Sound`: a request about to
broadcast has a committed bid, and what the workers have yet to tell is true. `LInv`:
a counter above zero was started by a call that was let through that long ago.
`RoomInv`: pictures are true, final once the auction has ended (`Holds`), and, from
the read of the row on, so for a client on its way in too, they keep up with the row
(`KeepsUp`). Every step is one of three for that: the row moves and its news comes on
its way, or is missed with a fault; a message is told to a part of the room, and what
it tells goes over to the picture or to `missed`; or neither happens. As news on its
way, pictures and what is missed never tell more than the row does and together tell
no less, one of them tells just what the row does (`CoveredRowIsTold`).

`TwiceTheLimitNever` has an invariant of its own, `WindowsFit`: since its window was
opened a key has let through no more than its counter, nor its limit; in the stretch
before, fewer than the limit, because the call that opened the older window has left
it; and when the key is gone fewer than the limit in all, for the same reason. Two
windows meet in any stretch as long as one, not three, because a key lives for the
whole window.

`RefreshTokensProofs` proves, for any devices, requests, tokens and upsets:

| Theorem | States |
|---|---|
| `TypeCorrect` | `Spec => []TypeOK` |
| `AlarmsJustified` | `Spec => []AlarmHasCause` |
| `OrphansPaidFor` | `Spec => []OrphanPerUpset` |
| `StrandedPaidFor` | `Spec => []StrandedByUpset` |
| `TokensHaveOneOwner` | `Spec => []Apart` |

from `TokensAssumption`. The invariant adds that a request names an issued token,
and that a revoked token was presented or swept (`RevokedHasCause`): `refresh` and
`logout` revoke only what they have been shown.

The two counts are not inductive: an upset comes steps before the orphan it leaves.
`Accounted` keeps the account: there is a set of requests under way that have been
paid for with an upset each and may still leave an orphan, which together with the
orphans is no larger than `upsets`; of the requests of one device all but one are in
it, and the one that is not is there only while none of them can leave any
(`Covers`). A second tab pays so for whichever of the two ends up losing. For the stranded devices
the account is kept per device (`Unrepaired`: a device whose token is revoked with no
request of its own under way that will mend it), and `Apart` is what makes a device
responsible for its own token only: no two devices hold one token, a request that
names a token comes from the device that holds it, and a token on its way is in
one answer only.

`SumLemmas` is what the sums of `Reconciliation` and `RateLimiter` need. Both are
folds that `CHOOSE` an element at a time. A sum is shown to be the cardinality of
a set of units, one `<<x, i>>` for each `i` in `1..f[x]`: the fold has this
solution (`CountingFolds`) and no other (`FoldsCount`), by taking a smallest subset
on which two would differ (well-founded induction on finite sets, in the form that
speaks of a smallest element). The rest are facts about cardinalities: what the sum
of a part, of two disjoint parts, of ones, or over a shifted interval is.

Model-checked only: `SettlementEnds` and `AuctionEnds`, since liveness under
fairness calls for ENABLED, which is beyond the prover; and the properties of the
four runs that TLC finds violated, which are false.

## 5. Plan

In this order; all of it is done but the last.

1. `Lifecycle`, `DepositLedger`, `Settlement`, with the refinement.
2. `SettlementProofs`: types, ledger, acknowledgement, refinement, mutual exclusion.
3. `Bidding`, up to the start of the settlement.
4. `BiddingProofs`: types, keys, the winner, no late bids.
5. `AuctionOutcome` and its refinement by `Bidding`, proved.
6. `AuctionRoom`, `RateLimiter` and their proofs.
7. `PosBreaker` and its proofs.
8. `Reconciliation`.
9. `RefreshTokens` and its proofs.
10. `BiddingProofs`, the row of the live auction: what the trigger keeps out of it,
   and what the bid lock keeps true of it.
11. `ManifestProofs`: the list, what is saved, the settled auction; then the outcome
   as a single instance leaves it; `RetriesAreAsked` on top.
12. `OrphansPaidFor` and `StrandedPaidFor`.
13. `SumLemmas`, and with it `TwiceTheLimitNever` and `ReconciliationProofs`.
14. What can be proved of several instances where `ManifestAgrees` fails: how far a
   stale copy can take the row from the auction.

## 6. Not modelled

- JWT and role guards and DTO validation: pure checks of one request.
- The other modules of the monolith: entities without services.
- Metrics, health, logging, containers, the proxy, the set-up of the Socket.IO
  adapter: they keep no state that a property here is about.
- The test scripts and their helpers under `scripts/`: they drive a running
  system by hand. Only `validate-ledger-integrity.ts` checks states by itself.
- `create` and the transitions of an auction before it is live, lists and finds:
  nothing runs concurrently with them that they could disturb.
- More than one auction: the three manifests per tick, and an idempotency key
  that is used for two auctions, which the code does not tell apart.
- Passwords, hashes and signatures.
