----------------------------- MODULE Settlement -----------------------------
(***************************************************************************)
(* Settlement of one ended auction: the polling workers of every instance  *)
(* of the auction service, the Redis lock they take, the manifest row and  *)
(* the copies of it the workers hold in memory, the deposits with their    *)
(* ledger, the payment provider (POS), and the two admin endpoints that    *)
(* touch a settlement.  A step is what happens between two awaits: one     *)
(* query, one transaction or one remote call.                              *)
(***************************************************************************)
EXTENDS Naturals, FiniteSets, Lifecycle

CONSTANTS
    Workers,            \* instances of SettlementWorker
    NumDeposits,        \* eligible participants; deposit d is the d-th of them
    MaxRetries,         \* MAX_RETRIES
    ItemsPerTick,       \* ITEMS_PER_TICK
    MemorySafetyLimit,  \* MEMORY_SAFETY_ITEMS_LIMIT
    MaxFaults,          \* bound: crashes, database and Redis errors per behaviour
    LockMayLapse,       \* may a lock's TTL run out under a live holder?
    AdminPatches,       \* does an admin PATCH the auction's status meanwhile?
    NoOne               \* no holder of the lock

ASSUME SettlementAssumption ==
    /\ NumDeposits \in Nat
    /\ MaxRetries \in Nat \ {0}
    /\ ItemsPerTick \in Nat \ {0}
    /\ MemorySafetyLimit \in Nat
    /\ MaxFaults \in Nat
    /\ LockMayLapse \in BOOLEAN
    /\ AdminPatches \in BOOLEAN
    /\ NoOne \notin Workers

VARIABLES
    auction,    \* auctions.status of the auction
    winner,     \* the winner's deposit, 0 when there is no winner
    manifest,   \* the settlement_manifests row
    deposit,    \* payments.deposits.status
    ledger,     \* payments.payment_ledger: lines per deposit and event
    refund,     \* payments.refunds.status, "none" when there is no row
    posMoved,   \* deposits whose money the POS has captured or refunded
    posLate,    \* deposits with a POS call that nobody waits for any more
    lock,       \* Redis key settlement lock: its holder or NoOne
    pc,         \* where each worker is in its tick
    mem,        \* the manifest entity each worker works on
    cur,        \* the item each worker's loop is at (0: before the first)
    count,      \* itemsProcessedThisTick
    dirty,      \* columns the pending UPDATE of a save will write
    lapsed,     \* has the manifest's expires_at passed?
    announced,  \* settlement events broadcast to the auction's room so far
    patch,      \* status a PATCH has validated and is about to save, or "none"
    reply,      \* last answer of the admin retry endpoint
    faults      \* faults so far

auctionVars == <<auction, winner>>
moneyVars   == <<deposit, ledger, refund>>
posVars     == <<posMoved, posLate>>
workerVars  == <<pc, mem, cur, count, dirty>>
adminVars   == <<patch, reply>>
envVars     == <<lapsed, announced, faults>>
vars == <<auctionVars, manifest, moneyVars, posVars, lock, workerVars,
          adminVars, envVars>>

Deposits == 1..NumDeposits

ItemStatus     == {"none", "pending", "sent", "acknowledged", "failed"}
Item           == [status: ItemStatus, retries: Nat]
ManifestStatus == {"absent", "active", "completed", "escalated", "expired"}
ManifestRow    == [status: ManifestStatus, items: [Deposits -> Item]]

NoItem == [status |-> "none", retries |-> 0]
NoRow  == [status |-> "absent", items |-> [d \in Deposits |-> NoItem]]

\* steps of a tick during which the worker believes it holds the lock
LockedStep ==
    {"initiate", "finalizeEmpty", "initRelease", "check", "loop", "initRefund",
     "recheckInit", "pos", "record", "recheck", "save", "write",
     "saveProgress", "writeProgress", "release"}
Step == {"idle", "initLock", "list", "lock"} \cup LockedStep
Event == {"pending", "progress", "settled", "failed"}
Reply == {"none", "retried", "rejected"}

TypeOK ==
    /\ auction \in AuctionStatus
    /\ winner \in {0} \cup Deposits
    /\ manifest \in ManifestRow
    /\ deposit \in [Deposits -> DepositStatus]
    /\ ledger \in [Deposits -> [LedgerEvent -> Nat]]
    /\ refund \in [Deposits -> {"none", "pending", "completed"}]
    /\ posMoved \subseteq Deposits
    /\ posLate \subseteq Deposits
    /\ lock \in Workers \cup {NoOne}
    /\ pc \in [Workers -> Step]
    /\ mem \in [Workers -> ManifestRow]
    /\ cur \in [Workers -> {0} \cup Deposits]
    /\ count \in [Workers -> Nat]
    /\ dirty \in [Workers -> SUBSET {"status", "items"}]
    /\ lapsed \in BOOLEAN
    /\ announced \subseteq Event
    /\ patch \in {"none"} \cup AuctionStatus
    /\ reply \in Reply
    /\ faults \in Nat

Init ==
    /\ auction = "ended"
    /\ winner \in {0} \cup Deposits
    /\ manifest = NoRow
    /\ deposit \in [Deposits -> {"collected", "held"}]
    /\ ledger = [d \in Deposits |-> NoLines]
    /\ refund = [d \in Deposits |-> "none"]
    /\ posMoved = {} /\ posLate = {}
    /\ lock = NoOne
    /\ pc = [w \in Workers |-> "idle"]
    /\ mem = [w \in Workers |-> NoRow]
    /\ cur = [w \in Workers |-> 0]
    /\ count = [w \in Workers |-> 0]
    /\ dirty = [w \in Workers |-> {}]
    /\ lapsed = FALSE
    /\ announced = {}
    /\ patch = "none" /\ reply = "none"
    /\ faults = 0

-----------------------------------------------------------------------------
(* Helpers *)

Goto(w, step) == pc' = [pc EXCEPT ![w] = step]

\* How a remote step ends: "done"; "rolledBack", an error and no effect; or
\* "unconfirmed", the effect but an error for the caller (reply lost).
Outcome == {"done", "rolledBack", "unconfirmed"}
Fault == faults < MaxFaults /\ faults' = faults + 1
Account(o) == IF o = "done" THEN UNCHANGED faults ELSE Fault

\* end of a tick: the worker drops what it had in memory
Forget(w) ==
    /\ Goto(w, "idle")
    /\ mem' = [mem EXCEPT ![w] = NoRow]
    /\ cur' = [cur EXCEPT ![w] = 0]
    /\ count' = [count EXCEPT ![w] = 0]
    /\ dirty' = [dirty EXCEPT ![w] = {}]

Due(item) ==
    \/ item.status = "pending"
    \/ item.status = "failed" /\ item.retries < MaxRetries

Listed(items) == {d \in Deposits : items[d].status # "none"}

\* what the item's deposit becomes once its action has succeeded
Goal(d) == IF d = winner THEN "captured" ELSE "refunded"

\* the status recorded against which a success is written down
Awaited(d) == IF d = winner THEN "held" ELSE "refund_pending"

SetItem(w, d, item) == mem' = [mem EXCEPT ![w].items[d] = item]

Sent(w, d) == SetItem(w, d, [mem[w].items[d] EXCEPT !.status = "sent"])
Ack(w, d)  == SetItem(w, d, [mem[w].items[d] EXCEPT !.status = "acknowledged"])

\* Mutant: a failure that does not count against the retry budget.
FailUncounted(w, d) == SetItem(w, d, [mem[w].items[d] EXCEPT !.status = "failed"])

Fail(w, d) == SetItem(w, d, [status  |-> "failed",
                             retries |-> mem[w].items[d].retries + 1])

\* Mutant: an exception saves the item it interrupted.
AbortAfterSave(w) == Goto(w, "save")

\* an exception leaves the manifest alone until the next tick
Abort(w) == Goto(w, "release")

Announce(e) == announced' = announced \cup {e}

\* What TypeORM's save() does to the row: a SELECT finds the columns in which
\* the entity differs from the row, an UPDATE then writes those columns.
Differing(row, entity) ==
    (IF row.status # entity.status THEN {"status"} ELSE {})
        \cup (IF row.items # entity.items THEN {"items"} ELSE {})
Written(row, entity, columns) ==
    [status |-> IF "status" \in columns THEN entity.status ELSE row.status,
     items  |-> IF "items" \in columns THEN entity.items ELSE row.items]

-----------------------------------------------------------------------------
(* The Redis lock *)

\* Mutant: SET without NX.
LockIgnored == TRUE

LockFree == lock = NoOne

\* SET NX PX.  When Redis fails, the key may have been set or not.
TryLock(w) ==
    \E o \in Outcome :
        /\ Account(o)
        /\ lock' = IF LockFree /\ o # "rolledBack" THEN w ELSE lock
        /\ IF LockFree /\ o = "done"
           THEN /\ \/ pc[w] = "initLock" /\ Goto(w, "initiate")
                   \/ pc[w] = "lock" /\ Goto(w, "check")
                /\ UNCHANGED <<mem, cur, count, dirty>>
           ELSE \/ pc[w] = "initLock" /\ Goto(w, "list")
                   /\ UNCHANGED <<mem, cur, count, dirty>>
                \/ pc[w] = "lock" /\ Forget(w)
        /\ UNCHANGED <<auctionVars, manifest, moneyVars, posVars, adminVars,
                       lapsed, announced>>

\* Mutant: DEL without comparing the value.
ReleaseUnconditionally(w) == NoOne

AfterRelease(w) == IF lock = w THEN NoOne ELSE lock

\* Compare-and-delete.  An error here leaves the loop and ends the tick.
Unlock(w) ==
    /\ pc[w] \in {"initRelease", "release"}
    /\ \E o \in Outcome :
        /\ Account(o)
        /\ lock' = IF o = "rolledBack" THEN lock ELSE AfterRelease(w)
        /\ IF o = "done" /\ pc[w] = "initRelease"
           THEN Goto(w, "list") /\ UNCHANGED <<mem, cur, count, dirty>>
           ELSE Forget(w)
    /\ UNCHANGED <<auctionVars, manifest, moneyVars, posVars, adminVars,
                   lapsed, announced>>

\* The key's TTL runs out: when its holder is gone, or under a slow holder.
LockLapses ==
    /\ lock # NoOne
    /\ LockMayLapse \/ pc[lock] \notin LockedStep
    /\ lock' = NoOne
    /\ UNCHANGED <<auctionVars, manifest, moneyVars, posVars, workerVars,
                   adminVars, envVars>>

-----------------------------------------------------------------------------
(* A tick: settle what has ended, then work on the active manifest *)

StartTick(w) ==
    /\ pc[w] = "idle"
    /\ Goto(w, IF auction = "ended" THEN "initLock" ELSE "list")
    /\ UNCHANGED <<auctionVars, manifest, moneyVars, posVars, lock, mem, cur,
                   count, dirty, adminVars, envVars>>

\* Mutant: a status the manifest's enum does not have.
NewManifestInProgress ==
    [status |-> "in_progress", items |-> [d \in Deposits |-> NoItem]]

NewManifest ==
    [status |-> "active",
     items  |-> [d \in Deposits |->
                    IF deposit[d] = "held"
                    THEN [status |-> "pending", retries |-> 0]
                    ELSE NoItem]]

\* Mutant: the auction and the manifest are not looked at again under the lock.
InitiateUnguarded == TRUE

MayInitiate == auction = "ended" /\ manifest.status = "absent"

InitiateSettlement(w) ==
    /\ pc[w] = "initiate"
    /\ \E o \in Outcome :
        /\ Account(o)
        /\ IF MayInitiate /\ o # "rolledBack"
           THEN /\ manifest' = NewManifest
                /\ mem' = [mem EXCEPT ![w] = NewManifest]
                /\ auction' = "settling"
           ELSE UNCHANGED <<manifest, mem, auction>>
        /\ IF MayInitiate /\ o = "done"
           THEN /\ Announce("pending")
                /\ Goto(w, IF Listed(NewManifest.items) = {}
                           THEN "finalizeEmpty" ELSE "initRelease")
           ELSE Goto(w, "initRelease") /\ UNCHANGED announced
    /\ UNCHANGED <<winner, moneyVars, posVars, lock, cur, count, dirty,
                   adminVars, lapsed>>

\* The list of active manifests, read before any lock is taken.
ListActive(w) ==
    /\ pc[w] = "list"
    /\ IF manifest.status = "active"
       THEN /\ mem' = [mem EXCEPT ![w] = manifest]
            /\ Goto(w, "lock")
            /\ UNCHANGED <<cur, count, dirty>>
       ELSE Forget(w)
    /\ UNCHANGED <<auctionVars, manifest, moneyVars, posVars, lock, adminVars,
                   envVars>>

Oversized(w) == Cardinality(Listed(mem[w].items)) > MemorySafetyLimit

\* Mutant: the expiry closes the manifest and leaves the auction settling.
GiveUpManifestOnly(w, status) ==
    /\ mem' = [mem EXCEPT ![w].status = status]
    /\ manifest' = mem'[w]
    /\ UNCHANGED auction

\* Both give up the manifest, and the auction only if it is still settling.
GiveUp(w, status) ==
    /\ auction' = IF auction = "settling" THEN "settlement_failed" ELSE auction
    /\ mem' = [mem EXCEPT ![w].status = status]
    /\ manifest' = mem'[w]

\* handleManifestExpiry, escalateOversizedManifest
ExpireOrEscalate(w) ==
    /\ pc[w] = "check"
    /\ lapsed \/ Oversized(w)
    /\ Goto(w, "release")
    /\ \E o \in Outcome :
        /\ Account(o)
        /\ IF o = "rolledBack" THEN UNCHANGED <<auction, mem, manifest>>
           ELSE GiveUp(w, IF lapsed THEN "expired" ELSE "escalated")
        /\ IF o = "done" THEN Announce("failed") ELSE UNCHANGED announced
    /\ UNCHANGED <<winner, moneyVars, posVars, lock, cur, count, dirty,
                   adminVars, lapsed>>

BeginItems(w) ==
    /\ pc[w] = "check"
    /\ ~lapsed /\ ~Oversized(w)
    /\ Goto(w, "loop")
    /\ UNCHANGED <<auctionVars, manifest, moneyVars, posVars, lock, mem, cur,
                   count, dirty, adminVars, envVars>>

-----------------------------------------------------------------------------
(* The item loop of a tick *)

DueItems(w) == {d \in Deposits : d > cur[w] /\ Due(mem[w].items[d])}
NextItem(w) == CHOOSE d \in DueItems(w) : \A e \in DueItems(w) : d <= e
LoopDone(w) == count[w] >= ItemsPerTick \/ DueItems(w) = {}

\* Entry of processCaptureItem and processRefundItem: what the deposit's
\* status, read outside any transaction, says is left to do.
ReadDeposit(w) ==
    /\ pc[w] = "loop"
    /\ ~LoopDone(w)
    /\ LET d == NextItem(w) IN
        /\ cur' = [cur EXCEPT ![w] = d]
        /\ count' = [count EXCEPT ![w] = @ + 1]
        /\ \/ Account("done")
              /\ \/ deposit[d] = Goal(d) /\ Ack(w, d) /\ Goto(w, "save")
                 \/ deposit[d] = Awaited(d) /\ Sent(w, d) /\ Goto(w, "pos")
                 \/ /\ deposit[d] = "held" /\ d # winner
                    /\ Goto(w, "initRefund") /\ UNCHANGED mem
                 \/ /\ deposit[d] \notin {Goal(d), Awaited(d), "held"}
                    /\ Fail(w, d) /\ Goto(w, "save")
           \/ Account("rolledBack") /\ Abort(w) /\ UNCHANGED mem
    /\ UNCHANGED <<auctionVars, manifest, moneyVars, posVars, lock, dirty,
                   adminVars, lapsed, announced>>

\* a status change, its ledger line and its refund row: one transaction
Move(d, status, event, refundStatus) ==
    /\ DepositTriggerAllows(deposit[d], status)
    /\ deposit' = [deposit EXCEPT ![d] = status]
    /\ ledger' = [ledger EXCEPT ![d][event] = @ + 1]
    /\ refund' = [refund EXCEPT ![d] = refundStatus]

\* executeWithRetry: after a transient error, an unconfirmed commit included, the
\* same transaction is run again; any other error, and the last one, is thrown.
\* Its three retries are more than the faults of any run.
RetryOrThrow(w, caught) == UNCHANGED pc \/ Goto(w, caught)

\* Mutant: no recheck of the deposit under FOR UPDATE.
InitiateUnchecked(d) == TRUE

MayInitiateRefund(d) == deposit[d] = "held"

\* recordRefundInitiationInDb; run again after an unconfirmed commit it finds the
\* deposit moved.
InitiateRefund(w) ==
    /\ pc[w] = "initRefund"
    /\ LET d == cur[w] IN
       \E o \in Outcome :
        /\ Account(o)
        /\ IF MayInitiateRefund(d) /\ o # "rolledBack"
           THEN Move(d, "refund_pending", "deposit_refund_initiated", "pending")
           ELSE UNCHANGED moneyVars
        /\ CASE o = "done" /\ MayInitiateRefund(d) -> Sent(w, d) /\ Goto(w, "pos")
             [] o = "done" /\ ~MayInitiateRefund(d) ->
                    Goto(w, "recheckInit") /\ UNCHANGED mem
             [] o # "done" -> RetryOrThrow(w, "release") /\ UNCHANGED mem
    /\ UNCHANGED <<auctionVars, manifest, posVars, lock, cur, count, dirty,
                   adminVars, lapsed, announced>>

RecheckInitiation(w) ==
    /\ pc[w] = "recheckInit"
    /\ LET d == cur[w] IN
        \/ Account("done")
           /\ \/ deposit[d] = "refunded" /\ Ack(w, d) /\ Goto(w, "save")
              \/ deposit[d] = "refund_pending" /\ Sent(w, d) /\ Goto(w, "pos")
              \/ /\ deposit[d] \notin {"refunded", "refund_pending"}
                 /\ Fail(w, d) /\ Goto(w, "save")
        \/ Account("rolledBack") /\ Abort(w) /\ UNCHANGED mem
    /\ UNCHANGED <<auctionVars, manifest, moneyVars, posVars, lock, cur, count,
                   dirty, adminVars, lapsed, announced>>

\* The POS moved the money and said so.
PosSucceeds(w) ==
    /\ pc[w] = "pos"
    /\ posMoved' = posMoved \cup {cur[w]}
    /\ Goto(w, "record")
    /\ UNCHANGED <<auctionVars, manifest, moneyVars, posLate, lock, mem, cur,
                   count, dirty, adminVars, envVars>>

\* The POS answered success = false, or the circuit breaker did not ask it.
PosRefuses(w) ==
    /\ pc[w] = "pos"
    /\ Fail(w, cur[w])
    /\ Goto(w, "save")
    /\ UNCHANGED <<auctionVars, manifest, moneyVars, posVars, lock, cur, count,
                   dirty, adminVars, envVars>>

\* Mutant: a timeout is taken for a success.
TimeoutAsSuccess(w) ==
    /\ pc[w] = "pos"
    /\ posLate' = posLate \cup {cur[w]}
    /\ Goto(w, "record")
    /\ UNCHANGED <<auctionVars, manifest, moneyVars, posMoved, lock, mem, cur,
                   count, dirty, adminVars, envVars>>

\* withTimeout gives up after 5 s; the call itself is not cancelled.
PosTimesOut(w) ==
    /\ pc[w] = "pos"
    /\ posLate' = posLate \cup {cur[w]}
    /\ Goto(w, "recheck")
    /\ UNCHANGED <<auctionVars, manifest, moneyVars, posMoved, lock, mem, cur,
                   count, dirty, adminVars, envVars>>

PosMovesLate(d) ==
    /\ d \in posLate
    /\ posLate' = posLate \ {d}
    /\ posMoved' = posMoved \cup {d}
    /\ UNCHANGED <<auctionVars, manifest, moneyVars, lock, workerVars,
                   adminVars, envVars>>

\* Mutant: no recheck of the deposit under FOR UPDATE.
RecordUnchecked(d) == TRUE

MayRecord(d) == deposit[d] = Awaited(d)

RecordMove(d) ==
    IF d = winner
    THEN Move(d, "captured", "deposit_captured", refund[d])
    ELSE Move(d, "refunded", "deposit_refunded", "completed")

\* recordCaptureInDb, recordRefundCompletionInDb: finding the deposit already
\* moved is not an error, and the item is acknowledged either way.
RecordSuccess(w) ==
    /\ pc[w] = "record"
    /\ LET d == cur[w] IN
       \E o \in Outcome :
        /\ Account(o)
        /\ IF MayRecord(d) /\ o # "rolledBack"
           THEN RecordMove(d)
           ELSE UNCHANGED moneyVars
        /\ IF o = "done" THEN Ack(w, d) /\ Goto(w, "save")
                         ELSE RetryOrThrow(w, "recheck") /\ UNCHANGED mem
    /\ UNCHANGED <<auctionVars, manifest, posVars, lock, cur, count, dirty,
                   adminVars, lapsed, announced>>

\* Mutants: the catch block trusts the POS, or does not look at the deposit.
RecoveredUnseen(d) == TRUE
NeverRecovered(d) == FALSE

Recovered(d) == deposit[d] = Goal(d)

\* the catch block: did the deposit move in spite of the error?
RecheckAfterError(w) ==
    /\ pc[w] = "recheck"
    /\ LET d == cur[w] IN
        \/ /\ Account("done")
           /\ IF Recovered(d) THEN Ack(w, d) ELSE Fail(w, d)
           /\ Goto(w, "save")
        \/ Account("rolledBack") /\ Abort(w) /\ UNCHANGED mem
    /\ UNCHANGED <<auctionVars, manifest, moneyVars, posVars, lock, cur, count,
                   dirty, adminVars, lapsed, announced>>

\* updateManifestData, and the save of a manifest still in progress: SELECT ...
\* The items may also differ from the row's in what is not modelled here, their
\* timestamps and reasons.
SaveSelect(w) ==
    /\ \E o \in {"done", "rolledBack"} :
        /\ Account(o)
        /\ IF o = "rolledBack" THEN Abort(w) /\ UNCHANGED dirty
           ELSE /\ \E unseen \in SUBSET {"items"} :
                     dirty' = [dirty EXCEPT ![w] = Differing(manifest, mem[w]) \cup unseen]
                /\ \/ pc[w] = "save" /\ Goto(w, "write")
                   \/ pc[w] = "saveProgress" /\ Goto(w, "writeProgress")
    /\ pc[w] \in {"save", "saveProgress"}
    /\ UNCHANGED <<auctionVars, manifest, moneyVars, posVars, lock, mem, cur,
                   count, adminVars, lapsed, announced>>

\* ... and UPDATE
SaveUpdate(w) ==
    /\ pc[w] \in {"write", "writeProgress"}
    /\ \E o \in Outcome :
        /\ Account(o)
        /\ manifest' = IF o = "rolledBack" THEN manifest
                       ELSE Written(manifest, mem[w], dirty[w])
        /\ dirty' = [dirty EXCEPT ![w] = {}]
        /\ Goto(w, IF o = "done" /\ pc[w] = "write" THEN "loop" ELSE "release")
    /\ UNCHANGED <<auctionVars, moneyVars, posVars, lock, mem, cur, count,
                   adminVars, lapsed, announced>>

-----------------------------------------------------------------------------
(* finalizeManifest *)

\* Mutant: complete as soon as nothing is pending.
NonePending(items) == \A d \in Listed(items) : items[d].status # "pending"

AllAcknowledged(items) ==
    \A d \in Listed(items) : items[d].status = "acknowledged"

StruckOut(items) ==
    \E d \in Listed(items) :
        items[d].status = "failed" /\ items[d].retries >= MaxRetries

\* completeSettlement and escalateSettlement: when the auction is no longer
\* settling nothing is written, yet the caller hears the same answer.
Close(w, status, outcome) ==
    IF auction = "settling"
    THEN /\ auction' = status
         /\ mem' = [mem EXCEPT ![w].status = outcome]
         /\ manifest' = mem'[w]
    ELSE UNCHANGED <<auction, mem, manifest>>

\* Mutant: the room is told before the transaction has committed.
AnnounceThenClose(w, status, outcome, event, next) ==
    /\ Goto(w, next)
    /\ Announce(event)
    /\ \E o \in Outcome :
        /\ Account(o)
        /\ IF o = "rolledBack" THEN UNCHANGED <<auction, mem, manifest>>
                               ELSE Close(w, status, outcome)
    /\ UNCHANGED <<winner, moneyVars, posVars, lock, cur, count, dirty,
                   adminVars, lapsed>>

Finalize(w, status, outcome, event, next) ==
    /\ Goto(w, next)
    /\ \E o \in Outcome :
        /\ Account(o)
        /\ IF o = "rolledBack" THEN UNCHANGED <<auction, mem, manifest>>
                               ELSE Close(w, status, outcome)
        /\ announced' = announced \cup (IF o = "done" THEN {event} ELSE {})
                                  \cup (IF count[w] > 0 THEN {"progress"} ELSE {})
    /\ UNCHANGED <<winner, moneyVars, posVars, lock, cur, count, dirty,
                   adminVars, lapsed>>

FinalizeEmpty(w) ==
    /\ pc[w] = "finalizeEmpty"
    /\ Finalize(w, "settled", "completed", "settled", "initRelease")

CompleteSettlement(w) ==
    /\ pc[w] = "loop" /\ LoopDone(w)
    /\ AllAcknowledged(mem[w].items)
    /\ Finalize(w, "settled", "completed", "settled", "release")

EscalateSettlement(w) ==
    /\ pc[w] = "loop" /\ LoopDone(w)
    /\ ~AllAcknowledged(mem[w].items)
    /\ StruckOut(mem[w].items)
    /\ Finalize(w, "settlement_failed", "escalated", "failed", "release")

StillInProgress(w) ==
    /\ pc[w] = "loop" /\ LoopDone(w)
    /\ ~AllAcknowledged(mem[w].items)
    /\ ~StruckOut(mem[w].items)
    /\ IF count[w] > 0 THEN Announce("progress") ELSE UNCHANGED announced
    /\ Goto(w, "saveProgress")
    /\ UNCHANGED <<auctionVars, manifest, moneyVars, posVars, lock, mem, cur,
                   count, dirty, adminVars, lapsed, faults>>

-----------------------------------------------------------------------------
(* Crashes, time and the admin *)

\* The instance dies and comes back; its POS call may be under way.
Crash(w) ==
    /\ pc[w] # "idle"
    /\ Fault
    /\ Forget(w)
    /\ \/ UNCHANGED posLate
       \/ pc[w] = "pos" /\ posLate' = posLate \cup {cur[w]}
    /\ UNCHANGED <<auctionVars, manifest, moneyVars, posMoved, lock, adminVars,
                   lapsed, announced>>

\* 48 hours have gone by since the manifest was created.
ManifestLapses ==
    /\ manifest.status # "absent" /\ ~lapsed
    /\ lapsed' = TRUE
    /\ UNCHANGED <<auctionVars, manifest, moneyVars, posVars, lock, workerVars,
                   adminVars, announced, faults>>

\* PATCH /auctions/:id/status: the status is validated against a plain read ...
PatchValidate(status) ==
    /\ AdminPatches /\ patch = "none"
    /\ status \in ServiceTransitions[auction]
    /\ patch' = status
    /\ UNCHANGED <<auctionVars, manifest, moneyVars, posVars, lock, workerVars,
                   reply, envVars>>

\* ... and saved; the trigger has the last word, the version is not compared.
PatchSave ==
    /\ patch # "none"
    /\ auction' = IF AuctionTriggerAllows(auction, patch) THEN patch ELSE auction
    /\ patch' = "none"
    /\ UNCHANGED <<winner, manifest, moneyVars, posVars, lock, workerVars,
                   reply, envVars>>

FailedItems(items) == {d \in Deposits : items[d].status = "failed"}

Reset(items) ==
    [d \in Deposits |->
        IF d \in FailedItems(items)
        THEN [status  |-> "pending",
              retries |-> IF items[d].retries >= MaxRetries
                          THEN 0 ELSE items[d].retries]
        ELSE items[d]]

\* POST /admin/settlements/:id/retry.  The trigger sees the auction go back
\* to settling; when it objects the whole transaction is rolled back.
AdminRetry ==
    /\ manifest.status = "escalated"
    /\ auction = "settlement_failed"
    /\ FailedItems(manifest.items) # {}
    /\ IF AuctionTriggerAllows(auction, "settling")
       THEN /\ auction' = "settling"
            /\ manifest' = [status |-> "active", items |-> Reset(manifest.items)]
            /\ reply' = "retried"
       ELSE reply' = "rejected" /\ UNCHANGED <<auction, manifest>>
    /\ UNCHANGED <<winner, moneyVars, posVars, lock, workerVars, patch, envVars>>

-----------------------------------------------------------------------------
PosAnswers(w) == PosSucceeds(w) \/ PosRefuses(w) \/ PosTimesOut(w)

WorkerStep(w) ==
    \/ StartTick(w) \/ TryLock(w) \/ Unlock(w)
    \/ InitiateSettlement(w) \/ ListActive(w)
    \/ ExpireOrEscalate(w) \/ BeginItems(w)
    \/ ReadDeposit(w) \/ InitiateRefund(w) \/ RecheckInitiation(w)
    \/ PosAnswers(w)
    \/ RecordSuccess(w) \/ RecheckAfterError(w)
    \/ SaveSelect(w) \/ SaveUpdate(w)
    \/ FinalizeEmpty(w) \/ CompleteSettlement(w) \/ EscalateSettlement(w)
    \/ StillInProgress(w)

Next ==
    \/ \E w \in Workers : WorkerStep(w) \/ Crash(w)
    \/ \E d \in Deposits : PosMovesLate(d)
    \/ LockLapses \/ ManifestLapses
    \/ \E s \in AuctionStatus : PatchValidate(s)
    \/ PatchSave \/ AdminRetry

Spec == Init /\ [][Next]_vars

\* The timer keeps firing in every live instance and no await is endless (a
\* POS call is cut off after 5 s); Redis drops a key whose TTL has run out.
\* Neither the admin nor the POS owes anybody a step, and nothing here waits
\* for the 48 hours to pass.
FairSpec ==
    /\ Spec
    /\ \A w \in Workers : WF_vars(WorkerStep(w))
    /\ WF_vars(LockLapses)

-----------------------------------------------------------------------------
(* Safety *)

Moved(d) == deposit[d] = Goal(d)

\* the ledger lines per event and the refund row of a deposit
Story(d, captured, initiated, refunded, row) ==
    /\ ledger[d]["deposit_captured"] = captured
    /\ ledger[d]["deposit_refund_initiated"] = initiated
    /\ ledger[d]["deposit_refunded"] = refunded
    /\ refund[d] = row

\* The payment ledger and the refund row tell exactly the story of the deposit:
\* no move is written twice, none is missing, whoever retries, crashes or loses
\* the lock meanwhile (recordCaptureInDb, recordRefundInitiationInDb and
\* recordRefundCompletionInDb recheck the status under FOR UPDATE).
LedgerMatchesDeposit ==
    \A d \in Deposits :
        CASE deposit[d] = "captured"       -> Story(d, 1, 0, 0, "none")
          [] deposit[d] = "refund_pending" -> Story(d, 0, 1, 0, "pending")
          [] deposit[d] = "refunded"       -> Story(d, 0, 1, 1, "completed")
          [] OTHER                         -> Story(d, 0, 0, 0, "none")

\* An acknowledged item, in the row or in any worker's copy, is one whose
\* deposit has really been captured or refunded, although a success that finds
\* the deposit already moved is acknowledged without writing anything
\* (reconciliation check manifest_deposit_consistency).
AcknowledgedMoved ==
    \A d \in Deposits :
        /\ manifest.items[d].status = "acknowledged" => Moved(d)
        /\ \A w \in Workers : mem[w].items[d].status = "acknowledged" => Moved(d)

\* The database never says that money moved before the POS has moved it, with
\* timeouts whose call may still succeed later and with crashes in between.
MoneyMovedFirst ==
    \A d \in Deposits : deposit[d] \in {"captured", "refunded"} => d \in posMoved

\* A settled auction has captured the winner's deposit and refunded the others,
\* for every deposit its manifest lists, even when the worker that closed it
\* worked on a stale copy or after its lock had lapsed.
SettledMeansMoved ==
    auction = "settled" => \A d \in Listed(manifest.items) : Moved(d)

\* "sent" is an in-memory status: an item saved as sent would be neither due
\* nor acknowledged nor struck out, and the settlement could never close.
NoneSavedAsSent ==
    \A d \in Deposits : manifest.items[d].status # "sent"

\* Two workers that both saw the auction ended make one manifest, and the
\* deposits it lists never change (FOR UPDATE and the recheck behind it).
InitiatedOnce ==
    [][manifest.status # "absent" =>
         Listed(manifest'.items) = Listed(manifest.items)]_vars

\* Nobody frees a lock that is somebody else's: a lock that goes away was
\* released by its own holder or ran out of TTL (no worker moved).
OnlyHolderUnlocks ==
    [][\A w \in Workers :
         lock = w /\ lock' # w =>
            \/ pc' = pc
            \/ pc[w] \in {"initRelease", "release"} /\ pc'[w] # pc[w]]_vars

\* While no TTL runs out under a live holder, one worker at a time is between
\* acquire and release.
OneWorkerAtATime ==
    \A w \in Workers : pc[w] \in LockedStep => lock = w

\* A settlement fails before its 48 hours only with something left to move.
FailedMeansUnmoved ==
    auction = "settlement_failed" /\ ~lapsed =>
        \E d \in Listed(manifest.items) : ~Moved(d)

\* The manifest row and the auction tell the same outcome at every step.
ManifestAgrees ==
    CASE auction = "ended"    -> manifest.status = "absent"
      [] auction = "settling" -> manifest.status = "active"
      [] auction = "settled"  -> manifest.status = "completed"
      [] OTHER                -> manifest.status \in {"escalated", "expired"}

\* What the room was told about the end is what the auction's status says.
AnnouncedOutcome ==
    /\ "settled" \in announced => auction = "settled"
    /\ "failed" \in announced => auction = "settlement_failed"

\* A settled auction stays settled, although a PATCH validated earlier may
\* still be waiting to save another status.
SettledIsFinal == [][auction = "settled" => auction' = "settled"]_vars

\* The deposits, the ledger and the refunds follow the DepositLedger promise.
DL == INSTANCE DepositLedger WITH
          Deposits <- Deposits, deposit <- deposit, ledger <- ledger,
          refund <- refund
LedgerPromise == DL!LedgerSpec

(* Liveness *)

\* Every ended auction reaches a final settlement status, by its retry budget
\* and not only by the 48-hour expiry: finitely many crashes and errors, lost
\* locks, stale copies and a POS that never answers cannot keep it settling.
SettlementEnds ==
    auction = "ended" ~> auction \in {"settled", "settlement_failed"}

(* Claims of the repository's tests that the code does not keep *)

\* scripts/test-settlement.ts: a settled auction's manifest is completed.
\* (Restricted to the 48 hours before the expiry can interfere.)
SettledManifestCompleted ==
    auction = "settled" /\ ~lapsed => manifest.status = "completed"

\* scripts/test-admin-settlement.ts: a retry of an escalated manifest succeeds.
RetrySucceeds == reply # "rejected"
=============================================================================
