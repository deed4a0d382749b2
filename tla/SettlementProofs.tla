-------------------------- MODULE SettlementProofs --------------------------
(***************************************************************************)
(* Proofs about Settlement, for any number of workers, deposits, retries   *)
(* and faults, with or without lapsing locks and admin PATCHes.            *)
(***************************************************************************)
EXTENDS Settlement, WellFoundedInduction, TLAPS

USE SettlementAssumption

-----------------------------------------------------------------------------
(* Types *)

LEMMA DepositsNat == Deposits \subseteq Nat \ {0}
BY DEF Deposits

LEMMA NoRowType == NoRow \in ManifestRow
BY DEF NoRow, NoItem, ManifestRow, ManifestStatus, Item, ItemStatus

LEMMA SetItemType ==
    ASSUME TypeOK, NEW w \in Workers, NEW d \in Deposits, NEW item \in Item,
           SetItem(w, d, item)
    PROVE  mem' \in [Workers -> ManifestRow]
<1>1. mem[w] \in ManifestRow
  BY DEF TypeOK
<1>2. mem[w].items \in [Deposits -> Item]
  BY <1>1 DEF ManifestRow
<1>3. [mem[w].items EXCEPT ![d] = item] \in [Deposits -> Item]
  BY <1>2
<1>4. [mem[w] EXCEPT !.items[d] = item] \in ManifestRow
  BY <1>1, <1>2, <1>3 DEF ManifestRow
<1>5. mem' = [mem EXCEPT ![w] = [mem[w] EXCEPT !.items[d] = item]]
  BY DEF SetItem
<1> QED
  BY <1>4, <1>5 DEF TypeOK

\* Every in-memory change of an item keeps the copies well typed.
LEMMA ItemUpdateType ==
    ASSUME TypeOK, NEW w \in Workers, NEW d \in Deposits,
           Sent(w, d) \/ Ack(w, d) \/ Fail(w, d)
    PROVE  mem' \in [Workers -> ManifestRow]
<1>1. mem[w].items[d] \in Item
  BY DEF TypeOK, ManifestRow
<1>2. PICK item \in Item : SetItem(w, d, item)
  BY <1>1 DEF Sent, Ack, Fail, Item, ItemStatus
<1> QED
  BY <1>2, SetItemType

LEMMA ForgetType ==
    ASSUME TypeOK, NEW w \in Workers, Forget(w)
    PROVE  /\ pc' \in [Workers -> Step]
           /\ mem' \in [Workers -> ManifestRow]
           /\ cur' \in [Workers -> {0} \cup Deposits]
           /\ count' \in [Workers -> Nat]
           /\ dirty' \in [Workers -> SUBSET {"status", "items"}]
BY NoRowType DEF TypeOK, Forget, Goto, Step

LEMMA AccountType ==
    ASSUME TypeOK, NEW o, Account(o)
    PROVE  faults' \in Nat
BY DEF TypeOK, Account, Fault

LEMMA NewManifestType == NewManifest \in ManifestRow
BY DEF NewManifest, NoItem, ManifestRow, ManifestStatus, Item, ItemStatus

LEMMA NextItemType ==
    ASSUME NEW w \in Workers, ~LoopDone(w)
    PROVE  NextItem(w) \in DueItems(w)
<1>1. DueItems(w) # {} /\ DueItems(w) \subseteq Nat
  BY DEF LoopDone, DueItems, Deposits
<1>2. PICK least \in DueItems(w) :
          \A e \in DueItems(w) : ~(<<e, least>> \in OpToRel(<, Nat))
  BY <1>1, NatLessThanWellFounded, WFMin
<1>3. OpToRel(<, Nat) = {ss \in Nat \X Nat : ss[1] < ss[2]}
  BY Zenon DEF OpToRel
<1>4. ASSUME NEW e \in DueItems(w) PROVE least <= e
  <2>1. e \in Nat /\ least \in Nat
    BY <1>1
  <2>2. \A k, l \in Nat : k < l => <<k, l>> \in OpToRel(<, Nat)
    <3>1. ASSUME NEW k \in Nat, NEW l \in Nat, k < l
          PROVE  <<k, l>> \in {ss \in Nat \X Nat : ss[1] < ss[2]}
      BY <3>1
    <3> QED
      BY <3>1, <1>3
  <2>3. ~(e < least)
    BY <1>2, <1>4, <2>1, <2>2, Zenon
  <2> QED
    BY <2>1, <2>3
<1> QED
  BY <1>4 DEF NextItem

LEMMA InitType == Init => TypeOK
<1> SUFFICES ASSUME Init PROVE TypeOK
  OBVIOUS
<1>1. deposit \in [Deposits -> DepositStatus]
  BY DEF Init, DepositStatus
<1>2. NoLines \in [LedgerEvent -> Nat]
  BY DEF NoLines
<1>3. ledger \in [Deposits -> [LedgerEvent -> Nat]]
  BY <1>2 DEF Init
<1>4. "idle" \in Step /\ auction \in AuctionStatus
  BY DEF Init, Step, AuctionStatus
<1>5. mem \in [Workers -> ManifestRow] /\ manifest \in ManifestRow
  BY NoRowType DEF Init
<1> QED
  BY <1>1, <1>3, <1>4, <1>5 DEF Init, TypeOK, Reply

LEMMA MoveType ==
    ASSUME TypeOK, NEW d \in Deposits,
           NEW status \in DepositStatus, NEW event \in LedgerEvent,
           NEW row \in {"none", "pending", "completed"},
           Move(d, status, event, row)
    PROVE  /\ deposit' \in [Deposits -> DepositStatus]
           /\ ledger' \in [Deposits -> [LedgerEvent -> Nat]]
           /\ refund' \in [Deposits -> {"none", "pending", "completed"}]
<1>1. deposit' \in [Deposits -> DepositStatus]
  BY DEF TypeOK, Move
<1>2. refund' \in [Deposits -> {"none", "pending", "completed"}]
  BY DEF TypeOK, Move
<1>3. ledger[d] \in [LedgerEvent -> Nat] /\ ledger[d][event] + 1 \in Nat
  BY DEF TypeOK
<1>4. [ledger[d] EXCEPT ![event] = ledger[d][event] + 1] \in [LedgerEvent -> Nat]
  BY <1>3
<1>5. ledger' = [ledger EXCEPT ![d] =
                   [ledger[d] EXCEPT ![event] = ledger[d][event] + 1]]
  BY DEF Move
<1> QED
  BY <1>1, <1>2, <1>4, <1>5 DEF TypeOK

LEMMA WrittenType ==
    ASSUME NEW row \in ManifestRow, NEW entity \in ManifestRow, NEW columns
    PROVE  Written(row, entity, columns) \in ManifestRow
BY DEF Written, ManifestRow

LEMMA StatusType ==
    ASSUME TypeOK, NEW w \in Workers, NEW status \in ManifestStatus,
           mem' = [mem EXCEPT ![w].status = status]
    PROVE  mem' \in [Workers -> ManifestRow] /\ mem'[w] \in ManifestRow
<1>1. mem[w] \in ManifestRow
  BY DEF TypeOK
<1>2. [mem[w] EXCEPT !.status = status] \in ManifestRow
  BY <1>1 DEF ManifestRow
<1> QED
  BY <1>2 DEF TypeOK

LEMMA ResetType ==
    ASSUME NEW items \in [Deposits -> Item]
    PROVE  Reset(items) \in [Deposits -> Item]
<1>1. ASSUME NEW d \in Deposits, NEW k \in {0, items[d].retries}
      PROVE  [status |-> "pending", retries |-> k] \in Item
  BY DEF Item, ItemStatus
<1> QED
  BY <1>1 DEF Reset

\* A worker busy with an item has one, of the right kind: it initiates refunds
\* of losers only, calls the POS and records its answer only for a deposit that
\* awaits the move or has made it meanwhile, and records only what the POS did.
InHand ==
    \A w \in Workers :
        /\ pc[w] \in {"initRefund", "recheckInit"} =>
             cur[w] \in Deposits /\ cur[w] # winner
        /\ pc[w] \in {"pos", "record", "recheck"} =>
             /\ cur[w] \in Deposits
             /\ deposit[cur[w]] \in {Awaited(cur[w]), Goal(cur[w])}
        /\ pc[w] = "record" => cur[w] \in posMoved

\* TypeOK is inductive relative to InHand.
LEMMA StepType == TypeOK /\ InHand /\ [Next]_vars => TypeOK'
<1> SUFFICES ASSUME TypeOK, InHand, [Next]_vars PROVE TypeOK'
  OBVIOUS
<1> USE DEF auctionVars, moneyVars, posVars, workerVars, adminVars, envVars,
            vars, Goto
<1>1. ASSUME NEW w \in Workers, StartTick(w) PROVE TypeOK'
  BY <1>1 DEF StartTick, TypeOK, Step
<1>2. ASSUME NEW w \in Workers, TryLock(w) PROVE TypeOK'
  <2>1. faults' \in Nat
    BY <1>2, AccountType DEF TryLock
  <2>2. lock' \in Workers \cup {NoOne}
    BY <1>2 DEF TryLock, TypeOK
  <2>3. CASE Forget(w)
    BY <1>2, <2>1, <2>2, <2>3, ForgetType DEF TryLock, TypeOK
  <2>4. CASE ~Forget(w)
    BY <1>2, <2>1, <2>2, <2>4 DEF TryLock, TypeOK, Step, LockedStep
  <2> QED
    BY <2>3, <2>4
<1>3. ASSUME NEW w \in Workers, Unlock(w) PROVE TypeOK'
  <2>1. faults' \in Nat
    BY <1>3, AccountType DEF Unlock
  <2>2. lock' \in Workers \cup {NoOne}
    BY <1>3 DEF Unlock, AfterRelease, TypeOK
  <2>3. CASE Forget(w)
    BY <1>3, <2>1, <2>2, <2>3, ForgetType DEF Unlock, TypeOK
  <2>4. CASE ~Forget(w)
    BY <1>3, <2>1, <2>2, <2>4 DEF Unlock, TypeOK, Step
  <2> QED
    BY <2>3, <2>4
<1>4. ASSUME NEW w \in Workers, InitiateSettlement(w) PROVE TypeOK'
  <2>1. faults' \in Nat
    BY <1>4, AccountType DEF InitiateSettlement
  <2>2. /\ manifest' \in ManifestRow
        /\ mem' \in [Workers -> ManifestRow]
    BY <1>4, NewManifestType DEF InitiateSettlement, TypeOK
  <2>3. auction' \in AuctionStatus /\ announced' \subseteq Event
    BY <1>4 DEF InitiateSettlement, Announce, TypeOK, Event, AuctionStatus
  <2>4. pc' \in [Workers -> Step]
    BY <1>4 DEF InitiateSettlement, TypeOK, Step, LockedStep
  <2> QED
    BY <1>4, <2>1, <2>2, <2>3, <2>4 DEF InitiateSettlement, TypeOK
<1>5. ASSUME NEW w \in Workers, ListActive(w) PROVE TypeOK'
  <2>1. CASE Forget(w)
    BY <1>5, <2>1, ForgetType DEF ListActive, TypeOK
  <2>2. CASE ~Forget(w)
    BY <1>5, <2>2, SMTT(30) DEF ListActive, TypeOK, Step
  <2> QED
    BY <2>1, <2>2
<1>6. ASSUME NEW w \in Workers, ExpireOrEscalate(w) PROVE TypeOK'
  <2>1. faults' \in Nat
    BY <1>6, AccountType DEF ExpireOrEscalate
  <2>2. /\ mem' \in [Workers -> ManifestRow]
        /\ manifest' \in ManifestRow
        /\ auction' \in AuctionStatus
    <3>1. CASE UNCHANGED <<auction, mem, manifest>>
      BY <3>1 DEF TypeOK
    <3>2. CASE \E status \in {"expired", "escalated"} : GiveUp(w, status)
      <4>1. PICK status \in ManifestStatus : GiveUp(w, status)
        BY <3>2 DEF ManifestStatus
      <4> QED
        BY <4>1, StatusType DEF GiveUp, TypeOK, AuctionStatus
    <3> QED
      BY <1>6, <3>1, <3>2 DEF ExpireOrEscalate
  <2> QED
    BY <1>6, <2>1, <2>2
       DEF ExpireOrEscalate, Announce, TypeOK, Step, LockedStep, Event
<1>7. ASSUME NEW w \in Workers, BeginItems(w) PROVE TypeOK'
  BY <1>7 DEF BeginItems, TypeOK, Step, LockedStep
<1>8. ASSUME NEW w \in Workers, ReadDeposit(w) PROVE TypeOK'
  <2>1. faults' \in Nat
    BY <1>8, AccountType DEF ReadDeposit
  <2>2. NextItem(w) \in Deposits
    BY <1>8, NextItemType DEF ReadDeposit, DueItems
  <2>3. mem' \in [Workers -> ManifestRow]
    BY <1>8, <2>2, ItemUpdateType DEF ReadDeposit, TypeOK
  <2>4. /\ cur' \in [Workers -> {0} \cup Deposits]
        /\ count' \in [Workers -> Nat]
    BY <1>8, <2>2 DEF ReadDeposit, TypeOK
  <2>5. pc' \in [Workers -> Step]
    BY <1>8 DEF ReadDeposit, TypeOK, Abort, Step, LockedStep
  <2> QED
    BY <1>8, <2>1, <2>3, <2>4, <2>5 DEF ReadDeposit, TypeOK
<1>9. ASSUME NEW w \in Workers, InitiateRefund(w) PROVE TypeOK'
  <2>0. cur[w] \in Deposits
    BY <1>9 DEF InitiateRefund, InHand
  <2>1. faults' \in Nat
    BY <1>9, AccountType DEF InitiateRefund
  <2>2. /\ deposit' \in [Deposits -> DepositStatus]
        /\ ledger' \in [Deposits -> [LedgerEvent -> Nat]]
        /\ refund' \in [Deposits -> {"none", "pending", "completed"}]
    <3>1. CASE UNCHANGED moneyVars
      BY <3>1 DEF TypeOK
    <3>2. CASE Move(cur[w], "refund_pending", "deposit_refund_initiated", "pending")
      BY <2>0, <3>2, MoveType DEF DepositStatus, LedgerEvent
    <3> QED
      BY <1>9, <3>1, <3>2 DEF InitiateRefund
  <2>3. mem' \in [Workers -> ManifestRow]
    BY <1>9, <2>0, ItemUpdateType DEF InitiateRefund, Outcome, TypeOK
  <2>4. pc' \in [Workers -> Step]
    BY <1>9, ZenonT(40) DEF InitiateRefund, RetryOrThrow, Outcome, TypeOK, Step, LockedStep
  <2> QED
    BY <1>9, <2>1, <2>2, <2>3, <2>4 DEF InitiateRefund, TypeOK
<1>10. ASSUME NEW w \in Workers, RecheckInitiation(w) PROVE TypeOK'
  <2>1. faults' \in Nat
    BY <1>10, AccountType DEF RecheckInitiation
  <2>2. mem' \in [Workers -> ManifestRow]
    BY <1>10, ItemUpdateType DEF RecheckInitiation, InHand, TypeOK
  <2>3. pc' \in [Workers -> Step]
    BY <1>10 DEF RecheckInitiation, TypeOK, Abort, Step, LockedStep
  <2> QED
    BY <1>10, <2>1, <2>2, <2>3 DEF RecheckInitiation, TypeOK
<1>11. ASSUME NEW w \in Workers, PosSucceeds(w) PROVE TypeOK'
  BY <1>11 DEF PosSucceeds, InHand, TypeOK, Step, LockedStep
<1>12. ASSUME NEW w \in Workers, PosRefuses(w) PROVE TypeOK'
  <2>1. mem' \in [Workers -> ManifestRow]
    BY <1>12, ItemUpdateType DEF PosRefuses, InHand
  <2> QED
    BY <1>12, <2>1 DEF PosRefuses, TypeOK, Step, LockedStep
<1>13. ASSUME NEW w \in Workers, PosTimesOut(w) PROVE TypeOK'
  BY <1>13 DEF PosTimesOut, InHand, TypeOK, Step, LockedStep
<1>14. ASSUME NEW w \in Workers, RecordSuccess(w) PROVE TypeOK'
  <2>0. cur[w] \in Deposits
    BY <1>14 DEF RecordSuccess, InHand
  <2>1. faults' \in Nat
    BY <1>14, AccountType DEF RecordSuccess
  <2>2. /\ deposit' \in [Deposits -> DepositStatus]
        /\ ledger' \in [Deposits -> [LedgerEvent -> Nat]]
        /\ refund' \in [Deposits -> {"none", "pending", "completed"}]
    <3>1. CASE UNCHANGED moneyVars
      BY <3>1 DEF TypeOK
    <3>2. CASE RecordMove(cur[w])
      <4>1. refund[cur[w]] \in {"none", "pending", "completed"}
        BY <2>0 DEF TypeOK
      <4> QED
        BY <2>0, <3>2, <4>1, MoveType DEF RecordMove, DepositStatus, LedgerEvent
    <3> QED
      BY <1>14, <3>1, <3>2 DEF RecordSuccess
  <2>3. mem' \in [Workers -> ManifestRow]
    BY <1>14, <2>0, ItemUpdateType DEF RecordSuccess, TypeOK
  <2>4. pc' \in [Workers -> Step]
    BY <1>14 DEF RecordSuccess, RetryOrThrow, TypeOK, Step, LockedStep
  <2> QED
    BY <1>14, <2>1, <2>2, <2>3, <2>4 DEF RecordSuccess, TypeOK
<1>15. ASSUME NEW w \in Workers, RecheckAfterError(w) PROVE TypeOK'
  <2>1. faults' \in Nat
    BY <1>15, AccountType DEF RecheckAfterError
  <2>2. mem' \in [Workers -> ManifestRow]
    <3>1. cur[w] \in Deposits
      BY <1>15 DEF RecheckAfterError, InHand
    <3>2. CASE UNCHANGED mem
      BY <3>2 DEF TypeOK
    <3>3. CASE Ack(w, cur[w]) \/ Fail(w, cur[w])
      BY <3>1, <3>3, ItemUpdateType
    <3> QED
      BY <1>15, <3>2, <3>3 DEF RecheckAfterError
  <2>3. pc' \in [Workers -> Step]
    BY <1>15 DEF RecheckAfterError, TypeOK, Abort, Step, LockedStep
  <2> QED
    BY <1>15, <2>1, <2>2, <2>3 DEF RecheckAfterError, TypeOK
<1>16. ASSUME NEW w \in Workers, SaveSelect(w) PROVE TypeOK'
  <2>1. faults' \in Nat
    BY <1>16, AccountType DEF SaveSelect
  <2>2. pc' \in [Workers -> Step]
    BY <1>16 DEF SaveSelect, TypeOK, Abort, Step, LockedStep
  <2>3. dirty' \in [Workers -> SUBSET {"status", "items"}]
    <3>1. Differing(manifest, mem[w]) \subseteq {"status", "items"}
      BY DEF Differing
    <3>2. CASE UNCHANGED dirty
      BY <3>2 DEF TypeOK
    <3>3. CASE \E unseen \in SUBSET {"items"} :
                 dirty' = [dirty EXCEPT ![w] = Differing(manifest, mem[w]) \cup unseen]
      <4>1. PICK columns \in SUBSET {"status", "items"} :
                   dirty' = [dirty EXCEPT ![w] = columns]
        BY <3>1, <3>3
      <4> QED
        BY <4>1 DEF TypeOK
    <3> QED
      BY <1>16, <3>2, <3>3 DEF SaveSelect
  <2> QED
    BY <1>16, <2>1, <2>2, <2>3 DEF SaveSelect, TypeOK
<1>17. ASSUME NEW w \in Workers, SaveUpdate(w) PROVE TypeOK'
  <2>1. faults' \in Nat
    BY <1>17, AccountType DEF SaveUpdate
  <2>2. pc' \in [Workers -> Step]
    BY <1>17 DEF SaveUpdate, TypeOK, Step, LockedStep
  <2>3. manifest' \in ManifestRow
    BY <1>17, WrittenType DEF SaveUpdate, TypeOK
  <2>4. dirty' \in [Workers -> SUBSET {"status", "items"}]
    BY <1>17 DEF SaveUpdate, TypeOK
  <2> QED
    BY <1>17, <2>1, <2>2, <2>3, <2>4 DEF SaveUpdate, TypeOK
<1>18. ASSUME NEW w \in Workers, FinalizeEmpty(w) \/ CompleteSettlement(w)
                                   \/ EscalateSettlement(w)
       PROVE  TypeOK'
  <2>1. PICK status \in AuctionStatus, outcome \in ManifestStatus,
             event \in Event, next \in Step :
               Finalize(w, status, outcome, event, next)
    BY <1>18 DEF FinalizeEmpty, CompleteSettlement, EscalateSettlement,
                 AuctionStatus, ManifestStatus, Event, Step, LockedStep
  <2>2. faults' \in Nat
    BY <2>1, AccountType DEF Finalize
  <2>3. /\ mem' \in [Workers -> ManifestRow]
        /\ manifest' \in ManifestRow
        /\ auction' \in AuctionStatus
    <3>1. CASE UNCHANGED <<auction, mem, manifest>>
      BY <3>1 DEF TypeOK
    <3>2. CASE Close(w, status, outcome) /\ auction = "settling"
      BY <3>2, StatusType DEF Close
    <3> QED
      BY <2>1, <3>1, <3>2 DEF Finalize, Close
  <2>4. announced' \subseteq Event
    BY <2>1 DEF Finalize, TypeOK, Event
  <2> QED
    BY <2>1, <2>2, <2>3, <2>4 DEF Finalize, TypeOK
<1>19. ASSUME NEW w \in Workers, StillInProgress(w) PROVE TypeOK'
  BY <1>19 DEF StillInProgress, Announce, TypeOK, Step, LockedStep, Event
<1>20. ASSUME NEW w \in Workers, Crash(w) PROVE TypeOK'
  <2>1. faults' \in Nat
    BY <1>20 DEF Crash, Fault, TypeOK
  <2>2. posLate' \subseteq Deposits
    BY <1>20 DEF Crash, InHand, TypeOK
  <2> QED
    BY <1>20, <2>1, <2>2, ForgetType DEF Crash, TypeOK
<1>21. ASSUME NEW d \in Deposits, PosMovesLate(d) PROVE TypeOK'
  BY <1>21 DEF PosMovesLate, TypeOK
<1>22. CASE LockLapses \/ ManifestLapses
  BY <1>22 DEF LockLapses, ManifestLapses, TypeOK
<1>23. CASE \E s \in AuctionStatus : PatchValidate(s)
  BY <1>23 DEF PatchValidate, TypeOK
<1>24. CASE PatchSave
  BY <1>24 DEF PatchSave, TypeOK
<1>25. CASE AdminRetry
  <2>1. manifest' \in ManifestRow
    <3>1. Reset(manifest.items) \in [Deposits -> Item]
      BY ResetType DEF TypeOK, ManifestRow
    <3> QED
      BY <1>25, <3>1 DEF AdminRetry, TypeOK, ManifestRow, ManifestStatus
  <2> QED
    BY <1>25, <2>1 DEF AdminRetry, TypeOK, AuctionStatus, Reply
<1>26. CASE UNCHANGED vars
  BY <1>26 DEF TypeOK
<1> QED
  BY <1>1, <1>2, <1>3, <1>4, <1>5, <1>6, <1>7, <1>8, <1>9, <1>10, <1>11, <1>12,
     <1>13, <1>14, <1>15, <1>16, <1>17, <1>18, <1>19, <1>20, <1>21, <1>22,
     <1>23, <1>24, <1>25, <1>26
     DEF Next, WorkerStep, PosAnswers
-----------------------------------------------------------------------------
(* What a step can do to the money *)

\* the two transactions that write the payment tables
Initiated(d) ==
    /\ d # winner
    /\ deposit[d] = "held"
    /\ Move(d, "refund_pending", "deposit_refund_initiated", "pending")
Recorded(d) ==
    /\ d \in posMoved
    /\ deposit[d] = Awaited(d)
    /\ RecordMove(d)

LEMMA MoneyStep ==
    ASSUME InHand, [Next]_vars
    PROVE  UNCHANGED moneyVars \/ \E d \in Deposits : Initiated(d) \/ Recorded(d)
<1> USE DEF vars
<1>1. ASSUME NEW w \in Workers, InitiateRefund(w)
      PROVE  UNCHANGED moneyVars \/ \E d \in Deposits : Initiated(d)
  BY <1>1 DEF InitiateRefund, MayInitiateRefund, InHand, Initiated
<1>2. ASSUME NEW w \in Workers, RecordSuccess(w)
      PROVE  UNCHANGED moneyVars \/ \E d \in Deposits : Recorded(d)
  BY <1>2 DEF RecordSuccess, MayRecord, InHand, Recorded
<1>3. ASSUME NEW w \in Workers, WorkerStep(w) \/ Crash(w),
             ~InitiateRefund(w), ~RecordSuccess(w)
      PROVE  UNCHANGED moneyVars
  BY <1>3
     DEF WorkerStep, StartTick, TryLock, Unlock, InitiateSettlement, ListActive,
         ExpireOrEscalate, BeginItems, ReadDeposit, RecheckInitiation, PosAnswers,
         PosSucceeds, PosRefuses, PosTimesOut, RecheckAfterError, SaveSelect,
         SaveUpdate, FinalizeEmpty, CompleteSettlement, EscalateSettlement,
         Finalize, StillInProgress, Crash
<1>4. CASE LockLapses \/ ManifestLapses \/ PatchSave \/ AdminRetry
           \/ (\E d \in Deposits : PosMovesLate(d))
           \/ (\E s \in AuctionStatus : PatchValidate(s))
  BY <1>4 DEF LockLapses, ManifestLapses, PatchSave, AdminRetry, PosMovesLate,
              PatchValidate
<1> QED
  BY <1>1, <1>2, <1>3, <1>4 DEF Next

\* What the POS has moved stays moved, and the winner of an ended auction stays.
LEMMA MonotoneStep ==
    ASSUME [Next]_vars
    PROVE  posMoved \subseteq posMoved' /\ winner' = winner
<1> USE DEF vars, auctionVars, posVars
<1>1. ASSUME NEW w \in Workers, WorkerStep(w) \/ Crash(w)
      PROVE  posMoved \subseteq posMoved' /\ winner' = winner
  BY <1>1
     DEF WorkerStep, StartTick, TryLock, Unlock, InitiateSettlement, ListActive,
         ExpireOrEscalate, BeginItems, ReadDeposit, RecheckInitiation, PosAnswers,
         PosSucceeds, PosRefuses, PosTimesOut, RecheckAfterError, SaveSelect,
         SaveUpdate, FinalizeEmpty, CompleteSettlement, EscalateSettlement,
         Finalize, StillInProgress, Crash, InitiateRefund, RecordSuccess
<1>2. CASE LockLapses \/ ManifestLapses \/ PatchSave \/ AdminRetry
           \/ (\E d \in Deposits : PosMovesLate(d))
           \/ (\E s \in AuctionStatus : PatchValidate(s))
  BY <1>2 DEF LockLapses, ManifestLapses, PatchSave, AdminRetry, PosMovesLate,
              PatchValidate
<1> QED
  BY <1>1, <1>2 DEF Next

\* the ledger tells the deposit's story, and the POS has moved what it tells of
MoneyInv == LedgerMatchesDeposit /\ MoneyMovedFirst

LEMMA MoneyInit == Init => MoneyInv
<1> SUFFICES ASSUME Init PROVE MoneyInv
  OBVIOUS
<1>1. ASSUME NEW d \in Deposits
      PROVE  deposit[d] \in {"collected", "held"} /\ Story(d, 0, 0, 0, "none")
  BY DEF Init, Story, NoLines, LedgerEvent
<1> QED
  BY <1>1 DEF MoneyInv, LedgerMatchesDeposit, MoneyMovedFirst

LEMMA MoneyPreserved ==
    ASSUME TypeOK, InHand, MoneyInv, [Next]_vars
    PROVE  MoneyInv'
<1>1. CASE UNCHANGED moneyVars
  BY <1>1, MonotoneStep
     DEF MoneyInv, LedgerMatchesDeposit, MoneyMovedFirst, Story, moneyVars
<1>2. ASSUME NEW d \in Deposits, Initiated(d) PROVE MoneyInv'
  BY <1>2, MonotoneStep
     DEF Initiated, Move, MoneyInv, LedgerMatchesDeposit, MoneyMovedFirst, Story,
         TypeOK, LedgerEvent
<1>3. ASSUME NEW d \in Deposits, Recorded(d) PROVE MoneyInv'
  BY <1>3, MonotoneStep
     DEF Recorded, Awaited, RecordMove, Move, MoneyInv, LedgerMatchesDeposit,
         MoneyMovedFirst, Story, TypeOK, LedgerEvent
<1> QED
  BY <1>1, <1>2, <1>3, MoneyStep
-----------------------------------------------------------------------------
(* What a worker believes about the item in its hands *)

\* A deposit that awaits its move can only make it, and then keeps still.
LEMMA DepositStable ==
    ASSUME TypeOK, InHand, [Next]_vars, NEW d \in Deposits
    PROVE  /\ Goal(d)' = Goal(d) /\ Awaited(d)' = Awaited(d)
           /\ deposit[d] \in {Awaited(d), Goal(d)} =>
                deposit'[d] \in {Awaited(d), Goal(d)}
           /\ Moved(d) => Moved(d)'
<1>1. Goal(d)' = Goal(d) /\ Awaited(d)' = Awaited(d)
  BY MonotoneStep DEF Goal, Awaited
<1>2. CASE UNCHANGED moneyVars
  BY <1>1, <1>2 DEF moneyVars, Moved
<1>3. ASSUME NEW e \in Deposits, Initiated(e)
      PROVE  /\ deposit[d] \in {Awaited(d), Goal(d)} =>
                  deposit'[d] \in {Awaited(d), Goal(d)}
             /\ Moved(d) => Moved(d)'
  BY <1>1, <1>3 DEF Initiated, Move, Moved, Goal, Awaited, TypeOK
<1>4. ASSUME NEW e \in Deposits, Recorded(e)
      PROVE  /\ deposit[d] \in {Awaited(d), Goal(d)} =>
                  deposit'[d] \in {Awaited(d), Goal(d)}
             /\ Moved(d) => Moved(d)'
  BY <1>1, <1>4 DEF Recorded, RecordMove, Move, Moved, Goal, Awaited, TypeOK
<1> QED
  BY <1>1, <1>2, <1>3, <1>4, MoneyStep

\* InHand, for one worker
Grip(w) ==
    /\ pc[w] \in {"initRefund", "recheckInit"} =>
         cur[w] \in Deposits /\ cur[w] # winner
    /\ pc[w] \in {"pos", "record", "recheck"} =>
         /\ cur[w] \in Deposits
         /\ deposit[cur[w]] \in {Awaited(cur[w]), Goal(cur[w])}
    /\ pc[w] = "record" => cur[w] \in posMoved

Holding == {"initRefund", "recheckInit", "pos", "record", "recheck"}

\* A worker that does not move keeps its grip, whatever the others do.
LEMMA GripKept ==
    ASSUME TypeOK, InHand, [Next]_vars, NEW w \in Workers,
           pc'[w] = pc[w], cur'[w] = cur[w]
    PROVE  Grip(w)'
BY DepositStable, MonotoneStep DEF InHand, Grip, Goal, Awaited

LEMMA InHandPreserved == TypeOK /\ InHand /\ [Next]_vars => InHand'
<1> SUFFICES ASSUME TypeOK, InHand, [Next]_vars, NEW w \in Workers
             PROVE  Grip(w)'
  BY DEF InHand, Grip
<1> USE DEF Goto, RetryOrThrow
<1>1. CASE pc'[w] = pc[w] /\ cur'[w] = cur[w]
  BY <1>1, GripKept
<1>2. CASE pc'[w] \notin Holding
  BY <1>2 DEF Grip, Holding
<1>3. ASSUME ReadDeposit(w) PROVE Grip(w)'
  <2>1. NextItem(w) \in Deposits
    BY <1>3, NextItemType DEF ReadDeposit, DueItems
  <2> QED
    BY <1>3, <2>1, MonotoneStep
       DEF ReadDeposit, Abort, Grip, TypeOK, moneyVars, Goal, Awaited
<1>4. ASSUME InitiateRefund(w) PROVE Grip(w)'
  BY <1>4, MonotoneStep
     DEF InitiateRefund, MayInitiateRefund, Move, Outcome, Abort, InHand, Grip,
         TypeOK, Awaited, Goal
<1>5. ASSUME RecheckInitiation(w) PROVE Grip(w)'
  BY <1>5, MonotoneStep
     DEF RecheckInitiation, Abort, InHand, Grip, TypeOK, moneyVars, Awaited, Goal
<1>6. ASSUME PosAnswers(w) PROVE Grip(w)'
  BY <1>6, MonotoneStep
     DEF PosAnswers, PosSucceeds, PosRefuses, PosTimesOut, InHand, Grip, TypeOK,
         moneyVars, Awaited, Goal
<1>7. ASSUME RecordSuccess(w) PROVE Grip(w)'
  BY <1>7, DepositStable, MonotoneStep
     DEF RecordSuccess, InHand, Grip, TypeOK, Awaited, Goal
<1>8. ASSUME NEW v \in Workers, WorkerStep(v) \/ Crash(v), v # w
      PROVE  Grip(w)'
  <2>1. pc'[w] = pc[w] /\ cur'[w] = cur[w]
    BY <1>8
       DEF WorkerStep, StartTick, TryLock, Unlock, InitiateSettlement, ListActive,
           ExpireOrEscalate, BeginItems, ReadDeposit, RecheckInitiation,
           PosAnswers, PosSucceeds, PosRefuses, PosTimesOut, RecheckAfterError,
           SaveSelect, SaveUpdate, FinalizeEmpty, CompleteSettlement,
           EscalateSettlement, Finalize, StillInProgress, Crash, InitiateRefund,
           RecordSuccess, Forget, Abort, workerVars, Outcome, TypeOK
  <2> QED
    BY <2>1, GripKept
<1>9. ASSUME WorkerStep(w) \/ Crash(w), ~ReadDeposit(w), ~InitiateRefund(w),
             ~RecheckInitiation(w), ~PosAnswers(w), ~RecordSuccess(w)
      PROVE  pc'[w] \notin Holding
  BY <1>9
     DEF WorkerStep, StartTick, TryLock, Unlock, InitiateSettlement, ListActive,
         ExpireOrEscalate, BeginItems, RecheckAfterError, SaveSelect, SaveUpdate,
         FinalizeEmpty, CompleteSettlement, EscalateSettlement, Finalize,
         StillInProgress, Crash, Forget, Abort, Holding, TypeOK
<1>10. CASE LockLapses \/ ManifestLapses \/ PatchSave \/ AdminRetry
            \/ (\E d \in Deposits : PosMovesLate(d))
            \/ (\E s \in AuctionStatus : PatchValidate(s)) \/ UNCHANGED vars
  BY <1>1, <1>10 DEF LockLapses, ManifestLapses, PatchSave, AdminRetry,
                     PosMovesLate, PatchValidate, workerVars, vars
<1> QED
  BY <1>1, <1>2, <1>3, <1>4, <1>5, <1>6, <1>7, <1>8, <1>9, <1>10
     DEF Next, WorkerStep
-----------------------------------------------------------------------------
(* What is acknowledged has moved *)

\* an item list that acknowledges moved deposits only
Honest(items) ==
    \A d \in Deposits : items[d].status = "acknowledged" => Moved(d)

LEMMA AcknowledgedMovedIsHonesty ==
    AcknowledgedMoved <=>
        Honest(manifest.items) /\ \A w \in Workers : Honest(mem[w].items)
BY DEF AcknowledgedMoved, Honest

LEMMA HonestStable ==
    ASSUME TypeOK, InHand, [Next]_vars, NEW items, Honest(items)
    PROVE  \A d \in Deposits : items[d].status = "acknowledged" => Moved(d)'
BY DepositStable DEF Honest

\* Setting one item keeps a copy honest if the item is.
LEMMA SetItemHonest ==
    ASSUME TypeOK, InHand, [Next]_vars, AcknowledgedMoved,
           NEW w \in Workers, NEW d \in Deposits, NEW item \in Item,
           SetItem(w, d, item),
           item.status = "acknowledged" => Moved(d)'
    PROVE  \A v \in Workers : Honest(mem[v].items)'
<1> SUFFICES ASSUME NEW v \in Workers, NEW e \in Deposits,
                    mem'[v].items[e].status = "acknowledged"
             PROVE  Moved(e)'
  BY DEF Honest
<1>1. mem[w] \in ManifestRow /\ mem[w].items \in [Deposits -> Item]
  BY DEF TypeOK, ManifestRow
<1>2. mem' = [mem EXCEPT ![w] = [mem[w] EXCEPT !.items =
                                   [mem[w].items EXCEPT ![d] = item]]]
  BY DEF SetItem
<1>3. CASE v = w /\ e = d
  BY <1>1, <1>2, <1>3 DEF TypeOK, ManifestRow
<1>4. CASE v # w
  <2>1. mem'[v] = mem[v]
    BY <1>2, <1>4 DEF TypeOK
  <2> QED
    BY <2>1, DepositStable DEF AcknowledgedMoved
<1>5. CASE v = w /\ e # d
  <2>1. mem'[w].items = [mem[w].items EXCEPT ![d] = item]
    BY <1>1, <1>2 DEF TypeOK, ManifestRow
  <2>2. mem'[w].items[e] = mem[w].items[e]
    BY <1>1, <1>5, <2>1
  <2> QED
    BY <1>5, <2>2, DepositStable DEF AcknowledgedMoved
<1> QED
  BY <1>3, <1>4, <1>5

LEMMA ItemsHonest ==
    ASSUME TypeOK, InHand, [Next]_vars, AcknowledgedMoved,
           NEW w \in Workers, NEW d \in Deposits,
           Sent(w, d) \/ Fail(w, d) \/ (Ack(w, d) /\ Moved(d)')
    PROVE  \A v \in Workers : Honest(mem[v].items)'
<1>1. mem[w].items[d] \in Item
  BY DEF TypeOK, ManifestRow
<1>2. PICK item \in Item :
          SetItem(w, d, item) /\ (item.status = "acknowledged" => Moved(d)')
  BY <1>1 DEF Sent, Ack, Fail, Item, ItemStatus
<1> QED
  BY <1>2, SetItemHonest

LEMMA AcknowledgedInit == Init => AcknowledgedMoved
BY DEF Init, AcknowledgedMoved, NoRow, NoItem

LEMMA AcknowledgedPreserved ==
    TypeOK /\ InHand /\ AcknowledgedMoved /\ [Next]_vars => AcknowledgedMoved'
<1> SUFFICES ASSUME TypeOK, InHand, AcknowledgedMoved, [Next]_vars
             PROVE  AcknowledgedMoved'
  OBVIOUS
<1>s. SUFFICES /\ Honest(manifest.items)'
               /\ \A v \in Workers : Honest(mem[v].items)'
  BY DEF AcknowledgedMoved, Honest
<1>k. /\ UNCHANGED manifest => Honest(manifest.items)'
      /\ UNCHANGED mem => \A v \in Workers : Honest(mem[v].items)'
  BY DepositStable DEF AcknowledgedMoved, Honest
<1>f. ASSUME NEW w \in Workers, Forget(w)
      PROVE  \A v \in Workers : Honest(mem[v].items)'
  BY <1>f, DepositStable
     DEF Forget, Honest, NoRow, NoItem, AcknowledgedMoved, TypeOK
<1>1. ASSUME NEW w \in Workers,
             StartTick(w) \/ TryLock(w) \/ Unlock(w) \/ BeginItems(w)
               \/ SaveSelect(w) \/ StillInProgress(w) \/ Crash(w)
               \/ PosSucceeds(w) \/ PosTimesOut(w)
      PROVE  UNCHANGED manifest /\ (UNCHANGED mem \/ Forget(w))
  BY <1>1 DEF StartTick, TryLock, Unlock, BeginItems, SaveSelect, StillInProgress,
              Crash, PosSucceeds, PosTimesOut, Outcome
<1>2. ASSUME NEW w \in Workers, InitiateSettlement(w)
      PROVE  /\ Honest(manifest.items)'
             /\ \A v \in Workers : Honest(mem[v].items)'
  <2>1. \A d \in Deposits : NewManifest.items[d].status # "acknowledged"
    BY DEF NewManifest, NoItem
  <2>2. \/ UNCHANGED <<manifest, mem>>
        \/ manifest' = NewManifest /\ mem' = [mem EXCEPT ![w] = NewManifest]
    BY <1>2 DEF InitiateSettlement
  <2>3. CASE manifest' = NewManifest /\ mem' = [mem EXCEPT ![w] = NewManifest]
    <3>1. \A v \in Workers : mem'[v] \in {mem[v], NewManifest}
      BY <2>3 DEF TypeOK
    <3> QED
      BY <2>1, <2>3, <3>1, DepositStable DEF Honest, AcknowledgedMoved
  <2> QED
    BY <1>k, <2>2, <2>3
<1>3. ASSUME NEW w \in Workers, ListActive(w)
      PROVE  /\ UNCHANGED manifest
             /\ \A v \in Workers : Honest(mem[v].items)'
  BY <1>3, <1>f, DepositStable DEF ListActive, Honest, AcknowledgedMoved, TypeOK
<1>4. ASSUME NEW w \in Workers, NEW status \in ManifestStatus,
             mem' = [mem EXCEPT ![w].status = status], manifest' = mem'[w]
      PROVE  /\ Honest(manifest.items)'
             /\ \A v \in Workers : Honest(mem[v].items)'
  <2>1. \A v \in Workers : mem'[v].items = mem[v].items
    BY <1>4 DEF TypeOK, ManifestRow
  <2> QED
    BY <1>4, <2>1, DepositStable DEF Honest, AcknowledgedMoved
<1>5. ASSUME NEW w \in Workers, ReadDeposit(w)
      PROVE  UNCHANGED manifest /\ \A v \in Workers : Honest(mem[v].items)'
  <2>1. NextItem(w) \in Deposits
    BY <1>5, NextItemType DEF ReadDeposit, DueItems
  <2>2. \/ UNCHANGED mem
        \/ Sent(w, NextItem(w)) \/ Fail(w, NextItem(w))
        \/ Ack(w, NextItem(w)) /\ Moved(NextItem(w))
    BY <1>5 DEF ReadDeposit, Moved
  <2> QED
    BY <1>5, <1>k, <2>1, <2>2, ItemsHonest, DepositStable DEF ReadDeposit
<1>6. ASSUME NEW w \in Workers,
             InitiateRefund(w) \/ RecheckInitiation(w) \/ PosRefuses(w)
               \/ RecordSuccess(w) \/ RecheckAfterError(w)
      PROVE  UNCHANGED manifest /\ \A v \in Workers : Honest(mem[v].items)'
  <2>1. PICK d \in Deposits : d = cur[w]
    BY <1>6 DEF InitiateRefund, RecheckInitiation, PosRefuses, RecordSuccess,
                RecheckAfterError, InHand
  <2>2. \/ UNCHANGED mem
        \/ Sent(w, d) \/ Fail(w, d)
        \/ Ack(w, d) /\ Moved(d)'
    <3>1. CASE InitiateRefund(w)
      BY <2>1, <3>1 DEF InitiateRefund, Outcome
    <3>2. CASE RecheckInitiation(w)
      BY <2>1, <3>2, DepositStable DEF RecheckInitiation, InHand, Moved, Goal
    <3>3. CASE PosRefuses(w)
      BY <2>1, <3>3 DEF PosRefuses
    <3>4. CASE RecordSuccess(w)
      <4>1. UNCHANGED mem \/ Ack(w, d)
        BY <2>1, <3>4 DEF RecordSuccess
      <4>2. Ack(w, d) =>
              \/ ~MayRecord(d) /\ UNCHANGED moneyVars
              \/ RecordMove(d)
              \/ UNCHANGED mem
        BY <2>1, <3>4 DEF RecordSuccess
      <4>3. ~MayRecord(d) => Moved(d)
        BY <2>1, <3>4 DEF RecordSuccess, MayRecord, InHand, Moved
      <4>4. RecordMove(d) => Moved(d)'
        BY <2>1, MonotoneStep DEF RecordMove, Move, Moved, Goal, TypeOK
      <4> QED
        BY <2>1, <4>1, <4>2, <4>3, <4>4, DepositStable
    <3>5. CASE RecheckAfterError(w)
      BY <2>1, <3>5, DepositStable DEF RecheckAfterError, Recovered, Moved
    <3> QED
      BY <1>6, <3>1, <3>2, <3>3, <3>4, <3>5
  <2> QED
    BY <1>6, <1>k, <2>1, <2>2, ItemsHonest
       DEF InitiateRefund, RecheckInitiation, PosRefuses, RecordSuccess,
           RecheckAfterError
<1>7. ASSUME NEW w \in Workers, SaveUpdate(w)
      PROVE  Honest(manifest.items)' /\ UNCHANGED mem
  <2>1. manifest'.items \in {manifest.items, mem[w].items} /\ UNCHANGED mem
    BY <1>7 DEF SaveUpdate, Written
  <2> QED
    BY <2>1, DepositStable DEF Honest, AcknowledgedMoved
<1>8. ASSUME NEW w \in Workers, ExpireOrEscalate(w) \/ FinalizeEmpty(w)
                                  \/ CompleteSettlement(w) \/ EscalateSettlement(w)
      PROVE  /\ Honest(manifest.items)'
             /\ \A v \in Workers : Honest(mem[v].items)'
  <2>1. \/ UNCHANGED <<mem, manifest>>
        \/ \E status \in ManifestStatus :
             mem' = [mem EXCEPT ![w].status = status] /\ manifest' = mem'[w]
    BY <1>8 DEF ExpireOrEscalate, GiveUp, FinalizeEmpty, CompleteSettlement,
                EscalateSettlement, Finalize, Close, ManifestStatus
  <2> QED
    BY <1>4, <1>k, <2>1
<1>9. CASE AdminRetry
  <2>1. \A d \in Deposits : manifest'.items[d].status = "acknowledged" =>
                              manifest.items[d].status = "acknowledged"
    BY <1>9 DEF AdminRetry, Reset, FailedItems
  <2> QED
    BY <1>9, <1>k, <2>1, DepositStable
       DEF AdminRetry, workerVars, Honest, AcknowledgedMoved
<1>10. CASE LockLapses \/ ManifestLapses \/ PatchSave
            \/ (\E d \in Deposits : PosMovesLate(d))
            \/ (\E s \in AuctionStatus : PatchValidate(s)) \/ UNCHANGED vars
  BY <1>k, <1>10 DEF LockLapses, ManifestLapses, PatchSave, PosMovesLate,
                     PatchValidate, workerVars, vars
<1> QED
  BY <1>k, <1>f, <1>1, <1>2, <1>3, <1>5, <1>6, <1>7, <1>8, <1>9, <1>10
     DEF Next, WorkerStep, PosAnswers
-----------------------------------------------------------------------------
(* The theorems about deposits and the ledger *)

\* the inductive invariant of the settlement's money
IInv == TypeOK /\ InHand /\ MoneyInv /\ AcknowledgedMoved

LEMMA IInvInductive == Spec => []IInv
<1>1. Init => IInv
  BY InitType, MoneyInit, AcknowledgedInit DEF IInv, InHand, Init
<1>2. IInv /\ [Next]_vars => IInv'
  BY StepType, InHandPreserved, MoneyPreserved, AcknowledgedPreserved DEF IInv
<1> QED
  BY <1>1, <1>2, PTL DEF Spec

\* Every variable keeps its type, in particular every status stays in its enum.
THEOREM TypeCorrect == Spec => []TypeOK
<1>1. IInv => TypeOK
  BY DEF IInv
<1> QED
  BY <1>1, IInvInductive, PTL

\* However many workers process an item at once, the ledger has one line per
\* transition of a deposit.
THEOREM LedgerCorrect == Spec => []LedgerMatchesDeposit
<1>1. IInv => LedgerMatchesDeposit
  BY DEF IInv, MoneyInv
<1> QED
  BY <1>1, IInvInductive, PTL

\* The database records a capture or a refund only after the POS has made it.
THEOREM MoneyFirst == Spec => []MoneyMovedFirst
<1>1. IInv => MoneyMovedFirst
  BY DEF IInv, MoneyInv
<1> QED
  BY <1>1, IInvInductive, PTL

\* An acknowledged item is a moved deposit, in the row and in every copy of it.
THEOREM AcknowledgedCorrect == Spec => []AcknowledgedMoved
<1>1. IInv => AcknowledgedMoved
  BY DEF IInv
<1> QED
  BY <1>1, IInvInductive, PTL

\* The settlement takes only the promised steps on the payment tables.
THEOREM ImplementsLedger == Spec => LedgerPromise
<1>1. Init => DL!LedgerInit
  BY DEF Init, DL!LedgerInit, NoLines, DL!NoLines, LedgerEvent, DL!LedgerEvent
<1>2. IInv /\ [Next]_vars => [DL!LedgerNext]_(DL!ledgerVars)
  <2> SUFFICES ASSUME IInv, [Next]_vars
               PROVE  DL!LedgerNext \/ UNCHANGED moneyVars
    BY DEF DL!ledgerVars, moneyVars
  <2>1. ASSUME NEW d \in Deposits, Initiated(d) PROVE DL!LedgerNext
    BY <2>1 DEF Initiated, Move, DL!LedgerNext, DL!InitiateRefund, DL!AppendLine
  <2>2. ASSUME NEW d \in Deposits, Recorded(d) PROVE DL!LedgerNext
    <3>1. CASE d = winner
      <4>1. refund' = refund
        BY <2>2, <3>1 DEF Recorded, RecordMove, Move, IInv, TypeOK
      <4> QED
        BY <2>2, <3>1, <4>1
           DEF Recorded, RecordMove, Move, Awaited, DL!LedgerNext, DL!Capture,
               DL!AppendLine
    <3>2. CASE d # winner
      BY <2>2, <3>2
         DEF Recorded, RecordMove, Move, Awaited, DL!LedgerNext,
             DL!CompleteRefund, DL!AppendLine
    <3> QED
      BY <3>1, <3>2
  <2> QED
    BY <2>1, <2>2, MoneyStep DEF IInv
<1> QED
  BY <1>1, <1>2, IInvInductive, PTL DEF Spec, LedgerPromise, DL!LedgerSpec

-----------------------------------------------------------------------------
(* The lock *)

\* Only a worker's own step, or the TTL, takes the lock away from it.
LEMMA UnlockStep ==
    ASSUME TypeOK, [Next]_vars, NEW w \in Workers, lock = w, lock' # w
    PROVE  pc' = pc \/ (pc[w] \in {"initRelease", "release"} /\ pc'[w] # pc[w])
<1>1. ASSUME NEW v \in Workers, Unlock(v)
      PROVE  pc[w] \in {"initRelease", "release"} /\ pc'[w] # pc[w]
  BY <1>1 DEF Unlock, AfterRelease, Forget, Goto, TypeOK
<1>2. ASSUME NEW v \in Workers, TryLock(v) PROVE lock' = lock
  BY <1>2 DEF TryLock, LockFree
<1>3. ASSUME NEW v \in Workers, WorkerStep(v) \/ Crash(v),
             ~Unlock(v), ~TryLock(v)
      PROVE  lock' = lock
  BY <1>3
     DEF WorkerStep, StartTick, InitiateSettlement, ListActive,
         ExpireOrEscalate, BeginItems, ReadDeposit, RecheckInitiation, PosAnswers,
         PosSucceeds, PosRefuses, PosTimesOut, RecheckAfterError, SaveSelect,
         SaveUpdate, FinalizeEmpty, CompleteSettlement, EscalateSettlement,
         Finalize, StillInProgress, Crash, InitiateRefund, RecordSuccess
<1>4. CASE LockLapses \/ ManifestLapses \/ PatchSave \/ AdminRetry
           \/ (\E d \in Deposits : PosMovesLate(d))
           \/ (\E s \in AuctionStatus : PatchValidate(s)) \/ UNCHANGED vars
  BY <1>4 DEF LockLapses, ManifestLapses, PatchSave, AdminRetry, PosMovesLate,
              PatchValidate, workerVars, vars
<1> QED
  BY <1>1, <1>2, <1>3, <1>4 DEF Next

\* The compare-and-delete release never frees somebody else's lock, whatever
\* TTLs run out and whichever replies are lost.
THEOREM ReleaseByHolder == Spec => OnlyHolderUnlocks
<1>1. TypeOK /\ [Next]_vars =>
        [\A w \in Workers :
           lock = w /\ lock' # w =>
             \/ pc' = pc
             \/ pc[w] \in {"initRelease", "release"} /\ pc'[w] # pc[w]]_vars
  BY UnlockStep
<1> QED
  BY <1>1, TypeCorrect, PTL DEF Spec, OnlyHolderUnlocks

LEMMA LockedPreserved ==
    ASSUME TypeOK, ~LockMayLapse, OneWorkerAtATime, [Next]_vars
    PROVE  OneWorkerAtATime'
<1> SUFFICES ASSUME NEW w \in Workers, pc'[w] \in LockedStep
             PROVE  lock' = w
  BY DEF OneWorkerAtATime
<1> USE DEF Goto, RetryOrThrow
<1>1. ASSUME NEW v \in Workers, TryLock(v) PROVE lock' = w
  BY <1>1 DEF TryLock, LockFree, Forget, OneWorkerAtATime, LockedStep, TypeOK
<1>2. ASSUME NEW v \in Workers, Unlock(v) PROVE lock' = w
  BY <1>2 DEF Unlock, AfterRelease, Forget, OneWorkerAtATime, LockedStep, TypeOK
<1>3. ASSUME NEW v \in Workers, WorkerStep(v) \/ Crash(v),
             ~Unlock(v), ~TryLock(v)
      PROVE  lock' = lock /\ pc[w] \in LockedStep
  <2>1. CASE pc'[w] = pc[w]
    BY <1>3, <2>1
       DEF WorkerStep, StartTick, InitiateSettlement, ListActive,
           ExpireOrEscalate, BeginItems, ReadDeposit, RecheckInitiation,
           PosAnswers, PosSucceeds, PosRefuses, PosTimesOut, RecheckAfterError,
           SaveSelect, SaveUpdate, FinalizeEmpty, CompleteSettlement,
           EscalateSettlement, Finalize, StillInProgress, Crash, InitiateRefund,
           RecordSuccess
  <2>2. CASE pc'[w] # pc[w]
    BY <1>3, <2>2
       DEF WorkerStep, StartTick, InitiateSettlement, ListActive,
           ExpireOrEscalate, BeginItems, ReadDeposit, RecheckInitiation,
           PosAnswers, PosSucceeds, PosRefuses, PosTimesOut, RecheckAfterError,
           SaveSelect, SaveUpdate, FinalizeEmpty, CompleteSettlement,
           EscalateSettlement, Finalize, StillInProgress, Crash, InitiateRefund,
           RecordSuccess, Forget, Abort, Outcome, LockedStep, TypeOK
  <2> QED
    BY <2>1, <2>2
<1>4. CASE LockLapses
  BY <1>4 DEF LockLapses, OneWorkerAtATime, workerVars
<1>5. CASE ManifestLapses \/ PatchSave \/ AdminRetry
           \/ (\E d \in Deposits : PosMovesLate(d))
           \/ (\E s \in AuctionStatus : PatchValidate(s)) \/ UNCHANGED vars
  BY <1>5 DEF ManifestLapses, PatchSave, AdminRetry, PosMovesLate,
              PatchValidate, workerVars, vars, OneWorkerAtATime
<1> QED
  BY <1>1, <1>2, <1>3, <1>4, <1>5 DEF Next, OneWorkerAtATime

\* With TTLs long enough for what they guard, the lock is a mutual exclusion
\* for any number of instances, whatever crashes and whichever replies are lost.
THEOREM MutualExclusion ==
    ASSUME ~LockMayLapse
    PROVE  Spec => []OneWorkerAtATime
<1>1. Init => OneWorkerAtATime
  BY DEF Init, OneWorkerAtATime, LockedStep
<1>2. TypeOK /\ OneWorkerAtATime /\ [Next]_vars => OneWorkerAtATime'
  BY LockedPreserved
<1> QED
  BY <1>1, <1>2, TypeCorrect, PTL DEF Spec
=============================================================================
