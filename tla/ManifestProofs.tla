---------------------------- MODULE ManifestProofs ----------------------------
(***************************************************************************)
(* Proofs about the manifest of module Settlement and the copies of it     *)
(* that the workers hold: which deposits it lists, what is saved to it,    *)
(* and what a settled auction says of it.  For any number of workers,      *)
(* deposits, retries and faults; the assumptions on locks and PATCHes are  *)
(* named where a theorem needs them.                                       *)
(***************************************************************************)
EXTENDS SettlementProofs, FiniteSetTheorems

-----------------------------------------------------------------------------
(* What a copy has to do with the row *)

\* steps at which the worker has a manifest in memory; at those in Holding it has
\* an item of it in hand
Working == {"lock", "check", "loop", "initRefund", "recheckInit", "pos", "record",
            "recheck", "save", "write", "saveProgress", "writeProgress",
            "finalizeEmpty"}

\* what a deposit that a manifest lists may have become
Listable(d) == deposit[d] \in {"held", Awaited(d), Goal(d)}

\* A copy, however old, lists what the row lists, and an item is "sent" in it
\* only while the worker has it in hand (or gives the tick up over it).
Copied(v) ==
    /\ mem[v].status = "absent" => Listed(mem[v].items) = {}
    /\ mem[v].status # "absent" =>
         /\ manifest.status # "absent"
         /\ Listed(mem[v].items) = Listed(manifest.items)
    /\ pc[v] \in Working => mem[v].status # "absent"
    /\ pc[v] \in Holding => cur[v] \in Listed(mem[v].items)
    /\ pc[v] = "finalizeEmpty" => Listed(mem[v].items) = {}
    /\ \A d \in Deposits : mem[v].items[d].status = "sent" =>
         \/ pc[v] \in {"pos", "record", "recheck"} /\ d = cur[v]
         \/ pc[v] = "release"

RowSound ==
    /\ manifest.status = "absent" => Listed(manifest.items) = {}
    /\ \A d \in Listed(manifest.items) : Listable(d)
    /\ NoneSavedAsSent

MInv == RowSound /\ \A v \in Workers : Copied(v)

\* The row keeps its list.
RowKept ==
    manifest.status # "absent" =>
       manifest'.status # "absent" /\ Listed(manifest'.items) = Listed(manifest.items)

-----------------------------------------------------------------------------
(* What every step leaves alone *)

LEMMA OthersStay ==
    ASSUME TypeOK, NEW w \in Workers, NEW v \in Workers \ {w}, WorkerStep(w) \/ Crash(w)
    PROVE  pc'[v] = pc[v] /\ mem'[v] = mem[v] /\ cur'[v] = cur[v]
<1>1. pc'[v] = pc[v]
  BY DEF WorkerStep, StartTick, TryLock, Unlock, InitiateSettlement, ListActive,
       ExpireOrEscalate, BeginItems, ReadDeposit, RecheckInitiation, PosAnswers,
       PosSucceeds, PosRefuses, PosTimesOut, RecheckAfterError, SaveSelect,
       SaveUpdate, FinalizeEmpty, CompleteSettlement, EscalateSettlement,
       Finalize, StillInProgress, Crash, InitiateRefund, RecordSuccess, Forget,
       Abort, Goto, RetryOrThrow, Outcome, TypeOK
<1>2. cur'[v] = cur[v]
  BY DEF WorkerStep, StartTick, TryLock, Unlock, InitiateSettlement, ListActive,
       ExpireOrEscalate, BeginItems, ReadDeposit, RecheckInitiation, PosAnswers,
       PosSucceeds, PosRefuses, PosTimesOut, RecheckAfterError, SaveSelect,
       SaveUpdate, FinalizeEmpty, CompleteSettlement, EscalateSettlement,
       Finalize, StillInProgress, Crash, InitiateRefund, RecordSuccess, Forget,
       Outcome, TypeOK
<1>3. mem'[v] = mem[v]
  BY DEF WorkerStep, StartTick, TryLock, Unlock, InitiateSettlement, ListActive,
       ExpireOrEscalate, GiveUp, BeginItems, ReadDeposit, RecheckInitiation, PosAnswers,
       PosSucceeds, PosRefuses, PosTimesOut, RecheckAfterError, SaveSelect,
       SaveUpdate, FinalizeEmpty, CompleteSettlement, EscalateSettlement,
       Finalize, Close, StillInProgress, Crash, InitiateRefund, RecordSuccess, Forget,
       SetItem, Sent, Ack, Fail, Outcome, TypeOK
<1> QED
  BY <1>1, <1>2, <1>3

\* Deposits that a manifest lists go on being such.
LEMMA ListableStable ==
    ASSUME TypeOK, InHand, [Next]_vars, NEW d \in Deposits, Listable(d)
    PROVE  Listable(d)'
<1>1. Goal(d)' = Goal(d) /\ Awaited(d)' = Awaited(d)
  BY MonotoneStep DEF Goal, Awaited
<1>2. CASE UNCHANGED moneyVars
  BY <1>1, <1>2 DEF moneyVars, Listable
<1>3. ASSUME NEW e \in Deposits, Initiated(e) PROVE Listable(d)'
  BY <1>1, <1>3 DEF Initiated, Move, Listable, Goal, Awaited, TypeOK
<1>4. ASSUME NEW e \in Deposits, Recorded(e) PROVE Listable(d)'
  BY <1>1, <1>4 DEF Recorded, RecordMove, Move, Listable, Goal, Awaited, TypeOK
<1> QED
  BY <1>2, <1>3, <1>4, MoneyStep

\* A row that lists nothing new and has nothing sent in it is as sound as before.
LEMMA RowStaysSound ==
    ASSUME TypeOK, InHand, [Next]_vars, RowSound,
           manifest'.status = "absent" => Listed(manifest'.items) = {},
           Listed(manifest'.items) \subseteq Listed(manifest.items),
           \A d \in Deposits : manifest'.items[d].status # "sent"
    PROVE  RowSound'
BY ListableStable DEF RowSound, NoneSavedAsSent, Listed

LEMMA RowUntouched ==
    ASSUME TypeOK, InHand, [Next]_vars, RowSound, UNCHANGED manifest
    PROVE  RowKept /\ RowSound'
BY RowStaysSound DEF RowSound, RowKept, NoneSavedAsSent

LEMMA CopyUntouched ==
    ASSUME NEW v \in Workers, Copied(v), RowKept,
           mem'[v] = mem[v], pc'[v] = pc[v], cur'[v] = cur[v]
    PROVE  Copied(v)'
BY DEF Copied, RowKept, Listed

\* A worker goes on with the copy it has.
LEMMA CopyCarried ==
    ASSUME NEW w \in Workers, Copied(w), RowKept, mem'[w] = mem[w],
           pc'[w] \in Working => pc[w] \in Working,
           pc'[w] \in Holding => cur'[w] \in Listed(mem[w].items),
           pc'[w] # "finalizeEmpty",
           pc[w] \in {"pos", "record", "recheck"} =>
              \/ pc'[w] = "release"
              \/ pc'[w] \in {"pos", "record", "recheck"} /\ cur'[w] = cur[w],
           pc[w] = "release" => pc'[w] = "release"
    PROVE  Copied(w)'
BY DEF Copied, RowKept, Listed

LEMMA CopyForgotten ==
    ASSUME TypeOK, NEW w \in Workers, Forget(w)
    PROVE  Copied(w)'
<1>1. mem'[w] = NoRow /\ pc'[w] = "idle"
  BY DEF Forget, Goto, TypeOK
<1> QED
  BY <1>1 DEF Copied, NoRow, NoItem, Listed, Working, Holding

\* An item that changes its status keeps its place in the list.
LEMMA ItemKeepsList ==
    ASSUME TypeOK, NEW w \in Workers, NEW d \in Listed(mem[w].items), NEW item,
           item.status # "none", SetItem(w, d, item)
    PROVE  /\ mem'[w].status = mem[w].status
           /\ mem'[w].items[d] = item
           /\ \A e \in Deposits \ {d} : mem'[w].items[e] = mem[w].items[e]
           /\ Listed(mem'[w].items) = Listed(mem[w].items)
<1>1. mem[w] \in ManifestRow /\ mem[w].items \in [Deposits -> Item] /\ d \in Deposits
  BY DEF TypeOK, ManifestRow, Listed
<1>2. mem'[w] = [mem[w] EXCEPT !.items = [mem[w].items EXCEPT ![d] = item]]
  BY DEF SetItem, TypeOK
<1>3. mem'[w].status = mem[w].status /\ mem'[w].items = [mem[w].items EXCEPT ![d] = item]
  BY <1>1, <1>2 DEF ManifestRow
<1> QED
  BY <1>1, <1>3 DEF Listed

\* An item in hand is sent, acknowledged or failed.
LEMMA CopyWorkedOn ==
    ASSUME TypeOK, NEW w \in Workers, Copied(w), RowKept, pc[w] \in Working,
           NEW d \in Listed(mem[w].items),
           \/ Sent(w, d) /\ pc'[w] = "pos" /\ cur'[w] = d
           \/ (Ack(w, d) \/ Fail(w, d)) /\ pc'[w] = "save",
           pc[w] \in {"pos", "record", "recheck"} => cur[w] = d
    PROVE  Copied(w)'
<1>1. mem[w].items[d] \in Item
  BY DEF TypeOK, ManifestRow, Listed
<1>2. PICK item \in Item :
        /\ item.status \in {"sent", "acknowledged", "failed"} /\ SetItem(w, d, item)
        /\ item.status = "sent" => pc'[w] = "pos" /\ cur'[w] = d
        /\ item.status # "sent" => pc'[w] = "save"
  BY <1>1 DEF Sent, Ack, Fail, Item, ItemStatus
<1>3. /\ mem'[w].status = mem[w].status
      /\ mem'[w].items[d] = item
      /\ \A e \in Deposits \ {d} : mem'[w].items[e] = mem[w].items[e]
      /\ Listed(mem'[w].items) = Listed(mem[w].items)
  BY <1>2, ItemKeepsList
<1>4. \A e \in Deposits \ {d} : mem[w].items[e].status # "sent"
  BY DEF Copied, Working
<1> QED
  BY <1>2, <1>3, <1>4 DEF Copied, RowKept, Listed, Working, Holding

-----------------------------------------------------------------------------
(* Each step of a worker *)

\* Steps that leave row and copy alone, or drop the copy.
LEMMA QuietKeeps ==
    ASSUME TypeOK, InHand, MInv, [Next]_vars, NEW w \in Workers,
           StartTick(w) \/ TryLock(w) \/ Unlock(w) \/ BeginItems(w)
             \/ SaveSelect(w) \/ StillInProgress(w) \/ Crash(w)
             \/ PosSucceeds(w) \/ PosTimesOut(w)
    PROVE  RowKept /\ RowSound' /\ Copied(w)'
<1> USE DEF Goto
<1>1. UNCHANGED manifest
  BY DEF StartTick, TryLock, Unlock, BeginItems, SaveSelect, StillInProgress,
         Crash, PosSucceeds, PosTimesOut
<1>2. RowKept /\ RowSound'
  BY <1>1, RowUntouched DEF MInv
<1>3. Copied(w)
  BY DEF MInv
<1>4. CASE Forget(w)
  BY <1>2, <1>4, CopyForgotten
<1>5. CASE ~Forget(w)
  <2>1. mem' = mem
    BY <1>5 DEF StartTick, TryLock, Unlock, BeginItems, SaveSelect, StillInProgress,
           Crash, PosSucceeds, PosTimesOut
  <2>2. /\ pc'[w] \in Working => pc[w] \in Working
        /\ pc'[w] # "finalizeEmpty"
        /\ pc[w] = "release" => pc'[w] = "release"
    BY <1>5 DEF StartTick, TryLock, Unlock, BeginItems, SaveSelect, StillInProgress,
           Crash, PosSucceeds, PosTimesOut, Abort, Working, TypeOK
  <2>3. /\ pc'[w] \in Holding => pc[w] \in Holding /\ cur' = cur
        /\ pc[w] \in {"pos", "record", "recheck"} =>
              pc'[w] \in {"pos", "record", "recheck"} /\ cur' = cur
    BY <1>5 DEF StartTick, TryLock, Unlock, BeginItems, SaveSelect, StillInProgress,
           Crash, PosSucceeds, PosTimesOut, Abort, Holding, TypeOK
  <2>4. pc'[w] \in Holding => cur'[w] \in Listed(mem[w].items)
    BY <1>3, <2>3 DEF Copied
  <2> QED
    BY <1>2, <1>3, <2>1, <2>2, <2>3, <2>4, CopyCarried
<1> QED
  BY <1>4, <1>5

LEMMA InitiateKeeps ==
    ASSUME TypeOK, InHand, MInv, [Next]_vars, NEW w \in Workers, InitiateSettlement(w)
    PROVE  RowKept /\ RowSound' /\ Copied(w)'
<1>1. CASE UNCHANGED <<manifest, mem>>
  <2>1. RowKept /\ RowSound'
    BY <1>1, RowUntouched DEF MInv
  <2>2. pc[w] = "initiate" /\ pc'[w] \in {"initRelease", "finalizeEmpty"}
    BY DEF InitiateSettlement, Goto, TypeOK
  <2>3. pc'[w] # "finalizeEmpty"
    <3>1. NewManifest.status = "active"
      BY DEF NewManifest
    <3>2. ~(MayInitiate /\ manifest' = NewManifest)
      BY <1>1, <3>1 DEF MayInitiate
    <3> QED
      BY <3>2 DEF InitiateSettlement, Goto, TypeOK
  <2> QED
    BY <1>1, <2>1, <2>2, <2>3, CopyCarried DEF MInv, Working, Holding
<1>2. CASE /\ MayInitiate /\ manifest' = NewManifest
           /\ mem' = [mem EXCEPT ![w] = NewManifest]
  <2>1. /\ mem'[w] = NewManifest /\ NewManifest.status = "active"
        /\ \A d \in Deposits : NewManifest.items[d].status \in {"none", "pending"}
    BY <1>2 DEF TypeOK, NewManifest, NoItem
  <2>2. RowKept
    BY <1>2 DEF MayInitiate, RowKept
  <2>3. RowSound'
    <3>1. \A d \in Listed(NewManifest.items) : deposit[d] = "held"
      BY DEF Listed, NewManifest, NoItem
    <3>2. \A d \in Deposits : deposit'[d] = deposit[d]
      BY DEF InitiateSettlement, moneyVars
    <3> QED
      BY <1>2, <2>1, <3>1, <3>2 DEF RowSound, Listable, NoneSavedAsSent, Listed
  <2>4. /\ pc'[w] \in {"initRelease", "finalizeEmpty"}
        /\ pc'[w] = "finalizeEmpty" => Listed(NewManifest.items) = {}
    BY DEF InitiateSettlement, Goto, TypeOK
  <2>5. Copied(w)'
    BY <1>2, <2>1, <2>4 DEF Copied, Working, Holding, Listed
  <2> QED
    BY <2>2, <2>3, <2>5
<1> QED
  BY <1>1, <1>2 DEF InitiateSettlement

LEMMA ListKeeps ==
    ASSUME TypeOK, InHand, MInv, [Next]_vars, NEW w \in Workers, ListActive(w)
    PROVE  RowKept /\ RowSound' /\ Copied(w)'
<1>1. RowKept /\ RowSound'
  BY RowUntouched DEF ListActive, MInv
<1>2. CASE Forget(w)
  BY <1>1, <1>2, CopyForgotten
<1>3. CASE /\ manifest.status = "active" /\ mem' = [mem EXCEPT ![w] = manifest]
           /\ Goto(w, "lock")
  <2>1. mem'[w] = manifest /\ pc'[w] = "lock" /\ manifest' = manifest
    BY <1>3 DEF ListActive, TypeOK, Goto
  <2> QED
    BY <1>1, <1>3, <2>1
       DEF Copied, Working, Holding, Listed, MInv, RowSound, NoneSavedAsSent
<1> QED
  BY <1>2, <1>3 DEF ListActive

\* The row takes over the copy with another status.
LEMMA StatusKeeps ==
    ASSUME TypeOK, InHand, MInv, [Next]_vars, NEW w \in Workers,
           pc[w] \in Working \ {"pos", "record", "recheck"},
           NEW status \in ManifestStatus \ {"absent"},
           mem' = [mem EXCEPT ![w].status = status], manifest' = mem'[w],
           pc'[w] \in {"release", "initRelease"}
    PROVE  RowKept /\ RowSound' /\ Copied(w)'
<1>1. mem'[w].items = mem[w].items /\ mem'[w].status = status
  BY DEF TypeOK, ManifestRow
<1>2. Listed(mem[w].items) = Listed(manifest.items)
  BY DEF MInv, Copied
<1>3. \A d \in Deposits : mem[w].items[d].status # "sent"
  BY DEF MInv, Copied, Working
<1>4. RowKept
  BY <1>1, <1>2 DEF RowKept, Listed
<1>5. RowSound'
  BY <1>1, <1>2, <1>3, RowStaysSound DEF MInv, Listed
<1>6. Copied(w)'
  BY <1>1, <1>2, <1>3 DEF Copied, Working, Holding, Listed
<1> QED
  BY <1>4, <1>5, <1>6

\* Expiry, oversize and the three ways to finalize.
LEMMA EndingKeeps ==
    ASSUME TypeOK, InHand, MInv, [Next]_vars, NEW w \in Workers,
           ExpireOrEscalate(w) \/ FinalizeEmpty(w)
             \/ CompleteSettlement(w) \/ EscalateSettlement(w)
    PROVE  RowKept /\ RowSound' /\ Copied(w)'
<1>1. \/ UNCHANGED <<mem, manifest>>
      \/ \E status \in ManifestStatus \ {"absent"} :
           mem' = [mem EXCEPT ![w].status = status] /\ manifest' = mem'[w]
  BY DEF ExpireOrEscalate, GiveUp, FinalizeEmpty, CompleteSettlement,
         EscalateSettlement, Finalize, Close, ManifestStatus
<1>2. /\ pc[w] \in {"check", "finalizeEmpty", "loop"}
      /\ pc'[w] \in {"release", "initRelease"}
  BY DEF ExpireOrEscalate, FinalizeEmpty, CompleteSettlement, EscalateSettlement,
         Finalize, Goto, TypeOK
<1>3. CASE UNCHANGED <<mem, manifest>>
  BY <1>2, <1>3, RowUntouched, CopyCarried DEF MInv, Working, Holding
<1> QED
  BY <1>1, <1>2, <1>3, StatusKeeps DEF Working

LEMMA ReadKeeps ==
    ASSUME TypeOK, InHand, MInv, [Next]_vars, NEW w \in Workers, ReadDeposit(w)
    PROVE  RowKept /\ RowSound' /\ Copied(w)'
<1> USE DEF Goto
<1>1. RowKept /\ RowSound'
  BY RowUntouched DEF ReadDeposit, MInv
<1>2. PICK d \in Deposits : d = NextItem(w) /\ d \in Listed(mem[w].items)
  BY NextItemType DEF ReadDeposit, DueItems, Due, Listed
<1>3. pc[w] = "loop" /\ cur'[w] = d
  BY <1>2 DEF ReadDeposit, TypeOK
<1>4. \/ UNCHANGED mem /\ pc'[w] \in {"initRefund", "release"}
      \/ Sent(w, d) /\ pc'[w] = "pos" /\ cur'[w] = d
      \/ (Ack(w, d) \/ Fail(w, d)) /\ pc'[w] = "save"
  BY <1>2, <1>3 DEF ReadDeposit, Abort, TypeOK
<1>5. CASE UNCHANGED mem /\ pc'[w] \in {"initRefund", "release"}
  BY <1>1, <1>2, <1>3, <1>5, CopyCarried DEF MInv, Working, Holding
<1> QED
  BY <1>1, <1>2, <1>3, <1>4, <1>5, CopyWorkedOn DEF MInv, Working

LEMMA HandleKeeps ==
    ASSUME TypeOK, InHand, MInv, [Next]_vars, NEW w \in Workers,
           InitiateRefund(w) \/ RecheckInitiation(w) \/ PosRefuses(w)
             \/ RecordSuccess(w) \/ RecheckAfterError(w)
    PROVE  RowKept /\ RowSound' /\ Copied(w)'
<1> USE DEF Goto
<1>1. RowKept /\ RowSound'
  BY RowUntouched DEF InitiateRefund, RecheckInitiation, PosRefuses, RecordSuccess,
                      RecheckAfterError, MInv
<1>2. pc[w] \in Holding
  BY DEF InitiateRefund, RecheckInitiation, PosRefuses, RecordSuccess,
         RecheckAfterError, Holding
<1>3. PICK d \in Listed(mem[w].items) : d = cur[w]
  BY <1>2 DEF MInv, Copied
<1>4. cur' = cur
  BY DEF InitiateRefund, RecheckInitiation, PosRefuses, RecordSuccess, RecheckAfterError
<1>5. \/ /\ UNCHANGED mem
         /\ \/ pc'[w] = "release"
            \/ pc[w] = "initRefund" /\ pc'[w] \in {"initRefund", "recheckInit"}
            \/ pc[w] = "record" /\ pc'[w] \in {"record", "recheck"}
      \/ Sent(w, d) /\ pc'[w] = "pos"
      \/ (Ack(w, d) \/ Fail(w, d)) /\ pc'[w] = "save"
  <2>1. CASE InitiateRefund(w)
    BY <1>3, <2>1, ZenonT(40) DEF InitiateRefund, RetryOrThrow, Outcome, TypeOK
  <2>2. CASE RecheckInitiation(w) \/ RecheckAfterError(w)
    BY <1>3, <2>2 DEF RecheckInitiation, RecheckAfterError, Abort, TypeOK
  <2>3. CASE PosRefuses(w)
    BY <1>3, <2>3 DEF PosRefuses, TypeOK
  <2>4. CASE RecordSuccess(w)
    BY <1>3, <2>4 DEF RecordSuccess, RetryOrThrow, TypeOK
  <2> QED
    BY <2>1, <2>2, <2>3, <2>4
<1>6. CASE UNCHANGED mem
  <2>1. pc'[w] \in Holding \cup {"release", "pos", "save"}
    BY <1>5 DEF Holding
  <2>2. CASE pc'[w] \notin {"pos", "save"}
    BY <1>1, <1>2, <1>3, <1>4, <1>5, <1>6, <2>1, <2>2, CopyCarried DEF MInv, Working, Holding
  <2>3. CASE pc'[w] \in {"pos", "save"}
    BY <1>1, <1>2, <1>3, <1>4, <1>5, <2>3, CopyWorkedOn DEF MInv, Working, Holding
  <2> QED
    BY <2>2, <2>3
<1> QED
  BY <1>1, <1>2, <1>3, <1>4, <1>5, <1>6, CopyWorkedOn DEF MInv, Working, Holding

LEMMA SaveKeeps ==
    ASSUME TypeOK, InHand, MInv, [Next]_vars, NEW w \in Workers, SaveUpdate(w)
    PROVE  RowKept /\ RowSound' /\ Copied(w)'
<1> USE DEF Goto
<1>1. /\ manifest'.items \in {manifest.items, mem[w].items}
      /\ manifest'.status \in {manifest.status, mem[w].status}
      /\ UNCHANGED <<mem, cur>>
  BY DEF SaveUpdate, Written
<1>2. pc[w] \in {"write", "writeProgress"} /\ pc'[w] \in {"loop", "release"}
  BY DEF SaveUpdate, TypeOK
<1>3. /\ mem[w].status # "absent" /\ manifest.status # "absent"
      /\ Listed(mem[w].items) = Listed(manifest.items)
      /\ \A d \in Deposits : mem[w].items[d].status # "sent"
  BY <1>2 DEF MInv, Copied, Working
<1>4. RowKept
  BY <1>1, <1>3 DEF RowKept
<1>5. RowSound'
  BY <1>1, <1>3, RowStaysSound DEF MInv, RowSound, NoneSavedAsSent
<1>6. Copied(w)'
  BY <1>1, <1>2, <1>4, CopyCarried DEF MInv, Working, Holding
<1> QED
  BY <1>4, <1>5, <1>6

\* The admin's retry and the environment.
LEMMA RowAlone ==
    ASSUME TypeOK, InHand, MInv, [Next]_vars,
           LockLapses \/ ManifestLapses \/ PatchSave \/ AdminRetry
             \/ (\E d \in Deposits : PosMovesLate(d))
             \/ (\E s \in AuctionStatus : PatchValidate(s)) \/ UNCHANGED vars
    PROVE  RowKept /\ RowSound' /\ UNCHANGED <<pc, mem, cur>>
<1>1. CASE AdminRetry
  <2>1. \/ UNCHANGED manifest
        \/ manifest' = [status |-> "active", items |-> Reset(manifest.items)]
    BY <1>1 DEF AdminRetry
  <2>2. manifest.status = "escalated" /\ UNCHANGED <<pc, mem, cur>>
    BY <1>1 DEF AdminRetry, workerVars
  <2>3. \A d \in Deposits :
           /\ Reset(manifest.items)[d].status \in {manifest.items[d].status, "pending"}
           /\ manifest.items[d].status = "none" => Reset(manifest.items)[d].status = "none"
           /\ Reset(manifest.items)[d].status = "none" => manifest.items[d].status = "none"
    BY DEF Reset, FailedItems
  <2>4. Listed(Reset(manifest.items)) = Listed(manifest.items)
    BY <2>3 DEF Listed
  <2>5. CASE manifest' = [status |-> "active", items |-> Reset(manifest.items)]
    BY <2>2, <2>3, <2>4, <2>5, RowStaysSound DEF RowKept, MInv, RowSound, NoneSavedAsSent
  <2> QED
    BY <1>1, <2>1, <2>5, RowUntouched DEF MInv, AdminRetry, workerVars
<1>2. CASE ~AdminRetry
  <2>1. UNCHANGED <<manifest, pc, mem, cur>>
    BY <1>2 DEF LockLapses, ManifestLapses, PatchSave, PosMovesLate, PatchValidate,
                workerVars, vars
  <2> QED
    BY <2>1, RowUntouched DEF MInv
<1> QED
  BY <1>1, <1>2

LEMMA MInvStep ==
    ASSUME TypeOK, InHand, MInv, [Next]_vars
    PROVE  RowKept /\ MInv'
<1>1. ASSUME NEW w \in Workers, WorkerStep(w) \/ Crash(w)
      PROVE  RowKept /\ MInv'
  <2>1. RowKept /\ RowSound' /\ Copied(w)'
    BY <1>1, QuietKeeps, InitiateKeeps, ListKeeps, EndingKeeps, ReadKeeps, HandleKeeps,
       SaveKeeps DEF WorkerStep, PosAnswers
  <2>2. \A v \in Workers \ {w} : Copied(v)'
    BY <1>1, <2>1, OthersStay, CopyUntouched DEF MInv
  <2> QED
    BY <2>1, <2>2 DEF MInv
<1>2. CASE LockLapses \/ ManifestLapses \/ PatchSave \/ AdminRetry
             \/ (\E d \in Deposits : PosMovesLate(d))
             \/ (\E s \in AuctionStatus : PatchValidate(s)) \/ UNCHANGED vars
  BY <1>2, RowAlone, CopyUntouched DEF MInv
<1> QED
  BY <1>1, <1>2 DEF Next

LEMMA MInvInductive == Spec => [](IInv /\ MInv)
<1>1. Init => MInv
  BY DEF Init, MInv, RowSound, Copied, NoneSavedAsSent, NoRow, NoItem, Listed,
         Working, Holding
<1>2. IInv /\ MInv /\ [Next]_vars => MInv'
  BY MInvStep DEF IInv
<1> QED
  BY <1>1, <1>2, IInvInductive, PTL DEF Spec

-----------------------------------------------------------------------------
(* The theorems *)

\* However stale the copy that a worker saves, and wherever it crashes, the row
\* never says "sent" of an item: each is due, settled or struck out.
THEOREM NothingLeftSent == Spec => []NoneSavedAsSent
<1>1. MInv => NoneSavedAsSent
  BY DEF MInv, RowSound
<1> QED
  BY <1>1, MInvInductive, PTL

\* One manifest is made of an ended auction, and neither a stale copy nor a retry
\* nor a lost lock ever changes which deposits it lists.
THEOREM ManifestMadeOnce == Spec => InitiatedOnce
<1>1. IInv /\ MInv /\ [Next]_vars =>
        [manifest.status # "absent" =>
           Listed(manifest'.items) = Listed(manifest.items)]_vars
  BY MInvStep DEF IInv, RowKept
<1> QED
  BY <1>1, MInvInductive, PTL DEF Spec, InitiatedOnce

\* What a step does to the status of an auction that has ended.
LEMMA AuctionStep ==
    ASSUME TypeOK, [Next]_vars, auction' # auction
    PROVE  \/ auction = "ended" /\ auction' = "settling" /\ manifest' = NewManifest
           \/ auction = "settling" /\ auction' \in {"settled", "settlement_failed"}
           \/ /\ auction' = patch /\ patch # "none"
              /\ auction' \in AuctionTransitions[auction]
<1>1. ASSUME NEW w \in Workers, WorkerStep(w) \/ Crash(w)
      PROVE  \/ auction = "ended" /\ auction' = "settling" /\ manifest' = NewManifest
             \/ auction = "settling" /\ auction' \in {"settled", "settlement_failed"}
  BY <1>1
     DEF WorkerStep, StartTick, TryLock, Unlock, InitiateSettlement, MayInitiate,
         ListActive, ExpireOrEscalate, GiveUp, BeginItems, ReadDeposit,
         RecheckInitiation, PosAnswers, PosSucceeds, PosRefuses, PosTimesOut,
         RecheckAfterError, SaveSelect, SaveUpdate, FinalizeEmpty,
         CompleteSettlement, EscalateSettlement, Finalize, Close, StillInProgress,
         Crash, InitiateRefund, RecordSuccess, auctionVars
<1>2. CASE AdminRetry
  BY <1>2 DEF AdminRetry, AuctionTriggerAllows, AuctionTransitions
<1>3. CASE PatchSave
  BY <1>3 DEF PatchSave, AuctionTriggerAllows
<1>4. CASE LockLapses \/ ManifestLapses \/ (\E d \in Deposits : PosMovesLate(d))
           \/ (\E s \in AuctionStatus : PatchValidate(s)) \/ UNCHANGED vars
  BY <1>4 DEF LockLapses, ManifestLapses, PosMovesLate, PatchValidate, auctionVars, vars
<1> QED
  BY <1>1, <1>2, <1>3, <1>4 DEF Next

\* No worker, no retry and no PATCH validated while the auction was settling
\* takes a settled auction back.
THEOREM SettledStays == Spec => SettledIsFinal
<1>1. TypeOK /\ [Next]_vars => [auction = "settled" => auction' = "settled"]_vars
  BY AuctionStep DEF AuctionTransitions
<1> QED
  BY <1>1, TypeCorrect, PTL DEF Spec, SettledIsFinal

-----------------------------------------------------------------------------
(* What a settled auction has done, while no PATCH overrules it *)

\* Nobody skips the manifest: only its making takes an auction out of "ended".
Unpatched ==
    /\ patch = "none"
    /\ auction \in {"ended", "settling", "settled", "settlement_failed"}
    /\ auction # "ended" => manifest.status # "absent"

LEMMA UnpatchedPreserved ==
    ASSUME ~AdminPatches, IInv, MInv, Unpatched, [Next]_vars
    PROVE  Unpatched'
<1>1. patch' = patch
  <2>1. ASSUME NEW w \in Workers, WorkerStep(w) \/ Crash(w) PROVE patch' = patch
    BY <2>1
       DEF WorkerStep, StartTick, TryLock, Unlock, InitiateSettlement, ListActive,
           ExpireOrEscalate, BeginItems, ReadDeposit, RecheckInitiation, PosAnswers,
           PosSucceeds, PosRefuses, PosTimesOut, RecheckAfterError, SaveSelect,
           SaveUpdate, FinalizeEmpty, CompleteSettlement, EscalateSettlement,
           Finalize, StillInProgress, Crash, InitiateRefund, RecordSuccess, adminVars
  <2>2. ~PatchSave /\ ~\E s \in AuctionStatus : PatchValidate(s)
    BY DEF PatchSave, PatchValidate, Unpatched
  <2> QED
    BY <2>1, <2>2 DEF Next, LockLapses, ManifestLapses, PosMovesLate, AdminRetry,
                      adminVars, vars
<1>2. CASE auction' = auction
  BY <1>1, <1>2, MInvStep DEF Unpatched, IInv, RowKept
<1>3. CASE auction' # auction
  <2>1. \/ auction = "ended" /\ auction' = "settling" /\ manifest' = NewManifest
        \/ auction = "settling" /\ auction' \in {"settled", "settlement_failed"}
    BY <1>3, AuctionStep DEF Unpatched, IInv
  <2>2. NewManifest.status = "active"
    BY DEF NewManifest
  <2> QED
    BY <1>1, <2>1, <2>2, MInvStep DEF Unpatched, IInv, RowKept
<1> QED
  BY <1>2, <1>3

\* An auction is settled by one of the two ways to complete its manifest.
LEMMA SettledByCompletion ==
    ASSUME TypeOK, Unpatched, [Next]_vars, auction # "settled", auction' = "settled"
    PROVE  \E w \in Workers :
             /\ FinalizeEmpty(w) \/ CompleteSettlement(w)
             /\ Close(w, "settled", "completed")
<1>1. ASSUME NEW w \in Workers, WorkerStep(w) \/ Crash(w),
             ~FinalizeEmpty(w), ~CompleteSettlement(w)
      PROVE  FALSE
  BY <1>1
     DEF WorkerStep, StartTick, TryLock, Unlock, InitiateSettlement, ListActive,
         ExpireOrEscalate, GiveUp, BeginItems, ReadDeposit, RecheckInitiation,
         PosAnswers, PosSucceeds, PosRefuses, PosTimesOut, RecheckAfterError,
         SaveSelect, SaveUpdate, EscalateSettlement, Finalize, Close,
         StillInProgress, Crash, InitiateRefund, RecordSuccess, auctionVars
<1>2. CASE LockLapses \/ ManifestLapses \/ PatchSave \/ AdminRetry
           \/ (\E d \in Deposits : PosMovesLate(d))
           \/ (\E s \in AuctionStatus : PatchValidate(s)) \/ UNCHANGED vars
  BY <1>2 DEF LockLapses, ManifestLapses, PatchSave, AdminRetry, PosMovesLate,
              PatchValidate, Unpatched, auctionVars, vars
<1>3. ASSUME NEW w \in Workers, FinalizeEmpty(w) \/ CompleteSettlement(w)
      PROVE  Close(w, "settled", "completed")
  BY <1>3 DEF FinalizeEmpty, CompleteSettlement, Finalize
<1> QED
  BY <1>1, <1>2, <1>3 DEF Next

LEMMA SettledPreserved ==
    ASSUME IInv, MInv, Unpatched, SettledMeansMoved, [Next]_vars
    PROVE  SettledMeansMoved'
<1> SUFFICES ASSUME auction' = "settled", NEW d \in Deposits,
                    d \in Listed(manifest'.items)
             PROVE  Moved(d)'
  BY DEF SettledMeansMoved, Listed
<1>1. CASE auction = "settled"
  <2>1. d \in Listed(manifest.items)
    BY <1>1, MInvStep DEF RowKept, Unpatched, IInv
  <2> QED
    BY <1>1, <2>1, DepositStable DEF SettledMeansMoved, IInv
<1>2. CASE auction # "settled"
  <2>1. PICK w \in Workers :
             /\ FinalizeEmpty(w) \/ CompleteSettlement(w)
             /\ Close(w, "settled", "completed")
    BY <1>2, SettledByCompletion DEF IInv
  <2>2. manifest'.items = mem[w].items
    BY <1>2, <2>1 DEF Close, IInv, TypeOK, ManifestRow
  <2>3. ~FinalizeEmpty(w)
    BY <2>2 DEF FinalizeEmpty, MInv, Copied
  <2>4. AllAcknowledged(mem[w].items)
    BY <2>1, <2>3 DEF CompleteSettlement
  <2>5. Moved(d)
    BY <2>2, <2>4 DEF AllAcknowledged, IInv, AcknowledgedMoved
  <2> QED
    BY <2>5, DepositStable DEF IInv
<1> QED
  BY <1>1, <1>2

\* While no PATCH overrules the workers, a settled auction has moved every deposit
\* of its manifest: with any number of workers, lapsing locks, stale copies and
\* lost replies.
THEOREM SettledHasMoved ==
    ASSUME ~AdminPatches
    PROVE  Spec => []SettledMeansMoved
<1>1. Init => Unpatched /\ SettledMeansMoved
  BY DEF Init, Unpatched, SettledMeansMoved
<1>2. /\ IInv /\ MInv /\ Unpatched /\ SettledMeansMoved /\ [Next]_vars
      => Unpatched' /\ SettledMeansMoved'
  BY UnpatchedPreserved, SettledPreserved
<1> QED
  BY <1>1, <1>2, MInvInductive, PTL DEF Spec

-----------------------------------------------------------------------------
(* The deposits that a settlement skips *)

\* A deposit that the manifest does not list was not held when the manifest was
\* made, and has not been touched since.
SkippedUntouched ==
    \A d \in Deposits \ Listed(manifest.items) :
        /\ deposit[d] \in {"collected", "held"}
        /\ manifest.status # "absent" => deposit[d] = "collected"

\* Only deposits that the manifest lists are moved.
LEMMA MovesListed ==
    ASSUME IInv, MInv, [Next]_vars, NEW d \in Deposits, deposit'[d] # deposit[d]
    PROVE  d \in Listed(manifest.items)
<1>1. ASSUME NEW w \in Workers, InitiateRefund(w) \/ RecordSuccess(w)
      PROVE  d \in Listed(manifest.items)
  <2>1. pc[w] \in {"initRefund", "record"}
    BY <1>1 DEF InitiateRefund, RecordSuccess
  <2>2. cur[w] \in Listed(manifest.items)
    BY <2>1 DEF MInv, Copied, Working, Holding
  <2>3. cur[w] = d
    BY <1>1 DEF InitiateRefund, RecordSuccess, RecordMove, Move, moneyVars, IInv, TypeOK
  <2> QED
    BY <2>2, <2>3
<1>2. ASSUME NEW w \in Workers, WorkerStep(w) \/ Crash(w),
             ~InitiateRefund(w), ~RecordSuccess(w)
      PROVE  FALSE
  BY <1>2
     DEF WorkerStep, StartTick, TryLock, Unlock, InitiateSettlement, ListActive,
         ExpireOrEscalate, BeginItems, ReadDeposit, RecheckInitiation, PosAnswers,
         PosSucceeds, PosRefuses, PosTimesOut, RecheckAfterError, SaveSelect,
         SaveUpdate, FinalizeEmpty, CompleteSettlement, EscalateSettlement,
         Finalize, StillInProgress, Crash, moneyVars
<1>3. CASE LockLapses \/ ManifestLapses \/ PatchSave \/ AdminRetry
           \/ (\E e \in Deposits : PosMovesLate(e))
           \/ (\E s \in AuctionStatus : PatchValidate(s)) \/ UNCHANGED vars
  BY <1>3 DEF LockLapses, ManifestLapses, PatchSave, AdminRetry, PosMovesLate,
              PatchValidate, moneyVars, vars
<1> QED
  BY <1>1, <1>2, <1>3 DEF Next

\* The row that was absent and is no longer is the new manifest.
LEMMA ManifestIsNew ==
    ASSUME IInv, MInv, [Next]_vars, manifest.status = "absent"
    PROVE  manifest'.status = "absent" \/ (manifest' = NewManifest /\ deposit' = deposit)
<1>1. ASSUME NEW w \in Workers, InitiateSettlement(w)
      PROVE  manifest' = manifest \/ (manifest' = NewManifest /\ deposit' = deposit)
  BY <1>1 DEF InitiateSettlement, moneyVars
<1>2. ASSUME NEW w \in Workers, WorkerStep(w) \/ Crash(w), ~InitiateSettlement(w)
      PROVE  manifest' = manifest
  <2>1. pc[w] \notin Working
    <3>1. mem[w].status = "absent"
      BY DEF MInv, Copied
    <3> QED
      BY <3>1 DEF MInv, Copied
  <2> QED
    BY <1>2, <2>1
       DEF WorkerStep, StartTick, TryLock, Unlock, ListActive, Working,
           ExpireOrEscalate, BeginItems, ReadDeposit, RecheckInitiation, PosAnswers,
           PosSucceeds, PosRefuses, PosTimesOut, RecheckAfterError, SaveSelect,
           SaveUpdate, FinalizeEmpty, CompleteSettlement, EscalateSettlement,
           StillInProgress, Crash, InitiateRefund, RecordSuccess
<1>3. CASE LockLapses \/ ManifestLapses \/ PatchSave \/ AdminRetry
           \/ (\E e \in Deposits : PosMovesLate(e))
           \/ (\E s \in AuctionStatus : PatchValidate(s)) \/ UNCHANGED vars
  BY <1>3 DEF LockLapses, ManifestLapses, PatchSave, AdminRetry, PosMovesLate,
              PatchValidate, vars
<1> QED
  BY <1>1, <1>2, <1>3 DEF Next

LEMMA SkippedPreserved ==
    ASSUME IInv, MInv, SkippedUntouched, [Next]_vars
    PROVE  SkippedUntouched'
<1> SUFFICES ASSUME NEW d \in Deposits, d \notin Listed(manifest.items)'
             PROVE  /\ deposit'[d] \in {"collected", "held"}
                    /\ manifest'.status # "absent" => deposit'[d] = "collected"
  BY DEF SkippedUntouched, Deposits
<1>1. RowKept /\ MInv'
  BY MInvStep DEF IInv
<1>2. CASE manifest.status # "absent"
  <2>1. d \notin Listed(manifest.items)
    BY <1>1, <1>2 DEF RowKept
  <2> QED
    BY <1>2, <2>1, MovesListed DEF SkippedUntouched
<1>3. CASE manifest.status = "absent"
  <2>1. d \notin Listed(manifest.items)
    BY <1>3 DEF MInv, RowSound
  <2>2. deposit'[d] = deposit[d] /\ deposit[d] \in {"collected", "held"}
    BY <2>1, MovesListed DEF SkippedUntouched
  <2>3. ASSUME manifest' = NewManifest PROVE deposit[d] # "held"
    BY <2>3 DEF NewManifest, Listed
  <2> QED
    BY <1>3, <2>2, <2>3, ManifestIsNew
<1> QED
  BY <1>2, <1>3

-----------------------------------------------------------------------------
(* One instance of the service, its lock lapsing or not *)

\* an item that no further tick will serve
Out(item) == item.status = "failed" /\ item.retries >= MaxRetries
Struck(items) == \A d \in Deposits : Out(items[d]) => ~Moved(d)

Large == Cardinality(Listed(manifest.items)) > MemorySafetyLimit

Serving == Holding \cup {"save", "write"}
Between == Working \ Serving

\* The copy differs from the row in the item in hand only, which is due there.
Served(w) ==
    /\ cur[w] \in Deposits
    /\ Due(manifest.items[cur[w]])
    /\ \A d \in Deposits \ {cur[w]} : mem[w].items[d] = manifest.items[d]

OnRow(w) ==
    /\ pc[w] \in Working =>
         auction = "settling" /\ mem[w].status = "active" /\ Struck(mem[w].items)
    /\ pc[w] \in Between => mem[w].items = manifest.items
    /\ pc[w] \in Serving => Served(w)
    /\ pc[w] \in Holding => ~Out(mem[w].items[cur[w]])
    /\ pc[w] = "pos" => deposit[cur[w]] = Awaited(cur[w])
    /\ pc[w] = "write" => mem[w].items = manifest.items \/ "items" \in dirty[w]
    /\ pc[w] \in Working \ {"lock", "check", "finalizeEmpty"} => ~Large

\* What the row, the auction and the deposits say together.
RowTells ==
    /\ ManifestAgrees /\ AnnouncedOutcome /\ FailedMeansUnmoved
    /\ Struck(manifest.items)
    /\ Large => \A d \in Deposits : ~Moved(d)

Basis == IInv /\ MInv /\ Unpatched /\ SkippedUntouched
Solo == RowTells /\ \A w \in Workers : OnRow(w)

\* A worker that works on a manifest works on one that is being settled.
LEMMA OffRow ==
    ASSUME NEW w \in Workers, pc'[w] \notin Working
    PROVE  OnRow(w)'
BY DEF OnRow, Working, Between, Serving, Holding

LEMMA LargeKept ==
    ASSUME RowKept, manifest.status # "absent"
    PROVE  Large' <=> Large
BY DEF Large, RowKept

\* What has not moved stays so where no deposit changes.
LEMMA StruckStays ==
    ASSUME NEW items, Struck(items), [Next]_vars, deposit' = deposit
    PROVE  \A d \in Deposits : Out(items[d]) => ~Moved(d)'
<1>1. winner' = winner
  BY MonotoneStep
<1> QED
  BY <1>1 DEF Struck, Moved, Goal

LEMMA SameMoved ==
    ASSUME [Next]_vars, NEW d, deposit'[d] = deposit[d]
    PROVE  Moved(d)' <=> Moved(d)
<1>1. winner' = winner
  BY MonotoneStep
<1> QED
  BY <1>1 DEF Moved, Goal

\* A step that leaves the row, the auction and the deposits alone, and tells the
\* room of no end.
LEMMA RowTellsOn ==
    ASSUME RowTells, [Next]_vars, UNCHANGED <<auction, manifest, deposit>>,
           announced' \cap {"settled", "failed"} \subseteq announced,
           lapsed => lapsed'
    PROVE  RowTells'
<1>1. \A d \in Deposits : Moved(d)' <=> Moved(d)
  BY SameMoved
<1>2. ManifestAgrees' /\ AnnouncedOutcome'
  BY DEF RowTells, ManifestAgrees, AnnouncedOutcome
<1>3. FailedMeansUnmoved'
  BY <1>1 DEF RowTells, FailedMeansUnmoved, Listed
<1>4. Struck(manifest.items)'
  BY <1>1 DEF RowTells, Struck, Out, Deposits
<1>5. Large' => \A d \in Deposits : ~Moved(d)'
  BY <1>1 DEF RowTells, Large
<1> QED
  BY <1>2, <1>3, <1>4, <1>5 DEF RowTells, Deposits

\* The worker goes on with the copy, the item and the row it has.
LEMMA OnRowCarried ==
    ASSUME NEW w \in Workers, OnRow(w), Copied(w), RowKept, [Next]_vars,
           UNCHANGED <<auction, manifest, deposit>>,
           mem'[w] = mem[w], cur'[w] = cur[w],
           pc'[w] \in Working =>
              \/ /\ pc[w] \in Between /\ pc'[w] \in Between \ {"finalizeEmpty"}
                 /\ Large => pc'[w] \in {"lock", "check"}
              \/ pc[w] \in Holding /\ pc'[w] \in Holding \ {"pos"}
              \/ /\ pc[w] = "save" /\ pc'[w] = "write"
                 /\ "items" \in dirty'[w] \/ mem[w].items = manifest.items
    PROVE  OnRow(w)'
<1> SUFFICES ASSUME pc'[w] \in Working PROVE OnRow(w)'
  BY OffRow
<1>1. pc[w] \in Working
  BY DEF Between, Serving, Working, Holding
<1>2. Large' <=> Large
  BY <1>1, LargeKept DEF Copied
<1>3. /\ auction' = "settling" /\ mem'[w].status = "active"
      /\ \A d \in Deposits : Out(mem'[w].items[d]) => ~Moved(d)'
  BY <1>1, StruckStays DEF OnRow
<1>4. Struck(mem[w].items)'
  BY <1>3 DEF Struck, Out, Deposits
<1>5. CASE pc[w] \in Between
  BY <1>2, <1>3, <1>4, <1>5 DEF OnRow, Between, Serving, Working, Holding
<1>6. CASE pc[w] \in Holding
  <2>1. Served(w)'
    BY <1>6 DEF OnRow, Served, Serving, Deposits
  <2>2. ~Large
    BY <1>6 DEF OnRow, Working, Holding
  <2> QED
    BY <1>2, <1>3, <1>4, <1>6, <2>1, <2>2 DEF OnRow, Between, Serving, Working, Holding, Out
<1>7. CASE pc[w] = "save"
  <2>1. Served(w)'
    BY <1>7 DEF OnRow, Served, Serving, Deposits
  <2>2. ~Large
    BY <1>7 DEF OnRow, Working
  <2> QED
    BY <1>2, <1>3, <1>4, <1>7, <2>1, <2>2 DEF OnRow, Between, Serving, Working, Holding
<1> QED
  BY <1>5, <1>6, <1>7 DEF Working, Serving, Between

\* The item in hand is changed, to "sent" on the way to the POS, or for good: as
\* failed only when the deposit has not moved.
LEMMA OnRowWorkedOn ==
    ASSUME TypeOK, NEW w \in Workers, OnRow(w), Copied(w), RowKept, [Next]_vars,
           pc[w] \in Working, ~Large,
           UNCHANGED <<auction, manifest>>,
           NEW d \in Listed(mem[w].items), cur'[w] = d, Served(w)',
           \A e \in Deposits \ {d} : deposit'[e] = deposit[e],
           \/ Sent(w, d) /\ pc'[w] = "pos" /\ deposit'[d] = Awaited(d)
           \/ Ack(w, d) /\ pc'[w] = "save"
           \/ Fail(w, d) /\ pc'[w] = "save" /\ ~Moved(d)'
    PROVE  OnRow(w)'
<1>1. mem[w].items[d] \in Item /\ d \in Deposits
  BY DEF TypeOK, ManifestRow, Listed
<1>2. PICK item \in Item :
        /\ item.status \in {"sent", "acknowledged", "failed"} /\ SetItem(w, d, item)
        /\ item.status = "sent" => pc'[w] = "pos" /\ deposit'[d] = Awaited(d)
        /\ item.status # "sent" => pc'[w] = "save"
        /\ item.status = "failed" => ~Moved(d)'
  BY <1>1 DEF Sent, Ack, Fail, Item, ItemStatus
<1>3. /\ mem'[w].status = mem[w].status
      /\ mem'[w].items[d] = item
      /\ \A e \in Deposits \ {d} : mem'[w].items[e] = mem[w].items[e]
  BY <1>2, ItemKeepsList
<1>4. Large' <=> Large
  BY LargeKept DEF Copied
<1>5. \A e \in Deposits \ {d} : Moved(e)' <=> Moved(e)
  BY SameMoved
<1>6. auction' = "settling" /\ mem'[w].status = "active" /\ Struck(mem[w].items)
  BY <1>3 DEF OnRow
<1>7. \A e \in Deposits : Out(mem'[w].items[e]) => ~Moved(e)'
  BY <1>2, <1>3, <1>5, <1>6 DEF Struck, Out
<1>8. Struck(mem[w].items)'
  BY <1>7 DEF Struck, Out, Deposits
<1>9. Awaited(d)' = Awaited(d)
  BY MonotoneStep DEF Awaited
<1>10. pc'[w] \in {"pos", "save"}
  BY <1>2
<1>11. pc'[w] = "pos" => deposit'[d] = Awaited(d) /\ ~Out(item)
  BY <1>2 DEF Out
<1> QED
  BY <1>3, <1>4, <1>6, <1>8, <1>9, <1>10, <1>11
     DEF OnRow, Between, Serving, Working, Holding, Out

\* Steps that leave the row and the copy alone, or drop the copy.
LEMMA QuietOnRow ==
    ASSUME Basis, Solo, [Next]_vars, NEW w \in Workers,
           StartTick(w) \/ TryLock(w) \/ Unlock(w) \/ BeginItems(w)
             \/ SaveSelect(w) \/ StillInProgress(w) \/ Crash(w)
             \/ PosSucceeds(w) \/ PosTimesOut(w)
    PROVE  RowTells' /\ OnRow(w)'
<1> USE DEF Goto
<1>1. TypeOK /\ OnRow(w) /\ Copied(w) /\ RowKept
  BY MInvStep DEF Basis, Solo, IInv, MInv
<1>2. UNCHANGED <<auction, manifest, deposit, lapsed>>
  BY DEF StartTick, TryLock, Unlock, BeginItems, SaveSelect, StillInProgress,
         Crash, PosSucceeds, PosTimesOut, auctionVars, moneyVars, envVars
<1>3. announced' \cap {"settled", "failed"} \subseteq announced
  BY DEF StartTick, TryLock, Unlock, BeginItems, SaveSelect, StillInProgress,
         Crash, PosSucceeds, PosTimesOut, envVars, Announce
<1>4. RowTells'
  BY <1>2, <1>3, RowTellsOn DEF Solo
<1>5. CASE Forget(w)
  BY <1>1, <1>4, <1>5, OffRow DEF Forget, TypeOK, Working
<1>6. CASE ~Forget(w)
  <2>1. mem' = mem
    BY <1>6 DEF StartTick, TryLock, Unlock, BeginItems, SaveSelect, StillInProgress,
           Crash, PosSucceeds, PosTimesOut
  <2>2. cur' = cur
    BY <1>6 DEF StartTick, TryLock, Unlock, BeginItems, SaveSelect, StillInProgress,
           Crash, PosSucceeds, PosTimesOut
  <2>3. CASE BeginItems(w)
    <3>1. mem[w].items = manifest.items
      BY <1>1, <2>3 DEF BeginItems, OnRow, Between, Serving, Working, Holding
    <3>2. ~Large
      BY <2>3, <3>1 DEF BeginItems, Oversized, Large
    <3>3. pc[w] = "check" /\ pc'[w] = "loop"
      BY <1>1, <2>3 DEF BeginItems, TypeOK
    <3> QED
      BY <1>1, <1>2, <1>4, <2>1, <2>2, <3>2, <3>3, OnRowCarried
         DEF Between, Serving, Working, Holding
  <2>4. CASE SaveSelect(w)
    <3>1. CASE pc'[w] \notin Working
      BY <1>4, <3>1, OffRow
    <3>2. CASE pc'[w] \in Working
      <4>1. /\ \/ pc[w] = "save" /\ pc'[w] = "write"
               \/ pc[w] = "saveProgress" /\ pc'[w] = "writeProgress"
            /\ Differing(manifest, mem[w]) \subseteq dirty'[w]
        BY <1>1, <2>4, <3>2 DEF SaveSelect, Abort, Working, TypeOK
      <4>2. "items" \in dirty'[w] \/ mem[w].items = manifest.items
        BY <4>1 DEF Differing
      <4>3. pc[w] = "saveProgress" => ~Large
        BY <1>1 DEF OnRow, Working
      <4> QED
        BY <1>1, <1>2, <1>4, <2>1, <2>2, <4>1, <4>2, <4>3, OnRowCarried
           DEF Between, Serving, Working, Holding
    <3> QED
      BY <3>1, <3>2
  <2>5. CASE StillInProgress(w)
    <3>1. pc[w] = "loop" /\ pc'[w] = "saveProgress"
      BY <1>1, <2>5 DEF StillInProgress, TypeOK
    <3>2. ~Large
      BY <1>1, <3>1 DEF OnRow, Working
    <3> QED
      BY <1>1, <1>2, <1>4, <2>1, <2>2, <3>1, <3>2, OnRowCarried
         DEF Between, Serving, Working, Holding
  <2>6. CASE PosSucceeds(w) \/ PosTimesOut(w)
    <3>1. pc[w] = "pos" /\ pc'[w] \in {"record", "recheck"}
      BY <1>1, <2>6 DEF PosSucceeds, PosTimesOut, TypeOK
    <3> QED
      BY <1>1, <1>2, <1>4, <2>1, <2>2, <3>1, OnRowCarried
         DEF Between, Serving, Working, Holding
  <2>7. CASE TryLock(w)
    <3>1. pc'[w] \notin Working \/ (pc[w] = "lock" /\ pc'[w] = "check")
      BY <1>1, <1>6, <2>7 DEF TryLock, Working, TypeOK
    <3> QED
      BY <1>1, <1>2, <1>4, <2>1, <2>2, <3>1, OnRowCarried
         DEF Between, Serving, Working, Holding
  <2>8. CASE StartTick(w) \/ Unlock(w) \/ Crash(w)
    <3>1. pc'[w] \notin Working
      BY <1>1, <1>6, <2>8 DEF StartTick, Unlock, Crash, Working, TypeOK
    <3> QED
      BY <1>4, <3>1, OffRow
  <2> QED
    BY <2>3, <2>4, <2>5, <2>6, <2>7, <2>8
<1> QED
  BY <1>4, <1>5, <1>6

LEMMA ListOnRow ==
    ASSUME Basis, Solo, [Next]_vars, NEW w \in Workers, ListActive(w)
    PROVE  RowTells' /\ OnRow(w)'
<1>1. TypeOK
  BY DEF Basis, IInv
<1>2. RowTells'
  BY RowTellsOn DEF Solo, ListActive, auctionVars, moneyVars, envVars
<1>3. CASE Forget(w)
  BY <1>1, <1>2, <1>3, OffRow DEF Forget, Goto, TypeOK, Working
<1>4. CASE /\ manifest.status = "active" /\ mem' = [mem EXCEPT ![w] = manifest]
           /\ Goto(w, "lock")
  <2>1. mem'[w] = manifest /\ pc'[w] = "lock" /\ manifest' = manifest /\ auction' = auction
    BY <1>1, <1>4 DEF ListActive, TypeOK, Goto, auctionVars
  <2>2. auction = "settling"
    BY <1>4 DEF Solo, RowTells, ManifestAgrees, Basis, Unpatched
  <2>3. Struck(mem[w].items)'
    BY <1>2, <2>1 DEF RowTells, Struck, Deposits
  <2> QED
    BY <1>2, <1>4, <2>1, <2>2, <2>3 DEF OnRow, Between, Serving, Working, Holding
<1> QED
  BY <1>3, <1>4 DEF ListActive

LEMMA ReadOnRow ==
    ASSUME Basis, Solo, [Next]_vars, NEW w \in Workers, ReadDeposit(w)
    PROVE  RowTells' /\ OnRow(w)'
<1> USE DEF Goto
<1>1. TypeOK /\ OnRow(w) /\ Copied(w) /\ RowKept
  BY MInvStep DEF Basis, Solo, IInv, MInv
<1>2. RowTells'
  BY RowTellsOn DEF Solo, ReadDeposit, auctionVars, moneyVars
<1>3. pc[w] = "loop"
  BY DEF ReadDeposit
<1>4. mem[w].items = manifest.items /\ ~Large
  BY <1>1, <1>3 DEF OnRow, Between, Serving, Working, Holding
<1>5. PICK d \in Deposits : d = NextItem(w) /\ Due(mem[w].items[d])
  BY <1>1, NextItemType DEF ReadDeposit, DueItems
<1>6. cur'[w] = d /\ d \in Listed(mem[w].items)
  BY <1>1, <1>5 DEF ReadDeposit, TypeOK, Due, Listed
<1>7. UNCHANGED <<auction, manifest, deposit>>
  BY DEF ReadDeposit, auctionVars, moneyVars
<1>8. \/ UNCHANGED mem /\ pc'[w] \in {"initRefund", "release"}
      \/ Sent(w, d) /\ pc'[w] = "pos" /\ deposit[d] = Awaited(d)
      \/ Ack(w, d) /\ pc'[w] = "save"
      \/ Fail(w, d) /\ pc'[w] = "save" /\ deposit[d] # Goal(d)
  BY <1>1, <1>5 DEF ReadDeposit, Abort, TypeOK
<1>9. CASE UNCHANGED mem /\ pc'[w] = "release"
  BY <1>2, <1>9, OffRow DEF Working
<1>10. CASE UNCHANGED mem /\ pc'[w] = "initRefund"
  <2>1. Served(w)'
    BY <1>4, <1>5, <1>6, <1>7, <1>10 DEF Served, Deposits
  <2>2. Large' <=> Large
    BY <1>1, <1>3, LargeKept DEF Copied, Working
  <2>3. Struck(mem[w].items)'
    BY <1>2, <1>4, <1>7, <1>10 DEF RowTells, Struck, Deposits
  <2>4. ~Out(mem[w].items[d])
    <3>1. mem[w].items[d] \in Item
      BY <1>1 DEF TypeOK, ManifestRow
    <3> QED
      BY <1>5, <3>1, SettlementAssumption DEF Due, Out, Item
  <2> QED
    BY <1>1, <1>2, <1>3, <1>4, <1>6, <1>7, <1>10, <2>1, <2>2, <2>3, <2>4
       DEF OnRow, Between, Serving, Working, Holding, Out
<1>11. CASE ~(UNCHANGED mem /\ pc'[w] \in {"initRefund", "release"})
  <2>1. \A e \in Deposits \ {d} : mem'[w].items[e] = mem[w].items[e]
    <3>1. mem[w].items[d] \in Item
      BY <1>1 DEF TypeOK, ManifestRow
    <3>2. PICK item \in Item : item.status # "none" /\ SetItem(w, d, item)
      BY <1>8, <1>11, <3>1 DEF Sent, Ack, Fail, Item, ItemStatus
    <3> QED
      BY <1>1, <1>6, <3>2, ItemKeepsList
  <2>2. Served(w)'
    BY <1>4, <1>5, <1>6, <1>7, <2>1 DEF Served, Deposits
  <2>3. \/ Sent(w, d) /\ pc'[w] = "pos" /\ deposit'[d] = Awaited(d)
        \/ Ack(w, d) /\ pc'[w] = "save"
        \/ Fail(w, d) /\ pc'[w] = "save" /\ ~Moved(d)'
    <3>1. Moved(d)' <=> Moved(d)
      BY <1>7, SameMoved
    <3> QED
      BY <1>7, <1>8, <1>11, <3>1 DEF Moved
  <2> QED
    BY <1>1, <1>2, <1>3, <1>4, <1>6, <1>7, <2>2, <2>3, OnRowWorkedOn DEF Working
<1> QED
  BY <1>8, <1>9, <1>10, <1>11

\* The item in hand, the deposits left alone.
LEMMA HandledOnRow ==
    ASSUME Basis, Solo, [Next]_vars, NEW w \in Workers,
           RecheckInitiation(w) \/ PosRefuses(w) \/ RecheckAfterError(w)
    PROVE  RowTells' /\ OnRow(w)'
<1> USE DEF Goto
<1>1. TypeOK /\ OnRow(w) /\ Copied(w) /\ RowKept
  BY MInvStep DEF Basis, Solo, IInv, MInv
<1>2. RowTells'
  BY RowTellsOn DEF Solo, RecheckInitiation, PosRefuses, RecheckAfterError,
                    auctionVars, moneyVars, envVars
<1>3. pc[w] \in Holding
  BY DEF RecheckInitiation, PosRefuses, RecheckAfterError, Holding
<1>4. PICK d \in Listed(mem[w].items) : d = cur[w]
  BY <1>1, <1>3 DEF Copied
<1>5. UNCHANGED <<auction, manifest, deposit, cur>>
  BY DEF RecheckInitiation, PosRefuses, RecheckAfterError, auctionVars, moneyVars
<1>6. \/ UNCHANGED mem /\ pc'[w] = "release"
      \/ Sent(w, d) /\ pc'[w] = "pos" /\ deposit[d] = Awaited(d)
      \/ Ack(w, d) /\ pc'[w] = "save"
      \/ Fail(w, d) /\ pc'[w] = "save" /\ deposit[d] # Goal(d)
  <2>1. CASE RecheckInitiation(w)
    <3>1. d # winner
      BY <1>4, <2>1 DEF RecheckInitiation, Basis, IInv, InHand
    <3> QED
      BY <1>1, <1>4, <2>1, <3>1 DEF RecheckInitiation, Abort, Awaited, Goal, TypeOK
  <2>2. CASE PosRefuses(w)
    <3>1. deposit[d] = Awaited(d)
      BY <1>1, <1>4, <2>2 DEF PosRefuses, OnRow
    <3> QED
      BY <1>1, <1>4, <2>2, <3>1 DEF PosRefuses, Awaited, Goal, TypeOK
  <2>3. CASE RecheckAfterError(w)
    BY <1>1, <1>4, <2>3 DEF RecheckAfterError, Recovered, Abort, TypeOK
  <2> QED
    BY <2>1, <2>2, <2>3
<1>7. CASE UNCHANGED mem /\ pc'[w] = "release"
  BY <1>2, <1>7, OffRow DEF Working
<1>8. CASE ~(UNCHANGED mem /\ pc'[w] = "release")
  <2>1. \A e \in Deposits \ {d} : mem'[w].items[e] = mem[w].items[e]
    <3>1. mem[w].items[d] \in Item
      BY <1>1 DEF TypeOK, ManifestRow, Listed
    <3>2. PICK item \in Item : item.status # "none" /\ SetItem(w, d, item)
      BY <1>6, <1>8, <3>1 DEF Sent, Ack, Fail, Item, ItemStatus
    <3> QED
      BY <1>1, <3>2, ItemKeepsList
  <2>2. Served(w)'
    <3>1. Served(w)
      BY <1>1, <1>3 DEF OnRow, Serving
    <3> QED
      BY <1>4, <1>5, <2>1, <3>1 DEF Served, Deposits
  <2>3. \/ Sent(w, d) /\ pc'[w] = "pos" /\ deposit'[d] = Awaited(d)
        \/ Ack(w, d) /\ pc'[w] = "save"
        \/ Fail(w, d) /\ pc'[w] = "save" /\ ~Moved(d)'
    <3>1. Moved(d)' <=> Moved(d)
      BY <1>5, SameMoved
    <3> QED
      BY <1>5, <1>6, <1>8, <3>1 DEF Moved
  <2>4. pc[w] \in Working /\ ~Large
    BY <1>1, <1>3 DEF OnRow, Working, Holding
  <2> QED
    BY <1>1, <1>2, <1>4, <1>5, <2>2, <2>3, <2>4, OnRowWorkedOn
<1> QED
  BY <1>7, <1>8

\* The deposit of the item in hand moves: the item is due in the row, and no item
\* that is out has moved.
LEMMA MoveTells ==
    ASSUME Basis, Solo, [Next]_vars, NEW w \in Workers, pc[w] \in Holding,
           UNCHANGED <<auction, manifest, announced>>,
           \A e \in Deposits \ {cur[w]} : deposit'[e] = deposit[e]
    PROVE  /\ RowTells'
           /\ \A e \in Deposits : Out(mem[w].items[e]) => ~Moved(e)'
<1>1. OnRow(w)
  BY DEF Solo
<1>2. \A e \in Deposits \ {cur[w]} : Moved(e)' <=> Moved(e)
  BY SameMoved
<1>3. cur[w] \in Deposits /\ ~Out(manifest.items[cur[w]])
  <2>1. cur[w] \in Deposits /\ Due(manifest.items[cur[w]])
    BY <1>1 DEF OnRow, Served, Serving
  <2>2. manifest.items[cur[w]] \in Item
    BY <2>1 DEF Basis, IInv, TypeOK, ManifestRow
  <2> QED
    BY <2>1, <2>2, SettlementAssumption DEF Due, Out, Item
<1>4. auction = "settling" /\ ~Large
  BY <1>1 DEF OnRow, Working, Holding
<1>5. ManifestAgrees' /\ AnnouncedOutcome' /\ FailedMeansUnmoved'
  BY <1>4 DEF Solo, RowTells, ManifestAgrees, AnnouncedOutcome, FailedMeansUnmoved
<1>6. Struck(manifest.items)'
  BY <1>2, <1>3 DEF Solo, RowTells, Struck, Out, Deposits
<1>7. ~Large'
  BY <1>4 DEF Large
<1>8. \A e \in Deposits : Out(mem[w].items[e]) => ~Moved(e)'
  BY <1>1, <1>2 DEF OnRow, Struck, Working, Holding
<1> QED
  BY <1>5, <1>6, <1>7, <1>8 DEF RowTells

\* The two transactions that move a deposit.
LEMMA MoveOnRow ==
    ASSUME Basis, Solo, [Next]_vars, NEW w \in Workers,
           InitiateRefund(w) \/ RecordSuccess(w)
    PROVE  RowTells' /\ OnRow(w)'
<1> USE DEF Goto
<1>1. TypeOK /\ OnRow(w) /\ Copied(w) /\ RowKept
  BY MInvStep DEF Basis, Solo, IInv, MInv
<1>2. pc[w] \in Holding
  BY DEF InitiateRefund, RecordSuccess, Holding
<1>3. PICK d \in Listed(mem[w].items) : d = cur[w]
  BY <1>1, <1>2 DEF Copied
<1>4. UNCHANGED <<auction, manifest, announced, cur>>
  BY DEF InitiateRefund, RecordSuccess, auctionVars
<1>5. \A e \in Deposits \ {d} : deposit'[e] = deposit[e]
  BY <1>1, <1>3 DEF InitiateRefund, RecordSuccess, RecordMove, Move, moneyVars, TypeOK
<1>6. /\ RowTells'
      /\ \A e \in Deposits : Out(mem[w].items[e]) => ~Moved(e)'
  BY <1>2, <1>3, <1>4, <1>5, MoveTells
<1>7. \/ /\ UNCHANGED mem
         /\ pc'[w] \in {"release", "initRefund", "recheckInit", "record", "recheck"}
      \/ Sent(w, d) /\ pc'[w] = "pos" /\ deposit'[d] = Awaited(d)
      \/ Ack(w, d) /\ pc'[w] = "save"
  <2>1. CASE InitiateRefund(w)
    <3>1. d # winner /\ pc[w] = "initRefund"
      BY <1>3, <2>1 DEF InitiateRefund, Basis, IInv, InHand
    <3>2. PICK o \in Outcome :
             /\ o = "done" /\ MayInitiateRefund(d) =>
                   deposit' = [deposit EXCEPT ![d] = "refund_pending"]
             /\ CASE o = "done" /\ MayInitiateRefund(d) -> Sent(w, d) /\ Goto(w, "pos")
                  [] o = "done" /\ ~MayInitiateRefund(d) ->
                         Goto(w, "recheckInit") /\ UNCHANGED mem
                  [] o # "done" -> RetryOrThrow(w, "release") /\ UNCHANGED mem
      BY <1>3, <2>1 DEF InitiateRefund, Move
    <3>3. CASE o = "done" /\ MayInitiateRefund(d)
      BY <1>1, <3>1, <3>2, <3>3 DEF Awaited, TypeOK, Listed
    <3>4. CASE o = "done" /\ ~MayInitiateRefund(d)
      BY <1>1, <3>2, <3>4 DEF TypeOK
    <3>5. CASE o # "done"
      BY <1>1, <3>1, <3>2, <3>5 DEF RetryOrThrow, TypeOK
    <3> QED
      BY <3>3, <3>4, <3>5
  <2>2. CASE RecordSuccess(w)
    BY <1>1, <1>3, <2>2 DEF RecordSuccess, RetryOrThrow, TypeOK
  <2> QED
    BY <2>1, <2>2
<1>8. pc[w] \in Working /\ ~Large /\ Served(w)
  BY <1>1, <1>2 DEF OnRow, Working, Holding, Serving
<1>9. CASE UNCHANGED mem /\ pc'[w] = "release"
  BY <1>6, <1>9, OffRow DEF Working
<1>10. CASE UNCHANGED mem /\ pc'[w] \in {"initRefund", "recheckInit", "record", "recheck"}
  <2>1. Large' <=> Large
    BY <1>1, <1>8, LargeKept DEF Copied
  <2>2. Served(w)'
    BY <1>4, <1>8, <1>10 DEF Served, Deposits
  <2>3. Struck(mem[w].items)'
    BY <1>6, <1>10 DEF Struck, Out, Deposits
  <2>4. auction = "settling" /\ mem[w].status = "active" /\ ~Out(mem[w].items[cur[w]])
    BY <1>1, <1>2, <1>8 DEF OnRow
  <2> QED
    BY <1>4, <1>6, <1>8, <1>10, <2>1, <2>2, <2>3, <2>4
       DEF OnRow, Between, Serving, Working, Holding, Out
<1>11. CASE \/ Sent(w, d) /\ pc'[w] = "pos" /\ deposit'[d] = Awaited(d)
            \/ Ack(w, d) /\ pc'[w] = "save"
  <2>1. \A e \in Deposits \ {d} : mem'[w].items[e] = mem[w].items[e]
    <3>1. mem[w].items[d] \in Item
      BY <1>1 DEF TypeOK, ManifestRow, Listed
    <3>2. PICK item \in Item : item.status # "none" /\ SetItem(w, d, item)
      BY <1>11, <3>1 DEF Sent, Ack, Item, ItemStatus
    <3> QED
      BY <1>1, <3>2, ItemKeepsList
  <2>2. Served(w)'
    BY <1>3, <1>4, <1>8, <2>1 DEF Served, Deposits
  <2> QED
    BY <1>1, <1>3, <1>4, <1>5, <1>6, <1>8, <1>11, <2>2, OnRowWorkedOn
<1> QED
  BY <1>7, <1>9, <1>10, <1>11

\* The save of an item, or of a manifest still in progress.
LEMMA SaveOnRow ==
    ASSUME Basis, Solo, [Next]_vars, NEW w \in Workers, SaveUpdate(w)
    PROVE  RowTells' /\ OnRow(w)'
<1> USE DEF Goto
<1>1. TypeOK /\ OnRow(w) /\ Copied(w) /\ RowKept
  BY MInvStep DEF Basis, Solo, IInv, MInv
<1>2. pc[w] \in {"write", "writeProgress"}
  BY DEF SaveUpdate
<1>3. /\ auction = "settling" /\ mem[w].status = "active" /\ manifest.status = "active"
      /\ Struck(mem[w].items) /\ ~Large
  BY <1>1, <1>2 DEF OnRow, Working, Solo, RowTells, ManifestAgrees
<1>4. UNCHANGED <<auction, deposit, announced, mem, cur>>
  BY DEF SaveUpdate, auctionVars, moneyVars
<1>5. manifest'.status = "active" /\ manifest'.items \in {manifest.items, mem[w].items}
  BY <1>3 DEF SaveUpdate, Written
<1>6. \A d \in Deposits : Moved(d)' <=> Moved(d)
  BY <1>4, SameMoved
<1>7. ~Large'
  BY <1>3, <1>1, LargeKept
<1>8. RowTells'
  <2>1. ManifestAgrees' /\ AnnouncedOutcome' /\ FailedMeansUnmoved'
    BY <1>3, <1>4, <1>5 DEF Solo, RowTells, ManifestAgrees, AnnouncedOutcome,
                            FailedMeansUnmoved
  <2>2. Struck(manifest.items)'
    BY <1>3, <1>5, <1>6 DEF Solo, RowTells, Struck, Out, Deposits
  <2> QED
    BY <1>7, <2>1, <2>2 DEF RowTells
<1>9. CASE pc'[w] \notin Working
  BY <1>8, <1>9, OffRow
<1>10. CASE pc'[w] \in Working
  <2>1. /\ pc[w] = "write" /\ pc'[w] = "loop"
        /\ manifest'.items = IF "items" \in dirty[w] THEN mem[w].items ELSE manifest.items
    BY <1>1, <1>10 DEF SaveUpdate, Written, Working, TypeOK
  <2>2. manifest'.items = mem'[w].items
    BY <1>1, <1>4, <2>1 DEF OnRow
  <2>3. Struck(mem[w].items)'
    BY <1>8, <2>2 DEF RowTells, Struck, Deposits
  <2> QED
    BY <1>3, <1>4, <1>7, <1>8, <2>1, <2>2, <2>3
       DEF OnRow, Between, Serving, Working, Holding
<1> QED
  BY <1>9, <1>10

\* Before there is a manifest, nothing has moved.
LEMMA InitiateOnRow ==
    ASSUME Basis, Solo, [Next]_vars, NEW w \in Workers, InitiateSettlement(w)
    PROVE  RowTells' /\ OnRow(w)'
<1> USE DEF Goto
<1>1. TypeOK /\ pc[w] = "initiate" /\ UNCHANGED <<deposit, lapsed>>
  BY DEF Basis, IInv, InitiateSettlement, moneyVars
<1>2. announced' \cap {"settled", "failed"} \subseteq announced
  BY DEF InitiateSettlement, Announce
<1>3. \A d \in Deposits : Moved(d)' <=> Moved(d)
  BY <1>1, SameMoved
<1>4. CASE UNCHANGED <<manifest, mem, auction>>
  <2>1. RowTells'
    BY <1>1, <1>2, <1>4, RowTellsOn DEF Solo
  <2>2. ~(MayInitiate /\ manifest' = NewManifest)
    BY <1>4 DEF MayInitiate, NewManifest
  <2>3. pc'[w] = "initRelease"
    BY <1>1, <2>2 DEF InitiateSettlement, TypeOK
  <2> QED
    BY <2>1, <2>3, OffRow DEF Working
<1>5. CASE /\ MayInitiate /\ manifest' = NewManifest
           /\ mem' = [mem EXCEPT ![w] = NewManifest] /\ auction' = "settling"
  <2>1. /\ NewManifest.status = "active" /\ mem'[w] = NewManifest
        /\ \A d \in Deposits : ~Out(NewManifest.items[d])
    BY <1>1, <1>5 DEF NewManifest, NoItem, Out, TypeOK
  <2>2. \A d \in Deposits : ~Moved(d)
    <3>1. Listed(manifest.items) = {}
      BY <1>5 DEF MayInitiate, Basis, MInv, RowSound
    <3> QED
      BY <3>1 DEF Basis, SkippedUntouched, Moved, Goal
  <2>3. announced \cap {"settled", "failed"} = {}
    BY <1>5 DEF MayInitiate, Solo, RowTells, AnnouncedOutcome
  <2>4. RowTells'
    BY <1>2, <1>3, <1>5, <2>1, <2>2, <2>3
       DEF RowTells, ManifestAgrees, AnnouncedOutcome, FailedMeansUnmoved, Struck, Deposits
  <2>5. pc'[w] \in {"initRelease", "finalizeEmpty"}
    BY <1>1 DEF InitiateSettlement, TypeOK
  <2>6. Struck(mem[w].items)'
    BY <2>1 DEF Struck, Deposits
  <2> QED
    BY <1>5, <2>1, <2>4, <2>5, <2>6 DEF OnRow, Between, Serving, Working, Holding
<1> QED
  BY <1>4, <1>5 DEF InitiateSettlement

\* The settlement ends: row, auction and room learn it together, and it fails
\* only over what cannot be moved.
LEMMA EndTells ==
    ASSUME Basis, Solo, [Next]_vars, NEW w \in Workers,
           pc[w] \in Between, deposit' = deposit,
           NEW status, NEW outcome,
           mem' = [mem EXCEPT ![w].status = outcome], manifest' = mem'[w],
           auction' = status,
           \/ /\ status = "settled" /\ outcome = "completed"
              /\ announced' \subseteq announced \cup {"settled", "progress"}
           \/ /\ status = "settlement_failed" /\ outcome \in {"escalated", "expired"}
              /\ announced' \subseteq announced \cup {"failed", "progress"}
              /\ ~lapsed' => \E d \in Listed(mem[w].items) : ~Moved(d)
    PROVE  RowTells'
<1>1. TypeOK /\ OnRow(w)
  BY DEF Basis, IInv, Solo
<1>2. auction = "settling" /\ mem[w].items = manifest.items
  BY <1>1 DEF OnRow, Between
<1>3. manifest'.status = outcome /\ manifest'.items = manifest.items
  BY <1>1, <1>2 DEF TypeOK, ManifestRow
<1>4. announced \cap {"settled", "failed"} = {}
  BY <1>2 DEF Solo, RowTells, AnnouncedOutcome
<1>5. \A d \in Deposits : Moved(d)' <=> Moved(d)
  BY SameMoved
<1>6. ManifestAgrees' /\ AnnouncedOutcome'
  BY <1>3, <1>4 DEF ManifestAgrees, AnnouncedOutcome
<1>7. FailedMeansUnmoved'
  BY <1>2, <1>3, <1>5 DEF FailedMeansUnmoved, Listed
<1>8. Struck(manifest.items)'
  BY <1>3, <1>5 DEF Solo, RowTells, Struck, Out, Deposits
<1>9. Large' => \A d \in Deposits : ~Moved(d)'
  BY <1>3, <1>5 DEF Solo, RowTells, Large
<1> QED
  BY <1>6, <1>7, <1>8, <1>9 DEF RowTells, Deposits

LEMMA OversizedUnmoved ==
    ASSUME Basis, Solo, NEW w \in Workers, pc[w] = "check", Oversized(w)
    PROVE  \E d \in Listed(mem[w].items) : ~Moved(d)
<1>1. mem[w].items = manifest.items
  BY DEF Solo, OnRow, Between, Serving, Working, Holding
<1>2. Large
  BY <1>1 DEF Oversized, Large
<1>3. Listed(manifest.items) # {}
  BY <1>2, FS_EmptySet, SettlementAssumption DEF Large
<1> QED
  BY <1>1, <1>2, <1>3 DEF Solo, RowTells, Listed

LEMMA ExpireOnRow ==
    ASSUME Basis, Solo, [Next]_vars, NEW w \in Workers, ExpireOrEscalate(w)
    PROVE  RowTells' /\ OnRow(w)'
<1>1. /\ TypeOK /\ pc[w] = "check" /\ pc[w] \in Between /\ auction = "settling"
      /\ UNCHANGED <<deposit, lapsed>>
  BY DEF Basis, IInv, Solo, OnRow, ExpireOrEscalate, Between, Serving, Working,
         Holding, moneyVars
<1>2. OnRow(w)'
  <2>1. pc'[w] = "release"
    BY <1>1 DEF ExpireOrEscalate, Goto, TypeOK
  <2> QED
    BY <2>1, OffRow DEF Working
<1>3. /\ announced' \subseteq announced \cup {"failed"}
      /\ UNCHANGED auction => UNCHANGED announced
  BY <1>1 DEF ExpireOrEscalate, GiveUp, Announce, Outcome
<1>4. CASE UNCHANGED <<auction, mem, manifest>>
  BY <1>1, <1>2, <1>3, <1>4, RowTellsOn DEF Solo
<1>5. CASE GiveUp(w, IF lapsed THEN "expired" ELSE "escalated")
  <2>1. ~lapsed' => \E d \in Listed(mem[w].items) : ~Moved(d)
    BY <1>1, OversizedUnmoved DEF ExpireOrEscalate
  <2> QED
    BY <1>1, <1>2, <1>3, <1>5, <2>1, EndTells DEF GiveUp
<1> QED
  BY <1>4, <1>5 DEF ExpireOrEscalate

LEMMA StruckOutUnmoved ==
    ASSUME Basis, Solo, NEW w \in Workers, pc[w] \in Working, StruckOut(mem[w].items)
    PROVE  \E d \in Listed(mem[w].items) : ~Moved(d)
BY DEF Solo, OnRow, Struck, StruckOut, Out, Listed

LEMMA FinalizeOnRow ==
    ASSUME Basis, Solo, [Next]_vars, NEW w \in Workers,
           FinalizeEmpty(w) \/ CompleteSettlement(w) \/ EscalateSettlement(w)
    PROVE  RowTells' /\ OnRow(w)'
<1>1. /\ TypeOK /\ pc[w] \in Between /\ pc[w] \in Working /\ auction = "settling"
      /\ UNCHANGED <<deposit, lapsed>>
  BY DEF Basis, IInv, Solo, OnRow, FinalizeEmpty, CompleteSettlement,
         EscalateSettlement, Finalize, Between, Serving, Working, Holding, moneyVars
<1>2. OnRow(w)'
  <2>1. pc'[w] \in {"release", "initRelease"}
    BY <1>1 DEF FinalizeEmpty, CompleteSettlement, EscalateSettlement, Finalize, Goto, TypeOK
  <2> QED
    BY <2>1, OffRow DEF Working
<1>3. PICK status, outcome, event :
        /\ \/ status = "settled" /\ outcome = "completed" /\ event = "settled"
           \/ /\ status = "settlement_failed" /\ outcome = "escalated" /\ event = "failed"
              /\ \E d \in Listed(mem[w].items) : ~Moved(d)
        /\ \/ /\ UNCHANGED <<auction, mem, manifest>>
              /\ announced' \subseteq announced \cup {"progress"}
           \/ /\ Close(w, status, outcome)
              /\ announced' \subseteq announced \cup {event, "progress"}
  <2>1. CASE FinalizeEmpty(w) \/ CompleteSettlement(w)
    BY <2>1 DEF FinalizeEmpty, CompleteSettlement, Finalize, Outcome
  <2>2. CASE EscalateSettlement(w)
    BY <1>1, <2>2, StruckOutUnmoved DEF EscalateSettlement, Finalize, Outcome
  <2> QED
    BY <2>1, <2>2
<1>4. CASE /\ UNCHANGED <<auction, mem, manifest>>
           /\ announced' \subseteq announced \cup {"progress"}
  BY <1>1, <1>2, <1>4, RowTellsOn DEF Solo
<1>5. CASE /\ Close(w, status, outcome)
           /\ announced' \subseteq announced \cup {event, "progress"}
  <2>1. /\ mem' = [mem EXCEPT ![w].status = outcome]
        /\ manifest' = mem'[w] /\ auction' = status
    BY <1>1, <1>5 DEF Close
  <2> QED
    BY <1>1, <1>2, <1>3, <1>5, <2>1, EndTells
<1> QED
  BY <1>3, <1>4, <1>5

\* The environment and the admin, whose retry the trigger rejects.
LEMMA AloneOnRow ==
    ASSUME Basis, Solo, [Next]_vars, ~AdminPatches,
           LockLapses \/ ManifestLapses \/ PatchSave \/ AdminRetry
             \/ (\E d \in Deposits : PosMovesLate(d))
             \/ (\E s \in AuctionStatus : PatchValidate(s)) \/ UNCHANGED vars
    PROVE  Solo'
<1>1. ~PatchSave /\ ~\E s \in AuctionStatus : PatchValidate(s)
  BY DEF PatchSave, PatchValidate, Basis, Unpatched
<1>2. UNCHANGED <<auction, manifest, deposit, announced, pc, mem, cur, dirty>>
  BY <1>1 DEF LockLapses, ManifestLapses, AdminRetry, PosMovesLate, vars, auctionVars,
              moneyVars, workerVars, envVars, AuctionTriggerAllows, AuctionTransitions
<1>3. lapsed => lapsed'
  BY <1>1 DEF LockLapses, ManifestLapses, AdminRetry, PosMovesLate, vars, envVars
<1>4. RowTells'
  BY <1>2, <1>3, RowTellsOn DEF Solo
<1>5. winner' = winner
  BY MonotoneStep
<1>6. ASSUME NEW w \in Workers PROVE OnRow(w)'
  BY <1>2, <1>5 DEF Solo, OnRow, Struck, Moved, Goal, Awaited, Large, Served, Deposits
<1> QED
  BY <1>4, <1>6 DEF Solo

LEMMA SoloStep ==
    ASSUME Basis, Solo, [Next]_vars, ~AdminPatches,
           \A v, w \in Workers : v = w
    PROVE  Solo'
<1>1. ASSUME NEW w \in Workers, WorkerStep(w) \/ Crash(w)
      PROVE  Solo'
  <2>1. RowTells' /\ OnRow(w)'
    BY <1>1, QuietOnRow, ListOnRow, ReadOnRow, HandledOnRow, MoveOnRow, SaveOnRow,
       InitiateOnRow, ExpireOnRow, FinalizeOnRow DEF WorkerStep, PosAnswers
  <2> QED
    BY <2>1 DEF Solo
<1> QED
  BY <1>1, AloneOnRow DEF Next

\* With one instance of the service and no PATCH, whatever crashes, errors and
\* lapsing locks there are:
LEMMA SoloInductive ==
    ASSUME ~AdminPatches, \A v, w \in Workers : v = w
    PROVE  Spec => []Solo
<1>1. Init => Unpatched /\ SkippedUntouched
  BY DEF Init, Unpatched, SkippedUntouched, NoRow
<1>2. Init => Solo
  <2> SUFFICES ASSUME Init PROVE Solo
    OBVIOUS
  <2>1. \A d \in Deposits : ~Moved(d) /\ ~Out(manifest.items[d])
    BY DEF Init, Moved, Goal, Out, NoRow, NoItem
  <2>2. RowTells
    BY <2>1 DEF Init, RowTells, ManifestAgrees, AnnouncedOutcome, FailedMeansUnmoved,
                Struck, NoRow
  <2>3. \A w \in Workers : OnRow(w)
    BY DEF Init, OnRow, Working, Between, Serving, Holding
  <2> QED
    BY <2>2, <2>3 DEF Solo
<1>3. /\ IInv /\ MInv /\ Unpatched /\ SkippedUntouched /\ Solo /\ [Next]_vars
      => Unpatched' /\ SkippedUntouched' /\ Solo'
  BY UnpatchedPreserved, SkippedPreserved, SoloStep DEF Basis
<1> QED
  BY <1>1, <1>2, <1>3, MInvInductive, PTL DEF Spec

\* The manifest row and the auction tell the same outcome at every step.
THEOREM RowAgrees ==
    ASSUME ~AdminPatches, \A v, w \in Workers : v = w
    PROVE  Spec => []ManifestAgrees
<1>1. Solo => ManifestAgrees
  BY DEF Solo, RowTells
<1> QED
  BY <1>1, SoloInductive, PTL

\* What the room was told of the end, over lost replies and retried
\* transactions, is what the auction's status says.
THEOREM RoomHearsTheOutcome ==
    ASSUME ~AdminPatches, \A v, w \in Workers : v = w
    PROVE  Spec => []AnnouncedOutcome
<1>1. Solo => AnnouncedOutcome
  BY DEF Solo, RowTells
<1> QED
  BY <1>1, SoloInductive, PTL

\* A settlement fails before its 48 hours only with a listed deposit left that
\* has not moved: no retry that has succeeded is counted as a strike.
THEOREM FailedHasUnmoved ==
    ASSUME ~AdminPatches, \A v, w \in Workers : v = w
    PROVE  Spec => []FailedMeansUnmoved
<1>1. Solo => FailedMeansUnmoved
  BY DEF Solo, RowTells
<1> QED
  BY <1>1, SoloInductive, PTL
=============================================================================
