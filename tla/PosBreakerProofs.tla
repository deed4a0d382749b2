--------------------------- MODULE PosBreakerProofs ---------------------------
(***************************************************************************)
(* Proofs about PosBreaker, for any number of workers and deposits, any    *)
(* threshold and recovery time.  The settlement with the breaker in it is  *)
(* a settlement, so what SettlementProofs shows holds of it as well.       *)
(***************************************************************************)
EXTENDS PosBreaker, ManifestProofs

USE BreakerAssumption

-----------------------------------------------------------------------------
(* The breaker only narrows the settlement *)

LEMMA StepWithBreaker == [NextBreaker]_bvars => [Next]_vars
<1> SUFFICES ASSUME NextBreaker PROVE [Next]_vars
  BY DEF bvars
<1>1. ASSUME NEW w \in Workers, AskPos(w) PROVE WorkerStep(w) \/ UNCHANGED vars
  BY <1>1 DEF AskPos, Admit, TurnDown, PosAnswersInTime, PosIsSilent, WorkerStep, PosAnswers
<1>2. ASSUME NEW w \in Workers, WorksOn(w) \/ CrashWithBreaker(w) \/ TimePasses(w)
      PROVE  WorkerStep(w) \/ Crash(w) \/ UNCHANGED vars
  BY <1>2 DEF WorksOn, CrashWithBreaker, TimePasses
<1>3. CASE Surroundings
  BY <1>3 DEF Surroundings, Next
<1> QED
  BY <1>1, <1>2, <1>3 DEF NextBreaker, Next

\* Whatever the breaker lets through or turns down, its settlement is one of
\* module Settlement: every property proved there is a property here.
THEOREM BreakerRefines == SpecBreaker => Spec
<1>1. InitBreaker => Init
  BY DEF InitBreaker
<1> QED
  BY <1>1, StepWithBreaker, PTL DEF SpecBreaker, Spec

\* With the breaker in between, the ledger still tells each deposit's status, and
\* no money is written down or acknowledged before it has moved.
THEOREM SafeWithBreaker ==
    SpecBreaker => [](TypeOK /\ LedgerMatchesDeposit /\ MoneyMovedFirst /\ AcknowledgedMoved)
BY BreakerRefines, TypeCorrect, LedgerCorrect, MoneyFirst, AcknowledgedCorrect, PTL

\* Nor does a refusal by an open circuit, which counts as a strike, part the row,
\* the auction and the room of a single instance, or fail it with all moved.
THEOREM OutcomeWithBreaker ==
    ASSUME ~AdminPatches, \A v, w \in Workers : v = w
    PROVE  SpecBreaker => [](ManifestAgrees /\ AnnouncedOutcome /\ FailedMeansUnmoved)
BY BreakerRefines, RowAgrees, RoomHearsTheOutcome, FailedHasUnmoved, PTL

-----------------------------------------------------------------------------
(* The circuits *)

\* What an instance's circuit knows of the POS, and where its item in hand is.
Sound(w) ==
    /\ circuit[w].failureCount = unanswered[w]
    /\ circuit[w].state = "CLOSED" <=> circuit[w].failureCount < Threshold
    /\ circuit[w].elapsed > 0 => circuit[w].state = "OPEN"
    /\ asked[w] /\ pc[w] = "pos" => circuit[w].state # "OPEN"
    /\ circuit[w].state = "HALF_OPEN" => asked[w] /\ pc[w] = "pos"

BreakerTypes ==
    /\ circuit \in [Workers -> Circuit]
    /\ asked \in [Workers -> BOOLEAN]
    /\ unanswered \in [Workers -> Nat]

BInv == BreakerTypes /\ \A w \in Workers : Sound(w)

LEMMA ClosedCircuitType == ClosedCircuit \in Circuit
BY DEF ClosedCircuit, Circuit

LEMMA CircuitTypes ==
    ASSUME NEW c \in Circuit
    PROVE  Evaluated(c) \in Circuit /\ Succeeded(c) \in Circuit /\ Failed(c) \in Circuit
<1>1. Evaluated(c) \in Circuit
  <2>1. CASE c.state = "OPEN" /\ c.elapsed >= Recovery
    <3>1. Evaluated(c) = [c EXCEPT !.state = "HALF_OPEN", !.elapsed = 0]
      BY <2>1 DEF Evaluated
    <3>2. 0 \in 0..Recovery
      OBVIOUS
    <3>3. [[c EXCEPT !.state = "HALF_OPEN"] EXCEPT !.elapsed = 0] \in Circuit
      BY <3>2 DEF Circuit
    <3> QED
      BY <3>1, <3>3
  <2>2. CASE ~(c.state = "OPEN" /\ c.elapsed >= Recovery)
    <3>1. Evaluated(c) = c
      BY <2>2, Zenon DEF Evaluated
    <3> QED
      BY <3>1
  <2> QED
    BY <2>1, <2>2
<1>2. Succeeded(c) \in Circuit
  <2>1. CASE c.state = "HALF_OPEN"
    <3>1. Succeeded(c) = [c EXCEPT !.failureCount = 0, !.state = "CLOSED"]
      BY <2>1 DEF Succeeded, Circuit
    <3>2. [c EXCEPT !.failureCount = 0, !.state = "CLOSED"] \in Circuit
      BY DEF Circuit
    <3> QED
      BY <3>1, <3>2
  <2>2. CASE c.state # "HALF_OPEN"
    <3>1. Succeeded(c) = [c EXCEPT !.failureCount = 0, !.state = c.state]
      BY <2>2 DEF Succeeded
    <3>2. [c EXCEPT !.failureCount = 0, !.state = c.state] \in Circuit
      BY DEF Circuit
    <3> QED
      BY <3>1, <3>2
  <2> QED
    BY <2>1, <2>2
<1>3. Failed(c) \in Circuit
  BY DEF Failed, Circuit
<1> QED
  BY <1>1, <1>2, <1>3

LEMMA BreakerTypesPreserved == BreakerTypes /\ [NextBreaker]_bvars => BreakerTypes'
<1> SUFFICES ASSUME BreakerTypes, [NextBreaker]_bvars PROVE BreakerTypes'
  OBVIOUS
<1> USE DEF BreakerTypes
<1>1. ASSUME NEW w \in Workers, Admit(w) \/ TurnDown(w) PROVE BreakerTypes'
  BY <1>1, CircuitTypes, ZenonT(40) DEF Admit, TurnDown, breakerVars
<1>2. ASSUME NEW w \in Workers, PosAnswersInTime(w) \/ PosIsSilent(w) PROVE BreakerTypes'
  BY <1>2, CircuitTypes DEF PosAnswersInTime, PosIsSilent
<1>3. ASSUME NEW w \in Workers, WorksOn(w) PROVE BreakerTypes'
  <2>1. UNCHANGED <<circuit, unanswered>>
    BY <1>3 DEF WorksOn
  <2>2. asked' = [asked EXCEPT ![w] = asked[w] /\ pc'[w] \in Attempt]
    BY <1>3 DEF WorksOn
  <2>3. (asked[w] /\ pc'[w] \in Attempt) \in BOOLEAN
    BY Zenon
  <2>4. asked' \in [Workers -> BOOLEAN]
    BY <2>2, <2>3, Zenon
  <2> QED
    BY <2>1, <2>4
<1>4. ASSUME NEW w \in Workers, CrashWithBreaker(w) PROVE BreakerTypes'
  BY <1>4, ClosedCircuitType DEF CrashWithBreaker
<1>5. ASSUME NEW w \in Workers, TimePasses(w) PROVE BreakerTypes'
  <2>1. circuit[w].elapsed + 1 \in 0..Recovery
    BY <1>5 DEF TimePasses, Circuit
  <2> QED
    BY <1>5, <2>1 DEF TimePasses, Circuit
<1>6. CASE UNCHANGED breakerVars
  BY <1>6 DEF breakerVars
<1> QED
  BY <1>1, <1>2, <1>3, <1>4, <1>5, <1>6 DEF NextBreaker, AskPos, bvars

\* What one instance does leaves the others where they are.
LEMMA InstancesApart ==
    ASSUME TypeOK, BreakerTypes, NEW w \in Workers, NEW v \in Workers \ {w},
           AskPos(w) \/ WorksOn(w) \/ CrashWithBreaker(w) \/ TimePasses(w)
    PROVE  /\ circuit'[v] = circuit[v] /\ unanswered'[v] = unanswered[v]
           /\ asked'[v] = asked[v]
           /\ pc'[v] = pc[v] /\ mem'[v] = mem[v] /\ cur'[v] = cur[v]
<1>1. circuit'[v] = circuit[v] /\ unanswered'[v] = unanswered[v]
  BY DEF AskPos, Admit, TurnDown, PosAnswersInTime, PosIsSilent, WorksOn,
         CrashWithBreaker, TimePasses, breakerVars, BreakerTypes
<1>2. asked'[v] = asked[v]
  <2>1. CASE WorksOn(w)
    BY <2>1, Zenon DEF WorksOn, BreakerTypes
  <2>2. CASE ~WorksOn(w)
    BY <2>2 DEF AskPos, Admit, TurnDown, PosAnswersInTime, PosIsSilent,
                CrashWithBreaker, TimePasses, breakerVars, BreakerTypes
  <2> QED
    BY <2>1, <2>2
<1>3. WorkerStep(w) \/ Crash(w) \/ UNCHANGED <<pc, mem, cur>>
  BY DEF AskPos, Admit, TurnDown, PosAnswersInTime, PosIsSilent, WorkerStep,
         PosAnswers, WorksOn, CrashWithBreaker, TimePasses, vars, workerVars
<1> QED
  BY <1>1, <1>2, <1>3, OthersStay

LEMMA SoundKept ==
    ASSUME NEW v \in Workers, Sound(v), pc'[v] = pc[v], circuit'[v] = circuit[v],
           asked'[v] = asked[v], unanswered'[v] = unanswered[v]
    PROVE  Sound(v)'
BY DEF Sound

\* Each way a call of the POS can go, as the instance's own circuit sees it.
LEMMA AskingSound ==
    ASSUME TypeOK, BInv, NEW w \in Workers, AskPos(w)
    PROVE  Sound(w)'
<1> USE DEF BInv, BreakerTypes, Sound
<1> DEFINE c == circuit[w]
<1>0. c \in Circuit
  OBVIOUS
<1>1. CASE Admit(w)
  <2>1. circuit'[w] = Evaluated(c) /\ asked'[w] /\ UNCHANGED <<pc, unanswered>>
    BY <1>1 DEF Admit, vars, workerVars
  <2>2. c.state # "HALF_OPEN" /\ Evaluated(c).state # "OPEN" /\ pc[w] = "pos"
    BY <1>1 DEF Admit
  <2>3. CASE c.state = "OPEN"
    <3>1. Evaluated(c) = [c EXCEPT !.state = "HALF_OPEN", !.elapsed = 0]
      BY <2>2, <2>3 DEF Evaluated
    <3> QED
      BY <1>0, <2>1, <2>2, <2>3, <3>1 DEF Circuit
  <2>4. CASE c.state = "CLOSED"
    <3>1. Evaluated(c) = c
      BY <2>4 DEF Evaluated
    <3> QED
      BY <2>1, <2>4, <3>1
  <2> QED
    BY <1>0, <2>2, <2>3, <2>4 DEF Circuit
<1>2. CASE TurnDown(w)
  <2>1. UNCHANGED breakerVars /\ ~asked[w] /\ pc'[w] = "save"
    BY <1>2 DEF TurnDown, PosRefuses, Goto, TypeOK
  <2> QED
    BY <2>1 DEF breakerVars
<1>3. CASE PosAnswersInTime(w)
  <2>1. circuit'[w] = Succeeded(c) /\ unanswered'[w] = 0 /\ pc'[w] # "pos"
    BY <1>3 DEF PosAnswersInTime, PosSucceeds, PosRefuses, Goto, TypeOK
  <2>2. c.state # "OPEN"
    BY <1>3 DEF PosAnswersInTime
  <2>3. Succeeded(c) = [c EXCEPT !.failureCount = 0, !.state = "CLOSED"]
    BY <1>0, <2>2 DEF Succeeded, Circuit
  <2> QED
    BY <1>0, <2>1, <2>2, <2>3 DEF Circuit
<1>4. CASE PosIsSilent(w)
  <2>1. /\ circuit'[w] = Failed(c) /\ unanswered'[w] = unanswered[w] + 1
        /\ pc'[w] # "pos"
    BY <1>4 DEF PosIsSilent, PosTimesOut, Goto, TypeOK
  <2>2. c.state # "OPEN"
    BY <1>4 DEF PosIsSilent
  <2>3. /\ Failed(c).failureCount = c.failureCount + 1 /\ Failed(c).elapsed = 0
        /\ Failed(c).state = IF Trips(c) THEN "OPEN" ELSE c.state
    BY DEF Failed
  <2>4. Failed(c).state = "OPEN" <=> c.failureCount + 1 >= Threshold
    BY <1>0, <2>2, <2>3 DEF Trips, Circuit
  <2>5. Failed(c).state \in {"CLOSED", "OPEN"}
    BY <1>0, <2>2, <2>3 DEF Trips, Circuit
  <2>6. c.failureCount \in Nat
    BY <1>0 DEF Circuit
  <2> QED
    BY <2>1, <2>3, <2>4, <2>5, <2>6
<1> QED
  BY <1>1, <1>2, <1>3, <1>4 DEF AskPos

LEMMA SoundPreserved == TypeOK /\ BInv /\ [NextBreaker]_bvars => BInv'
<1> SUFFICES ASSUME TypeOK, BInv, [NextBreaker]_bvars PROVE \A v \in Workers : Sound(v)'
  BY BreakerTypesPreserved DEF BInv
<1>1. ASSUME NEW w \in Workers, AskPos(w) \/ WorksOn(w) \/ CrashWithBreaker(w) \/ TimePasses(w),
             NEW v \in Workers \ {w}
      PROVE  Sound(v)'
  BY <1>1, InstancesApart, SoundKept DEF BInv
<1>2. ASSUME NEW w \in Workers, AskPos(w) PROVE Sound(w)'
  BY <1>2, AskingSound
<1>3. ASSUME NEW w \in Workers, WorksOn(w) PROVE Sound(w)'
  <2>1. asked'[w] => pc'[w] # "pos"
    <3>1. asked'[w] = (asked[w] /\ pc'[w] \in Attempt)
      BY <1>3, Zenon DEF WorksOn, BInv, BreakerTypes
    <3> QED
      BY <3>1 DEF Attempt
  <2>2. pc[w] # "pos" /\ UNCHANGED <<circuit, unanswered>>
    BY <1>3 DEF WorksOn
  <2> QED
    BY <2>1, <2>2 DEF Sound, BInv
<1>4. ASSUME NEW w \in Workers, CrashWithBreaker(w) PROVE Sound(w)'
  <2>1. circuit'[w] = ClosedCircuit /\ ~asked'[w] /\ unanswered'[w] = 0
    BY <1>4 DEF CrashWithBreaker, BInv, BreakerTypes
  <2> QED
    BY <2>1 DEF Sound, ClosedCircuit
<1>5. ASSUME NEW w \in Workers, TimePasses(w) PROVE Sound(w)'
  <2>1. /\ circuit'[w] = [circuit[w] EXCEPT !.elapsed = @ + 1]
        /\ circuit[w].state = "OPEN" /\ UNCHANGED <<pc, asked, unanswered>>
    BY <1>5 DEF TimePasses, BInv, BreakerTypes, vars, workerVars
  <2> QED
    BY <2>1 DEF Sound, BInv, BreakerTypes, Circuit
<1>6. CASE Surroundings /\ UNCHANGED breakerVars
  <2>1. pc' = pc
    BY <1>6 DEF Surroundings, PosMovesLate, LockLapses, ManifestLapses, PatchValidate,
                PatchSave, AdminRetry, workerVars
  <2> QED
    BY <1>6, <2>1, SoundKept DEF breakerVars, BInv
<1>7. CASE UNCHANGED bvars
  BY <1>7, SoundKept DEF bvars, breakerVars, vars, workerVars, BInv
<1> QED
  BY <1>1, <1>2, <1>3, <1>4, <1>5, <1>6, <1>7 DEF NextBreaker

LEMMA BInvInductive == SpecBreaker => []BInv
<1>1. InitBreaker => BInv
  BY ClosedCircuitType DEF InitBreaker, Init, BInv, BreakerTypes, Sound, ClosedCircuit
<1> QED
  BY <1>1, SoundPreserved, BreakerRefines, TypeCorrect, PTL DEF SpecBreaker

\* Every circuit keeps its type, a closed one has room for another failure, and
\* only an open one counts time.
THEOREM BreakerTypeCorrect == SpecBreaker => []TypeOKBreaker
<1>1. BInv => TypeOKBreaker
  BY DEF BInv, BreakerTypes, Sound, TypeOKBreaker
<1> QED
  BY <1>1, BInvInductive, PTL

\* A circuit is away from CLOSED exactly while the POS has left the last
\* Threshold calls of its instance or more unanswered.
THEOREM CircuitCorrect == SpecBreaker => []CircuitTellsStreak
<1>1. BInv => CircuitTellsStreak
  BY DEF BInv, BreakerTypes, Sound, CircuitTellsStreak, Circuit
<1> QED
  BY <1>1, BInvInductive, PTL

\* An instance whose calls have gone unanswered Threshold times does not ask
\* again before the recovery time is over.
THEOREM LeavesPosInPeace == SpecBreaker => PosLeftInPeace
<1> DEFINE Peace ==
        \A w \in Workers :
          ~asked[w] /\ asked'[w] /\ unanswered[w] >= Threshold =>
             circuit[w].elapsed = Recovery
<1>1. ASSUME BInv, NextBreaker, NEW w \in Workers, ~asked[w], asked'[w],
             unanswered[w] >= Threshold
      PROVE  circuit[w].elapsed = Recovery
  <2>1. Admit(w)
    <3>1. ASSUME NEW v \in Workers, WorksOn(v) PROVE ~asked'[w]
      BY <1>1, <3>1, Zenon DEF WorksOn, BInv, BreakerTypes
    <3>2. ASSUME NEW v \in Workers, Admit(v) PROVE v = w
      BY <1>1, <3>2 DEF Admit, BInv, BreakerTypes
    <3>3. ASSUME NEW v \in Workers,
                 TurnDown(v) \/ PosAnswersInTime(v) \/ PosIsSilent(v)
                   \/ CrashWithBreaker(v) \/ TimePasses(v)
          PROVE  ~asked'[w]
      BY <1>1, <3>3 DEF TurnDown, PosAnswersInTime, PosIsSilent, CrashWithBreaker,
                        TimePasses, breakerVars, BInv, BreakerTypes
    <3>4. CASE UNCHANGED breakerVars
      BY <1>1, <3>4 DEF breakerVars
    <3> QED
      BY <1>1, <3>1, <3>2, <3>3, <3>4 DEF NextBreaker, AskPos
  <2>2. circuit[w] \in Circuit /\ circuit[w].state = "OPEN"
    BY <1>1, <2>1 DEF BInv, BreakerTypes, Sound, Circuit
  <2>3. circuit[w].elapsed >= Recovery
    BY <2>1, <2>2 DEF Admit, Evaluated
  <2> QED
    BY <2>2, <2>3 DEF Circuit
<1>2. BInv /\ [NextBreaker]_bvars => [Peace]_bvars
  BY <1>1
<1> QED
  BY <1>2, BInvInductive, PTL DEF SpecBreaker, PosLeftInPeace

-----------------------------------------------------------------------------
(* Retries *)

\* An item on its way to being recorded has reached the POS, and an initiation is
\* looked at again only after it has happened.
Attempted(w) ==
    /\ pc[w] \in {"record", "recheck"} => asked[w]
    /\ pc[w] = "recheckInit" => deposit[cur[w]] \in {Awaited(cur[w]), Goal(cur[w])}

RInv == \A w \in Workers : Attempted(w)

LEMMA AttemptedKept ==
    ASSUME IInv, [Next]_vars, NEW v \in Workers, Attempted(v),
           pc'[v] = pc[v], cur'[v] = cur[v], asked'[v] = asked[v]
    PROVE  Attempted(v)'
<1>1. pc[v] = "recheckInit" => cur[v] \in Deposits
  BY DEF IInv, InHand
<1> QED
  BY <1>1, DepositStable, MonotoneStep DEF IInv, Attempted, Goal, Awaited

\* What the instance itself does.
LEMMA OwnAttempt ==
    ASSUME IInv, MInv, BInv, RInv, [Next]_vars, NEW w \in Workers,
           AskPos(w) \/ WorksOn(w) \/ CrashWithBreaker(w) \/ TimePasses(w)
    PROVE  Attempted(w)'
<1> USE DEF Goto
<1>1. CASE AskPos(w)
  <2>1. CASE Admit(w)
    BY <2>1 DEF Admit, Attempted, vars, workerVars
  <2>2. CASE TurnDown(w)
    BY <2>2 DEF TurnDown, PosRefuses, Attempted, IInv, TypeOK
  <2>3. CASE PosAnswersInTime(w) \/ PosIsSilent(w)
    BY <2>3 DEF PosAnswersInTime, PosIsSilent, PosSucceeds, PosRefuses, PosTimesOut,
                Attempted, IInv, TypeOK
  <2> QED
    BY <1>1, <2>1, <2>2, <2>3 DEF AskPos
<1>2. CASE WorksOn(w)
  <2>1. WorkerStep(w) /\ pc[w] # "pos" /\ asked' = [asked EXCEPT ![w] = @ /\ pc'[w] \in Attempt]
    BY <1>2 DEF WorksOn
  <2>2. asked'[w] <=> asked[w] /\ pc'[w] \in Attempt
    BY <2>1, Zenon DEF BInv, BreakerTypes
  <2>3. pc'[w] \in {"record", "recheck"} => pc[w] \in {"record", "recheck"}
    BY <2>1
       DEF WorkerStep, StartTick, TryLock, Unlock, InitiateSettlement, ListActive,
           ExpireOrEscalate, BeginItems, ReadDeposit, RecheckInitiation, PosAnswers,
           PosSucceeds, PosRefuses, PosTimesOut, RecheckAfterError, SaveSelect,
           SaveUpdate, FinalizeEmpty, CompleteSettlement, EscalateSettlement,
           Finalize, StillInProgress, InitiateRefund, RecordSuccess, RetryOrThrow,
           Forget, Abort, Outcome, IInv, TypeOK
  <2>4. pc'[w] \in {"record", "recheck"} => asked'[w]
    BY <2>2, <2>3 DEF RInv, Attempted, Attempt
  <2>5. ASSUME pc'[w] = "recheckInit"
        PROVE  deposit'[cur'[w]] \in {Awaited(cur[w])', Goal(cur[w])'}
    <3>1. InitiateRefund(w) /\ ~MayInitiateRefund(cur[w]) /\ UNCHANGED <<moneyVars, cur>>
      <4>1. CASE InitiateRefund(w)
        BY <2>5, <4>1, ZenonT(40) DEF InitiateRefund, RetryOrThrow, Outcome, IInv, TypeOK
      <4>2. CASE ~InitiateRefund(w)
        BY <2>1, <2>5, <4>2
           DEF WorkerStep, StartTick, TryLock, Unlock, InitiateSettlement, ListActive,
               ExpireOrEscalate, BeginItems, ReadDeposit, RecheckInitiation, PosAnswers,
               PosSucceeds, PosRefuses, PosTimesOut, RecheckAfterError, SaveSelect,
               SaveUpdate, FinalizeEmpty, CompleteSettlement, EscalateSettlement,
               Finalize, StillInProgress, RecordSuccess, RetryOrThrow,
               Forget, Abort, Outcome, IInv, TypeOK
      <4> QED
        BY <4>1, <4>2
    <3>2. cur[w] \in Listed(manifest.items) /\ cur[w] \in Deposits
      BY <3>1 DEF InitiateRefund, MInv, Copied, Working, Holding, Listed
    <3>3. deposit[cur[w]] \in {Awaited(cur[w]), Goal(cur[w])}
      BY <3>1, <3>2 DEF MInv, RowSound, Listable, MayInitiateRefund
    <3> QED
      BY <3>1, <3>2, <3>3, DepositStable DEF IInv
  <2> QED
    BY <2>4, <2>5 DEF Attempted
<1>3. CASE CrashWithBreaker(w)
  BY <1>3 DEF CrashWithBreaker, Crash, Forget, Attempted, IInv, TypeOK
<1>4. CASE TimePasses(w)
  BY <1>4, AttemptedKept DEF TimePasses, RInv, vars, workerVars
<1> QED
  BY <1>1, <1>2, <1>3, <1>4

LEMMA AttemptedPreserved ==
    ASSUME IInv, MInv, BInv, RInv, [NextBreaker]_bvars
    PROVE  RInv'
<1>1. [Next]_vars
  BY StepWithBreaker
<1>2. ASSUME NEW w \in Workers, NEW v \in Workers \ {w},
             AskPos(w) \/ WorksOn(w) \/ CrashWithBreaker(w) \/ TimePasses(w)
      PROVE  Attempted(v)'
  <2>1. pc'[v] = pc[v] /\ cur'[v] = cur[v] /\ asked'[v] = asked[v]
    BY <1>2, InstancesApart DEF IInv, BInv
  <2> QED
    BY <1>1, <2>1, AttemptedKept DEF RInv
<1>3. CASE Surroundings /\ UNCHANGED breakerVars
  <2>1. UNCHANGED <<pc, cur, asked>>
    BY <1>3 DEF Surroundings, PosMovesLate, LockLapses, ManifestLapses, PatchValidate,
                PatchSave, AdminRetry, workerVars, breakerVars
  <2> QED
    BY <1>1, <2>1, AttemptedKept DEF RInv
<1>4. CASE UNCHANGED bvars
  BY <1>1, <1>4, AttemptedKept DEF RInv, bvars, vars, workerVars, breakerVars
<1> QED
  BY <1>1, <1>2, <1>3, <1>4, OwnAttempt DEF NextBreaker, RInv

\* An item in a copy that costs a retry is one that the worker lets fail.
LEMMA RetrySpent ==
    ASSUME IInv, NEW w \in Workers, NEW d \in Deposits,
           mem'[w].items[d].retries > mem[w].items[d].retries, pc[w] # "list",
           WorkerStep(w) \/ Crash(w)
    PROVE  \/ PosRefuses(w)
           \/ ReadDeposit(w) /\ deposit[NextItem(w)] \notin {Goal(NextItem(w)), Awaited(NextItem(w)), "held"}
           \/ RecheckInitiation(w) /\ deposit[cur[w]] \notin {"refunded", "refund_pending"}
           \/ RecheckAfterError(w)
<1>1. mem[w] \in ManifestRow /\ mem[w].items[d] \in Item
  BY DEF IInv, TypeOK, ManifestRow
<1>2. mem' # mem
  BY <1>1 DEF Item
<1>3. ~Forget(w)
  BY <1>1 DEF Forget, IInv, TypeOK, NoRow, NoItem, Item
<1>4. ~InitiateSettlement(w)
  <2>1. \A e \in Deposits : NewManifest.items[e].retries = 0
    BY DEF NewManifest, NoItem
  <2> QED
    BY <1>1, <1>2, <2>1 DEF InitiateSettlement, IInv, TypeOK, Item
<1>5. ASSUME NEW status, mem' = [mem EXCEPT ![w].status = status] PROVE FALSE
  BY <1>1, <1>5 DEF IInv, TypeOK, ManifestRow, Item
<1>6. ~ExpireOrEscalate(w) /\ ~FinalizeEmpty(w) /\ ~CompleteSettlement(w) /\ ~EscalateSettlement(w)
  BY <1>2, <1>5 DEF ExpireOrEscalate, GiveUp, FinalizeEmpty, CompleteSettlement,
                    EscalateSettlement, Finalize, Close
<1>7. ASSUME NEW e \in Deposits, Sent(w, e) \/ Ack(w, e) PROVE FALSE
  <2>1. mem[w].items[e] \in Item
    BY DEF IInv, TypeOK, ManifestRow
  <2>2. PICK item \in Item : SetItem(w, e, item) /\ item.retries = mem[w].items[e].retries
    BY <1>7, <2>1 DEF Sent, Ack, Item, ItemStatus
  <2>3. mem'[w].items = [mem[w].items EXCEPT ![e] = item]
    BY <1>1, <2>2 DEF SetItem, IInv, TypeOK, ManifestRow
  <2> QED
    BY <1>1, <2>2, <2>3 DEF ManifestRow, Item
<1>8. ReadDeposit(w) => deposit[NextItem(w)] \notin {Goal(NextItem(w)), Awaited(NextItem(w)), "held"}
  <2>1. ASSUME ReadDeposit(w) PROVE NextItem(w) \in Deposits
    BY <2>1, NextItemType DEF ReadDeposit, DueItems
  <2> QED
    BY <1>2, <1>7, <2>1 DEF ReadDeposit
<1>9. RecheckInitiation(w) => deposit[cur[w]] \notin {"refunded", "refund_pending"}
  BY <1>2, <1>7 DEF RecheckInitiation, IInv, InHand
<1>10. ~RecordSuccess(w) /\ ~InitiateRefund(w)
  <2>1. ASSUME RecordSuccess(w) \/ InitiateRefund(w)
        PROVE  cur[w] \in Deposits /\ (UNCHANGED mem \/ Ack(w, cur[w]) \/ Sent(w, cur[w]))
    BY <2>1 DEF RecordSuccess, InitiateRefund, Outcome, IInv, InHand
  <2> QED
    BY <1>2, <1>7, <2>1
<1>11. ~StartTick(w) /\ ~TryLock(w) /\ ~Unlock(w) /\ ~ListActive(w) /\ ~BeginItems(w)
         /\ ~SaveSelect(w) /\ ~SaveUpdate(w) /\ ~StillInProgress(w) /\ ~Crash(w)
         /\ ~PosSucceeds(w) /\ ~PosTimesOut(w)
  BY <1>2, <1>3 DEF StartTick, TryLock, Unlock, ListActive, BeginItems, SaveSelect,
           SaveUpdate, StillInProgress, Crash, PosSucceeds, PosTimesOut
<1> QED
  BY <1>4, <1>6, <1>8, <1>9, <1>10, <1>11 DEF WorkerStep, PosAnswers

\* A retry is spent without asking the POS only by a circuit that is open, and its
\* recovery time is then not over: no item fails because its deposit is in a status
\* the settlement does not expect.
THEOREM RetriesAreAsked == SpecBreaker => RetryUnaskedOnlyWhenOpen
<1> DEFINE Spent ==
      \A w \in Workers, d \in Deposits :
         mem'[w].items[d].retries > mem[w].items[d].retries
            /\ pc[w] # "list" /\ ~asked[w] =>
            unanswered[w] >= Threshold /\ circuit[w].elapsed < Recovery
<1>1. ASSUME IInv, MInv, BInv, RInv, NextBreaker, NEW w \in Workers, NEW d \in Deposits,
             mem'[w].items[d].retries > mem[w].items[d].retries, pc[w] # "list", ~asked[w]
      PROVE  unanswered[w] >= Threshold /\ circuit[w].elapsed < Recovery
  <2>1. mem' # mem /\ mem'[w] # mem[w]
    BY <1>1 DEF IInv, TypeOK, ManifestRow, Item
  <2>2. AskPos(w) \/ WorksOn(w) \/ CrashWithBreaker(w) \/ TimePasses(w)
    <3>1. ASSUME NEW v \in Workers \ {w},
                 AskPos(v) \/ WorksOn(v) \/ CrashWithBreaker(v) \/ TimePasses(v)
          PROVE  FALSE
      BY <2>1, <3>1, <1>1, InstancesApart DEF IInv, BInv
    <3>2. ~Surroundings
      BY <2>1 DEF Surroundings, PosMovesLate, LockLapses, ManifestLapses, PatchValidate,
                  PatchSave, AdminRetry, workerVars
    <3> QED
      BY <1>1, <3>1, <3>2 DEF NextBreaker
  <2>3. CASE TurnDown(w)
    <3>1. circuit[w] \in Circuit /\ Sound(w)
      BY <1>1 DEF BInv, BreakerTypes
    <3>2. circuit[w].state = "OPEN" /\ circuit[w].elapsed < Recovery
      BY <2>3, <3>1 DEF TurnDown, Evaluated, Circuit
    <3> QED
      BY <1>1, <3>1, <3>2 DEF Sound, BInv, BreakerTypes, Circuit
  <2>4. CASE Admit(w) \/ TimePasses(w)
    BY <2>1, <2>4 DEF Admit, TimePasses, vars, workerVars
  <2>5. ~PosAnswersInTime(w) /\ ~PosIsSilent(w)
    BY <1>1 DEF PosAnswersInTime, PosIsSilent
  <2>6. CASE WorksOn(w) \/ CrashWithBreaker(w)
    <3>1. WorkerStep(w) \/ Crash(w)
      BY <2>6 DEF WorksOn, CrashWithBreaker
    <3>2. ~PosRefuses(w)
      BY <1>1, <2>1, <2>6 DEF WorksOn, CrashWithBreaker, Crash, PosRefuses, Forget, Goto,
                              IInv, TypeOK
    <3>3. ~RecheckAfterError(w)
      BY <1>1 DEF RecheckAfterError, RInv, Attempted
    <3>4. ~(ReadDeposit(w) /\ deposit[NextItem(w)] \notin
                                {Goal(NextItem(w)), Awaited(NextItem(w)), "held"})
      <4>1. ASSUME ReadDeposit(w) PROVE NextItem(w) \in Listed(manifest.items)
        BY <1>1, <4>1, NextItemType
           DEF ReadDeposit, DueItems, Due, Listed, MInv, Copied, Working
      <4> QED
        BY <1>1, <4>1 DEF MInv, RowSound, Listable
    <3>5. ~(RecheckInitiation(w) /\ deposit[cur[w]] \notin {"refunded", "refund_pending"})
      BY <1>1 DEF RecheckInitiation, RInv, Attempted, IInv, InHand, Goal, Awaited
    <3> QED
      BY <1>1, <3>1, <3>2, <3>3, <3>4, <3>5, RetrySpent
  <2> QED
    BY <2>2, <2>3, <2>4, <2>5, <2>6 DEF AskPos
<1>2. IInv /\ MInv /\ BInv /\ RInv /\ [NextBreaker]_bvars => [Spent]_bvars
  BY <1>1
<1>3. InitBreaker => RInv
  BY DEF InitBreaker, Init, RInv, Attempted
<1> QED
  BY <1>2, <1>3, AttemptedPreserved, BInvInductive, BreakerRefines, MInvInductive, PTL
     DEF SpecBreaker, RetryUnaskedOnlyWhenOpen
=============================================================================
