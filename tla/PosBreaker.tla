----------------------------- MODULE PosBreaker -----------------------------
(***************************************************************************)
(* The circuit breaker between the settlement and the payment provider     *)
(* (POS).  Every instance of the service has one of its own, in memory, in *)
(* front of both POS operations.  Here it is put between the workers of    *)
(* module Settlement and the POS: five calls in a row without an answer    *)
(* open it, an open circuit turns calls down without asking, and the first *)
(* call after the recovery time decides whether it closes.  A circuit that *)
(* turns a call down costs its item a retry.                               *)
(***************************************************************************)
EXTENDS Settlement

CONSTANTS
    Threshold,      \* CIRCUIT_FAILURE_THRESHOLD
    Recovery        \* CIRCUIT_RECOVERY_MS, in steps of the clock

ASSUME BreakerAssumption ==
    /\ Threshold \in Nat \ {0}
    /\ Recovery \in Nat \ {0}

VARIABLES
    circuit,        \* the CircuitBreaker object of each instance
    asked,          \* has the item in hand reached the POS in this attempt?
    unanswered      \* calls the POS has left without an answer since the last
                    \* answer it gave this process (history)

breakerVars == <<circuit, asked, unanswered>>
bvars == <<vars, breakerVars>>

\* elapsed is Date.now() - lastFailureTime, counted while the circuit is open
\* and no further than the recovery time
Circuit == [state : {"CLOSED", "OPEN", "HALF_OPEN"},
            failureCount : Nat, elapsed : 0..Recovery]

ClosedCircuit == [state |-> "CLOSED", failureCount |-> 0, elapsed |-> 0]

TypeOKBreaker ==
    /\ circuit \in [Workers -> Circuit]
    /\ asked \in [Workers -> BOOLEAN]
    /\ unanswered \in [Workers -> Nat]
    /\ \A w \in Workers : circuit[w].state = "CLOSED" =>
            circuit[w].failureCount < Threshold
    /\ \A w \in Workers : circuit[w].elapsed > 0 => circuit[w].state = "OPEN"

InitBreaker ==
    /\ Init
    /\ circuit = [w \in Workers |-> ClosedCircuit]
    /\ asked = [w \in Workers |-> FALSE]
    /\ unanswered = [w \in Workers |-> 0]

-----------------------------------------------------------------------------
(* CircuitBreaker *)

\* Mutant: an open circuit lets the next call through at once.
EvaluatedAtOnce(c) == IF c.state = "OPEN" THEN [c EXCEPT !.state = "HALF_OPEN"] ELSE c

\* evaluateState: an open circuit is half open once the time is over
Evaluated(c) ==
    IF c.state = "OPEN" /\ c.elapsed >= Recovery
    THEN [c EXCEPT !.state = "HALF_OPEN", !.elapsed = 0] ELSE c

\* Mutant: a success in between does not clear the count.
SuccessCloses(c) ==
    IF c.state = "HALF_OPEN" THEN [c EXCEPT !.state = "CLOSED"] ELSE c

\* onSuccess; one success is enough for a half-open circuit
Succeeded(c) ==
    [c EXCEPT !.failureCount = 0,
              !.state = IF @ = "HALF_OPEN" THEN "CLOSED" ELSE @]

\* Mutant: trips one failure early.
TripsEarly(c) == c.failureCount + 2 >= Threshold

\* Mutant: trips one failure late.
TripsLate(c) == c.state = "HALF_OPEN" \/ c.failureCount + 1 > Threshold

Trips(c) == c.state = "HALF_OPEN" \/ c.failureCount + 1 >= Threshold

\* onFailure
Failed(c) ==
    [state        |-> IF Trips(c) THEN "OPEN" ELSE c.state,
     failureCount |-> c.failureCount + 1,
     elapsed      |-> 0]

-----------------------------------------------------------------------------
(* captureDeposit and refundDeposit, called by the worker's item *)

\* execute, up to the call: the POS is asked unless the circuit is open.
Admit(w) ==
    /\ pc[w] = "pos" /\ ~asked[w]
    /\ Evaluated(circuit[w]).state # "OPEN"
    /\ circuit' = [circuit EXCEPT ![w] = Evaluated(@)]
    /\ asked' = [asked EXCEPT ![w] = TRUE]
    /\ UNCHANGED <<vars, unanswered>>

\* CircuitOpenError: the item has failed like any other.
TurnDown(w) ==
    /\ pc[w] = "pos" /\ ~asked[w]
    /\ Evaluated(circuit[w]).state = "OPEN"
    /\ PosRefuses(w)
    /\ UNCHANGED breakerVars

\* A refusal is an answer too: the promise resolves with success = false.
PosAnswersInTime(w) ==
    /\ pc[w] = "pos" /\ asked[w]
    /\ PosSucceeds(w) \/ PosRefuses(w)
    /\ circuit' = [circuit EXCEPT ![w] = Succeeded(@)]
    /\ unanswered' = [unanswered EXCEPT ![w] = 0]
    /\ UNCHANGED asked

\* PosTimeoutError
PosIsSilent(w) ==
    /\ pc[w] = "pos" /\ asked[w]
    /\ PosTimesOut(w)
    /\ circuit' = [circuit EXCEPT ![w] = Failed(@)]
    /\ unanswered' = [unanswered EXCEPT ![w] = @ + 1]
    /\ UNCHANGED asked

AskPos(w) == Admit(w) \/ TurnDown(w) \/ PosAnswersInTime(w) \/ PosIsSilent(w)

-----------------------------------------------------------------------------
(* The rest of the settlement *)

\* the steps at which the worker still has the same attempt in hand
Attempt == {"record", "recheck", "save", "write"}

\* All the worker does that is no call of the POS.
WorksOn(w) ==
    /\ pc[w] # "pos"
    /\ WorkerStep(w)
    /\ asked' = [asked EXCEPT ![w] = @ /\ pc'[w] \in Attempt]
    /\ UNCHANGED <<circuit, unanswered>>

\* The breaker dies with its process and comes back closed.
CrashWithBreaker(w) ==
    /\ Crash(w)
    /\ circuit' = [circuit EXCEPT ![w] = ClosedCircuit]
    /\ asked' = [asked EXCEPT ![w] = FALSE]
    /\ unanswered' = [unanswered EXCEPT ![w] = 0]

TimePasses(w) ==
    /\ circuit[w].state = "OPEN" /\ circuit[w].elapsed < Recovery
    /\ circuit' = [circuit EXCEPT ![w].elapsed = @ + 1]
    /\ UNCHANGED <<vars, asked, unanswered>>

Surroundings ==
    \/ \E d \in Deposits : PosMovesLate(d)
    \/ LockLapses \/ ManifestLapses
    \/ \E s \in AuctionStatus : PatchValidate(s)
    \/ PatchSave \/ AdminRetry

NextBreaker ==
    \/ \E w \in Workers : AskPos(w) \/ WorksOn(w) \/ CrashWithBreaker(w) \/ TimePasses(w)
    \/ Surroundings /\ UNCHANGED breakerVars

SpecBreaker == InitBreaker /\ [][NextBreaker]_bvars

-----------------------------------------------------------------------------
(* Safety *)

\* An open or half-open circuit stands for Threshold calls in a row that the
\* POS left unanswered, a closed one for fewer: an answer in between, even a
\* refusal, starts the count again, and a failed probe does not.
CircuitTellsStreak ==
    \A w \in Workers :
        circuit[w].state # "CLOSED" <=> unanswered[w] >= Threshold

\* After Threshold unanswered calls the POS is left in peace for the recovery
\* time, and then gets one call: no second one before that has been answered.
PosLeftInPeace ==
    [][\A w \in Workers :
         ~asked[w] /\ asked'[w] /\ unanswered[w] >= Threshold =>
            circuit[w].elapsed = Recovery]_bvars

\* An item spends a retry without the POS having been asked in that attempt
\* only while its instance's circuit is open.
RetryUnaskedOnlyWhenOpen ==
    [][\A w \in Workers, d \in Deposits :
         mem'[w].items[d].retries > mem[w].items[d].retries
            /\ pc[w] # "list" /\ ~asked[w] =>
            unanswered[w] >= Threshold /\ circuit[w].elapsed < Recovery]_bvars
=============================================================================
