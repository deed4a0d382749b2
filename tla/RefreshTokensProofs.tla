-------------------------- MODULE RefreshTokensProofs --------------------------
(***************************************************************************)
(* Proofs about RefreshTokens, for any number of devices, requests, tokens *)
(* and upsets: types and the alarm's cause first, and then what upsets     *)
(* cost a user.  That is the live tokens that nobody holds any more and    *)
(* the devices whose token has been revoked alone, and each crash, lost    *)
(* answer or second tab costs one.                                         *)
(***************************************************************************)
EXTENDS RefreshTokens, FiniteSetTheorems, TLAPS

USE TokensAssumption

-----------------------------------------------------------------------------
(* What a request carries *)

Naming == {"lookup", "alarm", "revoke", "logout", "logoutAll", "tokens"}

\* A request that names a token names one that has been issued; one that has
\* been looked up has been presented, and an alarm has its cause.
Sound(q) ==
    /\ request[q].step \in Naming =>
         request[q].token \in Tokens /\ row[request[q].token] # "absent"
    /\ request[q].step = "revoke" => request[q].token \in presented
    /\ request[q].step = "alarm" => request[q].again \/ request[q].token \in swept

\* A revoked token was presented, or went with all others.
RevokedHasCause == \A t \in Tokens : row[t] = "revoked" => t \in presented \cup swept

IInv == TypeOK /\ (\A q \in Requests : Sound(q)) /\ RevokedHasCause

\* Rows are never taken back, and what has been done to tokens stays known.
Onwards ==
    /\ row' \in [Tokens -> {"absent", "live", "revoked"}]
    /\ \A t \in Tokens : row[t] # "absent" => row'[t] # "absent"
    /\ presented \subseteq presented' /\ swept \subseteq swept'
    /\ presented' \subseteq Tokens /\ swept' \subseteq Tokens
    /\ RevokedHasCause'

LEMMA TokensNotZero == Tokens \subseteq (0..MaxTokens) \ {0}
BY DEF Tokens

LEMMA IdleType == Idle \in Request
BY DEF Idle, Request, Step

LEMMA NothingNew ==
    ASSUME IInv, UNCHANGED <<row, presented, swept>>
    PROVE  Onwards
BY DEF IInv, TypeOK, RevokedHasCause, Onwards

LEMMA SweepOnwards ==
    ASSUME IInv, Sweep, UNCHANGED presented
    PROVE  Onwards
BY DEF IInv, TypeOK, Sweep, Live, RevokedHasCause, Onwards

\* A step keeps the invariant when the data moves onwards, one request turns into
\* a sound one, and the devices hold issued tokens.
LEMMA TurnKeeps ==
    ASSUME IInv, Onwards, NEW q \in Requests, NEW rec \in Request,
           request' = [request EXCEPT ![q] = rec], Sound(q)',
           account' \in {"none", "bare", "complete"}, active' \in BOOLEAN,
           expired' \subseteq Tokens, upsets' \in 0..MaxUpsets,
           holds' \in [Devices -> 0..MaxTokens],
           \A d \in Devices : holds'[d] # 0 => row'[holds'[d]] # "absent"
    PROVE  IInv'
<1>1. request' \in [Requests -> Request]
  BY DEF IInv, TypeOK
<1>2. \A p \in Requests \ {q} : request'[p] = request[p]
  BY DEF IInv, TypeOK
<1>3. ASSUME NEW p \in Requests \ {q} PROVE Sound(p)'
  BY <1>2 DEF IInv, Sound, Onwards
<1>4. TypeOK'
  BY <1>1 DEF TypeOK, Onwards
<1> QED
  BY <1>3, <1>4 DEF IInv, Onwards

LEMMA StepsOn ==
    ASSUME IInv, NEW q \in Requests, NEW step \in Step, Become(q, step)
    PROVE  \E rec \in Request :
             /\ request' = [request EXCEPT ![q] = rec]
             /\ request'[q].step = step
             /\ request'[q].token = request[q].token
             /\ request'[q].again = request[q].again
<1> DEFINE rec == [request[q] EXCEPT !.step = step]
<1>1. rec \in Request
  BY DEF IInv, TypeOK, Request
<1>2. request' = [request EXCEPT ![q] = rec]
  BY DEF Become
<1>3. request'[q] = rec
  BY <1>2 DEF IInv, TypeOK
<1> QED
  BY <1>1, <1>2, <1>3 DEF IInv, TypeOK, Request

LEMMA HoldsOn ==
    ASSUME IInv, Onwards, UNCHANGED holds
    PROVE  /\ holds' \in [Devices -> 0..MaxTokens]
           /\ \A d \in Devices : holds'[d] # 0 => row'[holds'[d]] # "absent"
<1>1. \A d \in Devices : holds[d] # 0 => holds[d] \in Tokens
  BY DEF IInv, TypeOK, Tokens
<1> QED
  BY <1>1 DEF IInv, TypeOK, Onwards

-----------------------------------------------------------------------------
(* Each handler *)

LEMMA SendKeeps ==
    ASSUME IInv, NEW q \in Requests, NEW d \in Devices, SendAny(q, d)
    PROVE  IInv'
<1>1. PICK step \in {"register", "credentials", "lookup", "logout", "logoutAll"} :
        /\ Send(q, d, step)
        /\ step \in Naming => holds[d] # 0
  BY DEF SendAny, Naming
<1> DEFINE rec == [step |-> step, device |-> d, token |-> holds[d], again |-> FALSE]
<1>2. rec \in Request
  BY DEF IInv, TypeOK, Request, Step
<1>3. Onwards
  BY <1>1, NothingNew DEF Send, tokenVars
<1>4. request' = [request EXCEPT ![q] = rec] /\ request'[q] = rec
  BY <1>1 DEF Send, IInv, TypeOK
<1>5. Sound(q)'
  BY <1>1, <1>4 DEF Send, Sound, IInv, TypeOK, tokenVars, Tokens
<1>6. upsets' \in 0..MaxUpsets /\ UNCHANGED <<account, active, expired, holds>>
  BY <1>1 DEF Send, Upset, IInv, TypeOK, tokenVars
<1> QED
  BY <1>2, <1>3, <1>4, <1>5, <1>6, TurnKeeps, HoldsOn DEF IInv, TypeOK

LEMMA ReceiveKeeps ==
    ASSUME IInv, NEW q \in Requests, Receive(q)
    PROVE  IInv'
<1>1. Onwards
  BY NothingNew DEF Receive, tokenVars
<1>2. request' = [request EXCEPT ![q] = Idle] /\ request'[q] = Idle
  BY DEF Receive, Rest, IInv, TypeOK
<1>3. Sound(q)'
  BY <1>2 DEF Sound, Idle, Naming
<1> DEFINE device == request[q].device
           token == CASE request[q].step = "tokens"     -> request[q].token
                      [] request[q].step = "registered" -> holds[device]
                      [] OTHER                          -> 0
<1>4. holds' = [holds EXCEPT ![device] = token]
  BY DEF Receive
<1>5. \A d \in Devices : holds[d] \in 0..MaxTokens /\ (holds[d] # 0 => row[holds[d]] # "absent")
  BY DEF IInv, TypeOK
<1>6. ASSUME device \in Devices
      PROVE  token \in 0..MaxTokens /\ (token # 0 => row[token] # "absent")
  <2>1. CASE request[q].step = "tokens"
    BY <2>1, TokensNotZero DEF IInv, Sound, Naming
  <2>2. CASE request[q].step = "registered"
    BY <1>5, <1>6, <2>2
  <2>3. CASE request[q].step \notin {"tokens", "registered"}
    BY <2>3
  <2> QED
    BY <2>1, <2>2, <2>3
<1>7. \A d \in Devices : holds'[d] = IF d = device THEN token ELSE holds[d]
  <2> HIDE DEF token, device
  <2> QED BY <1>4 DEF IInv, TypeOK
<1>8. holds' \in [Devices -> 0..MaxTokens]
  <2> HIDE DEF token, device
  <2>1. CASE device \in Devices
    BY <1>4, <1>6, <2>1 DEF IInv, TypeOK
  <2>2. CASE device \notin Devices
    BY <1>4, <2>2 DEF IInv, TypeOK
  <2> QED
    BY <2>1, <2>2
<1>9. \A d \in Devices : holds'[d] # 0 => row'[holds'[d]] # "absent"
  <2>1. row' = row
    BY DEF Receive, tokenVars
  <2> HIDE DEF token, device
  <2> QED
    BY <1>5, <1>6, <1>7, <2>1
<1>10. UNCHANGED <<account, active, expired, upsets>>
  BY DEF Receive, tokenVars
<1> QED
  BY <1>1, <1>2, <1>3, <1>8, <1>9, <1>10, IdleType, TurnKeeps DEF IInv, TypeOK

LEMMA LoseKeeps ==
    ASSUME IInv, NEW q \in Requests, Lose(q)
    PROVE  IInv'
<1>1. Onwards
  BY NothingNew DEF Lose, tokenVars
<1>2. request' = [request EXCEPT ![q] = Idle] /\ request'[q] = Idle
  BY DEF Lose, Rest, IInv, TypeOK
<1>3. Sound(q)'
  BY <1>2 DEF Sound, Idle, Naming
<1>4. upsets' \in 0..MaxUpsets /\ UNCHANGED <<account, active, expired, holds>>
  BY DEF Lose, Upset, IInv, TypeOK, tokenVars
<1> QED
  BY <1>1, <1>2, <1>3, <1>4, IdleType, TurnKeeps, HoldsOn DEF IInv, TypeOK

\* A handler's step that only decides what comes next.
LEMMA DecisionKeeps ==
    ASSUME IInv, NEW q \in Requests, NEW step \in Step, Become(q, step), step \notin Naming,
           account' \in {"none", "bare", "complete"},
           expired' \subseteq Tokens, active' \in BOOLEAN, Onwards, UNCHANGED <<holds, upsets>>
    PROVE  IInv'
<1>1. PICK rec \in Request :
             /\ request' = [request EXCEPT ![q] = rec]
             /\ request'[q].step = step
  BY StepsOn
<1>2. Sound(q)'
  BY <1>1 DEF Sound, Naming
<1> QED
  BY <1>1, <1>2, TurnKeeps, HoldsOn DEF IInv, TypeOK

LEMMA LookUpKeeps ==
    ASSUME IInv, NEW q \in Requests, LookUp(q)
    PROVE  IInv'
<1> DEFINE t == request[q].token
           rec == [request[q] EXCEPT !.step = Verdict(t), !.again = t \in presented]
<1>1. t \in Tokens /\ row[t] \in {"live", "revoked"}
  BY DEF LookUp, IInv, Sound, Naming, TypeOK
<1>2. Verdict(t) \in {"alarm", "refused", "revoke"}
  BY DEF Verdict
<1>3. (t \in presented) \in BOOLEAN
  <2> HIDE DEF t
  <2> QED
    OBVIOUS
<1>4. rec \in Request
  <2>1. Verdict(t) \in Step
    BY <1>2 DEF Step
  <2>2. request[q] \in Request
    BY DEF IInv, TypeOK
  <2> HIDE DEF t
  <2> DEFINE v == Verdict(t)
             a == t \in presented
  <2> HIDE DEF v, a
  <2>3. v \in Step /\ a \in BOOLEAN
    BY <1>3, <2>1 DEF v, a
  <2>4. [request[q] EXCEPT !.step = v, !.again = a] \in Request
    BY <2>2, <2>3 DEF Request
  <2> QED
    BY <2>4 DEF v, a
<1>5. request' = [request EXCEPT ![q] = rec] /\ request'[q] = rec
  BY DEF LookUp, IInv, TypeOK
<1>6. /\ request'[q].step = Verdict(t) /\ request'[q].token = t
      /\ request'[q].again = (t \in presented)
  <2>1. request[q] \in Request
    BY DEF IInv, TypeOK
  <2> QED
    BY <1>5, <2>1 DEF Request
<1>7. presented' = presented \cup {t} /\ UNCHANGED <<account, active, tokenVars, holds, upsets>>
  BY DEF LookUp
<1>8. Onwards
  BY <1>1, <1>7 DEF IInv, TypeOK, RevokedHasCause, Onwards, tokenVars
<1>9. Sound(q)'
  <2>1. Verdict(t) = "alarm" => row[t] = "revoked"
    BY <1>2 DEF Verdict
  <2>2. Verdict(t) = "alarm" => t \in presented \/ t \in swept
    BY <1>1, <2>1 DEF IInv, RevokedHasCause
  <2> HIDE DEF t
  <2> QED
    BY <1>1, <1>2, <1>6, <1>7, <2>2 DEF Sound, Naming, tokenVars
<1> HIDE DEF t, rec
<1> QED
  BY <1>4, <1>5, <1>7, <1>8, <1>9, TurnKeeps, HoldsOn DEF IInv, TypeOK, tokenVars

LEMMA IssueKeeps ==
    ASSUME IInv, NEW q \in Requests, IssueTokens(q)
    PROVE  IInv'
<1>1. PICK t \in Unissued :
        /\ row' = [row EXCEPT ![t] = "live"]
        /\ request' = [request EXCEPT ![q].step = "tokens", ![q].token = t]
  BY DEF IssueTokens
<1> DEFINE rec == [request[q] EXCEPT !.step = "tokens", !.token = t]
<1>2. t \in Tokens /\ row[t] = "absent"
  BY DEF Unissued
<1>3. rec \in Request
  BY <1>2, TokensNotZero, ZenonT(40) DEF IInv, TypeOK, Request, Step
<1>4. request' = [request EXCEPT ![q] = rec] /\ request'[q] = rec
  BY <1>1 DEF IInv, TypeOK
<1>5. UNCHANGED <<account, active, expired, swept, holds, presented, upsets>>
  BY DEF IssueTokens
<1>6. Onwards
  BY <1>1, <1>2, <1>5 DEF IInv, TypeOK, RevokedHasCause, Onwards
<1>7. request'[q].step = "tokens" /\ request'[q].token = t /\ row'[t] = "live"
  BY <1>1, <1>2, <1>4 DEF IInv, TypeOK, Request
<1>8. Sound(q)'
  BY <1>2, <1>7 DEF Sound, Naming
<1> QED
  BY <1>3, <1>4, <1>5, <1>6, <1>8, TurnKeeps, HoldsOn DEF IInv, TypeOK

LEMMA RevokeOnwards ==
    ASSUME IInv, NEW t \in Tokens, row' = [row EXCEPT ![t] = "revoked"],
           presented' = presented \cup {t}, UNCHANGED swept
    PROVE  Onwards
BY DEF IInv, TypeOK, RevokedHasCause, Onwards

LEMMA ServeKeeps ==
    ASSUME IInv, NEW q \in Requests, Serve(q)
    PROVE  IInv'
<1> USE DEF tokenVars
<1>1. CASE RegisterLookup(q) \/ SaveUser(q) \/ AssignRole(q)
  <2>1. Onwards
    BY <1>1, NothingNew DEF RegisterLookup, SaveUser, AssignRole
  <2>2. /\ account' \in {"none", "bare", "complete"} /\ UNCHANGED <<active, expired, holds, upsets>>
        /\ \E step \in {"saveUser", "registered", "assignRole"} : Become(q, step)
    BY <1>1 DEF RegisterLookup, SaveUser, AssignRole, IInv, TypeOK
  <2> QED
    BY <2>1, <2>2, DecisionKeeps DEF IInv, TypeOK, Step, Naming
<1>2. CASE CheckCredentials(q) \/ CheckUser(q)
  <2>1. Onwards
    BY <1>2, NothingNew DEF CheckCredentials, CheckUser
  <2>2. /\ UNCHANGED <<account, active, expired, holds, upsets>>
        /\ \E step \in {"issue", "refused"} : Become(q, step)
    BY <1>2 DEF CheckCredentials, CheckUser
  <2> QED
    BY <2>1, <2>2, DecisionKeeps DEF IInv, TypeOK, Step, Naming
<1>3. CASE SoundAlarm(q) \/ LogoutAll(q)
  <2>1. Onwards
    BY <1>3, SweepOnwards DEF SoundAlarm, LogoutAll
  <2>2. /\ UNCHANGED <<account, active, expired, holds, upsets>>
        /\ \E step \in {"refused", "loggedOut"} : Become(q, step)
    BY <1>3 DEF SoundAlarm, LogoutAll, Sweep
  <2> QED
    BY <2>1, <2>2, DecisionKeeps DEF IInv, TypeOK, Step, Naming
<1>4. CASE RevokeOld(q)
  <2>1. request[q].token \in Tokens /\ request[q].token \in presented
    BY <1>4 DEF RevokeOld, IInv, Sound, Naming
  <2>2. Onwards
    BY <1>4, <2>1, RevokeOnwards DEF RevokeOld
  <2> QED
    BY <1>4, <2>2, DecisionKeeps DEF RevokeOld, IInv, TypeOK, Step, Naming
<1>5. CASE Logout(q)
  <2>1. request[q].token \in Tokens
    BY <1>5 DEF Logout, IInv, Sound, Naming
  <2>2. Onwards
    BY <1>5, <2>1, RevokeOnwards DEF Logout
  <2> QED
    BY <1>5, <2>2, DecisionKeeps DEF Logout, IInv, TypeOK, Step, Naming
<1> QED
  BY <1>1, <1>2, <1>3, <1>4, <1>5, LookUpKeeps, IssueKeeps DEF Serve

LEMMA UndisturbedKeeps ==
    ASSUME IInv, Onwards, UNCHANGED <<request, holds, upsets, row>>,
           account' \in {"none", "bare", "complete"}, active' \in BOOLEAN,
           expired' \subseteq Tokens
    PROVE  IInv'
<1>1. \A q \in Requests : Sound(q)'
  BY DEF IInv, Sound, Onwards
<1> QED
  BY <1>1 DEF IInv, TypeOK, Onwards

LEMMA IInvInductive == Spec => []IInv
<1>1. Init => IInv
  <2> SUFFICES ASSUME Init PROVE IInv
    OBVIOUS
  <2>1. TypeOK
    BY IdleType DEF Init, TypeOK
  <2>2. \A q \in Requests : Sound(q)
    BY DEF Init, Sound, Idle, Naming
  <2>3. RevokedHasCause
    BY DEF Init, RevokedHasCause
  <2> QED
    BY <2>1, <2>2, <2>3 DEF IInv
<1>2. IInv /\ [Next]_vars => IInv'
  <2> SUFFICES ASSUME IInv, [Next]_vars PROVE IInv'
    OBVIOUS
  <2>1. ASSUME NEW q \in Requests, NEW d \in Devices, SendAny(q, d) PROVE IInv'
    BY <2>1, SendKeeps
  <2>2. ASSUME NEW q \in Requests, Serve(q) \/ Receive(q) \/ Lose(q) PROVE IInv'
    BY <2>2, ServeKeeps, ReceiveKeeps, LoseKeeps
  <2>3. ASSUME NEW t \in Tokens, Expires(t) PROVE IInv'
    <3>1. Onwards
      BY <2>3, NothingNew DEF Expires
    <3> QED
      BY <2>3, <3>1, UndisturbedKeeps DEF Expires, IInv, TypeOK
  <2>4. CASE SetActive
    <3>1. Onwards
      BY <2>4, NothingNew DEF SetActive, tokenVars
    <3> QED
      BY <2>4, <3>1, UndisturbedKeeps DEF SetActive, IInv, TypeOK, tokenVars
  <2>5. CASE UNCHANGED vars
    <3>1. Onwards
      BY <2>5, NothingNew DEF vars, tokenVars
    <3> QED
      BY <2>5, <3>1, UndisturbedKeeps DEF vars, IInv, TypeOK, tokenVars
  <2> QED
    BY <2>1, <2>2, <2>3, <2>4, <2>5 DEF Next
<1> QED
  BY <1>1, <1>2, PTL DEF Spec

\* Every variable keeps its type, and no device ever holds a token whose row was
\* not saved.
THEOREM TypeCorrect == Spec => []TypeOK
<1>1. IInv => TypeOK
  BY DEF IInv
<1> QED
  BY <1>1, IInvInductive, PTL

\* However requests of one user overlap, are lost and are repeated, the replay
\* alarm is raised only about a token that was presented before, or that fell
\* when all sessions were ended.
THEOREM AlarmsJustified == Spec => []AlarmHasCause
<1>1. IInv => AlarmHasCause
  BY DEF IInv, Sound, AlarmHasCause
<1> QED
  BY <1>1, IInvInductive, PTL

-----------------------------------------------------------------------------
(* How the data moves *)

\* A request that is under way belongs to a device.
OwnDevice == \A q \in Requests : request[q] # Idle => request[q].device \in Devices

\* What a handler's step leaves as it is.
LEMMA ServeFrame ==
    ASSUME IInv, NEW q \in Requests, Serve(q)
    PROVE  /\ UNCHANGED <<holds, upsets, expired>>
           /\ \A p \in Requests \ {q} : request'[p] = request[p]
           /\ request'[q].device = request[q].device
           /\ request[q] # Idle /\ request'[q] # Idle
           /\ \A t \in Tokens : row[t] = "revoked" => row'[t] = "revoked"
<1> USE DEF tokenVars, IInv, TypeOK
<1>1. ASSUME NEW step, Become(q, step), request[q].step # "idle", step # "idle"
      PROVE  /\ \A p \in Requests \ {q} : request'[p] = request[p]
             /\ request'[q].device = request[q].device
             /\ request[q] # Idle /\ request'[q] # Idle
  BY <1>1 DEF Become, Request, Idle
<1>2. CASE RegisterLookup(q) \/ SaveUser(q) \/ AssignRole(q)
  BY <1>1, <1>2 DEF RegisterLookup, SaveUser, AssignRole
<1>3. CASE CheckCredentials(q) \/ CheckUser(q)
  BY <1>1, <1>3 DEF CheckCredentials, CheckUser
<1>4. CASE LookUp(q)
  <2> DEFINE v == Verdict(request[q].token)
             again == request[q].token \in presented
  <2>1. v # "idle"
    BY DEF Verdict
  <2>2. request[q].step # "idle" /\ UNCHANGED <<row, holds, upsets, expired>>
        /\ request' = [request EXCEPT ![q].step = v, ![q].again = again]
    BY <1>4 DEF LookUp
  <2>3. request[q] \in Request
    OBVIOUS
  <2> HIDE DEF v, again
  <2>4. /\ \A p \in Requests \ {q} : request'[p] = request[p]
        /\ request'[q] = [[request[q] EXCEPT !.step = v] EXCEPT !.again = again]
    BY <2>2
  <2>5. request'[q].device = request[q].device /\ request'[q].step = v
    BY <2>3, <2>4 DEF Request
  <2>6. Idle.step = "idle"
    BY DEF Idle
  <2>7. request[q] # Idle /\ request'[q] # Idle
    BY <2>1, <2>2, <2>5, <2>6
  <2> QED
    BY <2>2, <2>4, <2>5, <2>7
<1>5. CASE SoundAlarm(q) \/ LogoutAll(q)
  BY <1>1, <1>5 DEF SoundAlarm, LogoutAll, Sweep, Live
<1>6. CASE RevokeOld(q) \/ Logout(q)
  BY <1>1, <1>6 DEF RevokeOld, Logout
<1>7. CASE IssueTokens(q)
  <2>1. PICK t \in Unissued :
          /\ row' = [row EXCEPT ![t] = "live"]
          /\ request' = [request EXCEPT ![q].step = "tokens", ![q].token = t]
    BY <1>7 DEF IssueTokens
  <2>2. \A u \in Tokens : row[u] = "revoked" => row'[u] = "revoked"
    BY <2>1 DEF Unissued
  <2>3. request[q].step = "issue" /\ UNCHANGED <<holds, upsets, expired>>
    BY <1>7 DEF IssueTokens
  <2>4. request[q] \in Request
    OBVIOUS
  <2>5. /\ \A p \in Requests \ {q} : request'[p] = request[p]
        /\ request'[q] = [[request[q] EXCEPT !.step = "tokens"] EXCEPT !.token = t]
    BY <2>1
  <2>6. request'[q].device = request[q].device /\ request'[q].step = "tokens"
    BY <2>4, <2>5 DEF Request
  <2>7. request[q] # Idle /\ request'[q] # Idle
    BY <2>3, <2>6 DEF Idle
  <2> QED
    BY <2>2, <2>3, <2>5, <2>6, <2>7
<1> QED
  BY <1>2, <1>3, <1>4, <1>5, <1>6, <1>7 DEF Serve

LEMMA SendFrame ==
    ASSUME IInv, NEW q \in Requests, NEW d \in Devices, SendAny(q, d)
    PROVE  \E step \in {"register", "credentials", "lookup", "logout", "logoutAll"} :
             /\ request[q] = Idle
             /\ request'[q] = [step |-> step, device |-> d, token |-> holds[d], again |-> FALSE]
             /\ \A p \in Requests \ {q} : request'[p] = request[p]
             /\ step = "credentials" => holds[d] = 0
             /\ step \in Naming => holds[d] # 0
             /\ IF Busy(d) = {} THEN UNCHANGED upsets ELSE Upset
             /\ UNCHANGED <<tokenVars, holds>>
BY DEF SendAny, Send, IInv, TypeOK, Naming

LEMMA ReceiveFrame ==
    ASSUME IInv, OwnDevice, NEW q \in Requests, Receive(q)
    PROVE  /\ request[q] # Idle /\ request[q].device \in Devices
           /\ request[q].step \in {"registered", "tokens", "refused", "loggedOut"}
           /\ request'[q] = Idle
           /\ \A p \in Requests \ {q} : request'[p] = request[p]
           /\ \A d \in Devices : d # request[q].device => holds'[d] = holds[d]
           /\ LET d == request[q].device IN
                /\ request[q].step = "tokens" => holds'[d] = request[q].token
                /\ request[q].step = "registered" => holds'[d] = holds[d]
                /\ request[q].step \in {"refused", "loggedOut"} => holds'[d] = 0
           /\ UNCHANGED <<tokenVars, upsets>>
<1> USE DEF IInv, TypeOK
<1>1. request[q] # Idle
  BY DEF Receive, Idle
<1>2. request[q].device \in Devices
  BY <1>1 DEF OwnDevice
<1>3. request'[q] = Idle /\ \A p \in Requests \ {q} : request'[p] = request[p]
  BY DEF Receive, Rest
<1> QED
  BY <1>1, <1>2, <1>3 DEF Receive

LEMMA LoseFrame ==
    ASSUME IInv, OwnDevice, NEW q \in Requests, Lose(q)
    PROVE  /\ request[q] # Idle /\ request[q].device \in Devices
           /\ request'[q] = Idle
           /\ \A p \in Requests \ {q} : request'[p] = request[p]
           /\ upsets' = upsets + 1
           /\ UNCHANGED <<tokenVars, holds>>
BY DEF Lose, Rest, Upset, IInv, TypeOK, OwnDevice

\* Time, the administrator, and nothing.
Elsewhere == (\E t \in Tokens : Expires(t)) \/ SetActive \/ UNCHANGED vars

LEMMA ElsewhereFrame ==
    ASSUME Elsewhere
    PROVE  /\ UNCHANGED <<request, holds, upsets, row, swept>>
           /\ expired \subseteq expired'
BY DEF Elsewhere, Expires, SetActive, vars, tokenVars

LEMMA DevicesPreserved ==
    ASSUME IInv, OwnDevice, [Next]_vars
    PROVE  OwnDevice'
<1>1. ASSUME NEW q \in Requests, NEW d \in Devices, SendAny(q, d) PROVE OwnDevice'
  <2>1. PICK step : /\ request'[q] = [step |-> step, device |-> d, token |-> holds[d],
                                      again |-> FALSE]
                    /\ \A p \in Requests \ {q} : request'[p] = request[p]
    BY <1>1, SendFrame
  <2> QED
    BY <2>1 DEF OwnDevice
<1>2. ASSUME NEW q \in Requests, Serve(q) PROVE OwnDevice'
  BY <1>2, ServeFrame DEF OwnDevice
<1>3. ASSUME NEW q \in Requests, Receive(q) \/ Lose(q) PROVE OwnDevice'
  BY <1>3, ReceiveFrame, LoseFrame DEF OwnDevice
<1>4. CASE Elsewhere
  BY <1>4, ElsewhereFrame DEF OwnDevice
<1> QED
  BY <1>1, <1>2, <1>3, <1>4 DEF Next, Elsewhere

-----------------------------------------------------------------------------
(* Live tokens that nobody holds *)

\* Nothing is lost with this token.
Dead(t) == t = 0 \/ row[t] = "revoked" \/ t \in expired

\* A request whose answer drops a dead token only, or one it will have revoked.
Fresh(q) ==
    \/ Dead(holds[request[q].device])
    \/ request[q].step \in {"register", "saveUser", "assignRole", "registered"}
    \/ /\ request[q].step \in {"lookup", "revoke", "logout", "logoutAll"}
       /\ request[q].token = holds[request[q].device]

\* The inductive invariant.  Of the requests of a device all but one have been
\* paid for with an upset, and each of those may still leave an orphan; the one
\* that has not is there only while none of them can.
Unpaid(paid) == {q \in Requests : request[q] # Idle /\ q \notin paid}

Covers(paid) ==
    \A q \in Unpaid(paid) : \A p \in Busy(request[q].device) :
        Fresh(p) /\ (p = q \/ p \in paid)

Accounted ==
    \E paid \in SUBSET Requests :
        /\ IsFiniteSet(paid) /\ Cardinality(paid) + Cardinality(Orphans) <= upsets
        /\ Covers(paid)

LEMMA TokensFinite == IsFiniteSet(Tokens)
BY FS_Interval, TokensAssumption DEF Tokens

LEMMA OrphansFinite ==
    /\ IsFiniteSet(Orphans) /\ Cardinality(Orphans) \in Nat
    /\ IsFiniteSet(Orphans)' /\ Cardinality(Orphans)' \in Nat
<1>1. Orphans \subseteq Tokens /\ Orphans' \subseteq Tokens
  BY DEF Orphans
<1>2. IsFiniteSet(Orphans) /\ IsFiniteSet(Orphans')
  BY <1>1, TokensFinite, FS_Subset
<1> QED
  BY <1>2, FS_CardinalityType

LEMMA HeldType ==
    ASSUME IInv, NEW d \in Devices
    PROVE  holds[d] \in {0} \cup Tokens /\ (holds[d] # 0 => row[holds[d]] # "absent")
BY DEF IInv, TypeOK, Tokens

\* A handler's step orphans no token: the new one is in its answer.
LEMMA ServeOrphansNone ==
    ASSUME IInv, NEW q \in Requests, Serve(q)
    PROVE  Orphans' \subseteq Orphans
<1> SUFFICES ASSUME NEW t \in Orphans' PROVE t \in Orphans
  OBVIOUS
<1>1. /\ UNCHANGED <<holds, expired>>
      /\ \A p \in Requests \ {q} : request'[p] = request[p]
  BY ServeFrame
<1>2. ~InAnswer(t)
  <2>1. request[q].step # "tokens"
    BY DEF Serve, RegisterLookup, SaveUser, AssignRole, CheckCredentials, LookUp,
       SoundAlarm, RevokeOld, CheckUser, IssueTokens, Logout, LogoutAll
  <2> QED
    BY <1>1, <2>1 DEF Orphans, InAnswer
<1>3. t \in Tokens /\ row'[t] = "live"
  BY DEF Orphans, Live
<1>4. row[t] = "live"
  <2>1. CASE IssueTokens(q)
    <3>1. PICK u \in Unissued :
            /\ row' = [row EXCEPT ![u] = "live"]
            /\ request' = [request EXCEPT ![q].step = "tokens", ![q].token = u]
      BY <2>1 DEF IssueTokens
    <3>2. request'[q].step = "tokens" /\ request'[q].token = u
      BY <3>1 DEF IInv, TypeOK, Request
    <3>3. t # u
      BY <3>2 DEF Orphans, InAnswer
    <3> QED
      BY <1>3, <3>1, <3>3 DEF IInv, TypeOK
  <2>2. CASE RevokeOld(q) \/ Logout(q)
    BY <1>3, <2>2 DEF RevokeOld, Logout, IInv, TypeOK
  <2>3. CASE SoundAlarm(q) \/ LogoutAll(q)
    BY <1>3, <2>3 DEF SoundAlarm, LogoutAll, Sweep, Live
  <2>4. CASE UNCHANGED row
    BY <1>3, <2>4
  <2> QED
    BY <2>1, <2>2, <2>3, <2>4 DEF Serve, RegisterLookup, SaveUser, AssignRole,
       CheckCredentials, LookUp, CheckUser, tokenVars
<1> QED
  BY <1>1, <1>2, <1>3, <1>4 DEF Orphans, Live

\* What one device's handlers do makes no request stale.
LEMMA ServeStaysFresh ==
    ASSUME IInv, OwnDevice, NEW q \in Requests, Serve(q),
           NEW p \in Requests, request[p] # Idle, Fresh(p)
    PROVE  Fresh(p)'
<1> DEFINE d == request[p].device
           t == holds[d]
<1>1. /\ d \in Devices /\ request'[p].device = d /\ holds' = holds
      /\ expired' = expired
      /\ \A u \in Tokens : row[u] = "revoked" => row'[u] = "revoked"
  BY ServeFrame DEF OwnDevice
<1>2. t \in {0} \cup Tokens /\ (t # 0 => row[t] # "absent")
  BY <1>1, HeldType
<1>3. Dead(t) => Fresh(p)'
  <2>1. t = 0 \/ row'[t] = "revoked" \/ t \in expired' <=> Dead(holds[request[p].device])'
    BY <1>1 DEF Dead
  <2> QED
    BY <1>1, <1>2, <2>1, TokensNotZero DEF Fresh, Dead
<1>4. row'[t] = "revoked" => Fresh(p)'
  BY <1>1 DEF Fresh, Dead
<1>5. CASE p # q
  <2>1. request'[p] = request[p]
    BY <1>5, ServeFrame
  <2> QED
    BY <1>1, <1>3, <2>1 DEF Fresh
<1>6. CASE p = q /\ ~Dead(t)
  <2>0. row[t] = "live" /\ t \in Tokens /\ t \notin expired
    BY <1>2, <1>6 DEF Dead, IInv, TypeOK
  <2>1. CASE RegisterLookup(q) \/ SaveUser(q) \/ AssignRole(q)
    <3>1. request'[q].step \in {"saveUser", "registered", "assignRole"}
      BY <2>1 DEF RegisterLookup, SaveUser, AssignRole, Become, IInv, TypeOK, Request
    <3> QED
      BY <1>6, <3>1 DEF Fresh
  <2>2. CASE LookUp(q)
    <3>1. request[q].token = t
      BY <1>6, <2>2 DEF LookUp, Fresh
    <3>2. Verdict(t) = "revoke"
      BY <2>0 DEF Verdict, Live
    <3>3. request'[q].step = "revoke" /\ request'[q].token = t
      BY <2>2, <3>1, <3>2 DEF LookUp, IInv, TypeOK, Request
    <3> QED
      BY <1>1, <1>6, <3>3 DEF Fresh
  <2>3. CASE RevokeOld(q) \/ Logout(q)
    <3>1. request[q].token = t
      BY <1>6, <2>3 DEF RevokeOld, Logout, Fresh
    <3>2. row'[t] = "revoked"
      BY <2>0, <2>3, <3>1 DEF RevokeOld, Logout, IInv, TypeOK
    <3> QED
      BY <1>4, <3>2
  <2>4. CASE LogoutAll(q) \/ SoundAlarm(q)
    <3>1. row'[t] = "revoked"
      BY <2>0, <2>4 DEF LogoutAll, SoundAlarm, Sweep, Live
    <3> QED
      BY <1>4, <3>1
  <2>5. CASE CheckCredentials(q) \/ CheckUser(q) \/ IssueTokens(q)
    BY <1>6, <2>5 DEF CheckCredentials, CheckUser, IssueTokens, Fresh
  <2> QED
    BY <2>1, <2>2, <2>3, <2>4, <2>5 DEF Serve
<1> QED
  BY <1>3, <1>5, <1>6

\* The same payment covers the next state, where no request turns stale.
LEMMA PaymentCarries ==
    ASSUME OwnDevice, NEW paid \in SUBSET Requests, Covers(paid),
           \A q \in Requests : /\ request'[q] # Idle <=> request[q] # Idle
                               /\ request'[q].device = request[q].device,
           \A q \in Requests : request[q] # Idle /\ Fresh(q) => Fresh(q)'
    PROVE  Covers(paid)'
<1> SUFFICES ASSUME NEW q \in Unpaid(paid)', NEW p \in Busy(request[q].device)'
             PROVE  Fresh(p)' /\ (p = q \/ p \in paid)
  BY DEF Covers
<1>1. q \in Unpaid(paid) /\ p \in Busy(request[q].device)
  BY DEF Unpaid, Busy
<1>2. p \in Requests /\ request[p] # Idle
  BY <1>1, TokensAssumption DEF Unpaid, Busy, OwnDevice, Idle
<1> QED
  BY <1>1, <1>2 DEF Covers

LEMMA PaidNumber ==
    ASSUME NEW paid, IsFiniteSet(paid)
    PROVE  Cardinality(paid) \in Nat
BY FS_CardinalityType

LEMMA CountKept ==
    ASSUME NEW paid \in SUBSET Requests, IsFiniteSet(paid),
           Cardinality(paid) + Cardinality(Orphans) <= upsets,
           upsets \in Nat, upsets' = upsets, Orphans' \subseteq Orphans
    PROVE  Cardinality(paid) + Cardinality(Orphans)' <= upsets'
<1>1. Cardinality(Orphans') <= Cardinality(Orphans)
  BY OrphansFinite, FS_Subset
<1> QED
  BY <1>1, OrphansFinite, PaidNumber

\* One more orphan: at most one more token in the set.
LEMMA OneOrphan ==
    ASSUME NEW t, Orphans' \subseteq Orphans \cup {t}
    PROVE  Cardinality(Orphans') <= Cardinality(Orphans) + 1
<1>1. /\ IsFiniteSet(Orphans \cup {t})
      /\ Cardinality(Orphans \cup {t}) <= Cardinality(Orphans) + 1
  <2> DEFINE old == Orphans
             new == old \cup {t}
  <2>1. IsFiniteSet(old) /\ Cardinality(old) \in Nat
    BY OrphansFinite
  <2> HIDE DEF old
  <2>2. /\ IsFiniteSet(new)
        /\ Cardinality(new) = IF t \in old THEN Cardinality(old) ELSE Cardinality(old) + 1
    BY <2>1, FS_AddElement
  <2> HIDE DEF new
  <2>3. Cardinality(new) <= Cardinality(old) + 1
    BY <2>1, <2>2
  <2> QED
    BY <2>2, <2>3 DEF old, new
<1>2. Cardinality(Orphans') <= Cardinality(Orphans \cup {t})
  BY <1>1, FS_Subset
<1> QED
  BY <1>1, <1>2, OrphansFinite, FS_CardinalityType

LEMMA ServeAccounted ==
    ASSUME IInv, OwnDevice, Accounted, NEW q \in Requests, Serve(q)
    PROVE  Accounted'
<1>1. PICK paid \in SUBSET Requests :
        /\ IsFiniteSet(paid) /\ Cardinality(paid) + Cardinality(Orphans) <= upsets
        /\ Covers(paid)
  BY DEF Accounted
<1>2. Covers(paid)'
  BY <1>1, ServeFrame, ServeStaysFresh, PaymentCarries
<1>3. Cardinality(paid) + Cardinality(Orphans)' <= upsets'
  BY <1>1, ServeFrame, ServeOrphansNone, CountKept DEF IInv, TypeOK
<1> QED
  BY <1>1, <1>2, <1>3 DEF Accounted

LEMMA ElsewhereAccounted ==
    ASSUME IInv, OwnDevice, Accounted, Elsewhere
    PROVE  Accounted'
<1>1. PICK paid \in SUBSET Requests :
        /\ IsFiniteSet(paid) /\ Cardinality(paid) + Cardinality(Orphans) <= upsets
        /\ Covers(paid)
  BY DEF Accounted
<1>2. UNCHANGED <<request, holds, upsets, row>> /\ expired \subseteq expired'
  BY ElsewhereFrame
<1>3. ASSUME NEW q \in Requests, Fresh(q) PROVE Fresh(q)'
  BY <1>2, <1>3 DEF Fresh, Dead
<1>4. Covers(paid)'
  BY <1>1, <1>2, <1>3, PaymentCarries
<1>5. Orphans' \subseteq Orphans
  BY <1>2 DEF Orphans, Live, InAnswer
<1>6. Cardinality(paid) + Cardinality(Orphans)' <= upsets'
  BY <1>1, <1>2, <1>5, CountKept DEF IInv, TypeOK
<1> QED
  BY <1>1, <1>4, <1>6 DEF Accounted

\* A crash or a lost answer pays for the token of the answer.
LEMMA LoseAccounted ==
    ASSUME IInv, OwnDevice, Accounted, NEW q \in Requests, Lose(q)
    PROVE  Accounted'
<1>1. PICK paid \in SUBSET Requests :
        /\ IsFiniteSet(paid) /\ Cardinality(paid) + Cardinality(Orphans) <= upsets
        /\ Covers(paid)
  BY DEF Accounted
<1>2. /\ request'[q] = Idle
      /\ \A p \in Requests \ {q} : request'[p] = request[p]
      /\ upsets' = upsets + 1 /\ UNCHANGED <<row, expired, holds>>
  BY LoseFrame DEF tokenVars
<1>3. Covers(paid)'
  <2> SUFFICES ASSUME NEW r \in Unpaid(paid)', NEW p \in Busy(request[r].device)'
               PROVE  Fresh(p)' /\ (p = r \/ p \in paid)
    BY DEF Covers
  <2>1. r # q /\ request'[r] = request[r] /\ r \in Unpaid(paid)
    BY <1>2 DEF Unpaid
  <2>2. p # q
    <3>1. request[r].device \in Devices
      BY <2>1 DEF OwnDevice, Unpaid
    <3> QED
      BY <1>2, <2>1, <3>1, TokensAssumption DEF Busy, Idle
  <2>3. p \in Requests /\ request'[p] = request[p] /\ p \in Busy(request[r].device)
    BY <1>2, <2>1, <2>2 DEF Busy
  <2>4. Fresh(p) /\ (p = r \/ p \in paid)
    BY <1>1, <2>1, <2>3 DEF Covers
  <2> QED
    BY <1>2, <2>3, <2>4 DEF Fresh, Dead
<1>4. Orphans' \subseteq Orphans \cup {request[q].token}
  BY <1>2 DEF Orphans, Live, InAnswer
<1>5. Cardinality(paid) + Cardinality(Orphans)' <= upsets'
  BY <1>1, <1>2, <1>4, OneOrphan, OrphansFinite, PaidNumber DEF IInv, TypeOK
<1> QED
  BY <1>1, <1>3, <1>5 DEF Accounted

\* The first request of a device is free, a second tab's has been paid for.
LEMMA SendAccounted ==
    ASSUME IInv, OwnDevice, Accounted, NEW q \in Requests, NEW d \in Devices, SendAny(q, d)
    PROVE  Accounted'
<1>1. PICK paid \in SUBSET Requests :
        /\ IsFiniteSet(paid) /\ Cardinality(paid) + Cardinality(Orphans) <= upsets
        /\ Covers(paid)
  BY DEF Accounted
<1>2. PICK step \in {"register", "credentials", "lookup", "logout", "logoutAll"} :
        /\ request[q] = Idle
        /\ request'[q] = [step |-> step, device |-> d, token |-> holds[d], again |-> FALSE]
        /\ \A p \in Requests \ {q} : request'[p] = request[p]
        /\ step = "credentials" => holds[d] = 0
        /\ IF Busy(d) = {} THEN UNCHANGED upsets ELSE Upset
        /\ UNCHANGED <<tokenVars, holds>>
  BY SendFrame
<1>3. Fresh(q)'
  BY <1>2 DEF Fresh, Dead
<1>4. ASSUME NEW p \in Requests, p # q, Fresh(p)
      PROVE  Fresh(p)'
  BY <1>2, <1>4 DEF Fresh, Dead, tokenVars
<1>5. Orphans' \subseteq Orphans
  <2>1. \A t \in Tokens : InAnswer(t)' <=> InAnswer(t)
    BY <1>2 DEF InAnswer, Idle
  <2> QED
    BY <1>2, <2>1 DEF Orphans, Live, tokenVars
<1>6. Cardinality(paid) \in Nat /\ Cardinality(Orphans) \in Nat /\ upsets \in Nat
      /\ Cardinality(Orphans') \in Nat /\ Cardinality(Orphans') <= Cardinality(Orphans)
  BY <1>1, <1>5, PaidNumber, OrphansFinite, FS_Subset DEF IInv, TypeOK
<1>7. CASE Busy(d) = {}
  <2>1. Covers(paid)'
    <3> SUFFICES ASSUME NEW r \in Unpaid(paid)', NEW p \in Busy(request[r].device)'
                 PROVE  Fresh(p)' /\ (p = r \/ p \in paid)
      BY DEF Covers
    <3>1. CASE r = q
      BY <1>2, <1>3, <1>7, <3>1 DEF Busy
    <3>2. CASE r # q
      <4>1. r \in Unpaid(paid) /\ request'[r] = request[r]
        BY <1>2, <3>2 DEF Unpaid
      <4>2. p # q
        BY <1>2, <1>7, <4>1 DEF Busy, Unpaid
      <4>3. p \in Requests /\ p \in Busy(request[r].device)
        BY <1>2, <4>1, <4>2 DEF Busy
      <4> QED
        BY <1>1, <1>4, <4>1, <4>2, <4>3 DEF Covers
    <3> QED
      BY <3>1, <3>2
  <2>2. upsets' = upsets
    BY <1>2, <1>7
  <2> QED
    BY <1>1, <1>6, <2>1, <2>2 DEF Accounted
<1>8. CASE Busy(d) # {}
  <2> DEFINE more == paid \cup {q}
  <2>1. Covers(more)'
    <3> SUFFICES ASSUME NEW r \in Unpaid(more)', NEW p \in Busy(request[r].device)'
                 PROVE  Fresh(p)' /\ (p = r \/ p \in more)
      BY DEF Covers
    <3>1. r # q /\ r \in Unpaid(paid) /\ request'[r] = request[r]
      BY <1>2 DEF Unpaid
    <3>2. CASE p = q
      BY <1>3, <3>2
    <3>3. CASE p # q
      <4>1. p \in Requests /\ p \in Busy(request[r].device)
        BY <1>2, <3>1, <3>3 DEF Busy
      <4> QED
        BY <1>1, <1>4, <3>1, <3>3, <4>1 DEF Covers
    <3> QED
      BY <3>2, <3>3
  <2>2. IsFiniteSet(more) /\ Cardinality(more) <= Cardinality(paid) + 1
        /\ Cardinality(more) \in Nat
    <3>1. IsFiniteSet(more) /\ Cardinality(more) =
            IF q \in paid THEN Cardinality(paid) ELSE Cardinality(paid) + 1
      BY <1>1, FS_AddElement
    <3> QED
      BY <1>6, <3>1
  <2>3. upsets' = upsets + 1
    BY <1>2, <1>8 DEF Upset
  <2>4. Cardinality(more) + Cardinality(Orphans)' <= upsets'
    <3> HIDE DEF more
    <3> QED
      BY <1>1, <1>6, <2>2, <2>3
  <2>5. more \in SUBSET Requests
    OBVIOUS
  <2> HIDE DEF more
  <2> QED
    BY <2>1, <2>2, <2>4, <2>5 DEF Accounted
<1> QED
  BY <1>7, <1>8

\* An answer that is kept drops what the device held before.
LEMMA ReceiveOrphansOne ==
    ASSUME IInv, OwnDevice, NEW q \in Requests, Receive(q)
    PROVE  /\ Orphans' \subseteq Orphans \cup {holds[request[q].device]}
           /\ Fresh(q) => Orphans' \subseteq Orphans
<1> DEFINE d == request[q].device
<1>1. /\ d \in Devices
      /\ request[q].step \in {"registered", "tokens", "refused", "loggedOut"}
      /\ request'[q] = Idle
      /\ \A p \in Requests \ {q} : request'[p] = request[p]
      /\ \A e \in Devices : e # d => holds'[e] = holds[e]
      /\ request[q].step = "tokens" => holds'[d] = request[q].token
      /\ request[q].step = "registered" => holds'[d] = holds[d]
      /\ UNCHANGED <<row, expired>>
  BY ReceiveFrame DEF tokenVars
<1>2. ASSUME NEW t \in Orphans', t # holds[d]
      PROVE  t \in Orphans
  <2>1. ~InAnswer(t)
    <3>1. \A p \in Requests \ {q} : ~(request[p].step = "tokens" /\ request[p].token = t)
      BY <1>1, <1>2 DEF Orphans, InAnswer
    <3>2. ~(request[q].step = "tokens" /\ request[q].token = t)
      BY <1>1, <1>2 DEF Orphans
    <3> QED
      BY <3>1, <3>2 DEF InAnswer
  <2> QED
    BY <1>1, <1>2, <2>1 DEF Orphans, Live
<1>3. ASSUME Fresh(q), NEW t \in Orphans', t = holds[d]
      PROVE  FALSE
  <2>1. request[q].step # "registered"
    BY <1>1, <1>3 DEF Orphans
  <2>2. Dead(t)
    BY <1>1, <1>3, <2>1 DEF Fresh
  <2> QED
    BY <1>1, <1>3, <2>2, TokensNotZero DEF Dead, Orphans, Live
<1> QED
  BY <1>2, <1>3

\* After an answer the device's other requests must be paid for: they may have
\* turned stale.
LEMMA ReceiveCovers ==
    ASSUME IInv, OwnDevice, NEW q \in Requests, Receive(q),
           NEW paid \in SUBSET Requests, Covers(paid),
           NEW left \in SUBSET Requests, paid \ {q} \subseteq left,
           Busy(request[q].device) \ {q} \subseteq left
    PROVE  Covers(left)'
<1> DEFINE d == request[q].device
<1>1. /\ d \in Devices /\ request'[q] = Idle
      /\ \A p \in Requests \ {q} : request'[p] = request[p]
      /\ \A e \in Devices : e # d => holds'[e] = holds[e]
      /\ UNCHANGED <<row, expired>>
  BY ReceiveFrame DEF tokenVars
<1> SUFFICES ASSUME NEW s \in Unpaid(left)', NEW p \in Busy(request[s].device)'
             PROVE  Fresh(p)' /\ (p = s \/ p \in left)
  BY DEF Covers
<1>2. s # q /\ request'[s] = request[s] /\ s \in Unpaid(paid)
  BY <1>1 DEF Unpaid
<1>3. request[s].device \in Devices /\ request[s].device # d
  BY <1>2 DEF OwnDevice, Unpaid, Busy
<1>4. p # q /\ p \in Requests /\ request'[p] = request[p] /\ p \in Busy(request[s].device)
  BY <1>1, <1>2, <1>3, TokensAssumption DEF Busy, Idle
<1>5. Fresh(p) /\ (p = s \/ p \in paid)
  BY <1>2, <1>4 DEF Covers
<1>6. request[p].device = request[s].device
  BY <1>4 DEF Busy
<1> QED
  BY <1>1, <1>3, <1>4, <1>5, <1>6 DEF Fresh, Dead

LEMMA ReceiveAccounted ==
    ASSUME IInv, OwnDevice, Accounted, NEW q \in Requests, Receive(q)
    PROVE  Accounted'
<1> DEFINE d == request[q].device
<1>1. PICK paid \in SUBSET Requests :
        /\ IsFiniteSet(paid) /\ Cardinality(paid) + Cardinality(Orphans) <= upsets
        /\ Covers(paid)
  BY DEF Accounted
<1>2. request[q] # Idle /\ d \in Devices /\ q \in Busy(d) /\ UNCHANGED upsets
  BY ReceiveFrame DEF Busy
<1>3. \A p \in Busy(d) : p \in Requests /\ request[p] # Idle
  BY <1>2, TokensAssumption DEF Busy, Idle
<1>4. /\ Cardinality(paid) \in Nat /\ Cardinality(Orphans) \in Nat /\ upsets \in Nat
      /\ Cardinality(Orphans') \in Nat /\ Cardinality(Orphans') <= Cardinality(Orphans) + 1
      /\ Fresh(q) => Cardinality(Orphans') <= Cardinality(Orphans)
  BY <1>1, PaidNumber, OrphansFinite, OneOrphan, ReceiveOrphansOne, FS_Subset
     DEF IInv, TypeOK
<1>5. /\ IsFiniteSet(paid \ {q})
      /\ Cardinality(paid \ {q}) =
           IF q \in paid THEN Cardinality(paid) - 1 ELSE Cardinality(paid)
  BY <1>1, FS_RemoveElement
\* an unpaid request of the device is left: the answer's slot pays for it
<1>6. ASSUME NEW r \in Busy(d) \ {q}, r \notin paid
      PROVE  Accounted'
  <2> DEFINE left == (paid \ {q}) \cup {r}
  <2>1. r \in Unpaid(paid) /\ request[r].device = d
    BY <1>3, <1>6 DEF Unpaid, Busy
  <2>2. \A p \in Busy(d) : Fresh(p) /\ (p = r \/ p \in paid)
    BY <1>1, <2>1 DEF Covers
  <2>3. Fresh(q) /\ q \in paid
    BY <1>2, <1>6, <2>2
  <2>4. IsFiniteSet(left) /\ Cardinality(left) = Cardinality(paid)
    <3>1. /\ IsFiniteSet(left)
          /\ Cardinality(left) = Cardinality(paid \ {q}) + 1
      BY <1>5, <1>6, FS_AddElement
    <3> QED
      BY <1>4, <1>5, <2>3, <3>1
  <2>5. left \in SUBSET Requests /\ paid \ {q} \subseteq left /\ Busy(d) \ {q} \subseteq left
    BY <1>3, <2>2
  <2> HIDE DEF left
  <2>6. Covers(left)'
    BY <1>1, <2>5, ReceiveCovers
  <2>7. Cardinality(left) + Cardinality(Orphans)' <= upsets'
    BY <1>1, <1>2, <1>4, <2>3, <2>4
  <2> QED
    BY <2>4, <2>5, <2>6, <2>7 DEF Accounted
\* none is: the payment of the answer, if there was one, is for its orphan
<1>7. ASSUME Busy(d) \ {q} \subseteq paid
      PROVE  Accounted'
  <2> DEFINE left == paid \ {q}
  <2>1. q \notin paid => Fresh(q)
    BY <1>1, <1>2 DEF Covers, Unpaid
  <2>2. left \in SUBSET Requests /\ Busy(d) \ {q} \subseteq left
    BY <1>7
  <2>3. Covers(left)'
    BY <1>1, <2>2, ReceiveCovers
  <2>4. Cardinality(left) + Cardinality(Orphans)' <= upsets'
    BY <1>1, <1>2, <1>4, <1>5, <2>1
  <2> QED
    BY <1>5, <2>2, <2>3, <2>4 DEF Accounted
<1> QED
  BY <1>6, <1>7

LEMMA AccountInductive == Spec => [](IInv /\ OwnDevice /\ Accounted)
<1>1. Init => OwnDevice /\ Accounted
  <2> SUFFICES ASSUME Init PROVE OwnDevice /\ Accounted
    OBVIOUS
  <2>1. Orphans = {} /\ upsets = 0
    BY DEF Init, Orphans, Live
  <2>2. Covers({}) /\ OwnDevice
    BY DEF Init, Covers, Unpaid, OwnDevice
  <2>3. IsFiniteSet({}) /\ Cardinality({}) = 0
    BY FS_EmptySet
  <2>4. Cardinality({}) + Cardinality(Orphans) <= upsets
    BY <2>1, <2>3
  <2> QED
    BY <2>2, <2>3, <2>4 DEF Accounted
<1>2. IInv /\ OwnDevice /\ Accounted /\ [Next]_vars => OwnDevice' /\ Accounted'
  <2> SUFFICES ASSUME IInv, OwnDevice, Accounted, [Next]_vars PROVE Accounted'
    BY DevicesPreserved
  <2> QED
    BY SendAccounted, ServeAccounted, ReceiveAccounted, LoseAccounted, ElsewhereAccounted
       DEF Next, Elsewhere
<1> QED
  BY <1>1, <1>2, IInvInductive, PTL DEF Spec

\* Rotation leaks no sessions: every live token that nobody holds any more has a
\* crash, a lost answer or a second tab of its own.
THEOREM OrphansPaidFor == Spec => []OrphanPerUpset
<1>1. IInv /\ Accounted => OrphanPerUpset
  <2> SUFFICES ASSUME IInv, NEW paid \in SUBSET Requests, IsFiniteSet(paid),
                      Cardinality(paid) + Cardinality(Orphans) <= upsets
               PROVE  Cardinality(Orphans) <= upsets
    BY DEF Accounted, OrphanPerUpset
  <2> QED
    BY PaidNumber, OrphansFinite DEF IInv, TypeOK
<1> QED
  BY <1>1, AccountInductive, PTL

-----------------------------------------------------------------------------
(* Devices whose token has been revoked alone *)

\* Where a request names the token its device held when it was sent.
Names == {"lookup", "alarm", "revoke", "logout", "logoutAll"}

\* No token has two owners: not two devices, not a device and the request of
\* another, and one that is still in its answer is known to nobody; such a one is
\* live unless all sessions have been ended.
HoldersApart == \A d, e \in Devices : holds[d] = holds[e] /\ holds[d] # 0 => d = e

NamedByHolder ==
    \A q \in Requests : request[q].step \in Names =>
        \A d \in Devices : holds[d] = request[q].token => d = request[q].device

AnswersApart ==
    \A q \in Requests : request[q].step = "tokens" =>
        /\ Live(request[q].token) \/ request[q].token \in swept
        /\ \A d \in Devices : holds[d] # request[q].token
        /\ \A p \in Requests \ {q} :
             request[p].step \in Names \cup {"tokens"} => request[p].token # request[q].token

Apart == HoldersApart /\ NamedByHolder /\ AnswersApart

\* What Serve does to the names, the answers and the rows.
LEMMA ServeNames ==
    ASSUME IInv, NEW q \in Requests, Serve(q), request'[q].step \in Names
    PROVE  request[q].step \in Names /\ request'[q].token = request[q].token
<1> USE DEF IInv, TypeOK, Request, Names
<1>1. CASE LookUp(q)
  BY <1>1 DEF LookUp
<1>2. ASSUME NEW step, Become(q, step), step \notin Names PROVE FALSE
  BY <1>2 DEF Become
<1>3. CASE RegisterLookup(q) \/ SaveUser(q) \/ AssignRole(q)
  BY <1>2, <1>3 DEF RegisterLookup, SaveUser, AssignRole
<1>4. CASE CheckCredentials(q) \/ CheckUser(q)
  BY <1>2, <1>4 DEF CheckCredentials, CheckUser
<1>5. CASE SoundAlarm(q) \/ LogoutAll(q) \/ RevokeOld(q) \/ Logout(q)
  BY <1>2, <1>5 DEF SoundAlarm, LogoutAll, RevokeOld, Logout
<1>6. CASE IssueTokens(q)
  BY <1>6 DEF IssueTokens
<1> QED
  BY <1>1, <1>3, <1>4, <1>5, <1>6 DEF Serve

LEMMA ServeAnswers ==
    ASSUME IInv, NEW q \in Requests, Serve(q), request'[q].step = "tokens"
    PROVE  /\ request'[q].token \in Tokens
           /\ row[request'[q].token] = "absent" /\ row'[request'[q].token] = "live"
<1> USE DEF IInv, TypeOK, Request
<1>1. CASE IssueTokens(q)
  <2>1. PICK t \in Unissued :
          /\ row' = [row EXCEPT ![t] = "live"]
          /\ request' = [request EXCEPT ![q].step = "tokens", ![q].token = t]
    BY <1>1 DEF IssueTokens
  <2>2. request'[q].token = t
    BY <2>1
  <2> QED
    BY <2>1, <2>2 DEF Unissued
<1>2. ASSUME NEW step, Become(q, step), step # "tokens" PROVE FALSE
  BY <1>2 DEF Become
<1>3. CASE RegisterLookup(q) \/ SaveUser(q) \/ AssignRole(q)
  BY <1>2, <1>3 DEF RegisterLookup, SaveUser, AssignRole
<1>4. CASE CheckCredentials(q) \/ CheckUser(q)
  BY <1>2, <1>4 DEF CheckCredentials, CheckUser
<1>5. CASE SoundAlarm(q) \/ LogoutAll(q) \/ RevokeOld(q) \/ Logout(q)
  BY <1>2, <1>5 DEF SoundAlarm, LogoutAll, RevokeOld, Logout
<1>6. CASE LookUp(q)
  <2>1. Verdict(request[q].token) # "tokens"
    BY DEF Verdict
  <2> QED
    BY <1>6, <2>1 DEF LookUp
<1> QED
  BY <1>1, <1>3, <1>4, <1>5, <1>6 DEF Serve

\* A live token falls with all others, or by the request that names it, which
\* goes on to an answer that replaces it.
Fixing == {"user", "issue", "tokens", "refused", "loggedOut"}

LEMMA ServeRows ==
    ASSUME IInv, NEW q \in Requests, Serve(q), NEW t \in Tokens
    PROVE  /\ swept \subseteq swept'
           /\ \/ row'[t] = row[t]
              \/ row[t] = "absent"
              \/ row[t] = "live" /\ t \in swept'
              \/ /\ t = request[q].token /\ request[q].step \in Names
                 /\ request'[q].step \in Fixing
<1> USE DEF IInv, TypeOK
<1>1. CASE IssueTokens(q)
  BY <1>1 DEF IssueTokens, Unissued
<1>2. CASE SoundAlarm(q) \/ LogoutAll(q)
  BY <1>2 DEF SoundAlarm, LogoutAll, Sweep, Live
<1>3. CASE RevokeOld(q) \/ Logout(q)
  <2>1. /\ row' = [row EXCEPT ![request[q].token] = "revoked"] /\ swept' = swept
        /\ request[q].step \in Names /\ request'[q].step \in Fixing
    BY <1>3 DEF RevokeOld, Logout, Become, Names, Fixing, Request
  <2> QED
    BY <2>1
<1>4. CASE UNCHANGED <<row, swept>>
  BY <1>4
<1> QED
  BY <1>1, <1>2, <1>3, <1>4 DEF Serve, RegisterLookup, SaveUser, AssignRole,
     CheckCredentials, LookUp, CheckUser, tokenVars

LEMMA ServeApart ==
    ASSUME IInv, OwnDevice, Apart, NEW q \in Requests, Serve(q)
    PROVE  Apart'
<1>1. /\ holds' = holds /\ \A p \in Requests \ {q} : request'[p] = request[p]
      /\ request'[q].device = request[q].device
  BY ServeFrame
<1>2. HoldersApart'
  BY <1>1 DEF Apart, HoldersApart
<1>3. NamedByHolder'
  BY <1>1, ServeNames DEF Apart, NamedByHolder
<1>4. ASSUME NEW p \in Requests, request'[p].step = "tokens"
      PROVE  row'[request'[p].token] = "live" \/ request'[p].token \in swept'
  <2>1. CASE p = q
    BY <1>4, <2>1, ServeAnswers
  <2>2. CASE p # q
    <3> DEFINE t == request[p].token
    <3>1. request'[p] = request[p] /\ request[p].step = "tokens" /\ t \in Tokens
      BY <1>1, <1>4, <2>2 DEF IInv, Sound, Naming
    <3>2. Live(t) \/ t \in swept
      BY <3>1 DEF Apart, AnswersApart
    <3>3. request[q].step \in Names => request[q].token # t
      BY <2>2, <3>1 DEF Apart, AnswersApart
    <3>4. row'[t] = "live" \/ t \in swept'
      BY <3>1, <3>2, <3>3, ServeRows DEF Live
    <3> QED
      BY <3>1, <3>4
  <2> QED
    BY <2>1, <2>2
<1>5. ASSUME NEW p \in Requests, request'[p].step = "tokens", NEW d \in Devices
      PROVE  holds'[d] # request'[p].token
  <2>1. CASE p = q
    <3>1. request'[q].token \in Tokens /\ row[request'[q].token] = "absent"
      BY <1>5, <2>1, ServeAnswers
    <3> QED
      BY <1>1, <2>1, <3>1, HeldType, TokensNotZero
  <2>2. CASE p # q
    BY <1>1, <1>5, <2>2 DEF Apart, AnswersApart
  <2> QED
    BY <2>1, <2>2
<1>6. ASSUME NEW p \in Requests, request'[p].step = "tokens", NEW r \in Requests \ {p},
             request'[r].step \in Names \cup {"tokens"}
      PROVE  request'[r].token # request'[p].token
  <2>1. CASE p # q /\ r # q
    BY <1>1, <1>6, <2>1 DEF Apart, AnswersApart
  <2>2. ASSUME NEW s \in Requests \ {q}, request[s].step \in Names \cup {"tokens"},
               request'[q].step = "tokens"
        PROVE  request[s].token # request'[q].token
    BY <2>2, ServeAnswers DEF IInv, Sound, Naming, Names
  <2>3. CASE p = q
    BY <1>1, <1>6, <2>2, <2>3
  <2>4. CASE r = q /\ request'[r].step = "tokens"
    BY <1>1, <1>6, <2>2, <2>4
  <2>5. CASE r = q /\ request'[r].step \in Names
    BY <1>1, <1>6, <2>5, ServeNames DEF Apart, AnswersApart
  <2> QED
    BY <1>6, <2>1, <2>3, <2>4, <2>5
<1> QED
  BY <1>2, <1>3, <1>4, <1>5, <1>6 DEF Apart, AnswersApart, Live

\* A request takes its token from its device, a device from the answer to its
\* own request.
LEMMA SendApart ==
    ASSUME IInv, OwnDevice, Apart, NEW q \in Requests, NEW d \in Devices, SendAny(q, d)
    PROVE  Apart'
<1>1. PICK step \in {"register", "credentials", "lookup", "logout", "logoutAll"} :
        /\ request'[q] = [step |-> step, device |-> d, token |-> holds[d], again |-> FALSE]
        /\ \A p \in Requests \ {q} : request'[p] = request[p]
        /\ step \in Naming => holds[d] # 0
        /\ UNCHANGED <<row, swept, holds>>
  BY SendFrame DEF tokenVars
<1>2. request'[q].step = step /\ request'[q].device = d /\ request'[q].token = holds[d]
  BY <1>1
<1>3. HoldersApart'
  BY <1>1 DEF Apart, HoldersApart
<1>4. NamedByHolder'
  BY <1>1, <1>2 DEF Apart, HoldersApart, NamedByHolder, Names, Naming
<1>5. AnswersApart'
  BY <1>1, <1>2 DEF Apart, AnswersApart, Live
<1> QED
  BY <1>3, <1>4, <1>5 DEF Apart

LEMMA ReceiveApart ==
    ASSUME IInv, OwnDevice, Apart, NEW q \in Requests, Receive(q)
    PROVE  Apart'
<1> DEFINE d == request[q].device
<1>1. /\ d \in Devices
      /\ request[q].step \in {"registered", "tokens", "refused", "loggedOut"}
      /\ request'[q] = Idle
      /\ \A p \in Requests \ {q} : request'[p] = request[p]
      /\ \A e \in Devices : e # d => holds'[e] = holds[e]
      /\ request[q].step = "tokens" => holds'[d] = request[q].token
      /\ request[q].step = "registered" => holds'[d] = holds[d]
      /\ request[q].step \in {"refused", "loggedOut"} => holds'[d] = 0
      /\ UNCHANGED <<row, swept>>
  BY ReceiveFrame DEF tokenVars
<1>2. request'[q].step \notin Names \cup {"tokens"}
  BY <1>1 DEF Idle, Names
<1>3. ASSUME request[q].step = "tokens"
      PROVE  /\ \A e \in Devices : holds[e] # request[q].token
             /\ \A p \in Requests \ {q} : request[p].step \in Names \cup {"tokens"} =>
                  request[p].token # request[q].token
  BY <1>3 DEF Apart, AnswersApart
<1>4. HoldersApart'
  BY <1>1, <1>3 DEF Apart, HoldersApart
<1>5. \A p \in Requests : request[p].step \in Names \cup {"tokens"} => request[p].token # 0
  BY TokensNotZero DEF IInv, Sound, Names, Naming
<1>6. NamedByHolder'
  <2> SUFFICES ASSUME NEW p \in Requests, request'[p].step \in Names,
                      NEW e \in Devices, holds'[e] = request'[p].token
               PROVE  e = request'[p].device
    BY DEF NamedByHolder
  <2>1. p # q /\ request'[p] = request[p]
    BY <1>1, <1>2
  <2>2. holds'[e] = holds[e]
    BY <1>1, <1>3, <1>5, <2>1
  <2> QED
    BY <2>1, <2>2 DEF Apart, NamedByHolder
<1>7. AnswersApart'
  <2> SUFFICES ASSUME NEW p \in Requests, request'[p].step = "tokens"
               PROVE  /\ row'[request'[p].token] = "live" \/ request'[p].token \in swept'
                      /\ \A e \in Devices : holds'[e] # request'[p].token
                      /\ \A r \in Requests \ {p} : request'[r].step \in Names \cup {"tokens"} =>
                           request'[r].token # request'[p].token
    BY DEF AnswersApart, Live
  <2>1. p # q /\ request'[p] = request[p]
    BY <1>1, <1>2
  <2>2. row'[request'[p].token] = "live" \/ request'[p].token \in swept'
    BY <1>1, <2>1 DEF Apart, AnswersApart, Live
  <2>3. \A e \in Devices : holds'[e] # request'[p].token
    BY <1>1, <1>3, <1>5, <2>1 DEF Apart, AnswersApart
  <2>4. \A r \in Requests \ {p} : request'[r].step \in Names \cup {"tokens"} =>
           request'[r].token # request'[p].token
    BY <1>1, <1>2, <2>1 DEF Apart, AnswersApart
  <2> QED
    BY <2>2, <2>3, <2>4
<1> QED
  BY <1>4, <1>6, <1>7 DEF Apart

LEMMA LoseApart ==
    ASSUME IInv, OwnDevice, Apart, NEW q \in Requests, Lose(q)
    PROVE  Apart'
<1>1. /\ request'[q] = Idle
      /\ \A p \in Requests \ {q} : request'[p] = request[p]
      /\ UNCHANGED <<row, swept, holds>>
  BY LoseFrame DEF tokenVars
<1>2. request'[q].step \notin Names \cup {"tokens"}
  BY <1>1 DEF Idle, Names
<1> QED
  BY <1>1, <1>2 DEF Apart, HoldersApart, NamedByHolder, AnswersApart, Live

LEMMA ApartPreserved ==
    ASSUME IInv, OwnDevice, Apart, [Next]_vars
    PROVE  Apart'
<1>1. CASE Elsewhere
  BY <1>1, ElsewhereFrame DEF Apart, HoldersApart, NamedByHolder, AnswersApart, Live
<1> QED
  BY <1>1, SendApart, ServeApart, ReceiveApart, LoseApart DEF Next, Elsewhere

\* The inductive part: the devices whose token has been revoked alone and that
\* no answer under way will give another.
Unrepaired ==
    {d \in Devices : /\ holds[d] # 0
                     /\ row[holds[d]] = "revoked" /\ holds[d] \notin swept
                     /\ \A p \in Busy(d) : request[p].step \notin Fixing}

UnrepairedPerUpset == IsFiniteSet(Unrepaired) /\ Cardinality(Unrepaired) <= upsets

LEMMA NoMoreUnrepaired ==
    ASSUME IInv, UnrepairedPerUpset, Unrepaired' \subseteq Unrepaired,
           upsets' \in Nat, upsets <= upsets'
    PROVE  UnrepairedPerUpset'
<1>1. /\ IsFiniteSet(Unrepaired') /\ Cardinality(Unrepaired') <= Cardinality(Unrepaired)
  BY FS_Subset DEF UnrepairedPerUpset
<1>2. Cardinality(Unrepaired') \in Nat /\ Cardinality(Unrepaired) \in Nat
  BY <1>1, FS_CardinalityType DEF UnrepairedPerUpset
<1> QED
  BY <1>1, <1>2 DEF UnrepairedPerUpset, IInv, TypeOK

LEMMA ServeRepairs ==
    ASSUME IInv, OwnDevice, Apart, NEW q \in Requests, Serve(q)
    PROVE  Unrepaired' \subseteq Unrepaired
<1>1. /\ holds' = holds /\ \A p \in Requests \ {q} : request'[p] = request[p]
      /\ request'[q].device = request[q].device
  BY ServeFrame
<1>2. request[q].step \in Fixing => request'[q].step \in Fixing
  BY DEF Serve, RegisterLookup, SaveUser, AssignRole, CheckCredentials, LookUp, SoundAlarm,
     RevokeOld, CheckUser, IssueTokens, Logout, LogoutAll, Become, Fixing, IInv, TypeOK, Request
<1> SUFFICES ASSUME NEW d \in Unrepaired' PROVE d \in Unrepaired
  OBVIOUS
<1> DEFINE t == holds[d]
<1>3. /\ d \in Devices /\ t \in Tokens /\ row[t] # "absent"
      /\ row'[t] = "revoked" /\ t \notin swept'
      /\ \A p \in Busy(d)' : request'[p].step \notin Fixing
  BY <1>1, HeldType DEF Unrepaired
<1>4. \A p \in Busy(d) : p \in Busy(d)' /\ request[p].step \notin Fixing
  BY <1>1, <1>2, <1>3 DEF Busy
<1>5. row[t] = "revoked" /\ t \notin swept
  <2>1. CASE t = request[q].token /\ request[q].step \in Names /\ request'[q].step \in Fixing
    <3>1. d = request[q].device
      BY <1>3, <2>1 DEF Apart, NamedByHolder
    <3>2. q \in Busy(d)'
      BY <1>1, <3>1 DEF Busy
    <3> QED
      BY <1>3, <2>1, <3>2
  <2> QED
    BY <1>3, <2>1, ServeRows
<1> QED
  BY <1>3, <1>4, <1>5, TokensNotZero DEF Unrepaired

LEMMA SendRepairs ==
    ASSUME IInv, OwnDevice, NEW q \in Requests, NEW d \in Devices, SendAny(q, d)
    PROVE  Unrepaired' \subseteq Unrepaired
<1>1. /\ request[q] = Idle /\ \A p \in Requests \ {q} : request'[p] = request[p]
      /\ UNCHANGED <<row, swept, holds>>
  BY SendFrame DEF tokenVars
<1>2. \A e \in Devices : \A p \in Busy(e) : p \in Busy(e)' /\ request'[p] = request[p]
  BY <1>1, TokensAssumption DEF Busy, Idle
<1> QED
  BY <1>1, <1>2 DEF Unrepaired

LEMMA ReceiveRepairs ==
    ASSUME IInv, OwnDevice, Apart, NEW q \in Requests, Receive(q)
    PROVE  Unrepaired' \subseteq Unrepaired
<1> DEFINE d == request[q].device
<1>1. /\ d \in Devices
      /\ request[q].step \in {"registered", "tokens", "refused", "loggedOut"}
      /\ \A p \in Requests \ {q} : request'[p] = request[p]
      /\ \A e \in Devices : e # d => holds'[e] = holds[e]
      /\ request[q].step = "tokens" => holds'[d] = request[q].token
      /\ request[q].step = "registered" => holds'[d] = holds[d]
      /\ request[q].step \in {"refused", "loggedOut"} => holds'[d] = 0
      /\ UNCHANGED <<row, swept>>
  BY ReceiveFrame DEF tokenVars
<1>2. ASSUME NEW e \in Unrepaired', holds'[e] = holds[e],
             e = d => request[q].step \notin Fixing
      PROVE  e \in Unrepaired
  <2>1. \A p \in Busy(e) : request[p].step \notin Fixing
    BY <1>1, <1>2 DEF Unrepaired, Busy
  <2> QED
    BY <1>1, <1>2, <2>1 DEF Unrepaired
<1>3. request[q].step = "tokens" =>
        row[request[q].token] = "live" \/ request[q].token \in swept
  BY DEF Apart, AnswersApart, Live
<1>4. ASSUME d \in Unrepaired' PROVE request[q].step = "registered"
  BY <1>1, <1>3, <1>4 DEF Unrepaired
<1> QED
  BY <1>1, <1>2, <1>4 DEF Unrepaired, Fixing

\* A lost request may leave its own device unrepaired, and pays for it.
LEMMA LoseUnrepairedOne ==
    ASSUME IInv, OwnDevice, NEW q \in Requests, Lose(q), UnrepairedPerUpset
    PROVE  UnrepairedPerUpset'
<1> DEFINE d == request[q].device
<1>1. /\ \A p \in Requests \ {q} : request'[p] = request[p]
      /\ upsets' = upsets + 1 /\ UNCHANGED <<row, swept, holds>>
  BY LoseFrame DEF tokenVars
<1>2. Unrepaired' \subseteq Unrepaired \cup {d}
  <2> SUFFICES ASSUME NEW e \in Unrepaired', e # d PROVE e \in Unrepaired
    OBVIOUS
  <2>1. \A p \in Busy(e) : p \in Busy(e)' /\ request'[p] = request[p]
    BY <1>1 DEF Busy
  <2> QED
    BY <1>1, <2>1 DEF Unrepaired
<1>3. /\ IsFiniteSet(Unrepaired \cup {d})
      /\ Cardinality(Unrepaired \cup {d}) <= Cardinality(Unrepaired) + 1
      /\ Cardinality(Unrepaired) \in Nat
  <2>1. IsFiniteSet(Unrepaired) /\ Cardinality(Unrepaired) \in Nat
    BY FS_CardinalityType DEF UnrepairedPerUpset
  <2>2. /\ IsFiniteSet(Unrepaired \cup {d})
        /\ Cardinality(Unrepaired \cup {d}) =
             IF d \in Unrepaired THEN Cardinality(Unrepaired) ELSE Cardinality(Unrepaired) + 1
    BY <2>1, FS_AddElement
  <2> QED
    BY <2>1, <2>2
<1>4. /\ IsFiniteSet(Unrepaired')
      /\ Cardinality(Unrepaired') <= Cardinality(Unrepaired \cup {d})
  BY <1>2, <1>3, FS_Subset
<1>5. Cardinality(Unrepaired') \in Nat /\ Cardinality(Unrepaired \cup {d}) \in Nat
  BY <1>3, <1>4, FS_CardinalityType
<1> QED
  BY <1>1, <1>3, <1>4, <1>5 DEF UnrepairedPerUpset, IInv, TypeOK

LEMMA UnrepairedKept ==
    ASSUME IInv, OwnDevice, Apart, UnrepairedPerUpset, [Next]_vars
    PROVE  UnrepairedPerUpset'
<1>1. ASSUME Unrepaired' \subseteq Unrepaired, upsets' = upsets \/ Upset
      PROVE  UnrepairedPerUpset'
  BY <1>1, NoMoreUnrepaired DEF Upset, IInv, TypeOK
<1>2. ASSUME NEW q \in Requests, NEW d \in Devices, SendAny(q, d)
      PROVE  UnrepairedPerUpset'
  <2>1. upsets' = upsets \/ Upset
    BY <1>2, SendFrame
  <2> QED
    BY <1>1, <1>2, <2>1, SendRepairs
<1>3. ASSUME NEW q \in Requests, Serve(q) PROVE UnrepairedPerUpset'
  BY <1>1, <1>3, ServeRepairs, ServeFrame
<1>4. ASSUME NEW q \in Requests, Receive(q) PROVE UnrepairedPerUpset'
  BY <1>1, <1>4, ReceiveRepairs, ReceiveFrame
<1>5. CASE Elsewhere
  <2>1. Unrepaired' \subseteq Unrepaired
    BY <1>5, ElsewhereFrame DEF Unrepaired, Busy
  <2> QED
    BY <1>1, <1>5, <2>1, ElsewhereFrame
<1> QED
  BY <1>2, <1>3, <1>4, <1>5, LoseUnrepairedOne DEF Next, Elsewhere

LEMMA UnrepairedInductive ==
    Spec => [](IInv /\ OwnDevice /\ Apart /\ UnrepairedPerUpset)
<1>1. Init => OwnDevice /\ Apart /\ UnrepairedPerUpset
  <2> SUFFICES ASSUME Init PROVE OwnDevice /\ Apart /\ UnrepairedPerUpset
    OBVIOUS
  <2>1. OwnDevice
    BY DEF Init, OwnDevice
  <2>2. Apart
    BY DEF Init, Apart, HoldersApart, NamedByHolder, AnswersApart, Names, Idle
  <2>3. Unrepaired = {}
    BY DEF Init, Unrepaired
  <2> QED
    BY <2>1, <2>2, <2>3, FS_EmptySet DEF Init, UnrepairedPerUpset
<1>2. IInv /\ OwnDevice /\ Apart /\ UnrepairedPerUpset /\ [Next]_vars =>
        OwnDevice' /\ Apart' /\ UnrepairedPerUpset'
  BY DevicesPreserved, ApartPreserved, UnrepairedKept
<1> QED
  BY <1>1, <1>2, IInvInductive, PTL DEF Spec

\* No device loses its session to the requests of another, short of ending all
\* sessions: each device whose token was revoked alone has lost a request of its
\* own, between the revocation and the new token or with the answer.
THEOREM StrandedPaidFor == Spec => []StrandedByUpset
<1>1. IInv /\ UnrepairedPerUpset => StrandedByUpset
  <2> SUFFICES ASSUME IInv, UnrepairedPerUpset PROVE StrandedByUpset
    OBVIOUS
  <2>1. Stranded \subseteq Unrepaired
    BY DEF Stranded, Unrepaired
  <2>2. /\ IsFiniteSet(Stranded) /\ Cardinality(Stranded) <= Cardinality(Unrepaired)
    BY <2>1, FS_Subset DEF UnrepairedPerUpset
  <2>3. Cardinality(Stranded) \in Nat /\ Cardinality(Unrepaired) \in Nat
    BY <2>2, FS_CardinalityType DEF UnrepairedPerUpset
  <2> QED
    BY <2>2, <2>3 DEF UnrepairedPerUpset, StrandedByUpset, IInv, TypeOK
<1> QED
  BY <1>1, UnrepairedInductive, PTL

\* Refreshing never gives one token to two devices, and until its answer has
\* arrived nobody but that answer knows a token.
THEOREM TokensHaveOneOwner == Spec => []Apart
BY UnrepairedInductive, PTL
=============================================================================
