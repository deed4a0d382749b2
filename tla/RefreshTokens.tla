--------------------------- MODULE RefreshTokens ---------------------------
(***************************************************************************)
(* The sessions of one user.  Each device holds at most one refresh token; *)
(* the monolith's AuthService keeps the tokens' rows and exchanges a token *)
(* for a new one in several statements without a transaction, while other  *)
(* requests of the same user are served.  A token that is presented when   *)
(* its row is revoked already is taken for a replay and ends all sessions. *)
(* The devices are not part of the repository: they keep the token of the  *)
(* last answer, drop it when it is refused or given back, and log in when  *)
(* they have none.                                                         *)
(***************************************************************************)
EXTENDS Naturals, FiniteSets

CONSTANTS
    Devices,        \* devices of the user
    Requests,       \* requests being served
    NoDevice,       \* device of a request slot that is free
    MaxTokens,      \* bound: refresh tokens issued
    MaxUpsets       \* bound: crashes, lost answers and second tabs

ASSUME TokensAssumption ==
    /\ NoDevice \notin Devices
    /\ MaxTokens \in Nat
    /\ MaxUpsets \in Nat

VARIABLES
    account,        \* auth.users and auth.user_roles: none, without its role, complete
    active,         \* users.is_active
    row,            \* auth.refresh_tokens: revoked_at of each token's row
    expired,        \* tokens whose expires_at has passed
    holds,          \* the token each device has, 0 for none
    request,        \* each request: its step, device and token
    presented,      \* tokens that a refresh or a logout has named (history)
    swept,          \* tokens revoked together with all others (history)
    upsets          \* upsets so far

tokenVars == <<row, expired, swept>>
vars == <<account, active, tokenVars, holds, request, presented, upsets>>

Tokens == 1..MaxTokens

Step == {"idle", "register", "saveUser", "assignRole", "credentials", "lookup",
         "alarm", "revoke", "user", "issue", "logout", "logoutAll",
         "registered", "tokens", "refused", "loggedOut"}

\* again: had the token been presented before?
Request == [step : Step, device : Devices \cup {NoDevice}, token : 0..MaxTokens,
            again : BOOLEAN]
Idle == [step |-> "idle", device |-> NoDevice, token |-> 0, again |-> FALSE]

TypeOK ==
    /\ account \in {"none", "bare", "complete"}
    /\ active \in BOOLEAN
    /\ row \in [Tokens -> {"absent", "live", "revoked"}]
    /\ expired \subseteq Tokens
    /\ holds \in [Devices -> 0..MaxTokens]
    /\ request \in [Requests -> Request]
    /\ presented \subseteq Tokens /\ swept \subseteq Tokens
    /\ upsets \in 0..MaxUpsets
    /\ \A d \in Devices : holds[d] # 0 => row[holds[d]] # "absent"

Live(t) == row[t] = "live"

Busy(d) == {q \in Requests : request[q].device = d}

Upset == upsets < MaxUpsets /\ upsets' = upsets + 1

Init ==
    /\ account = "none" /\ active = TRUE
    /\ row = [t \in Tokens |-> "absent"]
    /\ expired = {}
    /\ holds = [d \in Devices |-> 0]
    /\ request = [q \in Requests |-> Idle]
    /\ presented = {} /\ swept = {} /\ upsets = 0

Become(q, step) == request' = [request EXCEPT ![q].step = step]

-----------------------------------------------------------------------------
(* The devices *)

\* A request that is sent while another one of the same device is under way
\* comes from a second tab.
Send(q, d, step) ==
    /\ request[q] = Idle
    /\ request' = [request EXCEPT ![q] = [step |-> step, device |-> d,
                                          token |-> holds[d], again |-> FALSE]]
    /\ IF Busy(d) = {} THEN UNCHANGED upsets ELSE Upset
    /\ UNCHANGED <<account, active, tokenVars, holds, presented>>

SendAny(q, d) ==
    \/ account = "none" /\ Send(q, d, "register")
    \/ holds[d] = 0 /\ Send(q, d, "credentials")
    \/ holds[d] # 0 /\ \E step \in {"lookup", "logout", "logoutAll"} : Send(q, d, step)

Rest(q) == request' = [request EXCEPT ![q] = Idle]

Receive(q) ==
    /\ request[q].step \in {"registered", "tokens", "refused", "loggedOut"}
    /\ holds' = [holds EXCEPT ![request[q].device] =
                    CASE request[q].step = "tokens"     -> request[q].token
                      [] request[q].step = "registered" -> @
                      [] OTHER                          -> 0]
    /\ Rest(q)
    /\ UNCHANGED <<account, active, tokenVars, presented, upsets>>

\* A crash, a database error or a lost answer: the device keeps what it has.
Lose(q) ==
    /\ request[q] # Idle
    /\ Upset
    /\ Rest(q)
    /\ UNCHANGED <<account, active, tokenVars, holds, presented>>

-----------------------------------------------------------------------------
(* register *)

RegisterLookup(q) ==
    /\ request[q].step = "register"
    /\ Become(q, IF account = "none" THEN "saveUser" ELSE "registered")
    /\ UNCHANGED <<account, active, tokenVars, holds, presented, upsets>>

\* The e-mail is unique: the later one of two fails.
SaveUser(q) ==
    /\ request[q].step = "saveUser"
    /\ IF account = "none"
       THEN account' = "bare" /\ Become(q, "assignRole")
       ELSE UNCHANGED account /\ Become(q, "registered")
    /\ UNCHANGED <<active, tokenVars, holds, presented, upsets>>

AssignRole(q) ==
    /\ request[q].step = "assignRole"
    /\ account' = "complete"
    /\ Become(q, "registered")
    /\ UNCHANGED <<active, tokenVars, holds, presented, upsets>>

-----------------------------------------------------------------------------
(* login and refresh *)

CheckCredentials(q) ==
    /\ request[q].step = "credentials"
    /\ Become(q, IF account # "none" /\ active THEN "issue" ELSE "refused")
    /\ UNCHANGED <<account, active, tokenVars, holds, presented, upsets>>

\* Mutant: a token past its time counts as replayed.
VerdictOnAge(t) == IF Live(t) /\ t \notin expired THEN "revoke" ELSE "alarm"

\* What refresh does about a token, by the row it has found.
Verdict(t) ==
    CASE row[t] = "revoked"            -> "alarm"
      [] Live(t) /\ t \in expired      -> "refused"
      [] OTHER                         -> "revoke"

LookUp(q) ==
    /\ request[q].step = "lookup"
    /\ LET t == request[q].token IN
        /\ request' = [request EXCEPT ![q].step = Verdict(t),
                                      ![q].again = t \in presented]
        /\ presented' = presented \cup {t}
    /\ UNCHANGED <<account, active, tokenVars, holds, upsets>>

\* revokeAllUserTokens
Sweep ==
    /\ row' = [t \in Tokens |-> IF Live(t) THEN "revoked" ELSE row[t]]
    /\ swept' = swept \cup {t \in Tokens : Live(t)}
    /\ UNCHANGED expired

SoundAlarm(q) ==
    /\ request[q].step = "alarm"
    /\ Sweep
    /\ Become(q, "refused")
    /\ UNCHANGED <<account, active, holds, presented, upsets>>

\* Mutant: the old token stays.
KeepOld(q) ==
    /\ request[q].step = "revoke"
    /\ Become(q, "user")
    /\ UNCHANGED <<account, active, tokenVars, holds, presented, upsets>>

\* The row is revoked, whatever has happened to it since it was found.
RevokeOld(q) ==
    /\ request[q].step = "revoke"
    /\ row' = [row EXCEPT ![request[q].token] = "revoked"]
    /\ Become(q, "user")
    /\ UNCHANGED <<account, active, expired, swept, holds, presented, upsets>>

\* The old token is gone by now, also for a user who is turned away.
CheckUser(q) ==
    /\ request[q].step = "user"
    /\ Become(q, IF active THEN "issue" ELSE "refused")
    /\ UNCHANGED <<account, active, tokenVars, holds, presented, upsets>>

Unissued == {t \in Tokens : row[t] = "absent"}

\* Mutant: answers without saving the row.
IssueUnsaved(q) ==
    /\ request[q].step = "issue"
    /\ \E t \in Unissued :
        request' = [request EXCEPT ![q].step = "tokens", ![q].token = t]
    /\ UNCHANGED <<account, active, tokenVars, holds, presented, upsets>>

\* issueTokens
IssueTokens(q) ==
    /\ request[q].step = "issue"
    /\ \E t \in Unissued :
        /\ \A u \in Unissued : t <= u
        /\ row' = [row EXCEPT ![t] = "live"]
        /\ request' = [request EXCEPT ![q].step = "tokens", ![q].token = t]
    /\ UNCHANGED <<account, active, expired, swept, holds, presented, upsets>>

-----------------------------------------------------------------------------
(* logout and logout-all *)

\* Mutant: the update forgets the hash.
LogoutEverywhere(q) ==
    /\ request[q].step = "logout"
    /\ row' = [t \in Tokens |-> IF Live(t) THEN "revoked" ELSE row[t]]
    /\ presented' = presented \cup {request[q].token}
    /\ Become(q, "loggedOut")
    /\ UNCHANGED <<account, active, expired, swept, holds, upsets>>

Logout(q) ==
    /\ request[q].step = "logout"
    /\ row' = [row EXCEPT ![request[q].token] = "revoked"]
    /\ presented' = presented \cup {request[q].token}
    /\ Become(q, "loggedOut")
    /\ UNCHANGED <<account, active, expired, swept, holds, upsets>>

LogoutAll(q) ==
    /\ request[q].step = "logoutAll"
    /\ Sweep
    /\ Become(q, "loggedOut")
    /\ UNCHANGED <<account, active, holds, presented, upsets>>

-----------------------------------------------------------------------------
(* Time and the administrator *)

Expires(t) ==
    /\ Live(t) /\ t \notin expired
    /\ expired' = expired \cup {t}
    /\ UNCHANGED <<account, active, row, swept, holds, request, presented, upsets>>

SetActive ==
    /\ account # "none"
    /\ active' = ~active
    /\ UNCHANGED <<account, tokenVars, holds, request, presented, upsets>>

Serve(q) ==
    \/ RegisterLookup(q) \/ SaveUser(q) \/ AssignRole(q)
    \/ CheckCredentials(q) \/ LookUp(q) \/ SoundAlarm(q)
    \/ RevokeOld(q) \/ CheckUser(q) \/ IssueTokens(q)
    \/ Logout(q) \/ LogoutAll(q)

Next ==
    \/ \E q \in Requests :
        \/ \E d \in Devices : SendAny(q, d)
        \/ Serve(q) \/ Receive(q) \/ Lose(q)
    \/ \E t \in Tokens : Expires(t)
    \/ SetActive

Spec == Init /\ [][Next]_vars

-----------------------------------------------------------------------------
(* Safety *)

InAnswer(t) == \E q \in Requests : request[q].step = "tokens" /\ request[q].token = t

\* tokens that would still be exchanged but that no device has or will get
Orphans ==
    {t \in Tokens : /\ Live(t) /\ t \notin expired
                    /\ \A d \in Devices : holds[d] # t
                    /\ ~InAnswer(t)}

\* Rotation leaves no sessions behind: each crash, lost answer or second tab
\* leaves at most one live token that nobody holds.
OrphanPerUpset == Cardinality(Orphans) <= upsets

\* devices between two requests whose token has been revoked, and not together
\* with all others
Stranded ==
    {d \in Devices : /\ holds[d] # 0 /\ Busy(d) = {}
                     /\ row[holds[d]] = "revoked" /\ holds[d] \notin swept}

\* A device at rest holds a live token: the requests of the other devices do
\* not cost it its session unless one of them ends all sessions, and a crash
\* between revoking the old token and saving the new one costs at most its own.
StrandedByUpset == Cardinality(Stranded) <= upsets

\* The alarm is never raised about a token that is presented for the first
\* time, unless all tokens have been revoked before: logging out everywhere, or
\* an earlier alarm, makes the next refresh of every other device an alarm.
AlarmHasCause ==
    \A q \in Requests :
        request[q].step = "alarm" => request[q].again \/ request[q].token \in swept
=============================================================================
