---------------------------- MODULE RateLimiter ----------------------------
(***************************************************************************)
(* The fixed-window counters that RedisLockService keeps in Redis: the     *)
(* first call of a window sets the key's TTL, every call counts up, and    *)
(* the key goes when its TTL has run out.                                  *)
(***************************************************************************)
EXTENDS Naturals, Functions

CONSTANTS
    RateKeys,       \* keys of counters
    Limit,          \* maxCount of each key
    Window          \* windowSeconds, in steps of the clock

ASSUME LimiterAssumption ==
    /\ Limit \in [RateKeys -> Nat \ {0}]
    /\ Window \in Nat \ {0}

VARIABLES
    count,          \* value of each key; from its limit on all values are alike
    ttl,            \* time each key has left, 0 when there is no key
    passed          \* calls let through in each of the last Window steps of the
                    \* clock (history)

limiterVars == <<count, ttl, passed>>

Ages == 0..(Window - 1)

TypeOKLimiter ==
    /\ count \in [RateKeys -> Nat]
    /\ ttl \in [RateKeys -> 0..Window]
    /\ passed \in [RateKeys -> [Ages -> Nat]]

InitLimiter ==
    /\ count = [k \in RateKeys |-> 0]
    /\ ttl = [k \in RateKeys |-> 0]
    /\ passed = [k \in RateKeys |-> [a \in Ages |-> 0]]

\* Mutant: every call renews the TTL.
RenewedTtl(k) == Window

\* EXPIRE, by the call that made the key
TtlAfterIncr(k) == IF count[k] = 0 THEN Window ELSE ttl[k]

\* Mutant: compares the value before the increment.
AllowedOneMore(k) == count[k] <= Limit[k]

Allowed(k) == count[k] < Limit[k]

\* INCR, EXPIRE and the comparison with the limit.  A refused call counts up too, to a
\* value that refuses like the limit does.
CheckRateLimit(k) ==
    /\ count' = [count EXCEPT ![k] = IF Allowed(k) THEN @ + 1 ELSE @]
    /\ ttl' = [ttl EXCEPT ![k] = TtlAfterIncr(k)]
    /\ passed' = [passed EXCEPT ![k][0] = IF Allowed(k) THEN @ + 1 ELSE @]

\* A step of the clock: TTLs run down, keys whose time is over are gone.
LimiterTicks ==
    /\ ttl' = [k \in RateKeys |-> IF ttl[k] > 0 THEN ttl[k] - 1 ELSE 0]
    /\ count' = [k \in RateKeys |-> IF ttl[k] = 1 THEN 0 ELSE count[k]]
    /\ passed' = [k \in RateKeys |->
                    [a \in Ages |-> IF a = 0 THEN 0 ELSE passed[k][a - 1]]]

\* In any stretch of time as long as the window, wherever it starts, fewer than twice
\* the limit pass: windows are fixed, so two of them may meet in it, but the call that
\* started the first one has then left it.
BelowTwiceTheLimit ==
    \A k \in RateKeys : FoldFunction(+, 0, passed[k]) < 2 * Limit[k]

\* A call is turned away only when another one was let through less than a
\* window ago: knocking on a full counter does not keep it full.
RefusedOnlyAfterPass ==
    \A k \in RateKeys : ~Allowed(k) => \E a \in Ages : passed[k][a] > 0
=============================================================================
