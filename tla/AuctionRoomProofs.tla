--------------------------- MODULE AuctionRoomProofs ---------------------------
(***************************************************************************)
(* Proofs about AuctionRoom and its rate limits, for any number of clients *)
(* and requests, any offers, limits, window and faults.                    *)
(***************************************************************************)
EXTENDS AuctionRoom, SumLemmas

USE RoomAssumption, LimiterAssumption

-----------------------------------------------------------------------------
(* The rate limits *)

\* A counter that is not zero was started by a call that its window let through.
Started ==
    \A k \in RateKeys :
        count[k] > 0 => /\ ttl[k] > 0
                        /\ passed[k][Window - ttl[k]] > 0

LInv == TypeOKLimiter /\ Started

\* How long ago the window was started that has n steps left.
LEMMA AgeOf ==
    ASSUME NEW n \in Nat, 0 < n, n <= Window
    PROVE  Window - n \in Ages /\ (n > 1 => Window - (n - 1) \in Ages
              /\ Window - (n - 1) # 0 /\ (Window - (n - 1)) - 1 = Window - n)
BY DEF Ages

LEMMA CheckKeepsLimits ==
    ASSUME LInv, NEW k \in RateKeys, CheckRateLimit(k)
    PROVE  LInv'
<1> USE DEF LInv, TypeOKLimiter
<1>1. Limit[k] \in Nat \ {0}
  OBVIOUS
<1>2. count' \in [RateKeys -> Nat] /\ ttl' \in [RateKeys -> 0..Window]
  BY DEF CheckRateLimit, TtlAfterIncr
<1>3. passed' \in [RateKeys -> [Ages -> Nat]]
  <2>1. 0 \in Ages
    BY DEF Ages
  <2> QED
    BY <2>1 DEF CheckRateLimit
<1>4. \A a \in Ages, j \in RateKeys : passed'[j][a] >= passed[j][a]
  BY DEF CheckRateLimit
<1>5. ASSUME NEW j \in RateKeys, count'[j] > 0
      PROVE  ttl'[j] > 0 /\ passed'[j][Window - ttl'[j]] > 0
  <2>1. CASE count[j] > 0
    <3>1. ttl'[j] = ttl[j]
      BY <2>1 DEF CheckRateLimit, TtlAfterIncr
    <3> DEFINE a == Window - ttl[j]
    <3>2. ttl[j] > 0 /\ passed[j][a] > 0
      BY <2>1 DEF Started
    <3>3. a \in Ages
      <4>1. ttl[j] \in Nat /\ 0 < ttl[j] /\ ttl[j] <= Window
        BY <3>2
      <4> QED
        BY <4>1, AgeOf
    <3> HIDE DEF a
    <3>4. passed'[j][a] >= passed[j][a]
      BY <1>4, <3>3
    <3>5. passed'[j][a] \in Nat /\ passed[j][a] \in Nat
      BY <1>3, <3>3
    <3>6. passed'[j][a] > 0
      BY <3>2, <3>4, <3>5
    <3> QED
      BY <3>1, <3>2, <3>6 DEF a
  <2>2. CASE count[j] = 0
    <3>1. j = k
      BY <1>5, <2>2 DEF CheckRateLimit
    <3>2. Allowed(k)
      BY <1>1, <2>2, <3>1 DEF Allowed
    <3>3. ttl'[j] = Window /\ passed'[j][0] = passed[j][0] + 1 /\ 0 \in Ages
      BY <2>2, <3>1, <3>2 DEF CheckRateLimit, TtlAfterIncr, Ages
    <3> QED
      BY <3>3
  <2> QED
    BY <2>1, <2>2
<1> QED
  BY <1>2, <1>3, <1>5 DEF Started

LEMMA TickKeepsLimits ==
    ASSUME LInv, LimiterTicks
    PROVE  LInv'
<1> USE DEF LInv, TypeOKLimiter
<1>1. TypeOKLimiter'
  BY DEF LimiterTicks, Ages
<1>2. ASSUME NEW k \in RateKeys, count'[k] > 0
      PROVE  ttl'[k] > 0 /\ passed'[k][Window - ttl'[k]] > 0
  <2>1. ttl[k] # 1 /\ count[k] > 0
    BY <1>2 DEF LimiterTicks
  <2>2. ttl[k] > 1 /\ ttl'[k] = ttl[k] - 1
    BY <2>1 DEF LimiterTicks, Started
  <2> DEFINE a == Window - ttl'[k]
  <2>3. a \in Ages /\ a # 0 /\ a - 1 = Window - ttl[k]
    <3>1. ttl[k] \in Nat /\ 1 < ttl[k] /\ ttl[k] <= Window
      BY <2>2
    <3>2. /\ Window - (ttl[k] - 1) \in Ages /\ Window - (ttl[k] - 1) # 0
          /\ (Window - (ttl[k] - 1)) - 1 = Window - ttl[k]
      BY ONLY <3>1, AgeOf
    <3> QED
      BY ONLY <2>2, <3>2
  <2>4. passed'[k][a] = passed[k][a - 1]
    <3> HIDE DEF a
    <3> QED
      BY <2>3 DEF LimiterTicks
  <2>5. passed[k][Window - ttl[k]] > 0
    BY <2>1 DEF Started
  <2>6. passed'[k][a] > 0
    BY <2>3, <2>4, <2>5
  <2>7. ttl'[k] > 0
    BY <2>2
  <2> QED
    BY <2>6, <2>7
<1> QED
  BY <1>1, <1>2 DEF Started

-----------------------------------------------------------------------------
(* What the windows let through *)

\* What each key has let through since its window was started is no more than its
\* counter and its limit, and what it let through before that is less than its
\* limit, because the call that started the last window is not among it any more; a
\* key that is gone has let nothing through since the clock's last step.
Since(k)  == 0..(Window - ttl[k])
Before(k) == (Window - ttl[k] + 1)..(Window - 1)

FitsOpen(k) ==
    /\ count[k] > 0
    /\ Sum(passed[k], Since(k)) <= count[k]
    /\ Sum(passed[k], Since(k)) <= Limit[k]
    /\ Sum(passed[k], Before(k)) < Limit[k]

FitsGone(k) ==
    /\ count[k] = 0
    /\ passed[k][0] = 0
    /\ Sum(passed[k], Ages) < Limit[k]

Fits(k) == IF ttl[k] > 0 THEN FitsOpen(k) ELSE FitsGone(k)

WindowsFit == TypeOKLimiter /\ \A k \in RateKeys : Fits(k)

LEMMA LimiterTypes ==
    ASSUME TypeOKLimiter, NEW k \in RateKeys
    PROVE  /\ count[k] \in Nat /\ ttl[k] \in 0..Window
           /\ \A a \in Ages : passed[k][a] \in Nat
           /\ DOMAIN passed[k] = Ages
           /\ Limit[k] \in Nat /\ Limit[k] > 0
BY DEF TypeOKLimiter

\* The steps of the clock within the window, cut in two.
LEMMA AgesCut ==
    ASSUME NEW h \in Int, -1 <= h, h < Window
    PROVE  /\ Ages = (0..h) \cup ((h + 1)..(Window - 1))
           /\ (0..h) \cap ((h + 1)..(Window - 1)) = {}
           /\ (0..h) \subseteq Ages /\ ((h + 1)..(Window - 1)) \subseteq Ages
           /\ IsFiniteSet(0..h) /\ IsFiniteSet((h + 1)..(Window - 1))
           /\ IsFiniteSet(Ages)
<1>1. IsFiniteSet(0..h) /\ IsFiniteSet((h + 1)..(Window - 1)) /\ IsFiniteSet(Ages)
  BY IntervalFinite DEF Ages
<1>2. /\ Ages = (0..h) \cup ((h + 1)..(Window - 1))
      /\ (0..h) \cap ((h + 1)..(Window - 1)) = {}
      /\ (0..h) \subseteq Ages /\ ((h + 1)..(Window - 1)) \subseteq Ages
  BY DEF Ages
<1> QED
  BY <1>1, <1>2

\* The two parts hold all that was let through, and each no more than the whole.
LEMMA PassedCut ==
    ASSUME NEW f, \A a \in Ages : f[a] \in Nat, NEW h \in Int, -1 <= h, h < Window
    PROVE  /\ Sum(f, Ages) = Sum(f, 0..h) + Sum(f, (h + 1)..(Window - 1))
           /\ Sum(f, 0..h) \in Nat /\ Sum(f, (h + 1)..(Window - 1)) \in Nat
           /\ Sum(f, Ages) \in Nat
<1> DEFINE new == 0..h
           old == (h + 1)..(Window - 1)
<1>1. /\ Ages = new \cup old /\ new \cap old = {}
      /\ IsFiniteSet(new) /\ IsFiniteSet(old)
  BY AgesCut
<1> HIDE DEF new, old
<1>2. Sum(f, new \cup old) = Sum(f, new) + Sum(f, old)
  BY <1>1, SumSplit
<1>3. (\A a \in new : f[a] \in Nat) /\ (\A a \in old : f[a] \in Nat)
  BY <1>1
<1>4. Sum(f, new) \in Nat /\ Sum(f, old) \in Nat
  BY <1>1, <1>3, SumType
<1>5. Sum(f, Ages) = Sum(f, new) + Sum(f, old)
  BY <1>1, <1>2
<1> QED
  BY <1>4, <1>5 DEF new, old

LEMMA FitsTwice ==
    ASSUME WindowsFit
    PROVE  BelowTwiceTheLimit
<1> SUFFICES ASSUME NEW k \in RateKeys
             PROVE  FoldFunction(+, 0, passed[k]) < 2 * Limit[k]
  BY DEF BelowTwiceTheLimit
<1>1. TypeOKLimiter /\ Fits(k)
  BY DEF WindowsFit
<1>2. /\ count[k] \in Nat /\ ttl[k] \in 0..Window
      /\ \A a \in Ages : passed[k][a] \in Nat
      /\ DOMAIN passed[k] = Ages
      /\ Limit[k] \in Nat /\ Limit[k] > 0
  BY <1>1, LimiterTypes
<1>3. FoldFunction(+, 0, passed[k]) = Sum(passed[k], Ages)
  BY <1>2 DEF FoldFunction, Sum
<1> DEFINE h == Window - ttl[k]
<1>4. CASE ttl[k] > 0
  <2>1. h \in Int /\ -1 <= h /\ h < Window
    BY <1>2, <1>4
  <2> DEFINE since == Sum(passed[k], 0..h)
             before == Sum(passed[k], (h + 1)..(Window - 1))
             all == Sum(passed[k], Ages)
  <2>2. since <= Limit[k] /\ before < Limit[k]
    BY <1>1, <1>4 DEF Fits, FitsOpen, Since, Before
  <2> HIDE DEF h
  <2>3. all = since + before /\ since \in Nat /\ before \in Nat
    BY <1>2, <2>1, PassedCut
  <2> HIDE DEF since, before
  <2>4. all < 2 * Limit[k]
    <3> HIDE DEF all
    <3> QED
      BY <1>2, <2>2, <2>3
  <2> QED
    BY <1>3, <2>4
<1>5. CASE ~(ttl[k] > 0)
  <2> DEFINE all == Sum(passed[k], Ages)
  <2>1. all < Limit[k]
    BY <1>1, <1>5 DEF Fits, FitsGone
  <2>2. all \in Nat
    <3>1. 0 \in Int /\ -1 <= 0 /\ 0 < Window
      OBVIOUS
    <3> QED
      BY <1>2, <3>1, PassedCut
  <2>3. all < 2 * Limit[k]
    <3> HIDE DEF all
    <3> QED
      BY <1>2, <2>1, <2>2
  <2> QED
    BY <1>3, <2>3
<1> QED
  BY <1>4, <1>5

\* Within the window, a step of the clock moves what was let through one step back.
LEMMA TickMoves ==
    ASSUME TypeOKLimiter, LimiterTicks, NEW k \in RateKeys, NEW h \in Ages
    PROVE  /\ Sum(passed'[k], 0..h) = Sum(passed[k], 0..(h - 1))
           /\ Sum(passed'[k], (h + 1)..(Window - 1)) = Sum(passed[k], h..(Window - 2))
           /\ passed'[k][0] = 0
           /\ \A a \in Ages : passed'[k][a] \in Nat
<1> DEFINE p == passed[k]
           q == passed'[k]
<1>1. /\ q = [a \in Ages |-> IF a = 0 THEN 0 ELSE p[a - 1]]
      /\ \A a \in Ages : p[a] \in Nat
  BY LimiterTypes DEF LimiterTicks
<1>2. h \in Int /\ 0 <= h /\ h < Window /\ 0 \in Ages
  BY DEF Ages
<1> HIDE DEF p, q
<1>3. q[0] = 0
  BY <1>1, <1>2
<1>4. \A a \in Ages : q[a] \in Nat
  <2>1. \A a \in Ages : a # 0 => a - 1 \in Ages
    BY DEF Ages
  <2> QED
    BY <1>1, <2>1
<1>5. \A a \in 0..(Window - 2) : a \in Ages /\ p[a] \in Nat /\ q[a + 1] = p[a]
  <2>1. \A a \in 0..(Window - 2) :
           a \in Ages /\ a + 1 \in Ages /\ a + 1 # 0 /\ (a + 1) - 1 = a
    BY DEF Ages
  <2> QED
    BY <1>1, <2>1
<1>6. Sum(q, 0..h) = Sum(p, 0..(h - 1))
  <2> DEFINE rest == (0..h) \ {0}
             all == 0..h
  <2>1. IsFiniteSet(all) /\ 0 \in all /\ \A a \in all : q[a] \in Nat
    BY <1>2, <1>4, IntervalFinite DEF Ages
  <2>2. rest = (0 + 1)..((h - 1) + 1)
    BY <1>2
  <2>3. Sum(q, (0 + 1)..((h - 1) + 1)) = Sum(p, 0..(h - 1))
    <3>1. 0 \in Int /\ h - 1 \in Int
      BY <1>2
    <3>2. \A a \in 0..(h - 1) : p[a] \in Nat /\ q[a + 1] = p[a]
      BY <1>2, <1>5
    <3> QED
      BY <3>1, <3>2, SumShifted
  <2>4. rest = all \ {0}
    OBVIOUS
  <2> HIDE DEF all, rest
  <2>5. Sum(q, all) = q[0] + Sum(q, rest) /\ Sum(q, rest) \in Nat
    BY <2>1, <2>4, SumOfOne
  <2>6. Sum(q, all) = Sum(q, rest)
    BY <1>3, <2>5
  <2> QED
    BY <2>2, <2>3, <2>6 DEF all
<1>7. Sum(q, (h + 1)..(Window - 1)) = Sum(p, h..(Window - 2))
  <2>1. Sum(q, (h + 1)..((Window - 2) + 1)) = Sum(p, h..(Window - 2))
    <3>1. Window - 2 \in Int
      OBVIOUS
    <3>2. \A a \in h..(Window - 2) : p[a] \in Nat /\ q[a + 1] = p[a]
      BY <1>2, <1>5
    <3> QED
      BY <1>2, <3>1, <3>2, SumShifted
  <2>2. (Window - 2) + 1 = Window - 1
    OBVIOUS
  <2> QED
    BY <2>1, <2>2
<1> QED
  BY <1>3, <1>4, <1>6, <1>7 DEF p, q

\* A part of the window holds no more than the parts it lies in.
LEMMA PassedPart ==
    ASSUME NEW f, \A a \in Ages : f[a] \in Nat, NEW S \in SUBSET Ages, NEW s \in SUBSET S
    PROVE  Sum(f, s) <= Sum(f, S) /\ Sum(f, s) \in Nat /\ Sum(f, S) \in Nat
<1>1. IsFiniteSet(S)
  <2>1. IsFiniteSet(Ages)
    BY IntervalFinite DEF Ages
  <2> QED
    BY <2>1, FS_Subset
<1>2. \A a \in S : f[a] \in Nat
  OBVIOUS
<1> QED
  BY <1>1, <1>2, SumOfPart

LEMMA TickKeepsFit ==
    ASSUME WindowsFit, Started, LimiterTicks, NEW k \in RateKeys
    PROVE  Fits(k)'
<1> DEFINE n == ttl[k]
           h == Window - n
           limit == Limit[k]
<1>1. TypeOKLimiter /\ Fits(k)
  BY DEF WindowsFit
<1>2. /\ count[k] \in Nat /\ n \in 0..Window
      /\ \A a \in Ages : passed[k][a] \in Nat
      /\ limit \in Nat /\ limit > 0
  BY <1>1, LimiterTypes
<1>3. /\ ttl'[k] = IF n > 0 THEN n - 1 ELSE 0
      /\ count'[k] = IF n = 1 THEN 0 ELSE count[k]
  BY DEF LimiterTicks
<1>4. CASE n > 1
  <2> DEFINE g == Window - (n - 1)
  <2>1. ttl'[k] = n - 1 /\ n - 1 > 0 /\ count'[k] = count[k]
    BY <1>2, <1>3, <1>4
  <2>2. g \in Ages /\ g - 1 = h /\ g = h + 1
    BY <1>2, <1>4 DEF Ages
  <2>3. /\ Sum(passed'[k], 0..g) = Sum(passed[k], 0..(g - 1))
        /\ Sum(passed'[k], (g + 1)..(Window - 1)) = Sum(passed[k], g..(Window - 2))
    <3> HIDE DEF g
    <3> QED
      BY <1>1, <2>2, TickMoves
  <2>4. /\ count[k] > 0
        /\ Sum(passed[k], 0..h) <= count[k]
        /\ Sum(passed[k], 0..h) <= limit
        /\ Sum(passed[k], (h + 1)..(Window - 1)) < limit
    BY <1>1, <1>2, <1>4 DEF Fits, FitsOpen, Since, Before
  <2>5. Sum(passed[k], g..(Window - 2)) < limit
    <3> DEFINE some == Sum(passed[k], g..(Window - 2))
               before == Sum(passed[k], g..(Window - 1))
    <3>1. g..(Window - 1) \in SUBSET Ages /\ g..(Window - 2) \in SUBSET (g..(Window - 1))
      BY <2>2 DEF Ages
    <3> HIDE DEF g
    <3>2. some <= before /\ some \in Nat /\ before \in Nat
      BY <1>2, <3>1, PassedPart
    <3>3. before < limit
      BY <2>2, <2>4
    <3> HIDE DEF some, before, limit
    <3>4. some < limit
      BY <1>2, <3>2, <3>3
    <3> QED
      BY <3>4 DEF some
  <2>6. Since(k)' = 0..g /\ Before(k)' = (g + 1)..(Window - 1)
    BY <2>1 DEF Since, Before
  <2>7. FitsOpen(k)'
    <3> HIDE DEF g
    <3> QED
      BY <2>1, <2>2, <2>3, <2>4, <2>5, <2>6 DEF FitsOpen
  <2> QED
    BY <2>1, <2>7 DEF Fits
<1>5. CASE ~(n > 1)
  <2>1. ~(ttl'[k] > 0) /\ count'[k] = 0
    BY <1>1, <1>2, <1>3, <1>5 DEF Fits, FitsGone
  <2> DEFINE all == Sum(passed[k], Ages)
             some == Sum(passed[k], 0..(Window - 2))
  <2>2. some <= all /\ some \in Nat /\ all \in Nat
    <3>1. Ages \in SUBSET Ages /\ 0..(Window - 2) \in SUBSET Ages
      BY DEF Ages
    <3> QED
      BY <1>2, <3>1, PassedPart
  <2>3. some < limit
    <3>1. CASE n = 0
      <4>1. all < limit
        BY <1>1, <3>1 DEF Fits, FitsGone
      <4> HIDE DEF some, all, limit
      <4> QED
        BY <1>2, <2>2, <4>1
    <3>2. CASE n = 1
      <4> DEFINE first == passed[k][Window - 1]
      <4>1. all <= limit /\ count[k] > 0
        <5>1. Since(k) = Ages
          BY <3>2 DEF Since, Ages
        <5> QED
          BY <1>1, <3>2, <5>1 DEF Fits, FitsOpen
      <4>2. first > 0 /\ first \in Nat
        <5>1. Window - 1 \in Ages
          BY DEF Ages
        <5> QED
          BY <1>2, <3>2, <4>1, <5>1 DEF Started
      <4>3. all = first + some
        <5>1. IsFiniteSet(Ages)
          BY IntervalFinite DEF Ages
        <5>2. Window - 1 \in Ages /\ Ages \ {Window - 1} = 0..(Window - 2)
          BY DEF Ages
        <5> QED
          BY <1>2, <5>1, <5>2, SumOfOne
      <4> HIDE DEF some, all, limit, first
      <4> QED
        BY <1>2, <2>2, <4>1, <4>2, <4>3
    <3> QED
      BY <1>2, <1>5, <3>1, <3>2
  <2>4. Sum(passed'[k], Ages) = some /\ passed'[k][0] = 0
    <3>1. Window - 1 \in Ages /\ (Window - 1) - 1 = Window - 2 /\ 0..(Window - 1) = Ages
      BY DEF Ages
    <3>2. /\ Sum(passed'[k], 0..(Window - 1)) = Sum(passed[k], 0..((Window - 1) - 1))
          /\ passed'[k][0] = 0
      BY <1>1, <3>1, TickMoves
    <3> QED
      BY <3>1, <3>2
  <2>5. FitsGone(k)'
    BY <2>1, <2>3, <2>4 DEF FitsGone, Ages
  <2> QED
    BY <2>1, <2>5 DEF Fits
<1> QED
  BY <1>4, <1>5

LEMMA CheckKeepsFit ==
    ASSUME WindowsFit, NEW k \in RateKeys, CheckRateLimit(k), NEW j \in RateKeys
    PROVE  Fits(j)'
<1> DEFINE p == passed[k]
           q == passed'[k]
           n == ttl[k]
           h == Window - n
           limit == Limit[k]
<1>1. TypeOKLimiter /\ Fits(j) /\ Fits(k)
  BY DEF WindowsFit
<1>2. /\ count[k] \in Nat /\ n \in 0..Window
      /\ \A a \in Ages : p[a] \in Nat
      /\ limit \in Nat /\ limit > 0
  BY <1>1, LimiterTypes
<1>3. 0 \in Ages
  BY DEF Ages
<1>4. CASE j # k
  <2>1. /\ count'[j] = count[j] /\ ttl'[j] = ttl[j] /\ passed'[j] = passed[j]
    BY <1>1, <1>4 DEF CheckRateLimit, TypeOKLimiter
  <2> QED
    BY <1>1, <2>1 DEF Fits, FitsOpen, FitsGone, Since, Before
<1>5. CASE j = k /\ ~Allowed(k)
  <2>1. count'[k] = count[k] /\ passed'[k] = passed[k] /\ ttl'[k] = TtlAfterIncr(k)
    BY <1>1, <1>3, <1>5 DEF CheckRateLimit, TypeOKLimiter
  <2>2. count[k] # 0
    BY <1>2, <1>5 DEF Allowed
  <2>3. n > 0 /\ ttl'[k] = n
    BY <1>1, <2>1, <2>2 DEF Fits, FitsGone, TtlAfterIncr
  <2> QED
    BY <1>1, <1>5, <2>1, <2>3 DEF Fits, FitsOpen, Since, Before
<1>6. CASE j = k /\ Allowed(k)
  <2>1. /\ count'[k] = count[k] + 1 /\ ttl'[k] = TtlAfterIncr(k)
        /\ q[0] = p[0] + 1 /\ \A a \in Ages : a # 0 => q[a] = p[a]
    BY <1>1, <1>3, <1>6 DEF CheckRateLimit, TypeOKLimiter
  <2>2. count[k] + 1 <= limit
    BY <1>2, <1>6 DEF Allowed
  <2>3. ASSUME NEW g \in Int, 0 <= g, g < Window
        PROVE  /\ Sum(q, 0..g) = Sum(p, 0..g) + 1 /\ Sum(p, 0..g) \in Nat
               /\ Sum(q, (g + 1)..(Window - 1)) = Sum(p, (g + 1)..(Window - 1))
    <3> DEFINE new == 0..g
               old == (g + 1)..(Window - 1)
    <3>1. /\ IsFiniteSet(new) /\ IsFiniteSet(old) /\ 0 \in new /\ 0 \notin old
          /\ new \subseteq Ages /\ old \subseteq Ages
      <4>1. -1 <= g
        BY <2>3
      <4> QED
        BY <2>3, <4>1, AgesCut
    <3> HIDE DEF new, old, p, q
    <3>2. \A a \in new \ {0} : q[a] = p[a]
      BY <2>1, <3>1
    <3>3. \A a \in old : q[a] = p[a]
      BY <2>1, <3>1
    <3>4. Sum(q, new) = Sum(p, new) + 1 /\ Sum(p, new) \in Nat
      <4>1. \A a \in new : p[a] \in Nat
        BY <1>2, <3>1
      <4> QED
        BY <2>1, <3>1, <3>2, <4>1, SumOfMore
    <3>5. Sum(q, old) = Sum(p, old)
      <4>1. \A a \in old : p[a] \in Nat
        BY <1>2, <3>1
      <4> QED
        BY <3>1, <3>3, <4>1, SumSame
    <3> QED
      BY <3>4, <3>5 DEF new, old
  <2>4. CASE n > 0
    <3>1. count[k] > 0 /\ ttl'[k] = n
      BY <1>1, <1>2, <2>1, <2>4 DEF Fits, FitsOpen, TtlAfterIncr
    <3>2. /\ Sum(p, 0..h) <= count[k]
          /\ Sum(p, (h + 1)..(Window - 1)) < limit
      BY <1>1, <2>4 DEF Fits, FitsOpen, Since, Before
    <3>3. /\ Sum(q, 0..h) = Sum(p, 0..h) + 1 /\ Sum(p, 0..h) \in Nat
          /\ Sum(q, (h + 1)..(Window - 1)) = Sum(p, (h + 1)..(Window - 1))
      <4>1. h \in Int /\ 0 <= h /\ h < Window
        BY <1>2, <2>4
      <4> HIDE DEF h, p, q
      <4> QED
        BY <2>3, <4>1
    <3>4. /\ count'[k] > 0
          /\ Sum(q, 0..h) <= count'[k] /\ Sum(q, 0..h) <= limit
          /\ Sum(q, (h + 1)..(Window - 1)) < limit
      <4> DEFINE old == Sum(p, 0..h)
                 new == Sum(q, 0..h)
      <4>1. old \in Nat /\ new = old + 1 /\ old <= count[k]
        BY <3>2, <3>3
      <4> HIDE DEF old, new, limit
      <4>2. count'[k] > 0 /\ new <= count'[k] /\ new <= limit
        BY <1>2, <2>1, <2>2, <3>1, <4>1
      <4> QED
        BY <3>2, <3>3, <4>2 DEF new
    <3>5. Since(k)' = 0..h /\ Before(k)' = (h + 1)..(Window - 1)
      BY <3>1 DEF Since, Before
    <3>6. FitsOpen(k)'
      <4> HIDE DEF h, limit
      <4> QED
        BY <3>4, <3>5 DEF FitsOpen, limit
    <3> QED
      BY <1>6, <2>4, <3>1, <3>6 DEF Fits
  <2>5. CASE ~(n > 0)
    <3>1. count[k] = 0 /\ p[0] = 0 /\ Sum(p, Ages) < limit
      BY <1>1, <2>5 DEF Fits, FitsGone
    <3>2. ttl'[k] = Window /\ count'[k] = 1
      BY <2>1, <3>1 DEF TtlAfterIncr
    <3>3. /\ Sum(q, 0..0) = Sum(p, 0..0) + 1
          /\ Sum(q, 1..(Window - 1)) = Sum(p, 1..(Window - 1))
      <4>1. 0 \in Int /\ 0 <= 0 /\ 0 < Window /\ 0 + 1 = 1
        OBVIOUS
      <4> HIDE DEF p, q
      <4> QED
        BY <2>3, <4>1
    <3>4. Sum(p, 0..0) = 0
      <4> DEFINE one == {0}
      <4>1. IsFiniteSet(one) /\ one = 0..0
        <5>1. IsFiniteSet(one)
          BY FS_Singleton
        <5>2. \A a : a \in 0..0 <=> a = 0
          OBVIOUS
        <5> QED
          BY <5>1, <5>2
      <4>2. 0 \in one /\ one \ {0} = {}
        OBVIOUS
      <4>3. \A a \in one : p[a] \in Nat
        <5>1. \A a \in one : a \in Ages
          BY <1>3
        <5> QED
          BY <1>2, <5>1
      <4> HIDE DEF one, p
      <4>4. Sum(p, one) = p[0] + Sum(p, one \ {0}) /\ Sum(p, one \ {0}) = 0
        BY <4>1, <4>2, <4>3, SumOfOne, SumOfNone
      <4> QED
        BY <3>1, <4>1, <4>4
    <3>5. Sum(p, 1..(Window - 1)) < limit
      <4> DEFINE old == Sum(p, 1..(Window - 1))
                 all == Sum(p, Ages)
      <4>1. Ages \in SUBSET Ages /\ 1..(Window - 1) \in SUBSET Ages
        BY DEF Ages
      <4>2. old <= all /\ old \in Nat /\ all \in Nat
        <5> HIDE DEF p
        <5> QED
          BY <1>2, <4>1, PassedPart
      <4>3. all < limit
        BY <3>1
      <4> HIDE DEF old, all, limit
      <4>4. old < limit
        BY <1>2, <4>2, <4>3
      <4> QED
        BY <4>4 DEF old
    <3>6. Since(k)' = 0..0 /\ Before(k)' = 1..(Window - 1)
      BY <3>2 DEF Since, Before
    <3>7. FitsOpen(k)'
      <4>1. count'[k] > 0 /\ Sum(q, 0..0) <= count'[k] /\ Sum(q, 0..0) <= limit
        BY <1>2, <3>2, <3>3, <3>4
      <4> QED
        BY <3>3, <3>5, <3>6, <4>1 DEF FitsOpen
    <3>8. ttl'[k] > 0
      BY <3>2
    <3> QED
      BY <1>6, <3>7, <3>8 DEF Fits
  <2> QED
    BY <2>4, <2>5
<1> QED
  BY <1>4, <1>5, <1>6

-----------------------------------------------------------------------------
(* The auction *)

\* The outcome of an ended auction is its winning bid.
OutcomeSound ==
    /\ status \in {"live", "ending", "ended"}
    /\ bids \subseteq Bids
    /\ outcome \in Bids \cup {NoBid}
    /\ status = "ended" => IF bids = {} THEN outcome = NoBid ELSE Wins(outcome)

\* The row's price is the highest bid's, and its end was set by the highest late bid.
RowSound ==
    /\ unannounced \subseteq Price
    /\ StartingPrice <= currentPrice /\ StartingPrice <= extendedUntil
    /\ extendedUntil <= currentPrice
    /\ currentPrice = StartingPrice \/ \E b \in bids : b.amount = currentPrice
    /\ extendedUntil = StartingPrice \/ \E b \in bids \cap Late : b.amount = extendedUntil
    /\ \A b \in bids :
        /\ StartingPrice < b.amount /\ b.amount <= currentPrice
        /\ b \in Late => b.amount <= extendedUntil

AuctionSound == OutcomeSound /\ RowSound

\* The row moves with a bid, with a transition or not at all.
BidStep(b) ==
    /\ PlaceBid(b)
    /\ b.amount > currentPrice /\ currentPrice' = b.amount
    /\ extendedUntil' = IF b \in Late THEN b.amount ELSE extendedUntil
    /\ unannounced \subseteq unannounced' /\ unannounced' \subseteq unannounced \cup {b.amount}

AuctionStep ==
    \/ UNCHANGED auctionVars
    \/ /\ CloseAuction \/ EndAuction
       /\ UNCHANGED <<currentPrice, extendedUntil, unannounced>>
    \/ \E b \in Bids : BidStep(b)

LEMMA PriceIs ==
    /\ Price \subseteq Nat /\ StartingPrice \in Price
    /\ \A b \in Bids : b.amount \in Price /\ b.amount \in Nat
BY RoomAssumption DEF Price, Bids

LEMMA RowIs ==
    ASSUME AuctionSound
    PROVE  currentPrice \in Price /\ extendedUntil \in Price
BY PriceIs DEF AuctionSound, OutcomeSound, RowSound

LEMMA AuctionStepKeeps ==
    ASSUME AuctionSound, AuctionStep
    PROVE  AuctionSound' /\ bids \subseteq bids'
<1>1. CASE UNCHANGED auctionVars
  BY <1>1 DEF auctionVars, outcomeVars, AuctionSound, OutcomeSound, RowSound, Wins
<1>2. CASE /\ CloseAuction \/ EndAuction
           /\ UNCHANGED <<currentPrice, extendedUntil, unannounced>>
  <2>1. bids' = bids /\ RowSound'
    BY <1>2 DEF CloseAuction, EndAuction, AuctionSound, RowSound
  <2>2. OutcomeSound'
    BY <1>2 DEF CloseAuction, EndAuction, AuctionSound, OutcomeSound, Wins
  <2> QED
    BY <2>1, <2>2 DEF AuctionSound
<1>3. ASSUME NEW b \in Bids, BidStep(b)
      PROVE  AuctionSound' /\ bids \subseteq bids'
  <2>1. /\ bids' = bids \cup {b} /\ status' = status /\ outcome' = outcome
        /\ status = "live"
    BY <1>3 DEF BidStep, PlaceBid
  <2>2. OutcomeSound'
    BY <2>1 DEF AuctionSound, OutcomeSound
  <2>3. /\ currentPrice \in Nat /\ extendedUntil \in Nat /\ StartingPrice \in Nat
        /\ b.amount \in Nat /\ b.amount \in Price
        /\ \A c \in bids : c.amount \in Nat
    BY RowIs, PriceIs DEF AuctionSound, OutcomeSound
  <2>4. /\ b.amount > currentPrice /\ currentPrice' = b.amount
        /\ extendedUntil' = IF b \in Late THEN b.amount ELSE extendedUntil
        /\ unannounced' \subseteq Price
    BY <1>3, <2>3 DEF BidStep, AuctionSound, RowSound
  <2>5. RowSound'
    BY <2>1, <2>3, <2>4 DEF AuctionSound, RowSound
  <2> QED
    BY <2>1, <2>2, <2>5 DEF AuctionSound
<1> QED
  BY <1>1, <1>2, <1>3 DEF AuctionStep

-----------------------------------------------------------------------------
(* Messages *)

\* Once the auction has ended its price is final.
Final(m) == m.status = "ended" => m.price = currentPrice

Holds(m) == m \in Message /\ IsTrue(m) /\ Final(m)

LEMMA StageIs == Stage["live"] = 0 /\ Stage["ending"] = 1 /\ Stage["ended"] = 2
BY DEF Stage

LEMMA MessageIs ==
    ASSUME NEW m \in Message
    PROVE  /\ m.status \in {"live", "ending", "ended"} /\ Stage[m.status] \in Nat
           /\ m.price \in Nat /\ m.end \in Nat /\ m.price \in Price /\ m.end \in Price
           /\ m.winner \in Bids \cup {NoBid}
<1>1. /\ m.status \in {"live", "ending", "ended"} /\ m.price \in Price /\ m.end \in Price
      /\ m.winner \in Bids \cup {NoBid}
  BY DEF Message
<1>2. Stage[m.status] \in Nat
  BY <1>1, StageIs
<1> QED
  BY <1>1, <1>2, PriceIs

LEMMA MadeMessage ==
    ASSUME NEW s \in {"live", "ending", "ended"}, NEW p \in Price, NEW e \in Price,
           NEW w \in Bids \cup {NoBid}
    PROVE  [status |-> s, price |-> p, end |-> e, winner |-> w] \in Message
BY DEF Message

\* What is true is not beyond the row.
LEMMA TrueBelow ==
    ASSUME AuctionSound, NEW m \in Message, IsTrue(m)
    PROVE  /\ StartingPrice <= m.price /\ m.price <= currentPrice
           /\ StartingPrice <= m.end /\ m.end <= extendedUntil
BY MessageIs, RowIs, PriceIs DEF AuctionSound, OutcomeSound, RowSound, IsTrue

\* What is true stays true.
LEMMA TrueStays ==
    ASSUME AuctionSound, AuctionStep, NEW m \in Message, IsTrue(m)
    PROVE  IsTrue(m)' /\ (Final(m) => Final(m)')
<1>1. /\ bids \subseteq bids' /\ status \in {"live", "ending", "ended"}
      /\ Stage[m.status] \in Nat /\ m.status \in {"live", "ending", "ended"}
  BY AuctionStepKeeps, MessageIs DEF AuctionSound, OutcomeSound
<1>2. /\ status' \in {"live", "ending", "ended"} /\ Stage[status] <= Stage[status']
      /\ status = "ended" => outcome' = outcome /\ status' = status
      /\ status = "ended" => currentPrice' = currentPrice
  BY <1>1, StageIs
     DEF AuctionStep, auctionVars, outcomeVars, CloseAuction, EndAuction, BidStep, PlaceBid
<1>3. Stage[status] \in Nat /\ Stage[status'] \in Nat
  BY <1>1, <1>2, StageIs
<1>4. IsTrue(m)'
  BY <1>1, <1>2, <1>3 DEF IsTrue
<1>5. m.status = "ended" => status = "ended"
  BY <1>1, StageIs DEF IsTrue
<1> QED
  BY <1>2, <1>4, <1>5 DEF Final

\* Both messages together tell what each of them does, and nothing else.
LEMMA JoinTells ==
    ASSUME NEW p \in Message, NEW q \in Message
    PROVE  LET j == Join(p, q) IN
           /\ j \in Message
           /\ j.status = IF Stage[q.status] > Stage[p.status] THEN q.status ELSE p.status
           /\ j.price = IF q.price > p.price THEN q.price ELSE p.price
           /\ j.end = IF q.end > p.end THEN q.end ELSE p.end
           /\ j.winner = IF q.winner # NoBid THEN q.winner ELSE p.winner
<1>1. /\ Further(p.status, q.status) \in {"live", "ending", "ended"}
      /\ Higher(p.price, q.price) \in Price /\ Higher(p.end, q.end) \in Price
      /\ (IF q.winner # NoBid THEN q.winner ELSE p.winner) \in Bids \cup {NoBid}
  BY MessageIs DEF Further, Higher
<1>2. Join(p, q) \in Message
  BY <1>1, MadeMessage DEF Join
<1> QED
  BY <1>2 DEF Join, Further, Higher

LEMMA JoinIsTrue ==
    ASSUME NEW p \in Message, NEW q \in Message, IsTrue(p), IsTrue(q)
    PROVE  IsTrue(Join(p, q))
<1> DEFINE j == Join(p, q)
<1>1. /\ j.status \in {p.status, q.status} /\ j.price \in {p.price, q.price}
      /\ j.end \in {p.end, q.end} /\ j.winner \in {p.winner, q.winner}
  BY JoinTells
<1> HIDE DEF j
<1>2. IsTrue(j)
  BY <1>1 DEF IsTrue
<1> QED
  BY <1>2 DEF j

LEMMA JoinHolds ==
    ASSUME AuctionSound, NEW p, NEW q, Holds(p), Holds(q)
    PROVE  Holds(Join(p, q))
<1>1. p \in Message /\ q \in Message /\ IsTrue(p) /\ IsTrue(q)
  BY DEF Holds
<1> DEFINE j == Join(p, q)
<1>2. j \in Message /\ IsTrue(j)
  BY <1>1, JoinTells, JoinIsTrue
<1>3. /\ j.status \in {p.status, q.status}
      /\ j.price = IF q.price > p.price THEN q.price ELSE p.price
  BY <1>1, JoinTells
<1>4. /\ p.price <= currentPrice /\ q.price <= currentPrice
      /\ p.price \in Nat /\ q.price \in Nat /\ currentPrice \in Nat
  BY <1>1, TrueBelow, MessageIs, RowIs, PriceIs
<1> HIDE DEF j
<1>5. Final(j)
  BY <1>3, <1>4 DEF Final, Holds
<1> QED
  BY <1>2, <1>5 DEF Holds, j

\* What is beyond a message is told by the other one.
LEMMA BeyondTells ==
    ASSUME NEW m \in Message, NEW p \in Message
    PROVE  LET b == Beyond(m, p) IN
           /\ b \in Message
           /\ b.status = IF Stage[m.status] > Stage[p.status] THEN m.status ELSE "live"
           /\ b.price = IF m.price > p.price THEN m.price ELSE StartingPrice
           /\ b.end = IF m.end > p.end THEN m.end ELSE StartingPrice
           /\ b.winner = NoBid
<1>1. /\ (IF Stage[m.status] > Stage[p.status] THEN m.status ELSE "live")
            \in {"live", "ending", "ended"}
      /\ (IF m.price > p.price THEN m.price ELSE StartingPrice) \in Price
      /\ (IF m.end > p.end THEN m.end ELSE StartingPrice) \in Price
      /\ NoBid \in Bids \cup {NoBid}
  BY MessageIs, PriceIs
<1>2. Beyond(m, p) \in Message
  BY <1>1, MadeMessage DEF Beyond
<1> QED
  BY <1>2 DEF Beyond

LEMMA BeyondIsTrue ==
    ASSUME AuctionSound, NEW m \in Message, NEW p \in Message, IsTrue(m)
    PROVE  IsTrue(Beyond(m, p))
<1> DEFINE b == Beyond(m, p)
<1>1. /\ b.status \in {m.status, "live"} /\ b.price \in {m.price, StartingPrice}
      /\ b.end \in {m.end, StartingPrice} /\ b.winner = NoBid
  BY BeyondTells
<1>2. Stage["live"] <= Stage[status]
  BY StageIs DEF AuctionSound, OutcomeSound
<1> HIDE DEF b
<1>3. IsTrue(b)
  BY <1>1, <1>2 DEF IsTrue
<1> QED
  BY <1>3 DEF b

-----------------------------------------------------------------------------
(* Requests and what is on its way *)

SoundRequest(r) ==
    /\ request[r] \in Request
    /\ request[r].step = "userRate" => request[r].client \in Clients
    /\ request[r].step # "idle" => request[r].bid \in Bids
    /\ request[r].step # "broadcast" => ~request[r].extends
    /\ request[r].step = "broadcast" => request[r].bid \in bids
    /\ request[r].extends => request[r].bid \in Late

LEMMA SimpleMessages ==
    ASSUME NEW b \in Bids
    PROVE  /\ Accepted(b) \in Message /\ Extended(b) \in Message
           /\ Ending \in Message /\ Nothing \in Message
           /\ Accepted(b).price = b.amount /\ Extended(b).end = b.amount
           /\ \A m \in {Accepted(b), Nothing} : m.end = StartingPrice
           /\ \A m \in {Extended(b), Ending, Nothing} : m.price = StartingPrice
           /\ Ending.end = StartingPrice /\ Ending.status = "ending"
           /\ \A m \in {Accepted(b), Extended(b), Nothing} : m.status = "live"
           /\ \A m \in {Accepted(b), Extended(b), Ending, Nothing} : m.winner = NoBid
BY PriceIs DEF Accepted, Extended, Ending, Nothing, Message

\* BID_ACCEPTED and AUCTION_EXTENDED of a committed bid are true, now and later.
LEMMA BidMessagesHold ==
    ASSUME AuctionSound, NEW b \in bids
    PROVE  /\ Holds(Accepted(b))
           /\ b \in Late => Holds(Extended(b))
<1>1. b \in Bids /\ Stage["live"] <= Stage[status]
  BY StageIs DEF AuctionSound, OutcomeSound
<1> USE SimpleMessages
<1>2. IsTrue(Accepted(b)) /\ Final(Accepted(b))
  BY <1>1 DEF IsTrue, Final
<1>3. b \in Late => IsTrue(Extended(b)) /\ Final(Extended(b))
  BY <1>1 DEF IsTrue, Final
<1> QED
  BY <1>1, <1>2, <1>3 DEF Holds

LEMMA NothingHolds ==
    ASSUME AuctionSound
    PROVE  Nothing \in Message /\ Holds(Nothing)
<1>1. /\ Nothing \in Message /\ Nothing.status = "live" /\ Nothing.winner = NoBid
      /\ Nothing.price = StartingPrice /\ Nothing.end = StartingPrice
  BY PriceIs DEF Nothing, Message
<1>2. Stage["live"] <= Stage[status]
  BY StageIs DEF AuctionSound, OutcomeSound
<1> QED
  BY <1>1, <1>2 DEF Holds, IsTrue, Final

LEMMA NewsHolds ==
    ASSUME AuctionSound, NEW r \in Requests, SoundRequest(r), request[r].step = "broadcast"
    PROVE  Holds(News(r))
<1> DEFINE b == request[r].bid
           e == IF request[r].extends /\ request[r].client # NoClient
                THEN Extended(b) ELSE Nothing
<1>1. b \in bids /\ (request[r].extends => b \in Late)
  BY DEF SoundRequest
<1> HIDE DEF b
<1>2. Holds(Accepted(b)) /\ Holds(e)
  BY <1>1, BidMessagesHold, NothingHolds
<1> HIDE DEF e
<1>3. Holds(Join(Accepted(b), e))
  BY <1>2, JoinHolds
<1> QED
  BY <1>3 DEF News, b, e

\* What AUCTION_STATE tells is the row.
LEMMA StateHolds ==
    ASSUME AuctionSound
    PROVE  /\ State \in Message /\ Holds(State)
           /\ State.status = status /\ State.price = currentPrice
           /\ State.end = extendedUntil /\ State.winner = NoBid
<1>1. /\ State.status = status /\ State.price = currentPrice
      /\ State.end = extendedUntil /\ State.winner = NoBid
  BY DEF State, Nothing
<1>2. State \in Message
  BY RowIs, PriceIs DEF State, Nothing, Message, AuctionSound, OutcomeSound
<1>3. Stage[status] \in Nat
  BY StageIs DEF AuctionSound, OutcomeSound
<1>4. IsTrue(State)
  BY <1>1, <1>3 DEF IsTrue, AuctionSound, RowSound
<1> QED
  BY <1>1, <1>2, <1>4 DEF Holds, Final

\* What is on its way stays so, but for what one request or the worker has told.
LEMMA OnItsWayGrows ==
    ASSUME NEW r \in Requests, NEW M,
           \A q \in Requests \ {r} : request'[q] = request[q],
           worker \subseteq worker' \cup M,
           request[r].step = "broadcast" => News(r) \in M
    PROVE  OnItsWay \subseteq OnItsWay' \cup M
<1>1. ASSUME NEW q \in Requests \ {r}, request[q].step = "broadcast"
      PROVE  News(q) \in OnItsWay'
  <2>1. request'[q].step = "broadcast" /\ News(q)' = News(q)
    BY <1>1 DEF News
  <2> QED
    BY <2>1 DEF OnItsWay
<1>2. worker' \subseteq OnItsWay'
  BY DEF OnItsWay
<1> QED
  BY <1>1, <1>2 DEF OnItsWay

-----------------------------------------------------------------------------
(* What is told *)

\* The messages M tell all that the row tells, unless nobody announces its end.
Tells(M, row, silent) ==
    /\ \E m \in M : m.price = row.price
    /\ row.end \in silent \/ \E m \in M : m.end = row.end
    /\ \E m \in M : m.status = row.status

RoomTypes ==
    /\ place \in [Clients -> {"outside", "read", "room"}]
    /\ picture \in [Clients -> Message]
    /\ missed \in [Clients -> Message]
    /\ \A c \in Clients :
        place[c] = "outside" => picture[c] = Nothing /\ missed[c] = Nothing

Truthful == \A c \in Clients : Holds(picture[c]) /\ IsTrue(missed[c])

\* From its read of the row on, in the room or not.
KeepsUp ==
    \A c \in Clients : place[c] # "outside" =>
        Tells({picture[c], missed[c]} \cup OnItsWay, State, unannounced)

RoomInv == RoomTypes /\ Truthful /\ KeepsUp

\* Nothing is told, or one message, to some clients of the room or to none.
Telling(M) ==
    \/ M = {} /\ UNCHANGED roomVars
    \/ \E m : M = {m} /\ \E reached \in SUBSET InRoom : Tell(reached, m)

\* y tells at least what x does.
CoversPrice(Y, x)  == \E y \in Y : y \in Message /\ x.price <= y.price
CoversEnd(Y, x)    == \E y \in Y : y \in Message /\ x.end <= y.end
CoversStatus(Y, x) == \E y \in Y : y \in Message /\ Stage[x.status] <= Stage[y.status]
Covers(Y, x) == CoversPrice(Y, x) /\ CoversEnd(Y, x) /\ CoversStatus(Y, x)

LEMMA JoinCovers ==
    ASSUME NEW p \in Message, NEW q \in Message
    PROVE  Covers({Join(p, q)}, p) /\ Covers({Join(p, q)}, q)
<1> DEFINE j == Join(p, q)
<1>1. /\ j \in Message
      /\ p.price <= j.price /\ q.price <= j.price /\ p.end <= j.end /\ q.end <= j.end
      /\ Stage[p.status] <= Stage[j.status] /\ Stage[q.status] <= Stage[j.status]
  <2>1. /\ p.price \in Nat /\ q.price \in Nat /\ p.end \in Nat /\ q.end \in Nat
        /\ Stage[p.status] \in Nat /\ Stage[q.status] \in Nat
    BY MessageIs
  <2>2. /\ j \in Message
        /\ j.status = IF Stage[q.status] > Stage[p.status] THEN q.status ELSE p.status
        /\ j.price = IF q.price > p.price THEN q.price ELSE p.price
        /\ j.end = IF q.end > p.end THEN q.end ELSE p.end
    BY JoinTells
  <2> HIDE DEF j
  <2> QED
    BY <2>1, <2>2
<1> HIDE DEF j
<1>2. Covers({j}, p) /\ Covers({j}, q)
  BY <1>1 DEF Covers, CoversPrice, CoversEnd, CoversStatus
<1> QED
  BY <1>2 DEF j

LEMMA BeyondCovers ==
    ASSUME NEW m \in Message, NEW p \in Message
    PROVE  Covers({p, Beyond(m, p)}, m)
<1> DEFINE b == Beyond(m, p)
<1>1. /\ b \in Message
      /\ m.price <= p.price \/ m.price <= b.price
      /\ m.end <= p.end \/ m.end <= b.end
      /\ Stage[m.status] <= Stage[p.status] \/ Stage[m.status] <= Stage[b.status]
  <2>1. /\ m.price \in Nat /\ p.price \in Nat /\ m.end \in Nat /\ p.end \in Nat
        /\ Stage[m.status] \in Nat /\ Stage[p.status] \in Nat
    BY MessageIs
  <2>2. /\ b \in Message
        /\ b.status = IF Stage[m.status] > Stage[p.status] THEN m.status ELSE "live"
        /\ b.price = IF m.price > p.price THEN m.price ELSE StartingPrice
        /\ b.end = IF m.end > p.end THEN m.end ELSE StartingPrice
    BY BeyondTells
  <2> HIDE DEF b
  <2> QED
    BY <2>1, <2>2
<1> HIDE DEF b
<1>2. Covers({p, b}, m)
  BY <1>1 DEF Covers, CoversPrice, CoversEnd, CoversStatus
<1> QED
  BY <1>2 DEF b

LEMMA CoversBy ==
    ASSUME NEW x \in Message, NEW y \in Message, NEW Y, Covers({y}, x), Covers(Y, y)
    PROVE  Covers(Y, x)
<1>1. x.price <= y.price /\ x.end <= y.end /\ Stage[x.status] <= Stage[y.status]
  BY DEF Covers, CoversPrice, CoversEnd, CoversStatus
<1>2. PICK z \in Y : z \in Message /\ y.price <= z.price
  BY DEF Covers, CoversPrice
<1>3. PICK u \in Y : u \in Message /\ y.end <= u.end
  BY DEF Covers, CoversEnd
<1>4. PICK v \in Y : v \in Message /\ Stage[y.status] <= Stage[v.status]
  BY DEF Covers, CoversStatus
<1>5. CoversPrice(Y, x)
  BY <1>1, <1>2, MessageIs DEF CoversPrice
<1>6. CoversEnd(Y, x)
  BY <1>1, <1>3, MessageIs DEF CoversEnd
<1>7. CoversStatus(Y, x)
  BY <1>1, <1>4, MessageIs DEF CoversStatus
<1> QED
  BY <1>5, <1>6, <1>7 DEF Covers

LEMMA CoversItself ==
    ASSUME NEW x \in Message, NEW Y, x \in Y
    PROVE  Covers(Y, x)
BY MessageIs DEF Covers, CoversPrice, CoversEnd, CoversStatus

\* A client that has read the row still knows or has missed what it knew or had
\* missed, and now also the message, whether it is reached or not.
LEMMA ToldIsCovered ==
    ASSUME RoomTypes, NEW m \in Message, NEW reached \in SUBSET InRoom, Tell(reached, m),
           NEW c \in Clients, place[c] # "outside"
    PROVE  /\ picture'[c] \in Message /\ missed'[c] \in Message
           /\ \A x \in {picture[c], missed[c], m} : Covers({picture'[c], missed'[c]}, x)
<1> DEFINE p == picture[c]
           q == missed[c]
           Y == {picture'[c], missed'[c]}
<1>1. p \in Message /\ q \in Message
  BY DEF RoomTypes
<1>2. CASE c \in reached
  <2>1. picture'[c] = Join(p, m) /\ missed'[c] = Beyond(q, picture'[c])
    BY <1>2 DEF Tell
  <2>2. picture'[c] \in Message /\ missed'[c] \in Message
    BY <1>1, <2>1, JoinTells, BeyondTells
  <2>3. Covers({picture'[c]}, p) /\ Covers({picture'[c]}, m) /\ Covers(Y, picture'[c])
    BY <1>1, <2>1, <2>2, JoinCovers, CoversItself
  <2>4. Covers(Y, q)
    BY <1>1, <2>1, <2>2, BeyondCovers
  <2> HIDE DEF Y, p, q
  <2>5. Covers(Y, p) /\ Covers(Y, m)
    BY <1>1, <2>2, <2>3, CoversBy
  <2> QED
    BY <2>2, <2>4, <2>5 DEF Y, p, q
<1>3. CASE c \notin reached
  <2> DEFINE j == Join(q, m)
  <2>1. picture'[c] = p /\ missed'[c] = Beyond(j, p)
    BY <1>3 DEF Tell
  <2>2. j \in Message
    BY <1>1, JoinTells
  <2>3. Covers({j}, q) /\ Covers({j}, m)
    BY <1>1, JoinCovers
  <2> HIDE DEF j, p, q
  <2>4. picture'[c] \in Message /\ missed'[c] \in Message
    BY <1>1, <2>1, <2>2, BeyondTells
  <2>5. Covers(Y, j) /\ Covers(Y, p)
    BY <1>1, <2>1, <2>2, BeyondCovers, CoversItself
  <2> HIDE DEF Y
  <2>6. Covers(Y, q) /\ Covers(Y, m)
    BY <1>1, <2>2, <2>3, <2>5, CoversBy
  <2> QED
    BY <2>4, <2>5, <2>6 DEF Y, p, q
<1> QED
  BY <1>2, <1>3

\* Whatever covers the row without being beyond it tells what the row tells.
Within(m, row) ==
    m.price <= row.price /\ m.end <= row.end /\ Stage[m.status] <= Stage[row.status]

LEMMA CoveredRowIsTold ==
    ASSUME NEW row \in Message, NEW silent, NEW Y,
           \A y \in Y : y \in Message /\ Within(y, row),
           \E x \in Message : x.price = row.price /\ CoversPrice(Y, x),
           row.end \in silent \/ \E x \in Message : x.end = row.end /\ CoversEnd(Y, x),
           \E x \in Message : x.status = row.status /\ CoversStatus(Y, x)
    PROVE  Tells(Y, row, silent)
<1>1. \A y \in Y :
        /\ y.price \in Nat /\ y.price <= row.price
        /\ y.end \in Nat /\ y.end <= row.end
        /\ y.status \in {"live", "ending", "ended"} /\ Stage[y.status] <= Stage[row.status]
  BY MessageIs DEF Within
<1>2. /\ row.price \in Nat /\ row.end \in Nat
      /\ row.status \in {"live", "ending", "ended"}
  BY MessageIs
<1>3. \E y \in Y : y.price = row.price
  BY <1>1, <1>2 DEF CoversPrice
<1>4. row.end \in silent \/ \E y \in Y : y.end = row.end
  BY <1>1, <1>2 DEF CoversEnd
<1>5. \E y \in Y : y.status = row.status
  BY <1>1, <1>2, StageIs DEF CoversStatus
<1> QED
  BY <1>3, <1>4, <1>5 DEF Tells

LEMMA TrueIsWithin ==
    AuctionSound => State \in Message /\ \A m \in Message : IsTrue(m) => Within(m, State)
BY TrueBelow, StateHolds DEF Within, IsTrue

\* The same in the next state.
LEMMA TrueIsWithinNext ==
    (AuctionSound => State \in Message /\ \A m \in Message : IsTrue(m) => Within(m, State))'
BY TrueIsWithin, PTL

LEMMA HoldsTogether ==
    AuctionSound =>
        /\ \A p, q : Holds(p) /\ Holds(q) => Holds(Join(p, q))
        /\ \A p, q \in Message : IsTrue(p) /\ IsTrue(q) => IsTrue(Join(p, q))
        /\ \A p, q \in Message : IsTrue(p) => IsTrue(Beyond(p, q))
BY JoinHolds, JoinIsTrue, BeyondIsTrue

LEMMA HoldsTogetherNext ==
    (AuctionSound =>
        /\ \A p, q : Holds(p) /\ Holds(q) => Holds(Join(p, q))
        /\ \A p, q \in Message : IsTrue(p) /\ IsTrue(q) => IsTrue(Join(p, q))
        /\ \A p, q \in Message : IsTrue(p) => IsTrue(Beyond(p, q)))'
BY HoldsTogether, PTL

\* What a client can tell and has missed after a message that holds is true.
LEMMA ToldIsTrue ==
    ASSUME AuctionSound, AuctionStep, NEW m, Holds(m)', NEW reached \in SUBSET InRoom,
           Tell(reached, m), NEW c \in Clients,
           picture[c] \in Message, missed[c] \in Message,
           Holds(picture[c]), IsTrue(missed[c])
    PROVE  (Holds(picture[c]) /\ IsTrue(missed[c]))'
<1>1. PICK p, q : p = picture[c] /\ q = missed[c]
  OBVIOUS
<1>2. p \in Message /\ q \in Message /\ Holds(p) /\ IsTrue(q)
  BY <1>1
<1>3. Holds(p)' /\ IsTrue(q)'
  <2>1. IsTrue(p) /\ Final(p)
    BY <1>2 DEF Holds
  <2>2. IsTrue(p)' /\ Final(p)' /\ IsTrue(q)'
    BY <1>2, <2>1, TrueStays
  <2> QED
    BY <1>2, <2>2 DEF Holds
<1>4. AuctionSound' /\ m \in Message /\ IsTrue(m)'
  BY AuctionStepKeeps DEF Holds
<1>5. Holds(Join(p, m))' /\ IsTrue(Join(q, m))' /\ Join(q, m) \in Message
  BY <1>2, <1>3, <1>4, HoldsTogetherNext, JoinTells
<1>6. PICK p2, x : /\ p2 = IF c \in reached THEN Join(p, m) ELSE p
                   /\ x = IF c \in reached THEN q ELSE Join(q, m)
  OBVIOUS
<1>7. Holds(p2)' /\ IsTrue(x)' /\ x \in Message /\ p2 \in Message
  BY <1>2, <1>3, <1>5, <1>6 DEF Holds
<1>8. IsTrue(Beyond(x, p2))'
  BY <1>4, <1>7, HoldsTogetherNext
<1>9. picture'[c] = p2 /\ (missed'[c] = q \/ missed'[c] = Beyond(x, p2))
  BY <1>1, <1>6 DEF Tell
<1>10. Holds(picture[c])'
  BY <1>7, <1>9 DEF Holds, IsTrue, Final
<1>11. IsTrue(missed[c])'
  <2>1. CASE missed'[c] = q
    BY <1>3, <2>1 DEF IsTrue
  <2>2. CASE missed'[c] = Beyond(x, p2)
    <3>1. PICK b : b = Beyond(x, p2)
      OBVIOUS
    <3>2. IsTrue(b)'
      BY <1>8, <3>1 DEF IsTrue
    <3> QED
      BY <2>2, <3>1, <3>2 DEF IsTrue
  <2> QED
    BY <1>9, <2>1, <2>2
<1> QED
  BY <1>10, <1>11

\* A step that tells the messages M keeps every client up with the row, when M and
\* what is on its way afterwards cover what was on its way and what is new.
Reported(M) ==
    /\ OnItsWay \subseteq M \cup OnItsWay'
    /\ currentPrice' = currentPrice \/ \E x \in M \cup OnItsWay' : x.price = currentPrice'
    /\ \/ extendedUntil' = extendedUntil
       \/ extendedUntil' \in unannounced'
       \/ \E x \in M \cup OnItsWay' : x.end = extendedUntil'
    /\ status' = status \/ \E x \in M \cup OnItsWay' : x.status = status'

LEMMA TellingKeeps ==
    ASSUME RoomInv, AuctionSound, AuctionStep, NEW M, Telling(M), Reported(M),
           \A m \in M : Holds(m)',
           \A x \in OnItsWay' : x \in Message /\ IsTrue(x)'
    PROVE  RoomInv'
<1> USE DEF RoomInv
<1>1. AuctionSound'
  BY AuctionStepKeeps
<1>2. \A m \in M : m \in Message
  BY DEF Holds
<1>3. /\ place' = place
      /\ \A c \in Clients :
          /\ place[c] = "outside" => picture'[c] = picture[c] /\ missed'[c] = missed[c]
          /\ (Holds(picture[c]) /\ IsTrue(missed[c]))'
          /\ picture'[c] \in Message /\ missed'[c] \in Message
          /\ place[c] # "outside" => \A x \in {picture[c], missed[c]} \cup M :
                Covers({picture'[c], missed'[c]}, x)
  <2>1. CASE M = {} /\ UNCHANGED roomVars
    <3>1. UNCHANGED <<place, picture, missed>>
      BY <2>1 DEF roomVars
    <3>2. ASSUME NEW c \in Clients
          PROVE  (Holds(picture[c]) /\ IsTrue(missed[c]))'
      <4>1. PICK p, q : p = picture[c] /\ q = missed[c]
        OBVIOUS
      <4>2. /\ p \in Message /\ q \in Message
            /\ IsTrue(p) /\ Final(p) /\ IsTrue(q)
        BY <4>1 DEF RoomTypes, Truthful, Holds
      <4>3. IsTrue(p)' /\ Final(p)' /\ IsTrue(q)'
        BY <4>2, TrueStays
      <4>4. picture'[c] = p /\ missed'[c] = q
        BY <3>1, <4>1
      <4> QED
        BY <4>2, <4>3, <4>4 DEF Holds, IsTrue, Final
    <3>3. \A c \in Clients : picture[c] \in Message /\ missed[c] \in Message
      BY DEF RoomTypes
    <3>4. \A c \in Clients : \A x \in {picture[c], missed[c]} \cup M :
            Covers({picture'[c], missed'[c]}, x)
      BY <2>1, <3>1, <3>3, CoversItself
    <3> QED
      BY <3>1, <3>2, <3>3, <3>4
  <2>2. ASSUME NEW m, M = {m}, NEW reached \in SUBSET InRoom, Tell(reached, m)
        PROVE  /\ place' = place
               /\ \A c \in Clients :
                   /\ place[c] = "outside" =>
                        picture'[c] = picture[c] /\ missed'[c] = missed[c]
                   /\ (Holds(picture[c]) /\ IsTrue(missed[c]))'
                   /\ picture'[c] \in Message /\ missed'[c] \in Message
                   /\ place[c] # "outside" => \A x \in {picture[c], missed[c]} \cup M :
                         Covers({picture'[c], missed'[c]}, x)
    <3>1. place' = place
      BY <2>2 DEF Tell
    <3>2. ASSUME NEW c \in Clients, place[c] = "outside"
          PROVE  picture'[c] = picture[c] /\ missed'[c] = missed[c]
      BY <2>2, <3>2 DEF Tell, InRoom
    <3>3. ASSUME NEW c \in Clients
          PROVE  (Holds(picture[c]) /\ IsTrue(missed[c]))'
      BY <2>2, ToldIsTrue DEF RoomTypes, Truthful
    <3>4. ASSUME NEW c \in Clients, place[c] # "outside"
          PROVE  /\ picture'[c] \in Message /\ missed'[c] \in Message
                 /\ \A x \in {picture[c], missed[c]} \cup M :
                      Covers({picture'[c], missed'[c]}, x)
      BY <1>2, <2>2, <3>4, ToldIsCovered
    <3>5. \A c \in Clients : picture[c] \in Message /\ missed[c] \in Message
      BY DEF RoomTypes
    <3> QED
      BY <3>1, <3>2, <3>3, <3>4, <3>5
  <2> QED
    BY <2>1, <2>2 DEF Telling
<1>4. RoomTypes'
  <2>1. picture' \in [Clients -> Message] /\ missed' \in [Clients -> Message]
    <3>1. /\ DOMAIN picture' = Clients /\ picture' = [c \in Clients |-> picture'[c]]
          /\ DOMAIN missed' = Clients /\ missed' = [c \in Clients |-> missed'[c]]
      BY DEF Telling, Tell, RoomTypes, roomVars
    <3> QED
      BY <1>3, <3>1
  <2> QED
    BY <1>3, <2>1 DEF RoomTypes
<1>5. Truthful'
  BY <1>3 DEF Truthful
<1>6. ASSUME NEW c \in Clients, place[c] # "outside"
      PROVE  Tells({picture'[c], missed'[c]} \cup OnItsWay', State', unannounced')
  <2> DEFINE Y == {picture'[c], missed'[c]} \cup OnItsWay'
             N == M \cup OnItsWay'
  <2>1. State' \in Message /\ \A y \in Y : y \in Message /\ Within(y, State')
    <3>1. picture'[c] \in Message /\ missed'[c] \in Message
      BY <1>3
    <3>2. IsTrue(picture[c])' /\ IsTrue(missed[c])'
      BY <1>3 DEF Holds
    <3>3. State' \in Message /\ \A m \in Message : IsTrue(m)' => Within(m, State')
      BY <1>1, TrueIsWithinNext DEF Within
    <3>4. Within(picture'[c], State') /\ Within(missed'[c], State')
      BY <3>1, <3>2, <3>3 DEF IsTrue
    <3> QED
      BY <3>1, <3>3, <3>4
  <2>2. /\ State'.price = currentPrice' /\ State'.end = extendedUntil'
        /\ State'.status = status'
        /\ State.price = currentPrice /\ State.end = extendedUntil
        /\ State.status = status
    BY DEF State, Nothing
  <2>3. \A x \in {picture[c], missed[c]} \cup N : x \in Message /\ Covers(Y, x)
    <3>1. \A x \in {picture[c], missed[c]} \cup M :
            x \in Message /\ Covers({picture'[c], missed'[c]}, x)
      BY <1>2, <1>3, <1>6 DEF RoomTypes
    <3>2. \A x \in {picture[c], missed[c]} \cup M : Covers(Y, x)
      BY <3>1 DEF Covers, CoversPrice, CoversEnd, CoversStatus
    <3>3. \A x \in OnItsWay' : x \in Message /\ Covers(Y, x)
      BY CoversItself
    <3> QED
      BY <3>1, <3>2, <3>3
  <2>4. Tells({picture[c], missed[c]} \cup OnItsWay, State, unannounced)
    BY <1>6 DEF KeepsUp
  <2>5. OnItsWay \subseteq N /\ unannounced \subseteq unannounced'
    BY DEF Reported, AuctionStep, BidStep, auctionVars
  <2> HIDE DEF Y
  <2>6. \E x \in {picture[c], missed[c]} \cup N : x.price = currentPrice'
    BY <2>2, <2>4, <2>5 DEF Tells, Reported
  <2>7. \/ extendedUntil' \in unannounced'
        \/ \E x \in {picture[c], missed[c]} \cup N : x.end = extendedUntil'
    BY <2>2, <2>4, <2>5 DEF Tells, Reported
  <2>8. \E x \in {picture[c], missed[c]} \cup N : x.status = status'
    BY <2>2, <2>4, <2>5 DEF Tells, Reported
  <2> HIDE DEF N
  <2>9. /\ \E x \in Message : x.price = State'.price /\ CoversPrice(Y, x)
        /\ \/ State'.end \in unannounced'
           \/ \E x \in Message : x.end = State'.end /\ CoversEnd(Y, x)
        /\ \E x \in Message : x.status = State'.status /\ CoversStatus(Y, x)
    BY <2>2, <2>3, <2>6, <2>7, <2>8 DEF Covers
  <2>10. Tells(Y, State', unannounced')
    BY <2>1, <2>9, CoveredRowIsTold
  <2> QED
    BY <2>10 DEF Y
<1>7. KeepsUp'
  BY <1>3, <1>6 DEF KeepsUp
<1> QED
  BY <1>4, <1>5, <1>7

-----------------------------------------------------------------------------
(* Steps *)

Sound ==
    /\ \A r \in Requests : SoundRequest(r)
    /\ request \in [Requests -> Request]
    /\ \A x \in worker : Holds(x)

SInv == AuctionSound /\ LInv /\ Sound /\ RoomInv
            /\ redis \in BOOLEAN /\ faults \in 0..MaxFaults

LEMMA OnItsWayHolds ==
    AuctionSound /\ Sound => \A x \in OnItsWay : x \in Message /\ IsTrue(x)
<1> SUFFICES ASSUME AuctionSound, Sound PROVE \A x \in OnItsWay : Holds(x)
  BY DEF Holds
<1> QED
  BY NewsHolds DEF OnItsWay, Sound

LEMMA OnItsWayHoldsNext ==
    (AuctionSound /\ Sound => \A x \in OnItsWay : x \in Message /\ IsTrue(x))'
BY OnItsWayHolds, PTL

LEMMA BidMessagesHoldNext ==
    (AuctionSound => /\ Holds(Nothing)
                     /\ \A b \in bids : /\ Holds(Accepted(b))
                                        /\ b \in Late => Holds(Extended(b)))'
<1>1. AuctionSound => /\ Holds(Nothing)
                      /\ \A b \in bids : /\ Holds(Accepted(b))
                                         /\ b \in Late => Holds(Extended(b))
  BY BidMessagesHold, NothingHolds
<1> QED
  BY <1>1, PTL

LEMMA ClientKeeps ==
    ASSUME SInv, NEW c \in Clients, ClientMoves(c)
    PROVE  SInv'
<1>1. UNCHANGED <<status, bids, outcome, currentPrice, extendedUntil, unannounced,
                  count, ttl, passed, redis, request, worker, faults>>
  BY DEF ClientMoves, ReadSnapshot, EnterRoom, Leave, auctionVars, outcomeVars,
         limiterVars, servers
<1>2. /\ AuctionSound' /\ LInv' /\ Sound'
      /\ OnItsWay' = OnItsWay /\ State' = State /\ unannounced' = unannounced
  <2>1. AuctionSound'
    BY <1>1 DEF SInv, AuctionSound, OutcomeSound, RowSound, Wins
  <2>2. LInv'
    BY <1>1 DEF SInv, LInv, TypeOKLimiter, Started
  <2>3. Sound'
    BY <1>1 DEF SInv, Sound, SoundRequest, Holds, IsTrue, Final
  <2>4. OnItsWay' = OnItsWay /\ State' = State
    BY <1>1 DEF OnItsWay, News, State
  <2> QED
    BY <1>1, <2>1, <2>2, <2>3, <2>4
<1>3. \A m \in Message : (Holds(m) => Holds(m)') /\ (IsTrue(m) => IsTrue(m)')
  BY <1>1 DEF Holds, IsTrue, Final
<1>4. PICK s, n : s = State /\ n = Nothing
  OBVIOUS
<1>5. s \in Message /\ Holds(s) /\ n \in Message /\ Holds(n) /\ IsTrue(n)
  BY <1>4, StateHolds, NothingHolds DEF SInv, Holds
<1>6. PICK p, q : /\ p = IF ReadSnapshot(c) THEN s
                           ELSE IF Leave(c) THEN n ELSE picture[c]
                  /\ q = IF Leave(c) THEN n ELSE missed[c]
  OBVIOUS
<1>7. p \in Message /\ q \in Message /\ Holds(p) /\ IsTrue(q)
  BY <1>5, <1>6 DEF SInv, RoomInv, RoomTypes, Truthful
<1>8. /\ picture' = [picture EXCEPT ![c] = p] /\ missed' = [missed EXCEPT ![c] = q]
      /\ \E x \in {"outside", "read", "room"} : place' = [place EXCEPT ![c] = x]
      /\ place'[c] = "outside" => p = n /\ q = n
      /\ place'[c] # "outside" => p = s \/ (p = picture[c] /\ place[c] # "outside")
      /\ p = picture[c] => q = missed[c] \/ place'[c] = "outside"
  <2>1. /\ picture \in [Clients -> Message] /\ missed \in [Clients -> Message]
        /\ place \in [Clients -> {"outside", "read", "room"}]
    BY DEF SInv, RoomInv, RoomTypes
  <2>2. CASE ReadSnapshot(c)
    <3>1. place[c] = "outside" /\ ~Leave(c)
      BY <2>2 DEF ReadSnapshot, Leave
    <3>2. p = s /\ q = missed[c]
      BY <1>6, <2>2, <3>1
    <3>3. /\ place' = [place EXCEPT ![c] = "read"] /\ place'[c] = "read"
          /\ picture' = [picture EXCEPT ![c] = s] /\ missed' = missed
      BY <1>4, <2>1, <2>2 DEF ReadSnapshot
    <3>4. missed' = [missed EXCEPT ![c] = q]
      BY <2>1, <3>2, <3>3
    <3> QED
      BY <3>2, <3>3, <3>4
  <2>3. CASE EnterRoom(c)
    <3>1. place[c] = "read" /\ place'[c] = "room"
      BY <2>1, <2>3 DEF EnterRoom
    <3>2. ~ReadSnapshot(c) /\ ~Leave(c)
      BY <2>1, <3>1 DEF ReadSnapshot, Leave
    <3> QED
      BY <1>6, <2>1, <2>3, <3>1, <3>2 DEF EnterRoom
  <2>4. CASE Leave(c)
    <3>1. place[c] # "outside" /\ ~ReadSnapshot(c) /\ place'[c] = "outside"
      BY <2>1, <2>4 DEF Leave, ReadSnapshot
    <3> QED
      BY <1>4, <1>6, <2>1, <2>4, <3>1 DEF Leave
  <2> QED
    BY <2>2, <2>3, <2>4 DEF ClientMoves
<1>9. RoomInv'
  <2>1. RoomTypes'
    BY <1>4, <1>7, <1>8 DEF SInv, RoomInv, RoomTypes
  <2>2. Truthful'
    <3>1. ASSUME NEW d \in Clients
          PROVE  (Holds(picture[d]) /\ IsTrue(missed[d]))'
      <4>1. PICK t, u : t = picture'[d] /\ u = missed'[d]
        OBVIOUS
      <4>2. t \in Message /\ u \in Message /\ Holds(t) /\ IsTrue(u)
        BY <1>7, <1>8, <4>1 DEF SInv, RoomInv, RoomTypes, Truthful
      <4>3. Holds(t)' /\ IsTrue(u)'
        BY <1>3, <4>2
      <4> QED
        BY <4>1, <4>3 DEF Holds, IsTrue, Final
    <3> QED
      BY <3>1 DEF Truthful
  <2>3. KeepsUp'
    <3> SUFFICES ASSUME NEW d \in Clients, place'[d] # "outside"
                 PROVE  Tells({picture'[d], missed'[d]} \cup OnItsWay, State, unannounced)
      BY <1>2 DEF KeepsUp
    <3>1. CASE d # c
      <4>1. place'[d] = place[d] /\ picture'[d] = picture[d] /\ missed'[d] = missed[d]
        BY <1>8, <3>1 DEF SInv, RoomInv, RoomTypes
      <4> QED
        BY <4>1 DEF SInv, RoomInv, KeepsUp
    <3>2. CASE d = c
      <4>1. picture'[c] = p /\ missed'[c] = q
        BY <1>8 DEF SInv, RoomInv, RoomTypes
      <4>2. CASE p = s
        BY <1>4, <3>2, <4>1, <4>2 DEF Tells
      <4>3. CASE p = picture[c] /\ place[c] # "outside"
        BY <1>8, <3>2, <4>1, <4>3 DEF SInv, RoomInv, KeepsUp
      <4> QED
        BY <1>8, <3>2, <4>2, <4>3
    <3> QED
      BY <3>1, <3>2
  <2> QED
    BY <2>1, <2>2, <2>3 DEF RoomInv
<1> QED
  BY <1>1, <1>2, <1>9 DEF SInv

\* A request's step, by what it makes of the request and what it tells.
LEMMA RequestKeeps ==
    ASSUME SInv, NEW r \in Requests, NEW rec \in Request, NEW M,
           request' = [request EXCEPT ![r] = rec], AuctionStep,
           SoundRequest(r)', LInv', Telling(M), Reported(M), \A m \in M : Holds(m)',
           worker' = worker, redis' = redis, faults' \in 0..MaxFaults
    PROVE  SInv'
<1>1. AuctionSound' /\ bids \subseteq bids'
  BY AuctionStepKeeps DEF SInv
<1>2. /\ \A q \in Requests \ {r} : request'[q] = request[q]
      /\ request' \in [Requests -> Request]
  BY DEF SInv, Sound
<1>3. Sound'
  <2>1. \A q \in Requests : SoundRequest(q)'
    BY <1>1, <1>2 DEF SInv, Sound, SoundRequest
  <2>2. \A x \in worker : Holds(x)'
    BY TrueStays DEF SInv, Sound, Holds
  <2> QED
    BY <1>2, <2>1, <2>2 DEF Sound
<1>4. RoomInv'
  BY <1>1, <1>3, OnItsWayHoldsNext, TellingKeeps DEF SInv
<1> QED
  BY <1>1, <1>3, <1>4 DEF SInv

\* A step of a request that does not place its bid, and tells nobody anything.
LEMMA QuietKeeps ==
    ASSUME SInv, NEW r \in Requests, NEW rec \in Request,
           request' = [request EXCEPT ![r] = rec],
           UNCHANGED <<auctionVars, roomVars, worker, redis, faults>>, LInv',
           request[r].step # "broadcast", SoundRequest(r)'
    PROVE  SInv'
<1>1. AuctionStep /\ Telling({})
  BY DEF AuctionStep, Telling
<1>2. \A q \in Requests \ {r} : request'[q] = request[q]
  BY DEF SInv, Sound
<1>3. Reported({})
  <2>1. OnItsWay \subseteq OnItsWay' \cup {}
    BY <1>2, OnItsWayGrows
  <2> QED
    BY <2>1 DEF Reported, auctionVars, outcomeVars
<1>4. faults' \in 0..MaxFaults
  BY DEF SInv
<1> QED
  BY <1>1, <1>3, <1>4, RequestKeeps

LEMMA LimitsStay ==
    ASSUME SInv, UNCHANGED limiterVars
    PROVE  LInv'
BY DEF SInv, LInv, TypeOKLimiter, Started, limiterVars

LEMMA IdleSound ==
    ASSUME SInv, NEW r \in Requests, Answer(r)
    PROVE  /\ Idle \in Request /\ request' = [request EXCEPT ![r] = Idle]
           /\ SoundRequest(r)'
<1>1. Idle \in Request
  BY DEF Idle, Request, RequestStep
<1>2. request'[r] = Idle
  BY DEF Answer, SInv, Sound
<1> QED
  BY <1>1, <1>2 DEF Answer, SoundRequest, Idle

LEMMA ArrivalKeeps ==
    ASSUME SInv, NEW r \in Requests, NEW b \in Offers,
           PostBid(r, b) \/ \E c \in Clients : SendBid(r, c, b)
    PROVE  SInv'
<1>1. PICK step \in {"userRate", "place"}, c \in Clients \cup {NoClient} :
        /\ request' = [request EXCEPT ![r] = [step |-> step, client |-> c,
                                              bid |-> b, extends |-> FALSE]]
        /\ step = "userRate" => c \in Clients
  BY DEF PostBid, SendBid
<1> DEFINE rec == [step |-> step, client |-> c, bid |-> b, extends |-> FALSE]
<1>2. rec \in Request
  BY DEF Request, RequestStep
<1>3. request'[r] = rec
  BY <1>1 DEF SInv, Sound
<1>4. SoundRequest(r)'
  BY <1>1, <1>2, <1>3 DEF SoundRequest
<1>5. request[r].step # "broadcast"
  BY DEF PostBid, SendBid, Idle
<1>6. UNCHANGED <<auctionVars, limiterVars, roomVars, worker, redis, faults>>
  BY DEF PostBid, SendBid
<1> QED
  BY <1>1, <1>2, <1>4, <1>5, <1>6, LimitsStay, QuietKeeps

LEMMA LimitKeeps ==
    ASSUME SInv, NEW r \in Requests, CheckUserLimit(r) \/ CheckAuctionLimit(r)
    PROVE  SInv'
<1>1. PICK step \in {"userRate", "auctionRate"}, key \in RateKeys,
           next \in {"auctionRate", "place"} : CheckLimit(r, step, key, next)
  BY DEF CheckUserLimit, CheckAuctionLimit, CheckLimit, SInv, Sound, SoundRequest
<1>2. LInv'
  BY <1>1, CheckKeepsLimits, LimitsStay DEF CheckLimit, SInv
<1>3. /\ UNCHANGED <<auctionVars, roomVars, redis, worker, faults>>
      /\ request[r].step = step
      /\ Become(r, next) \/ Answer(r)
  BY <1>1 DEF CheckLimit
<1>4. CASE Answer(r)
  BY <1>2, <1>3, <1>4, IdleSound, QuietKeeps
<1>5. CASE Become(r, next)
  <2> DEFINE rec == [request[r] EXCEPT !.step = next]
  <2>1. request[r] \in Request /\ request[r].bid \in Bids /\ ~request[r].extends
    BY <1>3 DEF SInv, Sound, SoundRequest
  <2>2. rec \in Request
    BY <2>1 DEF Request, RequestStep
  <2>3. request' = [request EXCEPT ![r] = rec] /\ request'[r] = rec
    BY <1>5 DEF Become, SInv, Sound
  <2>4. /\ rec.step = next /\ rec.bid = request[r].bid
        /\ rec.extends = request[r].extends
    BY <2>1 DEF Request
  <2>5. SoundRequest(r)'
    BY <2>1, <2>2, <2>3, <2>4 DEF SoundRequest
  <2> QED
    BY <1>2, <1>3, <2>2, <2>3, <2>5, QuietKeeps
<1> QED
  BY <1>3, <1>4, <1>5

LEMMA ReplayKeeps ==
    ASSUME SInv, NEW r \in Requests, ReplayBid(r)
    PROVE  SInv'
<1>1. PICK b \in bids :
        request' = [request EXCEPT ![r].bid = b, ![r].step = "broadcast"]
  BY DEF ReplayBid
<1> DEFINE rec == [request[r] EXCEPT !.bid = b, !.step = "broadcast"]
<1>2. request[r] \in Request /\ ~request[r].extends /\ b \in Bids
  BY DEF ReplayBid, SInv, Sound, SoundRequest, AuctionSound, OutcomeSound
<1>3. rec \in Request
  BY <1>2 DEF Request, RequestStep
<1>4. request' = [request EXCEPT ![r] = rec] /\ request'[r] = rec
  BY <1>1 DEF SInv, Sound
<1>5. rec.step = "broadcast" /\ rec.bid = b /\ rec.extends = request[r].extends
  BY <1>2 DEF Request
<1>6. UNCHANGED <<auctionVars, limiterVars, roomVars, worker, redis, faults>>
  BY DEF ReplayBid
<1>7. SoundRequest(r)'
  <2>1. bids' = bids /\ b \in bids
    BY <1>6 DEF auctionVars, outcomeVars
  <2> HIDE DEF rec
  <2> QED
    BY <1>2, <1>3, <1>4, <1>5, <2>1 DEF SoundRequest
<1>8. request[r].step # "broadcast"
  BY DEF ReplayBid
<1> QED
  BY <1>3, <1>4, <1>6, <1>7, <1>8, LimitsStay, QuietKeeps

LEMMA TellNobodyTells ==
    ASSUME NEW m, TellNobody(m)
    PROVE  Telling({m})
BY DEF TellNobody, Telling

LEMMA BroadcastTells ==
    ASSUME NEW m, Broadcast(m)
    PROVE  Telling({m})
BY DEF Broadcast, Telling

\* The news of a bid that has been committed, with or without its end.
LEMMA BidNews ==
    ASSUME NEW b \in Bids, StartingPrice < b.amount
    PROVE  /\ Join(Accepted(b), Extended(b)).price = b.amount
           /\ Join(Accepted(b), Extended(b)).end = b.amount
           /\ Join(Accepted(b), Nothing).price = b.amount
<1> DEFINE a == Accepted(b)
           e == Extended(b)
<1>1. /\ a \in Message /\ e \in Message /\ Nothing \in Message
      /\ a.price = b.amount /\ a.end = StartingPrice
      /\ e.price = StartingPrice /\ e.end = b.amount
      /\ Nothing.price = StartingPrice
  BY SimpleMessages
<1>2. b.amount \in Nat /\ StartingPrice \in Nat
  BY PriceIs
<1> HIDE DEF a, e
<1>3. /\ Join(a, e).price = b.amount /\ Join(a, e).end = b.amount
      /\ Join(a, Nothing).price = b.amount
  BY <1>1, <1>2, JoinTells
<1> QED
  BY <1>3 DEF a, e

LEMMA CommitKeeps ==
    ASSUME SInv, NEW r \in Requests, CommitBid(r)
    PROVE  SInv'
<1>1. PICK b : b = request[r].bid
  OBVIOUS
<1> DEFINE late == b \in Late
           m == Join(Accepted(b), IF late THEN Extended(b) ELSE Nothing)
<1>2. /\ request[r].step = "place" /\ b \in Bids /\ request[r] \in Request
      /\ late \in BOOLEAN
  BY <1>1 DEF CommitBid, SInv, Sound, SoundRequest
<1>3. /\ PlaceBid(b) /\ b.amount > currentPrice /\ currentPrice' = b.amount
      /\ extendedUntil' = IF late THEN b.amount ELSE extendedUntil
      /\ unannounced' = IF late /\ request[r].client = NoClient
                        THEN unannounced \cup {b.amount} ELSE unannounced
  BY <1>1 DEF CommitBid
<1>4. AuctionStep /\ status' = status /\ b \in bids'
  <2>1. BidStep(b)
    BY <1>3 DEF BidStep
  <2> QED
    BY <1>2, <1>3, <2>1 DEF AuctionStep, PlaceBid
<1>5. AuctionSound' /\ StartingPrice < b.amount
  BY <1>4, AuctionStepKeeps DEF SInv, AuctionSound, RowSound
<1>6. /\ UNCHANGED <<limiterVars, redis, worker>> /\ LInv'
      /\ \A q \in Requests \ {r} : request'[q] = request[q]
  BY LimitsStay DEF CommitBid, Answer, SInv, Sound
<1>7. OnItsWay \subseteq OnItsWay'
  <2>1. worker \subseteq worker' \cup {} /\ request[r].step # "broadcast"
    BY <1>2, <1>6
  <2>2. OnItsWay \subseteq OnItsWay' \cup {}
    BY <1>6, <2>1, OnItsWayGrows
  <2> QED
    BY <2>2
<1> HIDE DEF late
<1>8. m.price = b.amount /\ (late => m.end = b.amount)
  BY <1>2, <1>5, BidNews
<1>9. CASE Fault /\ Answer(r) /\ TellNobody(m)
  <2>1. Telling({m}) /\ faults' \in 0..MaxFaults
    <3> HIDE DEF m
    <3> QED
      BY <1>9, TellNobodyTells DEF Fault, SInv
  <2>2. Holds(m)'
    <3>1. PICK a, x : a = Accepted(b) /\ x = IF late THEN Extended(b) ELSE Nothing
      OBVIOUS
    <3>2. Holds(a)' /\ Holds(x)'
      BY <1>4, <1>5, <3>1, BidMessagesHoldNext DEF late
    <3>3. Holds(Join(a, x))'
      BY <1>5, <3>2, HoldsTogetherNext
    <3> QED
      BY <3>1, <3>3
  <2> HIDE DEF m
  <2>3. Reported({m})
    BY <1>3, <1>4, <1>7, <1>8 DEF Reported
  <2> QED
    BY <1>4, <1>6, <1>9, <2>1, <2>2, <2>3, IdleSound, RequestKeeps
<1>10. CASE /\ request' = [request EXCEPT ![r].step = "broadcast", ![r].extends = late]
            /\ UNCHANGED <<roomVars, faults>>
  <2> DEFINE rec == [request[r] EXCEPT !.step = "broadcast", !.extends = late]
  <2>1. rec \in Request
    BY <1>2 DEF Request, RequestStep
  <2>2. request' = [request EXCEPT ![r] = rec] /\ request'[r] = rec
    BY <1>10 DEF SInv, Sound
  <2>3. /\ rec.step = "broadcast" /\ rec.bid = b /\ rec.extends = late
        /\ rec.client = request[r].client
    BY <1>1, <1>2 DEF Request
  <2> HIDE DEF rec
  <2>4. SoundRequest(r)'
    BY <1>2, <1>4, <2>1, <2>2, <2>3 DEF SoundRequest, late
  <2>5. News(r)' \in OnItsWay'
    BY <2>2, <2>3 DEF OnItsWay
  <2>6. /\ News(r)'.price = b.amount
        /\ late /\ request[r].client # NoClient => News(r)'.end = b.amount
    <3>1. News(r)' = Join(Accepted(b), IF late /\ request[r].client # NoClient
                                       THEN Extended(b) ELSE Nothing)
      BY <2>2, <2>3 DEF News
    <3> QED
      BY <1>2, <1>5, <3>1, BidNews
  <2>7. Reported({})
    BY <1>3, <1>4, <1>7, <2>5, <2>6 DEF Reported
  <2>8. Telling({}) /\ faults' \in 0..MaxFaults
    BY <1>10 DEF Telling, SInv
  <2> QED
    BY <1>4, <1>6, <2>1, <2>2, <2>4, <2>7, <2>8, RequestKeeps
<1> QED
  BY <1>1, <1>9, <1>10 DEF CommitBid, late

LEMMA BroadcastKeeps ==
    ASSUME SInv, NEW r \in Requests, BroadcastBid(r) \/ CrashRequest(r) \/ RejectBid(r)
    PROVE  SInv'
<1>1. /\ Answer(r) /\ UNCHANGED <<auctionVars, limiterVars, redis, worker>>
      /\ faults' \in 0..MaxFaults
  BY DEF BroadcastBid, CrashRequest, RejectBid, Fault, SInv
<1>2. AuctionStep /\ AuctionSound /\ Sound /\ SoundRequest(r)
  BY <1>1 DEF AuctionStep, SInv, Sound
<1>3. PICK n : n = News(r)
  OBVIOUS
<1>4. request[r].step = "broadcast" => Holds(n)
  <2>1. ASSUME request[r].step = "broadcast" PROVE Holds(News(r))
    BY <1>2, <2>1, NewsHolds
  <2> QED
    BY <1>3, <2>1
<1>5. PICK M : /\ Telling(M) /\ \A m \in M : Holds(m)
               /\ request[r].step = "broadcast" => n \in M
  <2>1. CASE BroadcastBid(r)
    <3>1. Telling({n}) /\ request[r].step = "broadcast"
      BY <1>3, <2>1, BroadcastTells DEF BroadcastBid
    <3> QED
      BY <1>4, <3>1
  <2>2. CASE CrashRequest(r)
    <3>1. PICK m : m = IF request[r].step = "broadcast" THEN n ELSE Nothing
      OBVIOUS
    <3>2. Telling({m})
      BY <1>3, <2>2, <3>1, TellNobodyTells DEF CrashRequest
    <3>3. Holds(m)
      BY <1>2, <1>4, <3>1, NothingHolds
    <3> QED
      BY <3>1, <3>2, <3>3
  <2>3. CASE RejectBid(r)
    <3>1. Telling({}) /\ request[r].step # "broadcast"
      BY <2>3 DEF RejectBid, Telling
    <3> QED
      BY <3>1
  <2> QED
    BY <2>1, <2>2, <2>3
<1>6. \A m \in M : Holds(m)'
  BY <1>2, <1>5, TrueStays DEF Holds
<1>7. \A q \in Requests \ {r} : request'[q] = request[q]
  BY <1>1 DEF Answer, SInv, Sound
<1>8. Reported(M)
  <2>1. OnItsWay \subseteq OnItsWay' \cup M
    BY <1>1, <1>3, <1>5, <1>7, OnItsWayGrows
  <2> QED
    BY <1>1, <2>1 DEF Reported, auctionVars, outcomeVars
<1> QED
  BY <1>1, <1>2, <1>5, <1>6, <1>8, IdleSound, LimitsStay, RequestKeeps

\* A step that leaves the requests alone, by what it tells.
LEMMA OthersKeep ==
    ASSUME SInv, NEW M, Telling(M), \A m \in M : Holds(m)', LInv',
           request' = request, redis' \in BOOLEAN, faults' \in 0..MaxFaults,
           AuctionStep, \A x \in worker' : Holds(x)', worker \subseteq worker' \cup M,
           UNCHANGED <<currentPrice, extendedUntil>>,
           status' = status \/ \E x \in M \cup worker' : x.status = status'
    PROVE  SInv'
<1>1. AuctionSound' /\ bids \subseteq bids'
  BY AuctionStepKeeps DEF SInv
<1>2. Sound'
  BY <1>1 DEF SInv, Sound, SoundRequest
<1>3. OnItsWay' = worker' \cup
        {News(q) : q \in {p \in Requests : request[p].step = "broadcast"}}
  BY DEF OnItsWay, News
<1>4. OnItsWay \subseteq M \cup OnItsWay' /\ worker' \subseteq OnItsWay'
  BY <1>3 DEF OnItsWay
<1>5. Reported(M)
  BY <1>4 DEF Reported
<1>6. RoomInv'
  BY <1>1, <1>2, <1>5, OnItsWayHoldsNext, TellingKeeps DEF SInv
<1> QED
  BY <1>1, <1>2, <1>6 DEF SInv

\* AUCTION_ENDED, with the outcome and the final price, holds from then on.
LEMMA EndHolds ==
    ASSUME AuctionSound, status = "ended"
    PROVE  Holds(EndedWith(outcome)) /\ EndedWith(outcome).status = "ended"
<1> DEFINE m == EndedWith(outcome)
           p == IF outcome = NoBid THEN StartingPrice ELSE outcome.amount
<1>1. outcome \in Bids \cup {NoBid} /\ bids \subseteq Bids
      /\ IF bids = {} THEN outcome = NoBid ELSE Wins(outcome)
  BY DEF AuctionSound, OutcomeSound
<1>2. p = currentPrice /\ p \in Price
  <2>1. CASE bids = {}
    BY <1>1, <2>1, PriceIs DEF AuctionSound, RowSound
  <2>2. CASE bids # {}
    <3>1. outcome \in bids /\ outcome # NoBid /\ p = outcome.amount
      BY <1>1, <2>2, RoomAssumption DEF Wins
    <3>2. \A c \in bids : ~(c.amount > outcome.amount) /\ c.amount \in Nat
      BY <1>1, <2>2, PriceIs DEF Wins, Outranks
    <3>3. outcome.amount \in Nat /\ outcome.amount \in Price /\ StartingPrice \in Nat
      BY <1>1, <3>1, PriceIs
    <3>4. currentPrice = outcome.amount
      BY <3>1, <3>2, <3>3, RowIs, PriceIs DEF AuctionSound, RowSound
    <3> QED
      BY <3>1, <3>3, <3>4
  <2> QED
    BY <2>1, <2>2
<1>3. /\ m.status = "ended" /\ m.price = p /\ m.end = StartingPrice /\ m.winner = outcome
      /\ m \in Message
  BY <1>1, <1>2, PriceIs DEF EndedWith, Nothing, Message
<1>4. Stage["ended"] <= Stage[status]
  BY StageIs
<1> HIDE DEF m, p
<1>5. IsTrue(m)
  BY <1>2, <1>3, <1>4 DEF IsTrue, AuctionSound, RowSound
<1>6. Holds(m) /\ m.status = "ended"
  BY <1>2, <1>3, <1>5 DEF Holds, Final
<1> QED
  BY <1>6 DEF m

LEMMA TransitionsHoldNext ==
    (AuctionSound =>
        /\ status = "ending" => Holds(Ending)
        /\ status = "ended" => Holds(EndedWith(outcome))
                                 /\ EndedWith(outcome).status = "ended")'
<1>1. AuctionSound /\ status = "ending" => Holds(Ending)
  <2>1. /\ Ending \in Message /\ Ending.status = "ending" /\ Ending.winner = NoBid
        /\ Ending.price = StartingPrice /\ Ending.end = StartingPrice
    BY PriceIs DEF Ending, Nothing, Message
  <2>2. Stage["ending"] <= Stage["ending"]
    BY StageIs
  <2> QED
    BY <2>1, <2>2 DEF Holds, IsTrue, Final
<1>2. AuctionSound =>
        /\ status = "ending" => Holds(Ending)
        /\ status = "ended" => Holds(EndedWith(outcome))
                                 /\ EndedWith(outcome).status = "ended"
  BY <1>1, EndHolds
<1> QED
  BY <1>2, PTL

LEMMA TransitionKeeps ==
    ASSUME SInv, TransitionLiveToEnding \/ TransitionEndingToEnded
    PROVE  SInv'
<1>1. AuctionStep /\ UNCHANGED <<currentPrice, extendedUntil>>
  BY DEF AuctionStep, TransitionLiveToEnding, TransitionEndingToEnded
<1>2. AuctionSound'
  BY <1>1, AuctionStepKeeps DEF SInv
<1>3. PICK x : ThenTell(x) /\ Holds(x)' /\ x.status = status'
  <2>1. CASE TransitionLiveToEnding
    <3>1. ThenTell(Ending) /\ status' = "ending"
      BY <2>1 DEF TransitionLiveToEnding, CloseAuction
    <3>2. PICK x : x = Ending
      OBVIOUS
    <3>3. Holds(x)' /\ x.status = "ending"
      BY <1>2, <3>1, <3>2, TransitionsHoldNext DEF Ending, Nothing
    <3> QED
      BY <3>1, <3>2, <3>3
  <2>2. CASE TransitionEndingToEnded
    <3>1. ThenTell(EndedWith(outcome')) /\ status' = "ended"
      BY <2>2 DEF TransitionEndingToEnded, EndAuction
    <3>2. PICK o : o = outcome'
      OBVIOUS
    <3>3. Holds(EndedWith(o))' /\ EndedWith(o).status = "ended"
      BY <1>2, <3>1, <3>2, TransitionsHoldNext DEF Holds, IsTrue, Final, EndedWith
    <3> QED
      BY <3>1, <3>2, <3>3
  <2> QED
    BY <2>1, <2>2
<1>4. UNCHANGED <<limiterVars, redis, request>> /\ LInv' /\ redis' \in BOOLEAN
  BY LimitsStay DEF TransitionLiveToEnding, TransitionEndingToEnded, SInv
<1>5. \A y \in worker : Holds(y)'
  BY <1>1, TrueStays DEF SInv, Sound, Holds
<1>6. CASE worker' = worker \cup {x} /\ UNCHANGED <<roomVars, faults>>
  <2>1. Telling({}) /\ faults' \in 0..MaxFaults
    BY <1>6 DEF Telling, SInv
  <2>2. \A y \in worker' : Holds(y)'
    BY <1>3, <1>5, <1>6
  <2>3. worker \subseteq worker' \cup {} /\ \E y \in {} \cup worker' : y.status = status'
    BY <1>3, <1>6
  <2>4. request' = request
    BY <1>4
  <2> QED
    BY <1>1, <1>4, <2>1, <2>2, <2>3, <2>4, OthersKeep
<1>7. CASE Fault /\ TellNobody(x) /\ UNCHANGED worker
  <2>1. Telling({x}) /\ faults' \in 0..MaxFaults
    BY <1>7, TellNobodyTells DEF Fault, SInv
  <2>2. \A y \in worker' : Holds(y)'
    BY <1>5, <1>7
  <2>3. /\ worker \subseteq worker' \cup {x}
        /\ \E y \in {x} \cup worker' : y.status = status'
        /\ \A y \in {x} : Holds(y)'
    BY <1>3, <1>7
  <2>4. request' = request
    BY <1>4
  <2> QED
    BY <1>1, <1>4, <2>1, <2>2, <2>3, <2>4, OthersKeep
<1> QED
  BY <1>3, <1>6, <1>7 DEF ThenTell

LEMMA SurroundingsKeep ==
    ASSUME SInv,
           \/ \E x \in worker : BroadcastTransition(x)
           \/ ClockTicks \/ RedisGoes \/ RedisComesBack
           \/ UNCHANGED rvars
    PROVE  SInv'
<1>1. UNCHANGED auctionVars /\ request' = request
  BY DEF BroadcastTransition, ClockTicks, RedisGoes, RedisComesBack, rvars, servers
<1>2. /\ AuctionStep /\ UNCHANGED <<currentPrice, extendedUntil>>
      /\ status' = status
  BY <1>1 DEF AuctionStep, auctionVars, outcomeVars
<1>3. \A m : Holds(m) => Holds(m)'
  BY <1>2, TrueStays DEF Holds, SInv
<1>4. ASSUME NEW x \in worker, BroadcastTransition(x)
      PROVE  SInv'
  <2>1. Telling({x})
    BY <1>4, BroadcastTells DEF BroadcastTransition
  <2>2. UNCHANGED <<limiterVars, redis, faults>> /\ worker' = worker \ {x}
    BY <1>4 DEF BroadcastTransition
  <2>3. LInv' /\ redis' \in BOOLEAN /\ faults' \in 0..MaxFaults
    BY <2>2, LimitsStay DEF SInv
  <2>4. /\ \A y \in worker' : Holds(y)'
        /\ \A y \in {x} : Holds(y)'
        /\ worker \subseteq worker' \cup {x}
    BY <1>3, <2>2 DEF SInv, Sound
  <2> QED
    BY <1>1, <1>2, <2>1, <2>3, <2>4, OthersKeep
<1>5. CASE ClockTicks \/ RedisGoes \/ RedisComesBack \/ UNCHANGED rvars
  <2>1. UNCHANGED <<roomVars, worker>>
    BY <1>5 DEF ClockTicks, RedisGoes, RedisComesBack, rvars, servers
  <2>2. redis' \in BOOLEAN /\ faults' \in 0..MaxFaults
    <3>1. CASE RedisGoes
      <4>1. faults' \in 0..MaxFaults
        BY <3>1 DEF RedisGoes, Fault, SInv
      <4>2. redis' = FALSE
        BY <3>1, Zenon DEF RedisGoes
      <4> QED
        BY <4>1, <4>2, Zenon
    <3>2. CASE RedisComesBack
      BY <3>2 DEF RedisComesBack, SInv
    <3>3. CASE ClockTicks \/ UNCHANGED rvars
      <4>1. redis' = redis /\ faults' = faults
        BY <3>3 DEF ClockTicks, rvars, servers
      <4> QED
        BY <4>1, Zenon DEF SInv
    <3> QED
      BY <1>5, <3>1, <3>2, <3>3
  <2>3. LInv'
    BY <1>5, TickKeepsLimits, LimitsStay
       DEF ClockTicks, RedisGoes, RedisComesBack, rvars, SInv
  <2>4. /\ Telling({}) /\ worker \subseteq worker' \cup {}
        /\ \A y \in worker' : Holds(y)'
    BY <1>3, <2>1 DEF Telling, SInv, Sound
  <2> QED
    BY <1>1, <1>2, <2>2, <2>3, <2>4, OthersKeep
<1> QED
  BY <1>4, <1>5

LEMMA SInvInductive == SpecRoom => []SInv
<1>1. InitRoom => SInv
  <2> SUFFICES ASSUME InitRoom PROVE SInv
    OBVIOUS
  <2> USE DEF InitRoom
  <2>1. AuctionSound
    BY PriceIs DEF OutcomeInit, AuctionSound, OutcomeSound, RowSound
  <2>2. LInv
    BY DEF InitLimiter, LInv, TypeOKLimiter, Started
  <2>3. Sound
    BY DEF Sound, SoundRequest, Idle, Request, RequestStep
  <2>4. RoomInv
    <3>1. Nothing \in Message /\ Holds(Nothing) /\ IsTrue(Nothing)
      BY <2>1, NothingHolds DEF Holds
    <3> QED
      BY <3>1 DEF RoomInv, RoomTypes, Truthful, KeepsUp
  <2>5. redis \in BOOLEAN /\ faults \in 0..MaxFaults
    BY RoomAssumption
  <2> QED
    BY <2>1, <2>2, <2>3, <2>4, <2>5 DEF SInv
<1>2. SInv /\ [NextRoom]_rvars => SInv'
  <2> SUFFICES ASSUME SInv, [NextRoom]_rvars PROVE SInv'
    OBVIOUS
  <2> QED
    BY ClientKeeps, ArrivalKeeps, LimitKeeps, ReplayKeeps, CommitKeeps, BroadcastKeeps,
       TransitionKeeps, SurroundingsKeep DEF NextRoom, RequestMoves
<1> QED
  BY <1>1, <1>2, PTL DEF SpecRoom

\* A step of the room leaves the counters alone, checks one of them or lets the
\* clock tick.
LEMMA LimiterSteps ==
    ASSUME SInv, [NextRoom]_rvars
    PROVE  \/ UNCHANGED limiterVars
           \/ LimiterTicks
           \/ \E k \in RateKeys : CheckRateLimit(k)
<1>1. ASSUME NEW r \in Requests, CheckUserLimit(r) \/ CheckAuctionLimit(r)
      PROVE  UNCHANGED limiterVars \/ \E k \in RateKeys : CheckRateLimit(k)
  BY <1>1 DEF CheckUserLimit, CheckAuctionLimit, CheckLimit, SInv, Sound, SoundRequest
<1>2. ASSUME NEW r \in Requests,
             \/ \E b \in Offers : PostBid(r, b) \/ \E c \in Clients : SendBid(r, c, b)
             \/ ReplayBid(r) \/ CommitBid(r) \/ RejectBid(r)
             \/ BroadcastBid(r) \/ CrashRequest(r)
      PROVE  UNCHANGED limiterVars
  BY <1>2 DEF PostBid, SendBid, ReplayBid, CommitBid, RejectBid, BroadcastBid, CrashRequest
<1>3. ASSUME \/ \E c \in Clients : ClientMoves(c)
             \/ TransitionLiveToEnding \/ TransitionEndingToEnded
             \/ \E x \in worker : BroadcastTransition(x)
             \/ RedisGoes \/ RedisComesBack
      PROVE  UNCHANGED limiterVars
  BY <1>3 DEF ClientMoves, ReadSnapshot, EnterRoom, Leave, TransitionLiveToEnding,
              TransitionEndingToEnded, BroadcastTransition, RedisGoes, RedisComesBack
<1>4. CASE ClockTicks
  BY <1>4 DEF ClockTicks
<1>5. CASE UNCHANGED rvars
  BY <1>5 DEF rvars
<1> QED
  BY <1>1, <1>2, <1>3, <1>4, <1>5 DEF NextRoom, RequestMoves

LEMMA WindowsFitInductive == SpecRoom => []WindowsFit
<1>1. InitRoom => WindowsFit
  <2> SUFFICES ASSUME InitRoom, NEW k \in RateKeys
               PROVE  TypeOKLimiter /\ FitsGone(k) /\ ~(ttl[k] > 0)
    BY DEF WindowsFit, Fits, InitRoom, InitLimiter, TypeOKLimiter
  <2>1. TypeOKLimiter
    BY DEF InitRoom, InitLimiter, TypeOKLimiter
  <2>2. ttl[k] = 0 /\ count[k] = 0 /\ 0 \in Ages /\ \A a \in Ages : passed[k][a] = 0
    BY DEF InitRoom, InitLimiter, Ages
  <2>3. Sum(passed[k], Ages) = 0
    <3>1. IsFiniteSet(Ages) /\ \A a \in Ages : passed[k][a] \in Nat
      BY <2>1, IntervalFinite, LimiterTypes DEF Ages
    <3>2. Units(passed[k], Ages) = {}
      BY <2>2 DEF Units
    <3> QED
      BY <3>1, <3>2, SumCounts, FS_EmptySet
  <2>4. FitsGone(k)
    BY <2>1, <2>2, <2>3, LimiterTypes DEF FitsGone
  <2> QED
    BY <2>1, <2>2, <2>4
<1>2. SInv /\ WindowsFit /\ [NextRoom]_rvars => WindowsFit'
  <2> SUFFICES ASSUME SInv, WindowsFit, [NextRoom]_rvars PROVE WindowsFit'
    OBVIOUS
  <2>1. CASE UNCHANGED limiterVars
    BY <2>1 DEF WindowsFit, TypeOKLimiter, Fits, FitsOpen, FitsGone, Since, Before, limiterVars
  <2>2. CASE LimiterTicks
    <3>1. TypeOKLimiter'
      BY <2>2, TickKeepsLimits DEF SInv, LInv
    <3> QED
      BY <2>2, <3>1, TickKeepsFit DEF WindowsFit, SInv, LInv
  <2>3. ASSUME NEW k \in RateKeys, CheckRateLimit(k) PROVE WindowsFit'
    <3>1. TypeOKLimiter'
      BY <2>3, CheckKeepsLimits DEF SInv, LInv
    <3> QED
      BY <2>3, <3>1, CheckKeepsFit DEF WindowsFit
  <2> QED
    BY <2>1, <2>2, <2>3, LimiterSteps
<1> QED
  BY <1>1, <1>2, SInvInductive, PTL DEF SpecRoom

-----------------------------------------------------------------------------
(* Theorems *)

\* Every variable keeps its type, and a client that has left holds nothing.
THEOREM TypeCorrect == SpecRoom => []TypeOKRoom
<1>1. SInv => TypeOKRoom
  <2> SUFFICES ASSUME SInv PROVE TypeOKRoom
    OBVIOUS
  <2>1. worker \subseteq Message
    BY DEF SInv, Sound, Holds
  <2>2. currentPrice \in Price /\ extendedUntil \in Price
    BY RowIs DEF SInv
  <2> QED
    BY <2>1, <2>2 DEF SInv, AuctionSound, OutcomeSound, RowSound, LInv, Sound, RoomInv,
                      RoomTypes, TypeOKRoom
<1> QED
  BY <1>1, SInvInductive, PTL

\* The auction in the room is the auction that Bidding is proved to implement.
THEOREM RoomKeepsPromise == SpecRoom => OutcomeSpec
<1>1. InitRoom => OutcomeInit
  BY DEF InitRoom
<1>2. SInv /\ [NextRoom]_rvars => [OutcomeNext]_outcomeVars
  <2> SUFFICES ASSUME SInv, NextRoom PROVE [OutcomeNext]_outcomeVars
    BY DEF rvars, auctionVars
  <2>1. ASSUME NEW r \in Requests, CommitBid(r) PROVE OutcomeNext
    <3>1. request[r].bid \in Bids
      BY <2>1 DEF CommitBid, SInv, Sound, SoundRequest
    <3> QED
      BY <2>1, <3>1 DEF CommitBid, OutcomeNext
  <2>2. CASE TransitionLiveToEnding \/ TransitionEndingToEnded
    BY <2>2 DEF TransitionLiveToEnding, TransitionEndingToEnded, OutcomeNext
  <2>3. ASSUME NEW r \in Requests,
               \/ \E b \in Offers : PostBid(r, b) \/ \E c \in Clients : SendBid(r, c, b)
               \/ CheckUserLimit(r) \/ CheckAuctionLimit(r) \/ ReplayBid(r)
               \/ RejectBid(r) \/ BroadcastBid(r) \/ CrashRequest(r)
        PROVE  UNCHANGED outcomeVars
    BY <2>3 DEF PostBid, SendBid, CheckUserLimit, CheckAuctionLimit, CheckLimit,
                ReplayBid, RejectBid, BroadcastBid, CrashRequest, auctionVars
  <2>4. ASSUME NEW c \in Clients, ClientMoves(c) PROVE UNCHANGED outcomeVars
    BY <2>4 DEF ClientMoves, ReadSnapshot, EnterRoom, Leave, auctionVars
  <2>5. ASSUME \/ \E x \in worker : BroadcastTransition(x)
               \/ ClockTicks \/ RedisGoes \/ RedisComesBack
        PROVE  UNCHANGED outcomeVars
    BY <2>5 DEF BroadcastTransition, ClockTicks, RedisGoes, RedisComesBack,
                auctionVars
  <2> QED
    BY <2>1, <2>2, <2>3, <2>4, <2>5 DEF NextRoom, RequestMoves
<1> QED
  BY <1>1, <1>2, SInvInductive, PTL DEF SpecRoom, OutcomeSpec

\* However requests, broadcasts, crashes and outages of Redis interleave, a client is
\* told nothing, by AUCTION_STATE or by a message, that is not true of the auction then
\* and later.
THEOREM HeardCorrect == SpecRoom => []HeardIsTrue
<1>1. SInv => HeardIsTrue
  BY DEF SInv, RoomInv, Truthful, Holds, HeardIsTrue
<1> QED
  BY <1>1, SInvInductive, PTL

\* A client that has heard of the end, from AUCTION_ENDED or from the AUCTION_STATE it
\* entered with, has heard the final price and hears none that exceeds it.
THEOREM FinalPriceCorrect == SpecRoom => []FinalPriceIsFinal
<1>1. SInv => FinalPriceIsFinal
  <2> SUFFICES ASSUME SInv, NEW c \in Clients, picture[c].status = "ended"
               PROVE  picture[c].price =
                        IF outcome = NoBid THEN StartingPrice ELSE outcome.amount
    BY DEF FinalPriceIsFinal, InRoom
  <2>1. Holds(picture[c]) /\ AuctionSound
    BY DEF SInv, RoomInv, Truthful
  <2>2. status = "ended" /\ picture[c].price = currentPrice
    <3>1. Stage[status] >= 2 /\ status \in {"live", "ending", "ended"}
      BY <2>1, StageIs DEF Holds, IsTrue, AuctionSound, OutcomeSound
    <3> QED
      BY <2>1, <3>1, StageIs DEF Holds, Final
  <2>3. EndedWith(outcome).price = currentPrice
    BY <2>1, <2>2, EndHolds DEF Holds, Final
  <2> QED
    BY <2>2, <2>3 DEF EndedWith, Nothing
<1> QED
  BY <1>1, SInvInductive, PTL

\* Whoever is in the room can tell the price, the end and the status that the row has
\* now, or the very message that tells it is on its way or has been lost to it: by the
\* join's gap, an outage, a crash or a lost reply, or because HTTP announces no end.
\* AUCTION_STATE makes this true when the client reads the row, each message that is
\* sent keeps it so, and one that is lost is lost alone.
THEOREM KeepsUpCorrect == SpecRoom => []RoomKeepsUp
<1>1. SInv => RoomKeepsUp
  BY StateHolds DEF SInv, RoomInv, KeepsUp, Tells, RoomKeepsUp, InRoom
<1> QED
  BY <1>1, SInvInductive, PTL

\* Whatever the limit and the window, a counter refuses only after it has let
\* somebody through in the window's time: refused calls do not renew it.
THEOREM RefusalsJustified == SpecRoom => []RefusedOnlyAfterPass
<1>1. SInv => RefusedOnlyAfterPass
  <2> SUFFICES ASSUME SInv, NEW k \in RateKeys, ~Allowed(k)
               PROVE  \E a \in Ages : passed[k][a] > 0
    BY DEF RefusedOnlyAfterPass
  <2>1. count[k] > 0
    BY DEF Allowed, SInv, LInv, TypeOKLimiter
  <2>2. ttl[k] \in Nat /\ 0 < ttl[k] /\ ttl[k] <= Window
    BY <2>1 DEF SInv, LInv, TypeOKLimiter, Started
  <2>3. passed[k][Window - ttl[k]] > 0
    BY <2>1 DEF SInv, LInv, Started
  <2>4. Window - ttl[k] \in Ages
    BY <2>2, AgeOf
  <2> QED
    BY <2>3, <2>4
<1> QED
  BY <1>1, SInvInductive, PTL

\* Whatever the limit and the window, a stretch of time as long as the window lets
\* through fewer than twice the limit, wherever it starts: the counter bounds what its
\* own window lets through, and of the window before it the first call has gone by.
THEOREM TwiceTheLimitNever == SpecRoom => []BelowTwiceTheLimit
BY FitsTwice, WindowsFitInductive, PTL
=============================================================================
