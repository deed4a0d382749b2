------------------------------ MODULE SumLemmas ------------------------------
(***************************************************************************)
(* Facts about finite sums of natural numbers, which the specifications    *)
(* write with the folds of the community modules.  A fold is a recursive   *)
(* function over the subsets of its set.  It is shown here to count the    *)
(* units of the summands, so that what is known of cardinalities gives     *)
(* what the proofs need of sums.                                           *)
(***************************************************************************)
EXTENDS Integers, FunctionTheorems, FiniteSetTheorems, WellFoundedInduction, TLAPS

\* The sum of f[x] over the elements x of S.
Sum(f, S) == FoldFunctionOnSet(+, 0, f, S)

\* One pair for each unit of each summand, and those of one summand.
Units(f, S) == {u \in S \X Nat : u[2] < f[u[1]]}
Column(f, x) == {x} \X (0..(f[x] - 1))

-----------------------------------------------------------------------------
(* The units *)

LEMMA ColumnCount ==
    ASSUME NEW f, NEW x, f[x] \in Nat
    PROVE  IsFiniteSet(Column(f, x)) /\ Cardinality(Column(f, x)) = f[x]
<1> DEFINE one == {x}
           top == f[x] - 1
           heights == 0..top
<1>1. IsFiniteSet(heights) /\ Cardinality(heights) = f[x]
  <2>1. top \in Int /\ 0 \in Int /\ IF 0 > top THEN f[x] = 0 ELSE top - 0 + 1 = f[x]
    OBVIOUS
  <2> HIDE DEF top
  <2> QED
    BY <2>1, FS_Interval
<1>2. IsFiniteSet(one) /\ Cardinality(one) = 1
  BY FS_Singleton
<1>3. Column(f, x) = one \X heights
  BY DEF Column
<1> HIDE DEF one, heights
<1>4. /\ IsFiniteSet(one \X heights)
      /\ Cardinality(one \X heights) = Cardinality(one) * Cardinality(heights)
  BY <1>1, <1>2, FS_Product
<1> QED
  BY <1>1, <1>2, <1>3, <1>4

LEMMA UnitsOfOne ==
    ASSUME NEW f, NEW s, NEW x \in s, f[x] \in Nat
    PROVE  /\ Units(f, s) = Units(f, s \ {x}) \cup Column(f, x)
           /\ Units(f, s \ {x}) \cap Column(f, x) = {}
<1>2. ASSUME NEW u \in Units(f, s)
      PROVE  u \in Units(f, s \ {x}) \cup Column(f, x)
  <2>1. PICK y \in s, i \in Nat : u = <<y, i>> /\ i < f[y]
    BY DEF Units
  <2>2. CASE y = x
    <3>1. i \in 0..(f[x] - 1)
      BY <2>1, <2>2
    <3> QED
      BY <2>1, <2>2, <3>1 DEF Column
  <2>3. CASE y # x
    BY <2>1, <2>3 DEF Units
  <2> QED
    BY <2>2, <2>3
<1>3. ASSUME NEW u \in Column(f, x) PROVE u \in Units(f, s) /\ u[1] = x
  <2>1. PICK i \in 0..(f[x] - 1) : u = <<x, i>>
    BY DEF Column
  <2>2. i \in Nat /\ i < f[x]
    OBVIOUS
  <2> QED
    BY <2>1, <2>2 DEF Units
<1>4. Units(f, s \ {x}) \subseteq Units(f, s)
  BY DEF Units
<1>5. \A u \in Units(f, s \ {x}) : u[1] # x
  BY DEF Units
<1> QED
  BY <1>2, <1>3, <1>4, <1>5

LEMMA UnitsFinite ==
    ASSUME NEW S, IsFiniteSet(S), NEW f, \A x \in S : f[x] \in Nat, NEW s \in SUBSET S
    PROVE  IsFiniteSet(Units(f, s)) /\ Cardinality(Units(f, s)) \in Nat
<1> DEFINE Endless == {r \in SUBSET S : ~IsFiniteSet(Units(f, r))}
<1>1. ASSUME Endless # {} PROVE FALSE
  <2>1. IsWellFoundedOn(StrictSubsetOrdering(S), SUBSET S)
    BY FS_StrictSubsetOrderingWellFounded, FS_FiniteSubsetsOfFinite
  <2>2. PICK r \in Endless : \A q \in Endless : <<q, r>> \notin StrictSubsetOrdering(S)
    <3>1. Endless \subseteq SUBSET S
      OBVIOUS
    <3> HIDE DEF Endless
    <3> QED
      BY <1>1, <2>1, <3>1, WFMin
  <2>3. r # {}
    <3>1. Units(f, {}) = {}
      BY DEF Units
    <3> QED
      BY <3>1, FS_EmptySet
  <2>4. PICK x : x \in r
    BY <2>3
  <2>5. <<r \ {x}, r>> \in StrictSubsetOrdering(S)
    BY <2>4 DEF StrictSubsetOrdering
  <2> DEFINE rest == Units(f, r \ {x})
             mine == Column(f, x)
  <2>6. IsFiniteSet(rest)
    BY <2>2, <2>5
  <2>7. f[x] \in Nat
    BY <2>4
  <2>8. IsFiniteSet(mine) /\ Units(f, r) = rest \cup mine
    BY <2>4, <2>7, ColumnCount, UnitsOfOne
  <2> HIDE DEF rest, mine
  <2>9. IsFiniteSet(rest \cup mine)
    BY <2>6, <2>8, FS_Union
  <2> QED
    BY <2>8, <2>9
<1> QED
  BY <1>1, FS_CardinalityType

LEMMA CountOfOne ==
    ASSUME NEW S, IsFiniteSet(S), NEW f, \A y \in S : f[y] \in Nat, NEW s \in SUBSET S, NEW x \in s
    PROVE  Cardinality(Units(f, s)) = f[x] + Cardinality(Units(f, s \ {x}))
<1> DEFINE rest == Units(f, s \ {x})
           mine == Column(f, x)
<1>1. f[x] \in Nat
  OBVIOUS
<1>2. IsFiniteSet(mine) /\ Cardinality(mine) = f[x]
  BY <1>1, ColumnCount
<1>3. IsFiniteSet(rest) /\ Cardinality(rest) \in Nat
  BY UnitsFinite
<1>4. Units(f, s) = rest \cup mine /\ rest \cap mine = {}
  BY <1>1, UnitsOfOne
<1> HIDE DEF rest, mine
<1>5. Cardinality(rest \cup mine) =
        Cardinality(rest) + Cardinality(mine) - Cardinality(rest \cap mine)
  BY <1>2, <1>3, FS_Union
<1>6. Cardinality(rest \cap mine) = 0
  BY <1>4, FS_EmptySet
<1>7. Cardinality(Units(f, s)) = f[x] + Cardinality(rest)
  BY <1>1, <1>2, <1>3, <1>4, <1>5, <1>6
<1> QED
  BY <1>7 DEF rest

-----------------------------------------------------------------------------
(* The fold *)

Pick(S) == CHOOSE x \in S : TRUE

\* The equation that defines the fold's recursive function.
Folds(g, f, S) ==
    g = [s \in SUBSET S |-> IF s = {} THEN 0 ELSE f[Pick(s)] + g[s \ {Pick(s)}]]

LEMMA SumIsFold ==
    ASSUME NEW f, NEW S
    PROVE  Sum(f, S) = (CHOOSE g : Folds(g, f, S))[S]
BY DEF Sum, FoldFunctionOnSet, MapThenFoldSet, Folds, Pick

Counts(f, S) == [s \in SUBSET S |-> Cardinality(Units(f, s))]

LEMMA CountingFolds ==
    ASSUME NEW S, IsFiniteSet(S), NEW f, \A x \in S : f[x] \in Nat
    PROVE  Folds(Counts(f, S), f, S)
<1> SUFFICES ASSUME NEW s \in SUBSET S
             PROVE  Counts(f, S)[s] =
                      IF s = {} THEN 0 ELSE f[Pick(s)] + Counts(f, S)[s \ {Pick(s)}]
  BY DEF Folds, Counts
<1>1. CASE s = {}
  <2>1. Units(f, {}) = {}
    BY DEF Units
  <2> QED
    BY <1>1, <2>1, FS_EmptySet DEF Counts
<1>2. CASE s # {}
  <2>1. Pick(s) \in s
    BY <1>2 DEF Pick
  <2> QED
    BY <1>2, <2>1, CountOfOne DEF Counts
<1> QED
  BY <1>1, <1>2

LEMMA FoldsAt ==
    ASSUME NEW S, NEW f, NEW g, Folds(g, f, S), NEW s \in SUBSET S
    PROVE  g[s] = IF s = {} THEN 0 ELSE f[Pick(s)] + g[s \ {Pick(s)}]
<1> DEFINE Value(r) == IF r = {} THEN 0 ELSE f[Pick(r)] + g[r \ {Pick(r)}]
<1>1. g = [r \in SUBSET S |-> Value(r)]
  BY DEF Folds
<1> HIDE DEF Value
<1>2. g[s] = Value(s)
  BY <1>1
<1> QED
  BY <1>2 DEF Value

LEMMA FoldsCount ==
    ASSUME NEW S, IsFiniteSet(S), NEW f, \A x \in S : f[x] \in Nat, NEW g, Folds(g, f, S)
    PROVE  g = Counts(f, S)
<1> DEFINE Wrong == {s \in SUBSET S : g[s] # Counts(f, S)[s]}
<1>1. ASSUME Wrong # {} PROVE FALSE
  <2>1. IsWellFoundedOn(StrictSubsetOrdering(S), SUBSET S)
    BY FS_StrictSubsetOrderingWellFounded, FS_FiniteSubsetsOfFinite
  <2>2. PICK s \in Wrong : \A r \in Wrong : <<r, s>> \notin StrictSubsetOrdering(S)
    <3>1. Wrong \subseteq SUBSET S
      OBVIOUS
    <3> HIDE DEF Wrong
    <3> QED
      BY <1>1, <2>1, <3>1, WFMin
  <2> DEFINE Value(h) == IF s = {} THEN 0 ELSE f[Pick(s)] + h[s \ {Pick(s)}]
  <2>3. g[s] = Value(g) /\ Counts(f, S)[s] = Value(Counts(f, S))
    <3>1. Folds(Counts(f, S), f, S)
      BY CountingFolds
    <3>2. s \in SUBSET S
      OBVIOUS
    <3> QED
      BY <3>1, <3>2, FoldsAt
  <2>4. CASE s = {}
    BY <2>2, <2>3, <2>4
  <2>5. CASE s # {}
    <3>1. Pick(s) \in s
      BY <2>5 DEF Pick
    <3>2. <<s \ {Pick(s)}, s>> \in StrictSubsetOrdering(S)
      BY <3>1 DEF StrictSubsetOrdering
    <3>3. g[s \ {Pick(s)}] = Counts(f, S)[s \ {Pick(s)}]
      BY <2>2, <3>2
    <3> QED
      BY <2>2, <2>3, <2>5, <3>3
  <2> QED
    BY <2>4, <2>5
<1>2. \A s \in SUBSET S : g[s] = Counts(f, S)[s]
  BY <1>1
<1>3. /\ g = [s \in SUBSET S |-> g[s]]
      /\ Counts(f, S) = [s \in SUBSET S |-> Counts(f, S)[s]]
  BY DEF Folds, Counts
<1> QED
  BY <1>2, <1>3

\* A fold with + counts the units.
LEMMA SumCounts ==
    ASSUME NEW S, IsFiniteSet(S), NEW f, \A x \in S : f[x] \in Nat
    PROVE  Sum(f, S) = Cardinality(Units(f, S))
<1> DEFINE g == CHOOSE h : Folds(h, f, S)
<1>1. Folds(g, f, S)
  BY CountingFolds
<1> HIDE DEF g
<1>2. g = Counts(f, S)
  BY <1>1, FoldsCount
<1>3. Sum(f, S) = g[S]
  BY SumIsFold DEF g
<1> QED
  BY <1>2, <1>3 DEF Counts

-----------------------------------------------------------------------------
(* Sums *)

LEMMA SumType ==
    ASSUME NEW S, IsFiniteSet(S), NEW f, \A x \in S : f[x] \in Nat
    PROVE  Sum(f, S) \in Nat
BY SumCounts, UnitsFinite

LEMMA SumOfNone ==
    ASSUME NEW f
    PROVE  Sum(f, {}) = 0
<1>1. Units(f, {}) = {}
  BY DEF Units
<1>2. IsFiniteSet({}) /\ \A x \in {} : f[x] \in Nat
  BY FS_EmptySet
<1> QED
  BY <1>1, <1>2, SumCounts, FS_EmptySet

\* One summand can be taken out.
LEMMA SumOfOne ==
    ASSUME NEW S, IsFiniteSet(S), NEW f, \A y \in S : f[y] \in Nat, NEW x \in S
    PROVE  /\ Sum(f, S) = f[x] + Sum(f, S \ {x})
           /\ Sum(f, S \ {x}) \in Nat
<1> DEFINE rest == S \ {x}
<1>1. IsFiniteSet(rest) /\ \A y \in rest : f[y] \in Nat
  BY FS_RemoveElement
<1>2. Cardinality(Units(f, S)) = f[x] + Cardinality(Units(f, rest))
  BY CountOfOne
<1> HIDE DEF rest
<1>3. Sum(f, rest) = Cardinality(Units(f, rest)) /\ Sum(f, rest) \in Nat
  BY <1>1, SumCounts, SumType
<1>4. Sum(f, S) = Cardinality(Units(f, S))
  BY SumCounts
<1> QED
  BY <1>2, <1>3, <1>4 DEF rest

\* The sums of two sets with nothing in common add up.
LEMMA SumSplit ==
    ASSUME NEW A, NEW B, IsFiniteSet(A), IsFiniteSet(B), A \cap B = {},
           NEW f, \A x \in A \cup B : f[x] \in Nat
    PROVE  Sum(f, A \cup B) = Sum(f, A) + Sum(f, B)
<1> DEFINE left == Units(f, A)
           right == Units(f, B)
           both == Units(f, A \cup B)
<1>1. both = left \cup right /\ left \cap right = {}
  BY DEF Units
<1>2. IsFiniteSet(A \cup B)
  BY FS_Union
<1>3. IsFiniteSet(left) /\ IsFiniteSet(right)
  BY UnitsFinite
<1>4. /\ Sum(f, A) = Cardinality(left)
      /\ Sum(f, B) = Cardinality(right)
      /\ Sum(f, A \cup B) = Cardinality(both)
  BY <1>2, SumCounts
<1> HIDE DEF left, right, both
<1>5. /\ Cardinality(left \cup right) =
           Cardinality(left) + Cardinality(right) - Cardinality(left \cap right)
      /\ Cardinality(left) \in Nat /\ Cardinality(right) \in Nat
  BY <1>3, FS_Union, FS_CardinalityType
<1>6. Cardinality(left \cap right) = 0
  BY <1>1, FS_EmptySet
<1> QED
  BY <1>1, <1>4, <1>5, <1>6

\* The sum of a subset is no larger.
LEMMA SumOfPart ==
    ASSUME NEW S, IsFiniteSet(S), NEW f, \A x \in S : f[x] \in Nat, NEW s \in SUBSET S
    PROVE  Sum(f, s) <= Sum(f, S) /\ Sum(f, s) \in Nat /\ Sum(f, S) \in Nat
<1>1. IsFiniteSet(s) /\ IsFiniteSet(S \ s)
  BY FS_Subset
<1>2. Sum(f, s) \in Nat /\ Sum(f, S \ s) \in Nat
  BY <1>1, SumType
<1>3. Sum(f, s \cup (S \ s)) = Sum(f, s) + Sum(f, S \ s)
  BY <1>1, SumSplit
<1>4. s \cup (S \ s) = S
  OBVIOUS
<1> DEFINE part == Sum(f, s)
           rest == Sum(f, S \ s)
           whole == Sum(f, S)
<1>5. whole = part + rest /\ part \in Nat /\ rest \in Nat
  BY <1>2, <1>3, <1>4
<1> HIDE DEF part, rest, whole
<1>6. part <= whole /\ whole \in Nat
  BY <1>5
<1> QED
  BY <1>5, <1>6 DEF part, whole

\* Equal summands have equal sums.
LEMMA SumSame ==
    ASSUME NEW S, IsFiniteSet(S), NEW f, \A x \in S : f[x] \in Nat,
           NEW g, \A x \in S : g[x] = f[x]
    PROVE  Sum(g, S) = Sum(f, S)
<1>1. Units(g, S) = Units(f, S)
  BY DEF Units
<1> QED
  BY <1>1, SumCounts

\* Summands may be renamed.
LEMMA SumAlong ==
    ASSUME NEW S, NEW T, IsFiniteSet(S), NEW f, \A x \in S : f[x] \in Nat,
           NEW b \in Bijection(S, T), NEW g, \A x \in S : g[b[x]] = f[x]
    PROVE  Sum(g, T) = Sum(f, S)
<1>0. /\ b \in [S -> T]
      /\ \A x, y \in S : b[x] = b[y] => x = y
      /\ \A z \in T : \E x \in S : b[x] = z
  BY DEF Bijection, Injection, Surjection, IsInjective
<1>1. IsFiniteSet(T)
  BY FS_Bijection DEF ExistsBijection
<1>2. \A z \in T : g[z] \in Nat
  BY <1>0
<1> DEFINE us == Units(f, S)
           ut == Units(g, T)
           moved == [u \in us |-> <<b[u[1]], u[2]>>]
<1>3. \A u \in us : moved[u] \in ut
  BY <1>0 DEF Units
<1>4. ASSUME NEW u \in us, NEW w \in us, moved[u] = moved[w]
      PROVE  u = w
  <2>1. /\ u = <<u[1], u[2]>> /\ u[1] \in S
        /\ w = <<w[1], w[2]>> /\ w[1] \in S
    BY DEF Units
  <2>2. b[u[1]] = b[w[1]] /\ u[2] = w[2]
    BY <1>4
  <2>3. u[1] = w[1]
    BY <1>0, <2>1, <2>2
  <2> QED
    BY <2>1, <2>2, <2>3
<1>5. ASSUME NEW v \in ut PROVE \E u \in us : moved[u] = v
  <2>1. PICK z \in T, i \in Nat : v = <<z, i>> /\ i < g[z]
    BY DEF Units
  <2>2. PICK x \in S : b[x] = z
    BY <1>0
  <2>3. <<x, i>> \in us
    BY <2>1, <2>2 DEF Units
  <2> QED
    BY <2>1, <2>2, <2>3
<1>6. IsFiniteSet(us)
  BY UnitsFinite
<1>7. Sum(f, S) = Cardinality(us) /\ Sum(g, T) = Cardinality(ut)
  BY <1>1, <1>2, SumCounts
<1>8. moved = [u \in us |-> moved[u]]
  OBVIOUS
<1> HIDE DEF us, ut, moved
<1>9. moved \in Bijection(us, ut)
  BY <1>3, <1>4, <1>5, <1>8 DEF Bijection, Injection, Surjection, IsInjective
<1> QED
  BY <1>6, <1>7, <1>9, FS_Bijection DEF ExistsBijection

\* One summand more by one.
LEMMA SumOfMore ==
    ASSUME NEW S, IsFiniteSet(S), NEW f, \A y \in S : f[y] \in Nat, NEW x \in S,
           NEW g, g[x] = f[x] + 1, \A y \in S \ {x} : g[y] = f[y]
    PROVE  Sum(g, S) = Sum(f, S) + 1 /\ Sum(f, S) \in Nat
<1> DEFINE rest == S \ {x}
<1>1. f[x] \in Nat
  OBVIOUS
<1>2. \A y \in S : g[y] \in Nat
  <2>1. \A y \in S : y = x \/ y \in S \ {x}
    OBVIOUS
  <2> QED
    BY <1>1, <2>1
<1>3. Sum(f, S) = f[x] + Sum(f, rest) /\ Sum(f, rest) \in Nat
  BY SumOfOne
<1>4. Sum(g, S) = g[x] + Sum(g, rest)
  BY <1>2, SumOfOne
<1>5. Sum(g, rest) = Sum(f, rest)
  <2>1. IsFiniteSet(rest) /\ \A y \in rest : f[y] \in Nat /\ g[y] = f[y]
    BY FS_RemoveElement
  <2> HIDE DEF rest
  <2> QED
    BY <2>1, SumSame
<1> QED
  BY <1>1, <1>3, <1>4, <1>5

LEMMA IntervalFinite ==
    ASSUME NEW m \in Int, NEW n \in Int
    PROVE  IsFiniteSet(m..n)
BY FS_Interval

\* Summands that move up by one keep their sum.
LEMMA SumShifted ==
    ASSUME NEW m \in Int, NEW n \in Int, NEW f, \A a \in m..n : f[a] \in Nat,
           NEW g, \A a \in m..n : g[a + 1] = f[a]
    PROVE  Sum(g, (m + 1)..(n + 1)) = Sum(f, m..n)
<1> DEFINE S == m..n
           T == (m + 1)..(n + 1)
           up == [a \in S |-> a + 1]
<1>1. IsFiniteSet(S)
  BY IntervalFinite
<1>2. up \in [S -> T]
  OBVIOUS
<1>3. \A a, c \in S : up[a] = up[c] => a = c
  OBVIOUS
<1>4. \A t \in T : \E a \in S : up[a] = t
  <2> SUFFICES ASSUME NEW t \in T PROVE \E a \in S : up[a] = t
    OBVIOUS
  <2>1. t - 1 \in S /\ (t - 1) + 1 = t
    OBVIOUS
  <2> QED
    BY <2>1
<1>5. \A a \in S : g[up[a]] = f[a]
  OBVIOUS
<1>6. \A a \in S : f[a] \in Nat
  OBVIOUS
<1> HIDE DEF S, T, up
<1>7. up \in Bijection(S, T)
  BY <1>2, <1>3, <1>4, Fun_IsBij
<1>8. Sum(g, T) = Sum(f, S)
  BY <1>1, <1>5, <1>6, <1>7, SumAlong
<1> QED
  BY <1>8 DEF S, T

\* A sum of zeros and ones counts the ones.
LEMMA SumOfOnes ==
    ASSUME NEW S, IsFiniteSet(S), NEW f, \A x \in S : f[x] \in {0, 1}
    PROVE  Sum(f, S) = Cardinality({x \in S : f[x] = 1})
<1> DEFINE ones == {x \in S : f[x] = 1}
           us == Units(f, S)
           b == [x \in ones |-> <<x, 0>>]
<1>1. \A x \in S : f[x] \in Nat
  OBVIOUS
<1>2. Sum(f, S) = Cardinality(us)
  BY <1>1, SumCounts
<1>3. IsFiniteSet(ones)
  BY FS_Subset
<1>4. b \in [ones -> us]
  BY DEF Units
<1>5. \A x, y \in ones : b[x] = b[y] => x = y
  OBVIOUS
<1>6. ASSUME NEW u \in us PROVE \E x \in ones : b[x] = u
  <2>1. PICK x \in S, i \in Nat : u = <<x, i>> /\ i < f[x]
    BY DEF Units
  <2>2. f[x] = 1 /\ i = 0
    BY <2>1
  <2> QED
    BY <2>1, <2>2
<1> HIDE DEF ones, us, b
<1>7. b \in Bijection(ones, us)
  BY <1>4, <1>5, <1>6, Fun_IsBij
<1>8. Cardinality(us) = Cardinality(ones)
  BY <1>3, <1>7, FS_Bijection DEF ExistsBijection
<1> QED
  BY <1>2, <1>8 DEF ones

\* Of positive summands, a part with the sum of the whole is the whole.
LEMMA SumOfWhole ==
    ASSUME NEW S, IsFiniteSet(S), NEW f, \A x \in S : f[x] \in Nat \ {0},
           NEW s \in SUBSET S, Sum(f, s) = Sum(f, S)
    PROVE  s = S
<1> SUFFICES ASSUME NEW x \in S, x \notin s PROVE FALSE
  OBVIOUS
<1> DEFINE rest == S \ {x}
<1>1. \A y \in S : f[y] \in Nat
  OBVIOUS
<1>2. Sum(f, S) = f[x] + Sum(f, rest) /\ Sum(f, rest) \in Nat
  BY <1>1, SumOfOne
<1>3. Sum(f, s) <= Sum(f, rest) /\ Sum(f, s) \in Nat
  <2>1. s \in SUBSET rest /\ \A y \in rest : f[y] \in Nat
    BY <1>1
  <2>2. IsFiniteSet(rest)
    BY FS_RemoveElement
  <2> HIDE DEF rest
  <2> QED
    BY <2>1, <2>2, SumOfPart
<1>4. f[x] \in Nat /\ f[x] > 0
  OBVIOUS
<1> DEFINE part == Sum(f, s)
           less == Sum(f, rest)
<1>5. part = f[x] + less /\ part <= less /\ part \in Nat /\ less \in Nat
  BY <1>2, <1>3
<1> HIDE DEF part, less
<1> QED
  BY <1>4, <1>5
=============================================================================
