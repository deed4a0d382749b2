------------------------- MODULE ReconciliationProofs -------------------------
(***************************************************************************)
(* Proofs about Reconciliation: what the admin's reports and the script    *)
(* make of a settlement's outcome is what has happened, for any number of  *)
(* workers and deposits, any amounts and any faults, with lapsing locks    *)
(* and stale copies, while no PATCH overrules the workers.                 *)
(***************************************************************************)
EXTENDS Reconciliation, ManifestProofs, SumLemmas

-----------------------------------------------------------------------------
(* The sums of the reports *)

LEMMA DepositsFinite == IsFiniteSet(Deposits)
BY SettlementAssumption, IntervalFinite DEF Deposits

LEMMA TotalIsSum ==
    ASSUME NEW ds
    PROVE  Total(ds) = Sum(Amount, ds)
BY DEF Total, Sum, MapThenSumSet, FoldFunctionOnSet, MapThenFoldSet

\* What is paid for a part of the deposits is no more than for all of them, and
\* the same for all of them only.
LEMMA TotalOfPart ==
    ASSUME NEW ds \in SUBSET Deposits, NEW some \in SUBSET ds
    PROVE  /\ Total(some) \in Nat /\ Total(ds) \in Nat
           /\ Total(some) <= Total(ds)
           /\ Total(some) = Total(ds) => some = ds
<1>1. IsFiniteSet(ds) /\ \A d \in ds : Amount[d] \in Nat \ {0}
  BY DepositsFinite, FS_Subset, AmountAssumption
<1>2. \A d \in ds : Amount[d] \in Nat
  BY <1>1
<1>3. Total(some) = Sum(Amount, some) /\ Total(ds) = Sum(Amount, ds)
  BY TotalIsSum
<1>4. /\ Sum(Amount, some) \in Nat /\ Sum(Amount, ds) \in Nat
      /\ Sum(Amount, some) <= Sum(Amount, ds)
  BY <1>1, <1>2, SumOfPart
<1>5. Sum(Amount, some) = Sum(Amount, ds) => some = ds
  BY <1>1, SumOfWhole
<1> QED
  BY <1>3, <1>4, <1>5

LEMMA TotalOfBoth ==
    ASSUME NEW A \in SUBSET Deposits, NEW B \in SUBSET Deposits, A \cap B = {}
    PROVE  Total(A \cup B) = Total(A) + Total(B)
<1>1. IsFiniteSet(A) /\ IsFiniteSet(B)
  BY DepositsFinite, FS_Subset
<1>2. \A d \in A \cup B : Amount[d] \in Nat
  BY AmountAssumption
<1>3. Sum(Amount, A \cup B) = Sum(Amount, A) + Sum(Amount, B)
  BY <1>1, <1>2, SumSplit
<1> QED
  BY <1>3, TotalIsSum

\* The equation that defines the fold in Lines, and that in a sum of its summands.
LineFolds(g, e) ==
    g = [s \in SUBSET Deposits |->
            IF s = {} THEN 0 ELSE ledger[Pick(s)][e] + g[s \ {Pick(s)}]]
LinesOf(e) == [d \in Deposits |-> ledger[d][e]]

LEMMA LineFoldsAreFolds ==
    ASSUME NEW g, NEW e
    PROVE  LineFolds(g, e) <=> Folds(g, LinesOf(e), Deposits)
<1> DEFINE ByLine(s) == IF s = {} THEN 0 ELSE ledger[Pick(s)][e] + g[s \ {Pick(s)}]
           BySummand(s) == IF s = {} THEN 0 ELSE LinesOf(e)[Pick(s)] + g[s \ {Pick(s)}]
<1>1. \A s \in SUBSET Deposits : ByLine(s) = BySummand(s)
  BY DEF Pick, LinesOf
<1>2. LineFolds(g, e) <=> g = [s \in SUBSET Deposits |-> ByLine(s)]
  BY DEF LineFolds
<1>3. Folds(g, LinesOf(e), Deposits) <=> g = [s \in SUBSET Deposits |-> BySummand(s)]
  BY DEF Folds
<1> HIDE DEF ByLine, BySummand
<1> QED
  BY <1>1, <1>2, <1>3

LEMMA LinesAreSum ==
    ASSUME NEW e, \A d \in Deposits : ledger[d][e] \in Nat
    PROVE  Lines(e) = Sum(LinesOf(e), Deposits)
<1> DEFINE g == CHOOSE h : LineFolds(h, e)
           f == LinesOf(e)
<1>1. Lines(e) = g[Deposits]
  BY DEF Lines, LineFolds, MapThenSumSet, MapThenFoldSet, Pick
<1>2. \A d \in Deposits : f[d] \in Nat
  BY DEF LinesOf
<1>3. LineFolds(Counts(f, Deposits), e)
  <2> HIDE DEF g
  <2>1. Folds(Counts(f, Deposits), f, Deposits)
    <3> HIDE DEF f
    <3> QED
      BY <1>2, DepositsFinite, CountingFolds
  <2> QED
    BY <2>1, LineFoldsAreFolds
<1>4. LineFolds(g, e)
  BY <1>3
<1> HIDE DEF g
<1>5. Folds(g, f, Deposits)
  BY <1>4, LineFoldsAreFolds
<1> HIDE DEF f
<1>6. g = Counts(f, Deposits)
  BY <1>2, <1>5, DepositsFinite, FoldsCount
<1>7. Counts(f, Deposits)[Deposits] = Cardinality(Units(f, Deposits))
  BY DEF Counts
<1>8. Sum(f, Deposits) = Cardinality(Units(f, Deposits))
  BY <1>2, DepositsFinite, SumCounts
<1> QED
  BY <1>1, <1>6, <1>7, <1>8 DEF f

\* Where each deposit of a set has one line of an event and the others none, the
\* lines are as many as the deposits.
LEMMA LinesCount ==
    ASSUME NEW e, NEW ds \in SUBSET Deposits,
           \A d \in Deposits : ledger[d][e] = IF d \in ds THEN 1 ELSE 0
    PROVE  Lines(e) = Cardinality(ds)
<1> DEFINE f == LinesOf(e)
<1>1. \A d \in Deposits : f[d] \in {0, 1} /\ (f[d] = 1 <=> d \in ds)
  BY DEF LinesOf
<1>2. Lines(e) = Sum(f, Deposits)
  <2>1. \A d \in Deposits : ledger[d][e] \in Nat
    OBVIOUS
  <2> QED
    BY <2>1, LinesAreSum
<1> HIDE DEF f
<1>3. Sum(f, Deposits) = Cardinality({d \in Deposits : f[d] = 1})
  BY <1>1, DepositsFinite, SumOfOnes
<1>4. {d \in Deposits : f[d] = 1} = ds
  BY <1>1
<1> QED
  BY <1>2, <1>3, <1>4

-----------------------------------------------------------------------------
(* What a settled auction looks like *)

\* The audits' invariant.
Audited == IInv /\ MInv /\ Unpatched /\ SettledMeansMoved /\ SkippedUntouched

LEMMA HavingParts ==
    /\ Having("captured") \in SUBSET Deposits
    /\ Having("refunded") \in SUBSET Deposits
    /\ Having("captured") \cap Having("refunded") = {}
    /\ Having("captured") \cup Having("refunded") \in SUBSET Deposits
BY DEF Having

LEMMA SettledHaving ==
    ASSUME Audited, auction = "settled"
    PROVE  /\ manifest.status # "absent"
           /\ Having("captured") = Kept \cap {winner}
           /\ Having("refunded") = Kept \ {winner}
           /\ Having("held") = {} /\ Having("refund_pending") = {}
<1>1. \A d \in Kept : d \in Deposits /\ deposit[d] = Goal(d)
  BY DEF Audited, SettledMeansMoved, Moved, Kept, Listed
<1>2. manifest.status # "absent"
  BY DEF Audited, Unpatched
<1>3. \A d \in Deposits \ Kept : deposit[d] = "collected"
  BY <1>2 DEF Audited, SkippedUntouched, Kept
<1> QED
  BY <1>1, <1>2, <1>3 DEF Having, Goal

LEMMA LedgerLines ==
    ASSUME LedgerMatchesDeposit, NEW d \in Deposits,
           deposit[d] # "refund_pending"
    PROVE  /\ ledger[d]["deposit_captured"] = IF d \in Having("captured") THEN 1 ELSE 0
           /\ ledger[d]["deposit_refunded"] = IF d \in Having("refunded") THEN 1 ELSE 0
           /\ deposit[d] = "refunded" => ledger[d]["deposit_refund_initiated"] = 1
<1>1. CASE deposit[d] = "captured"
  BY <1>1 DEF LedgerMatchesDeposit, Story, Having
<1>2. CASE deposit[d] = "refunded"
  BY <1>2 DEF LedgerMatchesDeposit, Story, Having
<1>3. CASE deposit[d] \notin {"captured", "refunded"}
  BY <1>3 DEF LedgerMatchesDeposit, Story, Having
<1> QED
  BY <1>1, <1>2, <1>3

\* The script finds every captured and refunded deposit's lines in order, at any
\* time.
LEMMA LinesInOrder ==
    ASSUME Audited
    PROVE  CapturedOnce /\ RefundedOnce
<1>1. LedgerMatchesDeposit
  BY DEF Audited, IInv, MoneyInv
<1>2. ASSUME NEW d \in Having("captured") PROVE ledger[d]["deposit_captured"] = 1
  BY <1>1, LedgerLines DEF Having
<1>3. ASSUME NEW d \in Having("refunded")
      PROVE  /\ ledger[d]["deposit_refund_initiated"] > 0
             /\ ledger[d]["deposit_refunded"] = 1
  <2>1. d \in Deposits /\ deposit[d] = "refunded"
    BY DEF Having
  <2>2. /\ ledger[d]["deposit_refund_initiated"] = 1
        /\ ledger[d]["deposit_refunded"] = 1
    BY <1>1, <2>1, LedgerLines
  <2> QED
    BY <2>2
<1> QED
  BY <1>2, <1>3 DEF CapturedOnce, RefundedOnce

\* What is counted as captured and refunded, the POS has moved.
LEMMA NothingInvented ==
    ASSUME Audited
    PROVE  /\ Total(Having("captured")) + Total(Having("refunded")) <= Total(posMoved)
           /\ Total(Having("captured")) + Total(Having("refunded"))
                = Total(Having("captured") \cup Having("refunded"))
<1> DEFINE done == Having("captured") \cup Having("refunded")
<1>1. Total(done) = Total(Having("captured")) + Total(Having("refunded"))
  BY HavingParts, TotalOfBoth
<1>2. posMoved \in SUBSET Deposits
  BY DEF Audited, IInv, TypeOK
<1>3. done \in SUBSET posMoved
  BY DEF Having, Audited, IInv, MoneyInv, MoneyMovedFirst
<1> HIDE DEF done
<1>4. Total(done) <= Total(posMoved)
  BY <1>2, <1>3, TotalOfPart
<1> QED
  BY <1>1, <1>4 DEF done

LEMMA EntriesRight ==
    ASSUME Audited, auction = "settled"
    PROVE  LedgerEntriesCount
<1>1. \A d \in Deposits : deposit[d] # "refund_pending"
  BY SettledHaving DEF Having
<1>2. LedgerMatchesDeposit
  BY DEF Audited, IInv, MoneyInv
<1>3. Lines("deposit_captured") = Cardinality(Having("captured"))
  BY <1>1, <1>2, LedgerLines, LinesCount, HavingParts
<1>4. Lines("deposit_refunded") = Cardinality(Having("refunded"))
  BY <1>1, <1>2, LedgerLines, LinesCount, HavingParts
<1> QED
  BY <1>3, <1>4 DEF LedgerEntriesCount

\* The two balances are those of all deposits only if none was skipped.
LEMMA BalancesRight ==
    ASSUME Audited, auction = "settled"
    PROVE  /\ Total(Having("captured")) + Total(Having("refunded")) = Total(Kept)
           /\ RefundBalance <=> Kept = Deposits
           /\ Balanced <=> Kept = Deposits
<1> DEFINE captured == Total(Having("captured"))
           refunded == Total(Having("refunded"))
           kept == Total(Kept)
           all == Total(Deposits)
<1>1. Having("captured") \cup Having("refunded") = Kept
  BY SettledHaving
<1>2. captured + refunded = kept
  BY <1>1, NothingInvented
<1>3. Kept \in SUBSET Deposits /\ Deposits \in SUBSET Deposits
  BY DEF Kept, Listed
<1>4. captured \in Nat /\ refunded \in Nat
  BY <1>3, HavingParts, TotalOfPart
<1>5. all \in Nat /\ (kept = all => Kept = Deposits)
  BY <1>3, TotalOfPart
<1>6. Kept = Deposits => kept = all
  OBVIOUS
<1>7. (RefundBalance <=> refunded = all - captured)
      /\ (Balanced <=> all = captured + refunded)
  BY DEF RefundBalance, Balanced
<1> HIDE DEF captured, refunded, kept, all
<1>8. /\ refunded = all - captured <=> kept = all
      /\ all = captured + refunded <=> kept = all
  BY <1>2, <1>4, <1>5
<1> QED
  BY <1>2, <1>5, <1>6, <1>7, <1>8 DEF captured, refunded, kept

\* What the report asks of the winner and of the losers.
LEMMA PartiesRight ==
    ASSUME Audited, auction = "settled"
    PROVE  /\ WinnerCharged <=> winner \in Kept \cup {0} /\ Covered
           /\ AllLosersRefunded <=> Deposits \ {winner} \subseteq Kept
<1>1. /\ Having("captured") = Kept \cap {winner}
      /\ Having("refunded") = Kept \ {winner}
  BY SettledHaving
<1>2. Kept \subseteq Deposits /\ 0 \notin Deposits /\ winner \in {0} \cup Deposits
  BY DEF Kept, Listed, Deposits, Audited, IInv, TypeOK
<1>3. winner # 0 => (deposit[winner] = "captured" <=> winner \in Kept)
  BY <1>1, <1>2 DEF Having
<1>4. winner = 0 => Having("captured") = {}
  BY <1>1, <1>2
<1>5. WinnerCharged <=> winner \in Kept \cup {0} /\ Covered
  BY <1>2, <1>3, <1>4 DEF WinnerCharged, Covered
<1>6. AllLosersRefunded <=> Deposits \ {winner} \subseteq Kept
  BY <1>1 DEF AllLosersRefunded
<1> QED
  BY <1>5, <1>6

LEMMA AuditedTellsTruth == Audited => AuditsTellTruth
<1> SUFFICES ASSUME Audited PROVE AuditsTellTruth
  OBVIOUS
<1>1. Summary.captured + Summary.refunded <= Total(posMoved)
  BY NothingInvented DEF Summary
<1>2. ASSUME Summary.settled = 1
      PROVE  /\ Summary.captured + Summary.refunded = Total(Kept)
             /\ ManifestExists /\ NothingStuck /\ LedgerEntriesCount /\ ManifestConsistent
             /\ WinnerCharged <=> winner \in Kept \cup {0} /\ Covered
             /\ AllLosersRefunded <=> Deposits \ {winner} \subseteq Kept
             /\ RefundBalance <=> Kept = Deposits
             /\ Reconciles <=> Kept = Deposits /\ Covered
             /\ Validates <=> Kept = Deposits
  <2>1. auction = "settled"
    BY <1>2 DEF Summary
  <2>2. Summary.captured + Summary.refunded = Total(Kept)
    BY <2>1, BalancesRight DEF Summary
  <2>3. ManifestExists /\ NothingStuck
    BY <2>1, SettledHaving DEF ManifestExists, NothingStuck
  <2>4. LedgerEntriesCount
    BY <2>1, EntriesRight
  <2>5. ManifestConsistent
    BY DEF ManifestConsistent, Audited, IInv, AcknowledgedMoved, Moved
  <2>6. /\ WinnerCharged <=> winner \in Kept \cup {0} /\ Covered
        /\ AllLosersRefunded <=> Deposits \ {winner} \subseteq Kept
    BY <2>1, PartiesRight
  <2>7. (RefundBalance <=> Kept = Deposits) /\ (Balanced <=> Kept = Deposits)
    BY <2>1, BalancesRight
  <2>8. Reconciles <=> Kept = Deposits /\ Covered
    <3>1. winner \in {0} \cup Deposits
      BY DEF Audited, IInv, TypeOK
    <3> QED
      BY <2>3, <2>4, <2>5, <2>6, <2>7, <3>1 DEF Reconciles
  <2>9. Validates <=> Kept = Deposits
    BY <2>1, <2>7, LinesInOrder DEF Validates
  <2> QED
    BY <2>2, <2>3, <2>4, <2>5, <2>6, <2>7, <2>8, <2>9
<1>3. Summary.failed = 1 => Validates
  BY LinesInOrder DEF Summary, Validates
<1> QED
  BY <1>1, <1>2, <1>3 DEF AuditsTellTruth

\* While no PATCH overrules the workers, every audit of a settlement tells the
\* truth about it: whatever workers, faults, lapsing locks and stale copies it has
\* seen, and whatever its deposits amount to.
THEOREM AuditsCorrect ==
    ASSUME ~AdminPatches
    PROVE  Spec => []AuditsTellTruth
<1>1. Init => Unpatched /\ SettledMeansMoved /\ SkippedUntouched
  BY DEF Init, Unpatched, SettledMeansMoved, SkippedUntouched, NoRow
<1>2. /\ IInv /\ MInv /\ Unpatched /\ SettledMeansMoved /\ SkippedUntouched /\ [Next]_vars
      => Unpatched' /\ SettledMeansMoved' /\ SkippedUntouched'
  BY UnpatchedPreserved, SettledPreserved, SkippedPreserved
<1>3. IInv /\ MInv /\ Unpatched /\ SettledMeansMoved /\ SkippedUntouched => AuditsTellTruth
  BY AuditedTellsTruth DEF Audited
<1> QED
  BY <1>1, <1>2, <1>3, MInvInductive, PTL DEF Spec
=============================================================================
