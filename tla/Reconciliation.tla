--------------------------- MODULE Reconciliation ---------------------------
(***************************************************************************)
(* The audits of a settlement: the admin's financial summary, the admin's  *)
(* reconciliation report and the script that validates the ledger.  They   *)
(* only read.  They are taken here at one moment: what they look at no     *)
(* longer changes once the deposits are final.                             *)
(***************************************************************************)
EXTENDS Settlement, FiniteSetsExt

CONSTANTS
    Amount,         \* amount of each deposit
    FinalPrice      \* auctions.final_price, when there is a winner

ASSUME AmountAssumption ==
    /\ Amount \in [Deposits -> Nat \ {0}]
    /\ FinalPrice \in Nat

Having(status) == {d \in Deposits : deposit[d] = status}

Total(ds) == MapThenSumSet(LAMBDA d : Amount[d], ds)

\* number of ledger lines of an event
Lines(event) == MapThenSumSet(LAMBDA d : ledger[d][event], Deposits)

-----------------------------------------------------------------------------
(* GET /admin/finance/summary: what this auction adds to it *)

Summary ==
    [captured |-> Total(Having("captured")),
     refunded |-> Total(Having("refunded")),
     settled  |-> IF auction = "settled" THEN 1 ELSE 0,
     failed   |-> IF auction = "settlement_failed" THEN 1 ELSE 0]

-----------------------------------------------------------------------------
(* GET /admin/finance/reconciliation/:auctionId *)

ManifestExists == manifest.status # "absent"

\* no_stuck_held_deposits, no_stuck_refund_pending
NothingStuck == Having("held") = {} /\ Having("refund_pending") = {}

\* winner_deposit_captured and captured_amount_sufficient, which is asked of a
\* captured deposit only; no_winner_no_capture
WinnerCharged ==
    IF winner # 0
    THEN deposit[winner] = "captured" /\ Amount[winner] >= FinalPrice
    ELSE Having("captured") = {}

AllLosersRefunded == Deposits \ {winner} \subseteq Having("refunded")

RefundBalance ==
    Total(Having("refunded")) = Total(Deposits) - Total(Having("captured"))

\* captured_ledger_entries, refunded_ledger_entries
LedgerEntriesCount ==
    /\ Lines("deposit_captured") = Cardinality(Having("captured"))
    /\ Lines("deposit_refunded") = Cardinality(Having("refunded"))

\* manifest_deposit_consistency: the item's action is the one it was made with
ManifestConsistent ==
    \A d \in Deposits :
        manifest.items[d].status = "acknowledged" => deposit[d] = Goal(d)

Reconciles ==
    /\ ManifestExists /\ NothingStuck /\ WinnerCharged /\ AllLosersRefunded
    /\ RefundBalance /\ LedgerEntriesCount /\ ManifestConsistent

-----------------------------------------------------------------------------
(* scripts/validate-ledger-integrity.ts, of auctions settled or failed *)

CapturedOnce == \A d \in Having("captured") : ledger[d]["deposit_captured"] = 1

\* refunded deposits: initiated, refunded, and not refunded twice
RefundedOnce ==
    \A d \in Having("refunded") :
        /\ ledger[d]["deposit_refund_initiated"] > 0
        /\ ledger[d]["deposit_refunded"] = 1

Balanced ==
    Total(Deposits) = Total(Having("captured")) + Total(Having("refunded"))

Validates ==
    auction \in {"settled", "settlement_failed"} =>
        CapturedOnce /\ RefundedOnce /\ (auction = "settled" => Balanced)

-----------------------------------------------------------------------------
(* Safety *)

\* deposits that were held when the settlement began, the others were skipped
Kept == Listed(manifest.items)

Covered == winner # 0 => Amount[winner] >= FinalPrice

\* The audits raise no false alarm and miss nothing.  The summary never tells of
\* money that the POS has not moved.  Of a settled auction it tells of all the
\* money kept for it, and each check of the report passes unless it is about a
\* participant who was skipped because the deposit was not held, or about a
\* winner whose deposit does not cover the price, neither of which the settlement
\* itself looks at again; the script complains of the skipped ones only, and of a
\* failed settlement never.
AuditsTellTruth ==
    /\ Summary.captured + Summary.refunded <= Total(posMoved)
    /\ Summary.settled = 1 =>
        /\ Summary.captured + Summary.refunded = Total(Kept)
        /\ ManifestExists /\ NothingStuck /\ LedgerEntriesCount /\ ManifestConsistent
        /\ WinnerCharged <=> winner \in Kept \cup {0} /\ Covered
        /\ AllLosersRefunded <=> Deposits \ {winner} \subseteq Kept
        /\ RefundBalance <=> Kept = Deposits
        /\ Reconciles <=> Kept = Deposits /\ Covered
        /\ Validates <=> Kept = Deposits
    /\ Summary.failed = 1 => Validates
=============================================================================
