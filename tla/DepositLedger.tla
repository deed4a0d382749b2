--------------------------- MODULE DepositLedger ---------------------------
(***************************************************************************)
(* What the payment tables promise, whoever drives them: a held deposit is *)
(* either captured in one transaction or refunded in two, and every one of *)
(* those transactions appends exactly one line to the payment ledger.      *)
(* Settlement is shown to implement this specification.                    *)
(***************************************************************************)
EXTENDS Naturals, Lifecycle

CONSTANT Deposits       \* deposits of the participants of one auction

VARIABLES deposit,      \* payments.deposits.status
          ledger,       \* payments.payment_ledger: lines per deposit and event
          refund        \* payments.refunds.status, "none" when there is no row

ledgerVars == <<deposit, ledger, refund>>

LedgerInit ==
    /\ deposit \in [Deposits -> {"collected", "held"}]
    /\ ledger = [d \in Deposits |-> NoLines]
    /\ refund = [d \in Deposits |-> "none"]

AppendLine(d, e) == ledger' = [ledger EXCEPT ![d][e] = @ + 1]

Capture(d) ==
    /\ deposit[d] = "held"
    /\ deposit' = [deposit EXCEPT ![d] = "captured"]
    /\ AppendLine(d, "deposit_captured")
    /\ UNCHANGED refund

InitiateRefund(d) ==
    /\ deposit[d] = "held"
    /\ deposit' = [deposit EXCEPT ![d] = "refund_pending"]
    /\ AppendLine(d, "deposit_refund_initiated")
    /\ refund' = [refund EXCEPT ![d] = "pending"]

CompleteRefund(d) ==
    /\ deposit[d] = "refund_pending"
    /\ deposit' = [deposit EXCEPT ![d] = "refunded"]
    /\ AppendLine(d, "deposit_refunded")
    /\ refund' = [refund EXCEPT ![d] = "completed"]

LedgerNext ==
    \E d \in Deposits : Capture(d) \/ InitiateRefund(d) \/ CompleteRefund(d)

LedgerSpec == LedgerInit /\ [][LedgerNext]_ledgerVars
=============================================================================
