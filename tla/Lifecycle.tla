----------------------------- MODULE Lifecycle -----------------------------
(***************************************************************************)
(* Status machines that the database triggers enforce on auctions and on   *)
(* deposits, and the narrower table the PATCH endpoint consults first.     *)
(* An UPDATE that does not change the status is always let through.        *)
(***************************************************************************)

AuctionStatus ==
    {"draft", "scheduled", "deposit_open", "live", "ending", "ended",
     "settling", "settled", "settlement_failed", "cancelled"}

DepositStatus ==
    {"collected", "held", "captured", "refund_pending", "refunded", "expired"}

\* enforce_auction_outcome_immutability: old status -> legal new statuses
AuctionTransitions ==
    [draft             |-> {"scheduled", "cancelled"},
     scheduled         |-> {"deposit_open", "live", "cancelled"},
     deposit_open      |-> {"live", "cancelled"},
     live              |-> {"ending", "cancelled"},
     ending            |-> {"ended", "cancelled"},
     ended             |-> {"settling"},
     settling          |-> {"settled", "settlement_failed"},
     settlement_failed |-> {"settled"},
     settled           |-> {},
     cancelled         |-> {}]

\* Mutant: no trigger.
EverythingAllowed(old, new) == TRUE

AuctionTriggerAllows(old, new) == new = old \/ new \in AuctionTransitions[old]

\* enforce_deposit_status_transition
DepositTransitions ==
    [collected      |-> {"held"},
     held           |-> {"captured", "refund_pending", "expired"},
     refund_pending |-> {"refunded"},
     captured       |-> {},
     refunded       |-> {},
     expired        |-> {}]

DepositTriggerAllows(old, new) == new = old \/ new \in DepositTransitions[old]

\* events of payments.payment_ledger written by the settlement (and, one for
\* one in the same transaction, of payments.deposit_transitions)
LedgerEvent == {"deposit_captured", "deposit_refund_initiated", "deposit_refunded"}

NoLines == [e \in LedgerEvent |-> 0]

\* ALLOWED_TRANSITIONS of the PATCH /auctions/:id/status handler
ServiceTransitions ==
    [draft             |-> {"scheduled"},
     scheduled         |-> {"live"},
     deposit_open      |-> {},
     live              |-> {"ending", "cancelled"},
     ending            |-> {"ended", "cancelled"},
     ended             |-> {"settling"},
     settling          |-> {"settled", "settlement_failed"},
     settlement_failed |-> {"settled"},
     settled           |-> {},
     cancelled         |-> {}]
=============================================================================
