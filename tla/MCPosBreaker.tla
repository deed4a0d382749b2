---------------------------- MODULE MCPosBreaker ----------------------------
(* A small instance of PosBreaker for TLC, audited as in Reconciliation; the *)
(* other constants are in the cfg file.                                      *)
EXTENDS PosBreaker, Reconciliation

\* Deposits of different amounts; the first one does not cover the price.
MCAmount == [d \in Deposits |-> d]
MCFinalPrice == 2
=============================================================================
