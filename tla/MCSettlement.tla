---------------------------- MODULE MCSettlement ----------------------------
(* Small instances of Settlement for TLC; the constants are in the cfg files. *)
EXTENDS Settlement, TLC

\* The instances of the service are interchangeable (safety runs only).
WorkerSymmetry == Permutations(Workers)
=============================================================================
