-------------------------- MODULE MCRefreshTokens --------------------------
(* A small instance of RefreshTokens for TLC; the constants are in the cfg file. *)
EXTENDS RefreshTokens, TLC

TokenSymmetry == Permutations(Devices) \cup Permutations(Requests)
=============================================================================
