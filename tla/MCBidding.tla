----------------------------- MODULE MCBidding -----------------------------
(* Small instances of Bidding for TLC; the constants are in the cfg files. *)
EXTENDS Bidding, TLC

\* The instances of the service are interchangeable, and so are the keys that
\* clients make up (safety runs only).
BiddingSymmetry ==
    Permutations(Requests) \cup Permutations(Enders) \cup Permutations(Keys)
=============================================================================
