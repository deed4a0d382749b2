---------------------------- MODULE BiddingProofs ----------------------------
(***************************************************************************)
(* Proofs about Bidding, for any number of requests, workers, keys and     *)
(* amounts and for any times and faults, with or without lapsing locks.    *)
(* The last part is about the row of a live auction: what the trigger      *)
(* keeps out of it whatever happens, and what the bid lock keeps true of   *)
(* it while no TTL runs out under a live holder and no PATCH interferes.   *)
(***************************************************************************)
EXTENDS Bidding, FiniteSetTheorems, TLAPS

USE BiddingAssumption

-----------------------------------------------------------------------------
(* Types *)

LEMMA WrittenType ==
    ASSUME NEW row \in Auction, NEW e \in Auction, NEW columns
    PROVE  Written(row, e, columns) \in Auction
BY DEF Written, Auction, Columns

LEMMA NewAuctionType == NewAuction \in Auction
BY DEF NewAuction, Auction, AuctionStatus

LEMMA BiddedType ==
    ASSUME NEW row \in Auction, NEW amount \in Nat, now \in Nat
    PROVE  Bidded(row, amount) \in Auction
<1> DEFINE left == End(row) - now
           late == End(row) > now /\ left <= SniperWindow
           until == IF late THEN now + SniperWindow ELSE row.extended
<1>1. until \in Nat
  BY DEF Auction
<1>2. row.count + 1 \in Nat
  BY DEF Auction
<1>3. [row EXCEPT !.price = amount, !.count = row.count + 1, !.extended = until] \in Auction
  <2> HIDE DEF until
  <2> QED BY <1>1, <1>2 DEF Auction
<1> QED
  BY <1>3 DEF Bidded

LEMMA DropType ==
    ASSUME TypeOK, NEW r \in Requests, Drop(r)
    PROVE  /\ pc' \in [Requests \cup Enders -> RequestStep \cup EnderStep]
           /\ dto' \in [Requests -> [key : Keys \cup {NoOne},
                                     amount : {0} \cup Amounts, ts : 0..MaxTime]]
           /\ entity' \in [Requests -> Auction]
           /\ dirty' \in [Requests -> SUBSET Columns]
           /\ answer' \in [Requests -> {"none", "accepted", "rejected"}]
<1>1. NoBidYet \in [key : Keys \cup {NoOne}, amount : {0} \cup Amounts, ts : 0..MaxTime]
  BY DEF NoBidYet
<1> QED
  BY <1>1, NewAuctionType DEF TypeOK, Drop, Goto, RequestStep

\* A request that is under way carries a real bid.
Carries ==
    \A r \in Requests :
        pc[r] # "idle" => dto[r].key \in Keys /\ dto[r].amount \in Amounts

LEMMA InitType == Init => TypeOK /\ Carries
BY NewAuctionType DEF Init, TypeOK, Carries, NoBidYet, RequestStep, Columns

LEMMA AccountType ==
    ASSUME TypeOK, NEW o, Account(o)
    PROVE  faults' \in 0..MaxFaults
BY DEF TypeOK, Account, Fault

LEMMA StepType == TypeOK /\ Carries /\ [Next]_vars => TypeOK'
<1> SUFFICES ASSUME TypeOK, Carries, [Next]_vars PROVE TypeOK'
  OBVIOUS
<1> USE DEF TypeOK, Goto, RequestStep, EnderStep
<1>1. ASSUME NEW r \in Requests, NEW k \in Keys, NEW a \in Amounts, Arrive(r, k, a)
      PROVE  TypeOK'
  BY <1>1, SMTT(30) DEF Arrive
<1>2. ASSUME NEW r \in Requests, AcquireBidLock(r) PROVE TypeOK'
  <2> PICK o \in Outcome :
        /\ Account(o)
        /\ bidLock' = IF BidLockFree /\ o # "rolledBack" THEN r ELSE bidLock
        /\ IF BidLockFree /\ o = "done"
           THEN Goto(r, "recheck") /\ UNCHANGED requestVars
           ELSE Drop(r)
    BY <1>2 DEF AcquireBidLock
  <2>1. faults' \in 0..MaxFaults
    BY AccountType
  <2>2. UNCHANGED <<auction, bids, endLock, now, seen, patch, promised>>
    BY <1>2 DEF AcquireBidLock
  <2>3. CASE BidLockFree /\ o = "done"
    BY <2>1, <2>2, <2>3 DEF requestVars
  <2>4. CASE ~(BidLockFree /\ o = "done")
    BY <2>1, <2>2, <2>4, DropType
  <2> QED
    BY <2>3, <2>4
<1>3. ASSUME NEW r \in Requests, RecheckKey(r) PROVE TypeOK'
  BY <1>3 DEF RecheckKey, Answer
<1>4. ASSUME NEW r \in Requests, ReadAuction(r) PROVE TypeOK'
  <2>1. entity' \in [Requests -> Auction]
    BY <1>4 DEF ReadAuction
  <2>2. /\ pc' \in [Requests \cup Enders -> RequestStep \cup EnderStep]
        /\ answer' \in [Requests -> {"none", "accepted", "rejected"}]
    BY <1>4 DEF ReadAuction, Answer
  <2> QED
    BY <1>4, <2>1, <2>2 DEF ReadAuction
<1>5. ASSUME NEW r \in Requests, CheckDuplicate(r) PROVE TypeOK'
  BY <1>5 DEF CheckDuplicate, Answer
<1>6. ASSUME NEW r \in Requests, InsertBid(r) PROVE TypeOK'
  <2>1. dto[r].amount \in Nat
    BY <1>6 DEF InsertBid, Carries
  <2>2. Bidded(entity[r], dto[r].amount) \in Auction
    BY <2>1, BiddedType
  <2>3. [entity EXCEPT ![r] = Bidded(@, dto[r].amount)] \in [Requests -> Auction]
    BY <2>2
  <2>4. [dto EXCEPT ![r].ts = now] \in [Requests -> [key : Keys \cup {NoOne},
                                     amount : {0} \cup Amounts, ts : 0..MaxTime]]
    OBVIOUS
  <2>5. entity' \in [Requests -> Auction]
    BY <1>6, <2>3 DEF InsertBid
  <2>6. dto' \in [Requests -> [key : Keys \cup {NoOne},
                              amount : {0} \cup Amounts, ts : 0..MaxTime]]
    BY <1>6, <2>4 DEF InsertBid
  <2>7. faults' \in 0..MaxFaults
    BY <1>6 DEF InsertBid, Fault
  <2>8. /\ pc' \in [Requests \cup Enders -> RequestStep \cup EnderStep]
        /\ answer' \in [Requests -> {"none", "accepted", "rejected"}]
    BY <1>6 DEF InsertBid, Answer
  <2> QED
    BY <1>6, <2>5, <2>6, <2>7, <2>8 DEF InsertBid
<1>7. ASSUME NEW r \in Requests, SaveSelect(r) PROVE TypeOK'
  BY <1>7 DEF SaveSelect, Differing
<1>8. ASSUME NEW r \in Requests, CommitBid(r) PROVE TypeOK'
  <2>1. Written(auction, entity[r], dirty[r]) \in Auction
    BY WrittenType
  <2>2. NewBid(r) \in Bid
    BY <1>8 DEF CommitBid, NewBid, Bid, Carries
  <2>3. auction' \in Auction /\ bids' \subseteq Bid /\ faults' \in 0..MaxFaults
    BY <1>8, <2>1, <2>2, AccountType DEF CommitBid
  <2> QED
    BY <1>8, <2>3 DEF CommitBid, Answer
<1>9. ASSUME NEW r \in Requests, Unlock(r) PROVE TypeOK'
  <2>1. promised' \in Nat /\ bidLock' \in Requests \cup {NoOne} /\ faults' \in 0..MaxFaults
    BY <1>9, AccountType DEF Unlock, AfterUnlock, Auction
  <2> QED
    BY <1>9, <2>1, DropType DEF Unlock
<1>10. ASSUME NEW e \in Enders, FindExpired(e) PROVE TypeOK'
  BY <1>10 DEF FindExpired, Expired, requestVars
<1>11. ASSUME NEW e \in Enders, AcquireEndLock(e) PROVE TypeOK'
  <2>1. faults' \in 0..MaxFaults /\ endLock' \in Enders \cup {NoOne}
    BY <1>11, AccountType DEF AcquireEndLock
  <2>2. /\ pc' \in [Requests \cup Enders -> RequestStep \cup EnderStep]
        /\ seen' \in [Enders -> {"none", "live", "ending"}]
    BY <1>11, SMTT(30) DEF AcquireEndLock, Rest
  <2> QED
    BY <1>11, <2>1, <2>2 DEF AcquireEndLock, requestVars
<1>12. ASSUME NEW e \in Enders, TransitionLiveToEnding(e) PROVE TypeOK'
  <2>1. faults' \in 0..MaxFaults
    BY <1>12, AccountType DEF TransitionLiveToEnding
  <2>2. auction' \in Auction
    BY <1>12, SMTT(30) DEF TransitionLiveToEnding, Auction, AuctionStatus
  <2>3. pc' \in [Requests \cup Enders -> RequestStep \cup EnderStep]
    BY <1>12 DEF TransitionLiveToEnding
  <2> QED
    BY <1>12, <2>1, <2>2, <2>3 DEF TransitionLiveToEnding, requestVars
<1>13. ASSUME NEW e \in Enders, TransitionEndingToEnded(e) PROVE TypeOK'
  <2>1. faults' \in 0..MaxFaults
    BY <1>13, AccountType DEF TransitionEndingToEnded
  <2>2. \A b \in IF bids = {} THEN {auction.outcome} ELSE FirstBids :
          b \in Bid \cup {NoOne}
    BY DEF FirstBids, Auction
  <2>3. \A b \in Bid \cup {NoOne} :
          [auction EXCEPT !.status = "ended", !.outcome = b] \in Auction
    BY DEF Auction, AuctionStatus
  <2>4. \/ auction' = auction
        \/ \E b \in IF bids = {} THEN {auction.outcome} ELSE FirstBids :
             auction' = [auction EXCEPT !.status = "ended", !.outcome = b]
    BY <1>13 DEF TransitionEndingToEnded
  <2>5. auction' \in Auction
    <3>1. CASE auction' = auction
      BY <3>1
    <3>2. ASSUME NEW b \in IF bids = {} THEN {auction.outcome} ELSE FirstBids,
                 auction' = [auction EXCEPT !.status = "ended", !.outcome = b]
          PROVE  auction' \in Auction
      <4>1. b \in Bid \cup {NoOne}
        BY <2>2
      <4> QED
        BY <4>1, <2>3, <3>2
    <3> QED
      BY <2>4, <3>1, <3>2
  <2> QED
    BY <1>13, <2>1, <2>5 DEF TransitionEndingToEnded, requestVars
<1>14. ASSUME NEW e \in Enders, ReleaseEndLock(e) PROVE TypeOK'
  BY <1>14, AccountType DEF ReleaseEndLock, Rest, requestVars
<1>15. ASSUME NEW s \in AuctionStatus, PatchRead(s) PROVE TypeOK'
  <2>1. [auction EXCEPT !.status = s] \in Auction
    BY DEF Auction
  <2> QED
    BY <1>15, <2>1 DEF PatchRead, requestVars
<1>16. CASE PatchSelect
  BY <1>16 DEF PatchSelect, requestVars, Differing
<1>17. CASE PatchUpdate
  <2>1. patch.row \in Auction
    BY <1>17 DEF PatchUpdate
  <2> QED
    BY <1>17, <2>1, WrittenType DEF PatchUpdate, requestVars
<1>18. CASE InitiateSettlement
  <2>1. [auction EXCEPT !.status = "settling"] \in Auction
    BY DEF Auction, AuctionStatus
  <2> QED
    BY <1>18, <2>1 DEF InitiateSettlement, requestVars
<1>19. CASE ClockTicks \/ BidLockLapses \/ EndLockLapses
  BY <1>19 DEF ClockTicks, BidLockLapses, EndLockLapses, requestVars
<1>20. ASSUME NEW r \in Requests, CrashRequest(r) PROVE TypeOK'
  BY <1>20, DropType DEF CrashRequest, Fault
<1>21. ASSUME NEW e \in Enders, CrashEnder(e) PROVE TypeOK'
  BY <1>21 DEF CrashEnder, Fault, Rest, requestVars
<1>22. CASE UNCHANGED vars
  BY <1>22 DEF vars, requestVars
<1> QED
  BY <1>1, <1>2, <1>3, <1>4, <1>5, <1>6, <1>7, <1>8, <1>9, <1>10, <1>11, <1>12,
     <1>13, <1>14, <1>15, <1>16, <1>17, <1>18, <1>19, <1>20, <1>21, <1>22
     DEF Next, RequestMoves, EnderMoves

-----------------------------------------------------------------------------
(* Keys *)

\* The steps of everybody but the requests: they leave the bids and what the
\* requests carry alone.
OthersStep ==
    \/ \E e \in Enders : EnderMoves(e) \/ CrashEnder(e)
    \/ \E s \in AuctionStatus : PatchRead(s)
    \/ PatchSelect \/ PatchUpdate \/ InitiateSettlement
    \/ ClockTicks \/ BidLockLapses \/ EndLockLapses
    \/ UNCHANGED vars

LEMMA OthersLeaveRequests ==
    ASSUME TypeOK, OthersStep
    PROVE  /\ UNCHANGED <<bids, dto, entity, dirty>>
           /\ \A r \in Requests : pc'[r] = pc[r]
<1> USE DEF requestVars
<1>1. ASSUME NEW e \in Enders, NEW step \in EnderStep,
             pc' = [pc EXCEPT ![e] = step]
      PROVE  \A r \in Requests : pc'[r] = pc[r]
  BY <1>1 DEF TypeOK
<1>2. ASSUME NEW e \in Enders, FindExpired(e) \/ AcquireEndLock(e) \/ ReleaseEndLock(e) \/ CrashEnder(e)
      PROVE  /\ UNCHANGED <<bids, dto, entity, dirty>>
             /\ \E step \in EnderStep : pc' = [pc EXCEPT ![e] = step]
  BY <1>2 DEF FindExpired, AcquireEndLock, ReleaseEndLock, CrashEnder, Rest, Goto, EnderStep
<1>3. ASSUME NEW e \in Enders, TransitionLiveToEnding(e) \/ TransitionEndingToEnded(e)
      PROVE  /\ UNCHANGED <<bids, dto, entity, dirty>>
             /\ \E step \in EnderStep : pc' = [pc EXCEPT ![e] = step]
  BY <1>3 DEF TransitionLiveToEnding, TransitionEndingToEnded, Goto, EnderStep
<1>4. ASSUME \/ \E s \in AuctionStatus : PatchRead(s)
             \/ PatchSelect \/ PatchUpdate \/ InitiateSettlement
             \/ ClockTicks \/ BidLockLapses \/ EndLockLapses
             \/ UNCHANGED vars
      PROVE  UNCHANGED <<bids, dto, entity, dirty, pc>>
  BY <1>4 DEF PatchRead, PatchSelect, PatchUpdate, InitiateSettlement, ClockTicks,
              BidLockLapses, EndLockLapses, vars
<1> QED
  BY <1>1, <1>2, <1>3, <1>4 DEF OthersStep, EnderMoves

LEMMA NextSplits ==
    [Next]_vars =>
        \/ OthersStep
        \/ \E r \in Requests :
            \/ \E k \in Keys, a \in Amounts : Arrive(r, k, a)
            \/ RequestMoves(r) \/ CrashRequest(r)
BY DEF Next, OthersStep

LEMMA CarriesPreserved == TypeOK /\ Carries /\ [Next]_vars => Carries'
<1> SUFFICES ASSUME TypeOK, Carries, [Next]_vars PROVE Carries'
  OBVIOUS
<1>1. CASE OthersStep
  BY <1>1, OthersLeaveRequests DEF Carries
<1>2. ASSUME NEW r \in Requests, NEW k \in Keys, NEW a \in Amounts, Arrive(r, k, a)
      PROVE  Carries'
  BY <1>2 DEF Arrive, Carries, Goto, TypeOK
<1>3. ASSUME NEW r \in Requests, Drop(r)
      PROVE  Carries'
  BY <1>3 DEF Drop, Goto, Carries, TypeOK
<1>4. ASSUME NEW r \in Requests, NEW step, pc[r] # "idle", Goto(r, step),
             \/ UNCHANGED dto
             \/ dto' = [dto EXCEPT ![r].ts = now]
      PROVE  Carries'
  <2>1. \A q \in Requests : dto'[q].key = dto[q].key /\ dto'[q].amount = dto[q].amount
    BY <1>4 DEF TypeOK
  <2>2. \A q \in Requests : pc'[q] # "idle" => pc[q] # "idle"
    BY <1>4 DEF Goto, TypeOK
  <2> QED
    BY <2>1, <2>2 DEF Carries
<1>5. ASSUME NEW r \in Requests, AcquireBidLock(r) PROVE Carries'
  <2>1. pc[r] = "lock" /\ (Drop(r) \/ (Goto(r, "recheck") /\ UNCHANGED dto))
    BY <1>5 DEF AcquireBidLock, requestVars
  <2> QED
    BY <2>1, <1>3, <1>4
<1>6. ASSUME NEW r \in Requests, RecheckKey(r) \/ ReadAuction(r) PROVE Carries'
  BY <1>6, <1>4 DEF RecheckKey, ReadAuction, Answer
<1>7. ASSUME NEW r \in Requests, CheckDuplicate(r) \/ SaveSelect(r) PROVE Carries'
  BY <1>7, <1>4 DEF CheckDuplicate, SaveSelect, Answer
<1>8. ASSUME NEW r \in Requests, InsertBid(r) PROVE Carries'
  BY <1>8, <1>4 DEF InsertBid, Answer
<1>9. ASSUME NEW r \in Requests, CommitBid(r) PROVE Carries'
  BY <1>9, <1>4 DEF CommitBid, Answer
<1>10. ASSUME NEW r \in Requests, Unlock(r) \/ CrashRequest(r) PROVE Carries'
  BY <1>10, <1>3 DEF Unlock, CrashRequest
<1> QED
  BY <1>1, <1>2, <1>5, <1>6, <1>7, <1>8, <1>9, <1>10, NextSplits DEF RequestMoves

\* The key of a bid that is inserted but not committed is nobody else's.
KeysApart ==
    /\ \A r \in Requests : SharesRow(r) => \A b \in bids : b.key # dto[r].key
    /\ \A r, q \in Requests :
         r # q /\ SharesRow(r) /\ SharesRow(q) => dto[r].key # dto[q].key

LEMMA KeysPreserved ==
    TypeOK /\ KeysApart /\ IdempotentBids /\ [Next]_vars
        => KeysApart' /\ IdempotentBids'
<1> SUFFICES ASSUME TypeOK, KeysApart, IdempotentBids, [Next]_vars
             PROVE  KeysApart' /\ IdempotentBids'
  OBVIOUS
\* a request that inserts nothing new
<1>1. ASSUME bids' = bids,
             \A r \in Requests : SharesRow(r)' => SharesRow(r) /\ dto'[r].key = dto[r].key
      PROVE  KeysApart' /\ IdempotentBids'
  BY <1>1 DEF KeysApart, IdempotentBids
<1>2. CASE OthersStep
  BY <1>1, <1>2, OthersLeaveRequests DEF SharesRow
<1>3. ASSUME NEW r \in Requests, NEW step, Goto(r, step), step \notin {"select", "commit"},
             bids' = bids,
             \A q \in Requests \ {r} : dto'[q] = dto[q]
      PROVE  KeysApart' /\ IdempotentBids'
  BY <1>1, <1>3 DEF SharesRow, Goto, TypeOK
<1>4. ASSUME NEW r \in Requests, Drop(r), bids' = bids
      PROVE  KeysApart' /\ IdempotentBids'
  BY <1>4, <1>3 DEF Drop, TypeOK
<1>5. ASSUME NEW r \in Requests, NEW k \in Keys, NEW a \in Amounts, Arrive(r, k, a)
      PROVE  KeysApart' /\ IdempotentBids'
  <2>1. CASE UNCHANGED <<dto, pc>>
    BY <1>5, <2>1, <1>1 DEF Arrive, SharesRow
  <2>2. CASE ~UNCHANGED <<dto, pc>>
    BY <1>5, <2>2, <1>3 DEF Arrive, TypeOK
  <2> QED
    BY <2>1, <2>2
<1>6. ASSUME NEW r \in Requests, AcquireBidLock(r) PROVE KeysApart' /\ IdempotentBids'
  <2>1. bids' = bids /\ (Drop(r) \/ (Goto(r, "recheck") /\ UNCHANGED dto))
    BY <1>6 DEF AcquireBidLock, requestVars
  <2> QED
    BY <2>1, <1>3, <1>4
<1>7. ASSUME NEW r \in Requests, RecheckKey(r) \/ ReadAuction(r) \/ CheckDuplicate(r)
      PROVE  KeysApart' /\ IdempotentBids'
  BY <1>7, <1>3 DEF RecheckKey, ReadAuction, CheckDuplicate, Answer
<1>8. ASSUME NEW r \in Requests, InsertBid(r) PROVE KeysApart' /\ IdempotentBids'
  <2>1. CASE Answer(r, "rejected") /\ UNCHANGED dto
    BY <1>8, <2>1, <1>3 DEF InsertBid, Answer
  <2>2. CASE KeyIsNew(dto[r].key) /\ dto' = [dto EXCEPT ![r].ts = now] /\ Goto(r, "select")
    <3>1. \A q \in Requests : dto'[q].key = dto[q].key
      BY <2>2 DEF TypeOK
    <3>2. \A q \in Requests \ {r} : SharesRow(q)' = SharesRow(q)
      BY <2>2 DEF SharesRow, Goto, TypeOK
    <3>3. \A q \in Requests : SharesRow(q) => dto[q].key # dto[r].key
      BY <1>8 DEF InsertBid
    <3>4. bids' = bids /\ \A b \in bids : b.key # dto[r].key
      BY <1>8, <2>2 DEF InsertBid, KeyIsNew, Existing
    <3>5. KeysApart'
      BY <3>1, <3>2, <3>3, <3>4 DEF KeysApart
    <3> QED
      BY <3>4, <3>5 DEF IdempotentBids
  <2> QED
    BY <1>8, <2>1, <2>2 DEF InsertBid
<1>9. ASSUME NEW r \in Requests, SaveSelect(r) PROVE KeysApart' /\ IdempotentBids'
  <2>1. \A q \in Requests : SharesRow(q)' = SharesRow(q)
    BY <1>9 DEF SaveSelect, SharesRow, Goto, TypeOK
  <2> QED
    BY <1>9, <2>1, <1>1 DEF SaveSelect
<1>10. ASSUME NEW r \in Requests, CommitBid(r) PROVE KeysApart' /\ IdempotentBids'
  <2>1. SharesRow(r) /\ Goto(r, "unlock") /\ UNCHANGED dto
    BY <1>10 DEF CommitBid, SharesRow, Answer
  <2>2. CASE bids' = bids
    BY <2>1, <2>2, <1>3
  <2>3. CASE bids' = bids \cup {NewBid(r)}
    <3>1. NewBid(r).key = dto[r].key
      BY DEF NewBid
    <3>2. IdempotentBids'
      BY <2>1, <2>3, <3>1 DEF KeysApart, IdempotentBids
    <3>3. \A q \in Requests : SharesRow(q)' => q # r /\ SharesRow(q)
      BY <2>1 DEF SharesRow, Goto, TypeOK
    <3>4. KeysApart'
      BY <2>1, <2>3, <3>1, <3>3 DEF KeysApart
    <3> QED
      BY <3>2, <3>4
  <2> QED
    BY <1>10, <2>2, <2>3 DEF CommitBid
<1>11. ASSUME NEW r \in Requests, Unlock(r) \/ CrashRequest(r)
       PROVE  KeysApart' /\ IdempotentBids'
  BY <1>11, <1>4 DEF Unlock, CrashRequest
<1> QED
  BY <1>2, <1>5, <1>6, <1>7, <1>8, <1>9, <1>10, <1>11, NextSplits DEF RequestMoves

-----------------------------------------------------------------------------
IInv == TypeOK /\ Carries /\ KeysApart /\ IdempotentBids

LEMMA IInvInductive == Spec => []IInv
<1>1. Init => IInv
  BY InitType DEF Init, IInv, KeysApart, IdempotentBids, SharesRow
<1>2. IInv /\ [Next]_vars => IInv'
  BY StepType, CarriesPreserved, KeysPreserved DEF IInv
<1> QED
  BY <1>1, <1>2, PTL DEF Spec

\* Every variable keeps its type.
THEOREM TypeCorrect == Spec => []TypeOK
<1>1. IInv => TypeOK
  BY DEF IInv
<1> QED
  BY <1>1, IInvInductive, PTL

\* However many requests carry a key, and whatever locks lapse or instances
\* crash meanwhile, one bid comes of it.
THEOREM KeysSpentOnce == Spec => []IdempotentBids
<1>1. IInv => IdempotentBids
  BY DEF IInv
<1> QED
  BY <1>1, IInvInductive, PTL

-----------------------------------------------------------------------------
(* The winner, while no PATCH touches the auction *)

\* A request works on an entity it read while the auction was live and nobody
\* had won; the ending worker cannot pass between its save's SELECT and its
\* commit, so a status that the UPDATE leaves alone is still live.
ReadLive ==
    /\ patch = NoOne
    /\ auction.status \in {"live", "ending", "ended", "settling"}
    /\ auction.status \in {"live", "ending"} => auction.outcome = NoOne
    /\ \A r \in Requests :
        /\ entity[r].outcome = NoOne
        /\ pc[r] \in {"duplicate", "insert", "select", "commit"} =>
             entity[r].status = "live"
        /\ pc[r] = "commit" /\ "status" \notin dirty[r] => auction.status = "live"

\* A commit that takes effect finds the auction live and leaves it live, without
\* a winner.
LEMMA CommitsWhileLive ==
    ASSUME TypeOK, ReadLive, NEW r \in Requests, CommitBid(r)
    PROVE  \/ UNCHANGED <<auction, bids>>
           \/ /\ auction.status = "live"
              /\ auction'.status = "live" /\ auction'.outcome = NoOne
<1> DEFINE row == Written(auction, entity[r], dirty[r])
<1>1. row.status = "live" /\ (auction.outcome = NoOne => row.outcome = NoOne)
  BY DEF CommitBid, ReadLive, Written, Columns
<1>2. TriggerAllows(auction, row) => auction.status = "live"
  BY <1>1 DEF TriggerAllows, AuctionTriggerAllows, AuctionTransitions, ReadLive
<1>3. \/ UNCHANGED <<auction, bids>>
      \/ TriggerAllows(auction, row) /\ auction' = row
  BY DEF CommitBid
<1> QED
  BY <1>1, <1>2, <1>3 DEF ReadLive

\* A step of the ending worker or of the settlement that changes the row.
LEMMA OthersChangeStatus ==
    ASSUME ~AdminPatches, TypeOK, ReadLive, OthersStep, auction' # auction
    PROVE  /\ ForUpdate
           /\ \/ /\ auction.status = "live"
                 /\ auction' = [auction EXCEPT !.status = "ending"]
              \/ /\ auction.status = "ending"
                 /\ \E b \in IF bids = {} THEN {auction.outcome} ELSE FirstBids :
                      auction' = [auction EXCEPT !.status = "ended", !.outcome = b]
              \/ /\ auction.status = "ended"
                 /\ auction' = [auction EXCEPT !.status = "settling"]
<1>1. ASSUME NEW e \in Enders, EnderMoves(e) \/ CrashEnder(e)
      PROVE  TransitionLiveToEnding(e) \/ TransitionEndingToEnded(e)
  BY <1>1 DEF EnderMoves, CrashEnder, FindExpired, AcquireEndLock, ReleaseEndLock
<1>2. ASSUME NEW e \in Enders, TransitionLiveToEnding(e)
      PROVE  /\ ForUpdate /\ auction.status = "live"
             /\ auction' = [auction EXCEPT !.status = "ending"]
  BY <1>2 DEF TransitionLiveToEnding, MayEnd
<1>3. ASSUME NEW e \in Enders, TransitionEndingToEnded(e)
      PROVE  /\ ForUpdate /\ auction.status = "ending"
             /\ \E b \in IF bids = {} THEN {auction.outcome} ELSE FirstBids :
                  auction' = [auction EXCEPT !.status = "ended", !.outcome = b]
  BY <1>3 DEF TransitionEndingToEnded
<1>4. CASE InitiateSettlement
  BY <1>4 DEF InitiateSettlement
<1>5. ~PatchUpdate /\ ~PatchSelect /\ ~\E s \in AuctionStatus : PatchRead(s)
  BY DEF PatchUpdate, PatchSelect, PatchRead, ReadLive
<1>6. ~ClockTicks /\ ~BidLockLapses /\ ~EndLockLapses /\ ~UNCHANGED vars
  BY DEF ClockTicks, BidLockLapses, EndLockLapses, vars
<1> QED
  BY <1>1, <1>2, <1>3, <1>4, <1>5, <1>6 DEF OthersStep

\* What a request's own step does to its entity and to what it is about to write.
LEMMA RequestReads ==
    ASSUME TypeOK, ReadLive, NEW r \in Requests,
           \/ \E k \in Keys, a \in Amounts : Arrive(r, k, a)
           \/ RequestMoves(r) \/ CrashRequest(r)
    PROVE  /\ patch' = patch
           /\ CommitBid(r) \/ UNCHANGED <<auction, bids>>
           /\ \A q \in Requests \ {r} :
                pc'[q] = pc[q] /\ entity'[q] = entity[q] /\ dirty'[q] = dirty[q]
           /\ entity'[r].outcome = NoOne
           /\ pc'[r] \in {"duplicate", "insert", "select", "commit"} =>
                entity'[r].status = "live"
           /\ pc'[r] = "commit" /\ "status" \notin dirty'[r] => auction.status = "live"
<1> DEFINE Reads ==
           /\ patch' = patch
           /\ CommitBid(r) \/ UNCHANGED <<auction, bids>>
           /\ \A q \in Requests \ {r} :
                pc'[q] = pc[q] /\ entity'[q] = entity[q] /\ dirty'[q] = dirty[q]
           /\ entity'[r].outcome = NoOne
           /\ pc'[r] \in {"duplicate", "insert", "select", "commit"} =>
                entity'[r].status = "live"
           /\ pc'[r] = "commit" /\ "status" \notin dirty'[r] => auction.status = "live"
<1> USE DEF TypeOK, Goto
<1>1. ASSUME NEW k \in Keys, NEW a \in Amounts, Arrive(r, k, a) PROVE Reads
  BY <1>1 DEF Arrive, ReadLive
<1>2. ASSUME Drop(r), UNCHANGED <<patch, auction, bids>> PROVE Reads
  BY <1>2 DEF Drop, NewAuction
<1>3. CASE AcquireBidLock(r)
  <2>1. /\ UNCHANGED <<patch, auction, bids>>
        /\ Drop(r) \/ (Goto(r, "recheck") /\ UNCHANGED <<entity, dirty>>)
    BY <1>3 DEF AcquireBidLock, requestVars
  <2> QED
    BY <1>2, <2>1 DEF ReadLive
<1>4. CASE RecheckKey(r)
  BY <1>4 DEF RecheckKey, Answer, ReadLive
<1>5. CASE ReadAuction(r)
  BY <1>5 DEF ReadAuction, Answer, ReadLive
<1>6. CASE CheckDuplicate(r)
  BY <1>6 DEF CheckDuplicate, Answer, ReadLive
<1>7. CASE InsertBid(r)
  <2>1. /\ Bidded(entity[r], dto[r].amount).outcome = NoOne
        /\ Bidded(entity[r], dto[r].amount).status = "live"
    BY <1>7 DEF InsertBid, Bidded, ReadLive, Auction
  <2> QED
    BY <1>7, <2>1 DEF InsertBid, Answer, ReadLive
<1>8. CASE SaveSelect(r)
  BY <1>8 DEF SaveSelect, Differing, Columns, ReadLive
<1>9. CASE CommitBid(r)
  BY <1>9 DEF CommitBid, Answer, ReadLive
<1>10. CASE Unlock(r) \/ CrashRequest(r)
  BY <1>10, <1>2 DEF Unlock, CrashRequest
<1> QED
  BY <1>1, <1>3, <1>4, <1>5, <1>6, <1>7, <1>8, <1>9, <1>10 DEF RequestMoves

LEMMA ReadLivePreserved ==
    ASSUME ~AdminPatches, TypeOK, ReadLive, [Next]_vars
    PROVE  ReadLive'
<1>1. CASE OthersStep
  <2>1. patch' = NoOne
    BY <1>1 DEF OthersStep, ReadLive, EnderMoves, FindExpired, AcquireEndLock,
       TransitionLiveToEnding, TransitionEndingToEnded, ReleaseEndLock, CrashEnder,
       PatchRead, PatchSelect, PatchUpdate, InitiateSettlement, ClockTicks,
       BidLockLapses, EndLockLapses, vars
  <2>2. CASE auction' = auction
    BY <1>1, <2>1, <2>2, OthersLeaveRequests DEF ReadLive
  <2>3. CASE auction' # auction
    <3>1. \A r \in Requests : pc[r] # "commit"
      BY <1>1, <2>3, OthersChangeStatus DEF ForUpdate, SharesRow
    <3>2. /\ auction'.status \in {"ending", "ended", "settling"}
          /\ auction'.status = "ending" => auction'.outcome = NoOne
      <4>1. CASE /\ auction.status = "live"
                 /\ auction' = [auction EXCEPT !.status = "ending"]
        BY <4>1 DEF TypeOK, Auction, ReadLive
      <4>2. CASE \E b \in IF bids = {} THEN {auction.outcome} ELSE FirstBids :
                   auction' = [auction EXCEPT !.status = "ended", !.outcome = b]
        <5>1. auction'.status = "ended"
          BY <4>2 DEF TypeOK, Auction
        <5> QED
          BY <5>1
      <4>3. CASE auction' = [auction EXCEPT !.status = "settling"]
        BY <4>3 DEF TypeOK, Auction
      <4> QED
        BY <1>1, <2>3, <4>1, <4>2, <4>3, OthersChangeStatus
    <3> QED
      BY <1>1, <2>1, <3>1, <3>2, OthersLeaveRequests DEF ReadLive
  <2> QED
    BY <2>2, <2>3
<1>2. ASSUME NEW r \in Requests,
             \/ \E k \in Keys, a \in Amounts : Arrive(r, k, a)
             \/ RequestMoves(r) \/ CrashRequest(r)
      PROVE  ReadLive'
  <2>1. UNCHANGED auction \/ (auction.status = "live" /\ auction'.status = "live"
                                /\ auction'.outcome = NoOne)
    BY <1>2, RequestReads, CommitsWhileLive
  <2> QED
    BY <1>2, <2>1, RequestReads DEF ReadLive
<1> QED
  BY <1>1, <1>2, NextSplits

LEMMA WinnerPreserved ==
    ASSUME ~AdminPatches, TypeOK, ReadLive, WinnerIsHighest, [Next]_vars
    PROVE  WinnerIsHighest'
<1>1. CASE OthersStep /\ auction' = auction
  BY <1>1, OthersLeaveRequests DEF WinnerIsHighest, Ended
<1>2. CASE OthersStep /\ auction' # auction
  <2>1. bids' = bids
    BY <1>2, OthersLeaveRequests
  <2>2. CASE auction' = [auction EXCEPT !.status = "ending"]
    BY <2>2 DEF TypeOK, Auction, WinnerIsHighest, Ended
  <2>3. CASE auction.status = "ended" /\ auction' = [auction EXCEPT !.status = "settling"]
    BY <2>1, <2>3 DEF TypeOK, Auction, WinnerIsHighest, Ended
  <2>4. ASSUME auction.status = "ending",
               NEW b \in IF bids = {} THEN {auction.outcome} ELSE FirstBids,
               auction' = [auction EXCEPT !.status = "ended", !.outcome = b]
        PROVE  WinnerIsHighest'
    <3>1. auction'.outcome = b
      BY <2>4 DEF TypeOK, Auction
    <3>2. CASE bids = {}
      BY <2>1, <2>4, <3>1, <3>2 DEF ReadLive, WinnerIsHighest
    <3>3. CASE bids # {}
      <4>1. b \in bids /\ \A c \in bids :
              c.amount < b.amount \/ (c.amount = b.amount /\ b.ts <= c.ts)
        BY <2>4, <3>3 DEF FirstBids
      <4>2. \A c \in bids : c.amount \in Nat /\ c.ts \in Nat
        BY DEF TypeOK, Bid
      <4>3. \A c \in bids : ~Beats(c, b)
        BY <4>1, <4>2 DEF Beats
      <4> QED
        BY <2>1, <3>1, <3>3, <4>1, <4>3 DEF WinnerIsHighest
    <3> QED
      BY <3>2, <3>3
  <2> QED
    BY <1>2, <2>2, <2>3, <2>4, OthersChangeStatus
<1>3. ASSUME NEW r \in Requests,
             \/ \E k \in Keys, a \in Amounts : Arrive(r, k, a)
             \/ RequestMoves(r) \/ CrashRequest(r)
      PROVE  WinnerIsHighest'
  <2>1. UNCHANGED <<auction, bids>> \/ auction'.status = "live"
    BY <1>3, RequestReads, CommitsWhileLive
  <2> QED
    BY <2>1 DEF WinnerIsHighest, Ended
<1> QED
  BY <1>1, <1>2, <1>3, NextSplits

\* While no PATCH interferes, the winner of an ended auction is the highest of
\* all bids ever committed: for any number of bidders and workers, although
\* both Redis locks may lapse and any instance may crash.
THEOREM HighestBidWins ==
    ASSUME ~AdminPatches
    PROVE  Spec => []WinnerIsHighest
<1> DEFINE Inv == IInv /\ ReadLive /\ WinnerIsHighest
<1>1. Init => ReadLive /\ WinnerIsHighest
  BY DEF Init, ReadLive, WinnerIsHighest, Ended, NewAuction
<1>2. IInv /\ ReadLive /\ WinnerIsHighest /\ [Next]_vars => ReadLive' /\ WinnerIsHighest'
  BY ReadLivePreserved, WinnerPreserved DEF IInv
<1> QED
  BY <1>1, <1>2, IInvInductive, PTL DEF Spec

\* No bid is committed once the ending worker has moved the auction on.
THEOREM NoLateBids ==
    ASSUME ~AdminPatches
    PROVE  Spec => BidsOnlyWhileLive
<1>1. Init => ReadLive
  BY DEF Init, ReadLive, NewAuction
<1>2. IInv /\ ReadLive /\ [Next]_vars => ReadLive'
  BY ReadLivePreserved DEF IInv
<1>3. ASSUME IInv, ReadLive, [Next]_vars, bids' # bids
      PROVE  auction.status = "live"
  <2>1. ~OthersStep
    BY <1>3, OthersLeaveRequests DEF IInv
  <2>2. PICK r \in Requests :
            \/ \E k \in Keys, a \in Amounts : Arrive(r, k, a)
            \/ RequestMoves(r) \/ CrashRequest(r)
    BY <1>3, <2>1, NextSplits
  <2>3. CommitBid(r)
    BY <1>3, <2>2, RequestReads DEF IInv
  <2> QED
    BY <1>3, <2>3, CommitsWhileLive DEF IInv
<1>4. IInv /\ ReadLive /\ [Next]_vars => [bids' # bids => auction.status = "live"]_vars
  BY <1>3
<1> QED
  BY <1>1, <1>2, <1>4, IInvInductive, PTL DEF Spec, BidsOnlyWhileLive

-----------------------------------------------------------------------------
(* The abstract specification *)

\* Closing, ending and settling are the steps of AuctionOutcome of that name.
LEMMA OthersFollow ==
    ASSUME ~AdminPatches, TypeOK, ReadLive, OthersStep
    PROVE  AO!CloseAuction \/ AO!EndAuction \/ AO!Settle
           \/ UNCHANGED <<auction.status, bids, auction.outcome>>
<1>1. bids' = bids
  BY OthersLeaveRequests
<1>2. CASE auction' = auction
  BY <1>1, <1>2
<1>3. CASE /\ auction.status = "live"
           /\ auction' = [auction EXCEPT !.status = "ending"]
  <2>1. auction'.status = "ending" /\ auction'.outcome = auction.outcome
    BY <1>3 DEF TypeOK, Auction
  <2> QED
    BY <1>1, <1>3, <2>1 DEF AO!CloseAuction
<1>4. ASSUME auction.status = "ending",
             NEW b \in IF bids = {} THEN {auction.outcome} ELSE FirstBids,
             auction' = [auction EXCEPT !.status = "ended", !.outcome = b]
      PROVE  AO!EndAuction
  <2>1. auction'.status = "ended" /\ auction'.outcome = b
    BY <1>4 DEF TypeOK, Auction
  <2>2. CASE bids = {}
    BY <1>1, <1>4, <2>1, <2>2 DEF AO!EndAuction, ReadLive
  <2>3. CASE bids # {}
    <3>1. b \in bids /\ \A c \in bids :
            c.amount < b.amount \/ (c.amount = b.amount /\ b.ts <= c.ts)
      BY <1>4, <2>3 DEF FirstBids
    <3>2. \A c \in bids : c.amount \in Nat /\ c.ts \in Nat
      BY DEF TypeOK, Bid
    <3>3. AO!Wins(b)
      BY <3>1, <3>2 DEF AO!Wins, AO!Outranks
    <3> QED
      BY <1>1, <1>4, <2>1, <3>1, <3>3 DEF AO!EndAuction
  <2> QED
    BY <2>2, <2>3
<1>5. CASE /\ auction.status = "ended"
           /\ auction' = [auction EXCEPT !.status = "settling"]
  <2>1. auction'.status = "settling" /\ auction'.outcome = auction.outcome
    BY <1>5 DEF TypeOK, Auction
  <2> QED
    BY <1>1, <1>5, <2>1 DEF AO!Settle
<1> QED
  BY <1>2, <1>3, <1>4, <1>5, OthersChangeStatus

\* A commit places the request's bid, or changes nothing the promise speaks of.
LEMMA CommitsFollow ==
    ASSUME IInv, ReadLive, NEW r \in Requests, CommitBid(r)
    PROVE  \/ \E b \in AO!Bids : AO!PlaceBid(b)
           \/ UNCHANGED <<auction.status, bids, auction.outcome>>
<1> DEFINE b == NewBid(r)
<1>1. CASE UNCHANGED <<auction, bids>>
  BY <1>1
<1>2. CASE ~UNCHANGED <<auction, bids>>
  <2>1. bids' = bids \cup {b}
    BY <1>2 DEF CommitBid
  <2>2. /\ auction.status = "live" /\ auction'.status = "live"
        /\ auction'.outcome = NoOne /\ auction.outcome = NoOne
    BY <1>2, CommitsWhileLive DEF ReadLive, IInv
  <2>3. pc[r] = "commit"
    BY DEF CommitBid
  <2>4. b \in AO!Bids
    BY <2>3 DEF NewBid, AO!Bids, IInv, Carries, TypeOK
  <2>5. ~AO!KeyKnown(b.key)
    BY <2>3 DEF IInv, KeysApart, SharesRow, NewBid, AO!KeyKnown
  <2>6. AO!PlaceBid(b)
    BY <2>1, <2>2, <2>5 DEF AO!PlaceBid
  <2> QED
    BY <2>4, <2>6
<1> QED
  BY <1>1, <1>2

LEMMA StepFollows ==
    ASSUME ~AdminPatches, IInv, ReadLive, [Next]_vars
    PROVE  [AO!OutcomeNext]_(AO!outcomeVars)
<1> USE DEF AO!OutcomeNext, AO!outcomeVars
<1>1. CASE OthersStep
  BY <1>1, OthersFollow DEF IInv
<1>2. ASSUME NEW r \in Requests,
             \/ \E k \in Keys, a \in Amounts : Arrive(r, k, a)
             \/ RequestMoves(r) \/ CrashRequest(r)
      PROVE  [AO!OutcomeNext]_(AO!outcomeVars)
  <2>1. CASE CommitBid(r)
    BY <2>1, CommitsFollow
  <2>2. CASE UNCHANGED <<auction, bids>>
    BY <2>2
  <2> QED
    BY <1>2, <2>1, <2>2, RequestReads DEF IInv
<1> QED
  BY <1>1, <1>2, NextSplits

\* Requests, locks, workers and the start of the settlement together keep the
\* promise of AuctionOutcome, while no PATCH interferes.
THEOREM ImplementsOutcome ==
    ASSUME ~AdminPatches
    PROVE  Spec => OutcomePromise
<1>1. Init => ReadLive /\ AO!OutcomeInit
  BY DEF Init, ReadLive, NewAuction, AO!OutcomeInit
<1>2. IInv /\ ReadLive /\ [Next]_vars => ReadLive' /\ [AO!OutcomeNext]_(AO!outcomeVars)
  BY ReadLivePreserved, StepFollows DEF IInv
<1> QED
  BY <1>1, <1>2, IInvInductive, PTL DEF Spec, OutcomePromise, AO!OutcomeSpec

-----------------------------------------------------------------------------
(* The trigger, with lapsing locks and PATCHes *)

\* Nobody updates the row past the trigger: the workers and the settlement take
\* only steps it would allow as well.
LEMMA TriggerObeyed ==
    ASSUME TypeOK, [Next]_vars
    PROVE  auction' = auction \/ TriggerAllows(auction, auction')
<1> USE DEF TriggerAllows, AuctionTriggerAllows, AuctionTransitions
<1>1. ASSUME NEW r \in Requests,
             \/ \E k \in Keys, a \in Amounts : Arrive(r, k, a)
             \/ RequestMoves(r) \/ CrashRequest(r)
      PROVE  auction' = auction \/ TriggerAllows(auction, auction')
  <2>1. CASE CommitBid(r)
    <3>1. \/ auction' = auction
          \/ \E row \in {Written(auction, entity[r], dirty[r])} :
                TriggerAllows(auction, row) /\ auction' = row
      BY <2>1 DEF CommitBid
    <3> QED
      BY <3>1
  <2>2. CASE ~CommitBid(r)
    BY <1>1, <2>2 DEF Arrive, RequestMoves, CrashRequest, AcquireBidLock, RecheckKey,
       ReadAuction, CheckDuplicate, InsertBid, SaveSelect, Unlock
  <2> QED
    BY <2>1, <2>2
<1>2. ASSUME NEW e \in Enders, EnderMoves(e) \/ CrashEnder(e), auction' # auction
      PROVE  \/ auction.status = "live" /\ auction' = [auction EXCEPT !.status = "ending"]
             \/ auction.status = "ending" /\ auction'.status = "ended"
  <2>1. ASSUME TransitionEndingToEnded(e)
        PROVE  auction.status = "ending" /\ auction'.status = "ended"
    <3>1. auction.status = "ending"
      BY <1>2, <2>1 DEF TransitionEndingToEnded
    <3>2. PICK b : auction' = [auction EXCEPT !.status = "ended", !.outcome = b]
      BY <1>2, <2>1 DEF TransitionEndingToEnded
    <3> QED
      BY <3>1, <3>2 DEF TypeOK, Auction
  <2> QED
    BY <1>2, <2>1 DEF EnderMoves, CrashEnder, FindExpired, AcquireEndLock,
       ReleaseEndLock, TransitionLiveToEnding, MayEnd
<1>3. CASE InitiateSettlement
  BY <1>3 DEF InitiateSettlement, TypeOK, Auction
<1>4. CASE PatchUpdate
  <2>1. \/ auction' = auction
        \/ \E row \in {Written(auction, patch.row, patch.columns)} :
              TriggerAllows(auction, row) /\ auction' = row
    BY <1>4 DEF PatchUpdate
  <2> QED
    BY <2>1
<1>5. CASE (\E s \in AuctionStatus : PatchRead(s)) \/ PatchSelect \/ ClockTicks
           \/ BidLockLapses \/ EndLockLapses \/ UNCHANGED vars
  BY <1>5 DEF PatchRead, PatchSelect, ClockTicks, BidLockLapses, EndLockLapses, vars
<1> QED
  BY <1>1, <1>2, <1>3, <1>4, <1>5 DEF Next, TypeOK, Auction

\* The statuses from which nothing leads back to a live auction, and "live".
Begun ==
    auction.status \in {"live", "ending", "ended", "settling", "settled",
                        "settlement_failed", "cancelled"}

LEMMA BegunStep ==
    ASSUME TypeOK, Begun, [Next]_vars
    PROVE  /\ Begun'
           /\ auction.status # "live" => auction'.status # "live"
BY TriggerObeyed
   DEF TriggerAllows, AuctionTriggerAllows, AuctionTransitions, Begun

\* Neither a bid in flight, whose entity still says live, nor a PATCH that was
\* validated while it was live opens an auction again.
THEOREM ClosingIsFinal == Spec => ClosedStaysClosed
<1>1. Init => Begun
  BY DEF Init, NewAuction, Begun
<1>2. TypeOK /\ Begun /\ [Next]_vars =>
        Begun' /\ [auction.status # "live" => auction'.status # "live"]_vars
  BY BegunStep
<1> QED
  BY <1>1, <1>2, TypeCorrect, PTL DEF Spec, ClosedStaysClosed

\* The winner that has gone into a manifest stays, whoever updates the row.
THEOREM SettlementHoldsOutcome == Spec => OutcomeHeldInSettlement
<1>1. TypeOK /\ [Next]_vars =>
        [auction.status \in {"settling", "settlement_failed"} =>
           auction'.outcome = auction.outcome]_vars
  BY TriggerObeyed DEF TriggerAllows
<1> QED
  BY <1>1, TypeCorrect, PTL DEF Spec, OutcomeHeldInSettlement

-----------------------------------------------------------------------------
(* The bid lock, while its TTL does not run out under a live holder *)

\* Where a request holds the lock.
InLock == {"recheck", "read", "duplicate", "insert", "select", "commit", "unlock"}

\* What bids change of the row.
SameBidding(row, e) ==
    row.price = e.price /\ row.count = e.count /\ row.extended = e.extended

\* The inductive part.  Between its read and its commit the holder's entity is
\* the row it read plus its own bid, its pending UPDATE writes exactly what the
\* bid changes, and an extension it is about to announce is in the row.
Faithful(r) ==
    /\ pc[r] \in InLock => bidLock = r
    /\ pc[r] \in {"duplicate", "insert"} => SameBidding(entity[r], auction)
    /\ pc[r] \in {"duplicate", "insert", "select", "commit"} => Raises(dto[r], auction)
    /\ pc[r] \in {"select", "commit"} =>
         /\ entity[r].price = dto[r].amount
         /\ entity[r].count = auction.count + 1
         /\ entity[r].extended # auction.extended => entity[r].extended >= End(auction)
    /\ pc[r] = "commit" =>
         /\ "price" \in dirty[r] /\ "count" \in dirty[r]
         /\ "extended" \in dirty[r] <=> entity[r].extended # auction.extended
    /\ pc[r] \notin {"commit", "unlock"} => dirty[r] = {}
    /\ pc[r] = "unlock" /\ answer[r] = "accepted" /\ Extends(r) =>
         entity[r].extended = auction.extended /\ auction.extended # 0

\* What clients have been told of the end of a live auction is not past it.
PromiseKept == auction.status = "live" => promised <= End(auction)

\* Who is not in the lock, and whoever is and finds lock and row as they were.
LEMMA FaithfulCarried ==
    ASSUME NEW q \in Requests, Faithful(q),
           pc'[q] = pc[q], dto'[q] = dto[q], entity'[q] = entity[q],
           dirty'[q] = dirty[q], answer'[q] = answer[q],
           pc[q] \in InLock => bidLock' = bidLock /\ SameBidding(auction', auction)
    PROVE  Faithful(q)'
<1>1. CASE pc[q] \in InLock
  <2>1. /\ bidLock' = bidLock /\ auction'.price = auction.price
        /\ auction'.count = auction.count /\ auction'.extended = auction.extended
    BY <1>1 DEF SameBidding
  <2> QED
    BY <2>1 DEF Faithful, SameBidding, Raises, End, Extends
<1>2. CASE pc[q] \notin InLock
  BY <1>2 DEF Faithful, InLock
<1> QED
  BY <1>1, <1>2

\* The workers, the settlement and the clock change of the row its status and
\* its winner.
LEMMA OthersLeaveBidding ==
    ASSUME ~AdminPatches, TypeOK, ReadLive, OthersStep
    PROVE  /\ SameBidding(auction', auction)
           /\ auction'.status = "live" => auction.status = "live"
           /\ UNCHANGED <<promised, answer>>
<1>1. UNCHANGED <<promised, answer>>
  BY DEF OthersStep, ReadLive, EnderMoves, FindExpired, AcquireEndLock,
     TransitionLiveToEnding, TransitionEndingToEnded, ReleaseEndLock, CrashEnder,
     PatchRead, PatchSelect, PatchUpdate, InitiateSettlement, ClockTicks,
     BidLockLapses, EndLockLapses, vars, requestVars
<1>2. CASE auction' = auction
  BY <1>1, <1>2 DEF SameBidding
<1>3. CASE auction' # auction
  <2>1. \/ auction' = [auction EXCEPT !.status = "ending"]
        \/ \E b : auction' = [auction EXCEPT !.status = "ended", !.outcome = b]
        \/ auction' = [auction EXCEPT !.status = "settling"]
    BY <1>3, OthersChangeStatus
  <2> QED
    BY <1>1, <2>1 DEF TypeOK, Auction, SameBidding
<1> QED
  BY <1>2, <1>3

LEMMA OthersLeaveLock ==
    ASSUME ~LockMayLapse, TypeOK, OthersStep, NEW q \in Requests,
           pc[q] \in InLock, bidLock = q
    PROVE  bidLock' = bidLock
<1>1. ~BidLockLapses
  BY DEF BidLockLapses, InLock
<1> QED
  BY <1>1 DEF OthersStep, EnderMoves, FindExpired, AcquireEndLock,
     TransitionLiveToEnding, TransitionEndingToEnded, ReleaseEndLock, CrashEnder,
     PatchRead, PatchSelect, PatchUpdate, InitiateSettlement, ClockTicks,
     EndLockLapses, vars

\* A step of request r.
MovesOn(r) ==
    \/ \E k \in Keys, a \in Amounts : Arrive(r, k, a)
    \/ RequestMoves(r) \/ CrashRequest(r)

\* A commit that takes effect writes the bid: price, count and extension.
LEMMA CommitWrites ==
    ASSUME IInv, ReadLive, NEW r \in Requests, Faithful(r), CommitBid(r),
           ~UNCHANGED <<auction, bids>>
    PROVE  /\ bids' = bids \cup {NewBid(r)}
           /\ auction.status = "live"
           /\ auction'.price = dto[r].amount
           /\ auction'.count = auction.count + 1
           /\ auction'.extended = entity[r].extended
           /\ Raises(dto[r], auction)
<1>1. /\ pc[r] = "commit"
      /\ bids' = bids \cup {NewBid(r)}
      /\ auction' = Written(auction, entity[r], dirty[r])
  BY DEF CommitBid
<1>2. auction.status = "live"
  BY CommitsWhileLive DEF IInv
<1>3. /\ auction'.price = entity[r].price /\ auction'.count = entity[r].count
      /\ auction'.extended = entity[r].extended
  BY <1>1 DEF Written, Columns, Faithful
<1> QED
  BY <1>1, <1>2, <1>3 DEF Faithful

\* A request's step leaves the others' alone, and the row and the lock of whoever
\* holds it.
LEMMA RequestLeavesOthers ==
    ASSUME IInv, ReadLive, NEW r \in Requests, MovesOn(r), Faithful(r),
           NEW q \in Requests, q # r, Faithful(q)
    PROVE  Faithful(q)'
<1> USE DEF TypeOK, Goto
<1>1. /\ pc'[q] = pc[q] /\ entity'[q] = entity[q] /\ dirty'[q] = dirty[q]
      /\ CommitBid(r) \/ UNCHANGED <<auction, bids>>
  BY RequestReads DEF IInv, MovesOn
<1>2. dto'[q] = dto[q] /\ answer'[q] = answer[q]
  <2>1. CASE Drop(r)
    BY <2>1 DEF Drop, IInv
  <2>2. CASE AcquireBidLock(r) \/ Unlock(r) \/ CrashRequest(r)
    BY <2>1, <2>2 DEF AcquireBidLock, Unlock, CrashRequest, requestVars
  <2>3. CASE RecheckKey(r) \/ ReadAuction(r) \/ CheckDuplicate(r) \/ CommitBid(r)
    BY <2>3 DEF RecheckKey, ReadAuction, CheckDuplicate, CommitBid, Answer, IInv
  <2>4. CASE InsertBid(r) \/ SaveSelect(r)
    BY <2>4 DEF InsertBid, SaveSelect, Answer, IInv
  <2>5. CASE \E k \in Keys, a \in Amounts : Arrive(r, k, a)
    BY <2>5 DEF Arrive, IInv
  <2> QED
    BY <2>2, <2>3, <2>4, <2>5 DEF MovesOn, RequestMoves
<1>3. ASSUME pc[q] \in InLock
      PROVE  bidLock' = bidLock /\ SameBidding(auction', auction)
  <2>1. bidLock = q /\ bidLock # NoOne
    BY <1>3, BiddingAssumption DEF Faithful
  <2>2. pc[r] \notin InLock
    BY <2>1 DEF Faithful
  <2>3. ~CommitBid(r) /\ ~Unlock(r)
    BY <2>2 DEF CommitBid, Unlock, InLock
  <2>4. bidLock' = bidLock
    BY <2>1, <2>3 DEF MovesOn, RequestMoves, Arrive, AcquireBidLock, BidLockFree, RecheckKey,
       ReadAuction, CheckDuplicate, InsertBid, SaveSelect, CrashRequest
  <2> QED
    BY <1>1, <2>3, <2>4 DEF SameBidding
<1> QED
  BY <1>1, <1>2, <1>3, FaithfulCarried

\* Read, check, insert and diff: what the request holds stays true of the row.
LEMMA OwnStepFaithful ==
    ASSUME IInv, ReadLive, NEW r \in Requests, MovesOn(r), Faithful(r)
    PROVE  Faithful(r)'
<1> USE DEF TypeOK, Goto
<1>1. ASSUME NEW k \in Keys, NEW a \in Amounts, Arrive(r, k, a) PROVE Faithful(r)'
  <2>1. pc'[r] \in {"idle", "lock"} /\ dirty'[r] = {}
    BY <1>1 DEF Arrive, IInv, Faithful
  <2> QED
    BY <2>1 DEF Faithful, InLock
<1>2. ASSUME Drop(r) PROVE Faithful(r)'
  <2>1. pc'[r] = "idle" /\ dirty'[r] = {}
    BY <1>2 DEF Drop, IInv
  <2> QED
    BY <2>1 DEF Faithful, InLock
<1>3. CASE AcquireBidLock(r)
  <2>1. \/ Drop(r)
        \/ /\ pc[r] = "lock" /\ pc'[r] = "recheck" /\ dirty' = dirty /\ bidLock' = r
    BY <1>3 DEF AcquireBidLock, requestVars, IInv
  <2> QED
    BY <2>1, <1>2 DEF Faithful, InLock
<1>4. CASE RecheckKey(r)
  <2>1. /\ pc[r] = "recheck" /\ pc'[r] \in {"unlock", "read"}
        /\ UNCHANGED <<dirty, bidLock>>
    BY <1>4 DEF RecheckKey, Answer, IInv
  <2> QED
    BY <2>1 DEF Faithful, InLock, Extends
<1>5. CASE ReadAuction(r)
  <2>1. /\ pc[r] = "read" /\ UNCHANGED <<auction, dto, dirty, bidLock>>
        /\ \/ /\ pc'[r] = "duplicate" /\ Raises(dto[r], auction)
              /\ entity'[r] = auction
           \/ pc'[r] = "unlock"
    BY <1>5 DEF ReadAuction, Answer, IInv
  <2> QED
    BY <2>1 DEF Faithful, InLock, Extends, SameBidding, Raises
<1>6. CASE CheckDuplicate(r)
  <2>1. /\ pc[r] = "duplicate" /\ pc'[r] \in {"unlock", "insert"}
        /\ UNCHANGED <<auction, dto, dirty, bidLock, entity>>
    BY <1>6 DEF CheckDuplicate, Answer, IInv
  <2> QED
    BY <2>1 DEF Faithful, InLock, Extends, SameBidding, Raises
<1>7. CASE InsertBid(r)
  <2>1. /\ pc[r] = "insert" /\ UNCHANGED <<auction, dirty, bidLock>>
        /\ \/ /\ pc'[r] = "select" /\ dto'[r].amount = dto[r].amount
              /\ entity'[r] = Bidded(entity[r], dto[r].amount)
           \/ pc'[r] = "unlock"
    BY <1>7 DEF InsertBid, Answer, IInv
  <2>2. CASE pc'[r] = "unlock"
    BY <2>1, <2>2 DEF Faithful, InLock, Extends
  <2>3. CASE pc'[r] = "select"
    <3> DEFINE new == Bidded(entity[r], dto[r].amount)
    <3>1. /\ new.price = dto[r].amount /\ new.count = entity[r].count + 1
          /\ \/ new.extended = entity[r].extended
             \/ /\ new.extended = now + SniperWindow
                /\ End(entity[r]) - now <= SniperWindow
      BY DEF Bidded, Auction, IInv
    <3>2. SameBidding(entity[r], auction)
      BY <2>1 DEF Faithful
    <3>3. End(entity[r]) = End(auction) /\ End(auction) \in Nat
      BY <3>2, BiddingAssumption DEF SameBidding, End, IInv, Auction
    <3>4. /\ new.count = auction.count + 1
          /\ new.extended # auction.extended => new.extended >= End(auction)
      <4>1. now \in Nat /\ SniperWindow \in Nat
        BY BiddingAssumption DEF IInv
      <4> QED
        BY <3>1, <3>2, <3>3, <4>1 DEF SameBidding
    <3>5. Raises(dto[r], auction) /\ dirty[r] = {} /\ bidLock = r
      BY <2>1 DEF Faithful, InLock
    <3>6. entity'[r] = new /\ dto'[r].amount = dto[r].amount
      BY <2>1, <2>3
    <3> HIDE DEF new
    <3>7. /\ entity'[r].price = dto'[r].amount
          /\ entity'[r].count = auction.count + 1
          /\ entity'[r].extended # auction.extended => entity'[r].extended >= End(auction)
      BY <3>1, <3>4, <3>6 DEF new
    <3> QED
      BY <2>1, <2>3, <3>5, <3>6, <3>7 DEF Faithful, Raises, End
  <2> QED
    BY <2>1, <2>2, <2>3
<1>8. CASE SaveSelect(r)
  <2>1. /\ pc[r] = "select" /\ pc'[r] = "commit"
        /\ UNCHANGED <<auction, dto, bidLock, entity>>
        /\ dirty'[r] = Differing(auction, entity[r])
    BY <1>8 DEF SaveSelect, IInv
  <2>2. /\ Raises(dto[r], auction) /\ bidLock = r
        /\ entity[r].price = dto[r].amount
        /\ entity[r].count = auction.count + 1
        /\ entity[r].extended # auction.extended => entity[r].extended >= End(auction)
    BY <2>1 DEF Faithful, InLock
  <2>3. entity[r].price # auction.price /\ entity[r].count # auction.count
    BY <2>2, BiddingAssumption DEF Raises, IInv, Auction
  <2>4. /\ "price" \in dirty'[r] /\ "count" \in dirty'[r]
        /\ "extended" \in dirty'[r] <=> entity[r].extended # auction.extended
    BY <2>1, <2>3 DEF Differing, Columns
  <2> QED
    BY <2>1, <2>2, <2>4 DEF Faithful, Raises, End
<1>9. CASE CommitBid(r)
  <2>1. /\ pc[r] = "commit" /\ pc'[r] = "unlock"
        /\ UNCHANGED <<bidLock, entity, dirty>>
    BY <1>9 DEF CommitBid, Answer, IInv
  <2>2. CASE UNCHANGED <<auction, bids>>
    <3>1. answer'[r] = "rejected"
      <4>1. bids' # bids \cup {NewBid(r)}
        BY <2>1, <2>2 DEF IInv, KeysApart, SharesRow, NewBid
      <4> QED
        BY <1>9, <4>1 DEF CommitBid, Answer, IInv
    <3> QED
      BY <2>1, <3>1 DEF Faithful, InLock
  <2>3. CASE ~UNCHANGED <<auction, bids>>
    <3>1. auction'.extended = entity[r].extended
      BY <1>9, <2>3, CommitWrites
    <3>2. ASSUME Extends(r)
          PROVE  entity[r].extended # 0
      <4>1. entity[r].extended >= End(auction)
        BY <2>1, <3>2 DEF Faithful, Extends
      <4>2. End(auction) \in Nat \ {0}
        BY BiddingAssumption DEF End, IInv, Auction
      <4> QED
        BY <4>1, <4>2
    <3> QED
      BY <2>1, <3>1, <3>2 DEF Faithful, InLock, Extends
  <2> QED
    BY <2>2, <2>3
<1>10. CASE Unlock(r) \/ CrashRequest(r)
  BY <1>10, <1>2 DEF Unlock, CrashRequest
<1> QED
  BY <1>1, <1>3, <1>4, <1>5, <1>6, <1>7, <1>8, <1>9, <1>10 DEF MovesOn, RequestMoves

LEMMA FaithfulPreserved ==
    ASSUME ~AdminPatches, ~LockMayLapse, IInv, ReadLive, [Next]_vars,
           \A r \in Requests : Faithful(r)
    PROVE  \A r \in Requests : Faithful(r)'
<1>1. ASSUME OthersStep, NEW q \in Requests PROVE Faithful(q)'
  <2>1. /\ pc'[q] = pc[q] /\ dto' = dto /\ entity' = entity /\ dirty' = dirty
        /\ answer' = answer /\ SameBidding(auction', auction)
    BY <1>1, OthersLeaveRequests, OthersLeaveBidding DEF IInv
  <2>2. pc[q] \in InLock => bidLock' = bidLock
    BY <1>1, OthersLeaveLock DEF Faithful, IInv
  <2> QED
    BY <2>1, <2>2, FaithfulCarried
<1>2. ASSUME NEW r \in Requests, MovesOn(r), NEW q \in Requests PROVE Faithful(q)'
  BY <1>2, OwnStepFaithful, RequestLeavesOthers
<1> QED
  BY <1>1, <1>2, NextSplits DEF MovesOn

\* Nobody but the unlocking request tells a client of an extension.
LEMMA PromisePreserved ==
    ASSUME ~AdminPatches, IInv, ReadLive, PromiseKept, [Next]_vars,
           \A r \in Requests : Faithful(r)
    PROVE  PromiseKept'
<1>1. CASE OthersStep
  BY <1>1, OthersLeaveBidding DEF PromiseKept, SameBidding, End, IInv
<1>2. ASSUME NEW r \in Requests, MovesOn(r) PROVE PromiseKept'
  <2>1. CASE Unlock(r)
    <3>1. /\ pc[r] = "unlock" /\ auction' = auction
          /\ \/ promised' = promised
             \/ /\ answer[r] = "accepted" /\ Extends(r)
                /\ promised' = entity[r].extended
      BY <2>1 DEF Unlock
    <3>2. CASE promised' = promised
      BY <3>1, <3>2 DEF PromiseKept, End
    <3>3. CASE promised' # promised
      <4>1. promised' = auction.extended /\ auction.extended # 0
        BY <3>1, <3>3 DEF Faithful
      <4>2. promised' = End(auction) /\ promised' \in Nat
        BY <4>1 DEF End, IInv, TypeOK, Auction
      <4> QED
        BY <3>1, <4>2 DEF PromiseKept, End
    <3> QED
      BY <3>2, <3>3
  <2>2. CASE ~Unlock(r)
    <3>1. promised' = promised
      BY <1>2, <2>2 DEF MovesOn, RequestMoves, Arrive, AcquireBidLock, RecheckKey,
         ReadAuction, CheckDuplicate, InsertBid, SaveSelect, CommitBid, CrashRequest
    <3>2. CASE UNCHANGED auction
      BY <3>1, <3>2 DEF PromiseKept, End
    <3>3. CASE ~UNCHANGED auction
      <4>1. CommitBid(r)
        BY <1>2, <3>3, RequestReads DEF MovesOn, IInv
      <4>2. auction'.extended = entity[r].extended /\ auction.status = "live"
        BY <3>3, <4>1, CommitWrites
      <4>3. promised <= End(auction) /\ promised \in Nat /\ End(auction) \in Nat \ {0}
        BY <4>2, BiddingAssumption DEF PromiseKept, End, IInv, TypeOK, Auction
      <4>4. entity[r].extended # auction.extended => entity[r].extended >= End(auction)
        BY <4>1 DEF CommitBid, Faithful
      <4>5. entity[r].extended \in Nat
        BY DEF IInv, TypeOK, Auction
      <4>6. promised <= End(auction)'
        BY <4>2, <4>3, <4>4, <4>5 DEF End
      <4> QED
        BY <3>1, <4>6 DEF PromiseKept
    <3> QED
      BY <3>2, <3>3
  <2> QED
    BY <2>1, <2>2
<1> QED
  BY <1>1, <1>2, NextSplits DEF MovesOn

\* Each commit raises count by the one bid it adds, and price to its amount.
LEMMA RowPreserved ==
    ASSUME ~AdminPatches, IInv, ReadLive, [Next]_vars,
           \A r \in Requests : Faithful(r),
           IsFiniteSet(bids), RowTellsBids, BidsApart
    PROVE  IsFiniteSet(bids)' /\ RowTellsBids' /\ BidsApart'
<1>1. ASSUME bids' = bids, SameBidding(auction', auction)
      PROVE  IsFiniteSet(bids)' /\ RowTellsBids' /\ BidsApart'
  BY <1>1 DEF SameBidding, RowTellsBids, BidsApart
<1>2. CASE OthersStep
  BY <1>1, <1>2, OthersLeaveRequests, OthersLeaveBidding DEF IInv
<1>3. ASSUME NEW r \in Requests, MovesOn(r)
      PROVE  IsFiniteSet(bids)' /\ RowTellsBids' /\ BidsApart'
  <2>1. CASE UNCHANGED <<auction, bids>>
    BY <1>1, <2>1 DEF SameBidding
  <2>2. CASE ~UNCHANGED <<auction, bids>>
    <3> DEFINE b == NewBid(r)
    <3>1. CommitBid(r)
      BY <1>3, <2>2, RequestReads DEF MovesOn, IInv
    <3>2. /\ bids' = bids \cup {b} /\ b.amount = dto[r].amount
          /\ auction'.price = dto[r].amount /\ auction'.count = auction.count + 1
          /\ dto[r].amount >= auction.price + MinIncrement
      BY <2>2, <3>1, CommitWrites DEF NewBid, Raises
    <3>3. /\ auction.price \in Nat /\ MinIncrement \in Nat \ {0}
          /\ \A c \in bids : c.amount \in Nat
          /\ dto[r].amount \in Nat
      BY <3>1, BiddingAssumption DEF IInv, TypeOK, Auction, Bid, Carries, CommitBid
    <3> HIDE DEF b
    <3>4. \A c \in bids : c.amount <= auction.price
      BY DEF RowTellsBids
    <3>5. \A c \in bids : b.amount >= c.amount + MinIncrement
      BY <3>2, <3>3, <3>4
    <3>6. b \notin bids
      BY <3>3, <3>5
    <3>7. IsFiniteSet(bids') /\ Cardinality(bids') = Cardinality(bids) + 1
      BY <3>2, <3>6, FS_AddElement
    <3>8. RowTellsBids'
      <4>1. auction'.count = Cardinality(bids')
        BY <3>2, <3>7 DEF RowTellsBids
      <4>2. \A c \in bids' : c.amount <= auction'.price
        BY <3>2, <3>3, <3>5
      <4> QED
        BY <3>2, <4>1, <4>2 DEF RowTellsBids
    <3>9. BidsApart'
      <4> SUFFICES ASSUME NEW c \in bids', NEW d \in bids', c # d
                   PROVE  \/ c.amount >= d.amount + MinIncrement
                          \/ d.amount >= c.amount + MinIncrement
        BY DEF BidsApart
      <4>1. CASE c \in bids /\ d \in bids
        BY <4>1 DEF BidsApart
      <4>2. CASE c = b \/ d = b
        BY <3>2, <3>5, <4>2
      <4> QED
        BY <3>2, <4>1, <4>2
    <3> QED
      BY <3>7, <3>8, <3>9
  <2> QED
    BY <2>1, <2>2
<1> QED
  BY <1>2, <1>3, NextSplits DEF MovesOn

\* The inductive invariant of the bid lock, on top of IInv.
LInv ==
    /\ ReadLive
    /\ \A r \in Requests : Faithful(r)
    /\ PromiseKept /\ IsFiniteSet(bids) /\ RowTellsBids /\ BidsApart

LEMMA LInvInductive ==
    ASSUME ~AdminPatches, ~LockMayLapse
    PROVE  Spec => [](IInv /\ LInv)
<1>1. ASSUME Init PROVE LInv
  <2>1. ReadLive /\ PromiseKept /\ BidsApart
    BY <1>1, BiddingAssumption DEF Init, NewAuction, ReadLive, PromiseKept, BidsApart, End
  <2>2. IsFiniteSet(bids) /\ RowTellsBids
    BY <1>1, FS_EmptySet DEF Init, NewAuction, RowTellsBids
  <2>3. \A r \in Requests : Faithful(r)
    BY <1>1 DEF Init, Faithful, InLock
  <2> QED
    BY <2>1, <2>2, <2>3 DEF LInv
<1>2. ASSUME IInv, LInv, [Next]_vars PROVE LInv'
  BY <1>2, ReadLivePreserved, FaithfulPreserved, PromisePreserved, RowPreserved
     DEF LInv, IInv
<1> QED
  BY <1>1, <1>2, IInvInductive, PTL DEF Spec

\* The price and the counter beside an auction are those of its bids: no two
\* saves overwrite each other, for any number of requests at the same time.
THEOREM RowIsTrue ==
    ASSUME ~AdminPatches, ~LockMayLapse
    PROVE  Spec => []RowTellsBids
<1>1. LInv => RowTellsBids
  BY DEF LInv
<1> QED
  BY <1>1, LInvInductive, PTL

\* Two bids always differ by an increment, so nothing ever depends on who of
\* two equal bidders was first.
THEOREM NoTies ==
    ASSUME ~AdminPatches, ~LockMayLapse
    PROVE  Spec => []BidsApart
<1>1. LInv => BidsApart
  BY DEF LInv
<1> QED
  BY <1>1, LInvInductive, PTL

\* Whoever has been told of an extension may bid until it is over: the worker
\* looks at the end again under the row lock, and no later bid shortens it.
THEOREM ExtensionsHold ==
    ASSUME ~AdminPatches, ~LockMayLapse
    PROVE  Spec => ExtensionHonoured
<1>1. ASSUME IInv, LInv, [Next]_vars, auction.status = "live", auction'.status = "ending"
      PROVE  now >= promised
  <2>1. CASE OthersStep
    <3>1. /\ \A e \in Enders : ~TransitionEndingToEnded(e)
          /\ ~InitiateSettlement /\ ~PatchUpdate
          /\ auction' # auction
      BY <1>1 DEF TransitionEndingToEnded, InitiateSettlement, PatchUpdate, LInv, ReadLive
    <3>2. PICK e \in Enders : TransitionLiveToEnding(e)
      BY <2>1, <3>1 DEF OthersStep, EnderMoves, FindExpired, AcquireEndLock,
         ReleaseEndLock, CrashEnder, PatchRead, PatchSelect, ClockTicks,
         BidLockLapses, EndLockLapses, vars
    <3>3. End(auction) <= now
      BY <3>1, <3>2 DEF TransitionLiveToEnding, MayEnd
    <3>4. promised <= End(auction)
      BY <1>1 DEF LInv, PromiseKept
    <3>5. promised \in Nat /\ now \in Nat /\ End(auction) \in Nat
      BY BiddingAssumption, <1>1 DEF IInv, TypeOK, Auction, End
    <3> QED
      BY <3>3, <3>4, <3>5
  <2>2. ASSUME NEW r \in Requests, MovesOn(r) PROVE FALSE
    BY <1>1, <2>2, RequestReads, CommitsWhileLive DEF MovesOn, IInv, LInv
  <2> QED
    BY <1>1, <2>1, <2>2, NextSplits DEF MovesOn
<1>2. IInv /\ LInv /\ [Next]_vars =>
        [auction.status = "live" /\ auction'.status = "ending" => now >= promised]_vars
  BY <1>1
<1> QED
  BY <1>2, LInvInductive, PTL DEF Spec, ExtensionHonoured
=============================================================================
