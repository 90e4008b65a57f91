---------------------------- MODULE BidBookProofs ----------------------------
(***************************************************************************)
(* Proofs about BidBook, for any number of bidders, bids, requests in      *)
(* flight and any set of operations.                                       *)
(*                                                                         *)
(* TotalBidsIsRowCount is not inductive: createBid decrements totalBids by *)
(* the number of bids it listed before it deletes them, so the listed bids *)
(* must still be rows then.  They are, because only a transaction that     *)
(* holds the auction row deletes bids, and only one holds it.              *)
(***************************************************************************)
EXTENDS BidBook, FiniteSetTheorems, TLAPS

\* At most one transaction holds the auction row.
OneLockHolder ==
    \A r, s \in Request : At(r, "createBidTx") /\ At(s, "createBidTx") => r = s

\* While it does, the auction is open and the bids to replace are rows.
HolderIsCurrent ==
    \A r \in Request : At(r, "createBidTx") =>
        status \in Open /\ req[r].deletedBidIds \subseteq rows

\* A bid written by an uncommitted retraction or restoration is a row.
WrittenBidsAreRows ==
    \A r \in Request : At(r, "retractTx") \/ At(r, "restoreTx") => req[r].bid \in rows

\* A row has a bidder: an id without one was never used.
RowsHaveBidder == \A b \in rows : bidderId[b] # None

IInv ==
    /\ TypeOK
    /\ TotalBidsIsRowCount
    /\ OneLockHolder
    /\ HolderIsCurrent
    /\ WrittenBidsAreRows
    /\ RowsHaveBidder

-----------------------------------------------------------------------------
(***************************************************************************)
(* The fields of a request, from the point it is at.                       *)
(***************************************************************************)
LEMMA StateAt ==
    ASSUME NEW s \in RequestState
    PROVE  /\ s.pc = "createBid" => s \in CreateBidState
           /\ s.pc = "createBidTx" => s \in CreateBidTxState
           /\ s.pc = "retract" => s \in RetractState
           /\ s.pc = "retractTx" => s \in RetractTxState
           /\ s.pc = "restore" => s \in RestoreState
           /\ s.pc = "restoreTx" => s \in RestoreTxState
           /\ s.pc = "chooseWinner" => s \in ChooseWinnerState
           /\ s.pc = "cancelWinner" => s \in CancelWinnerState
           /\ s.pc = "finalize" => s \in FinalizeState
           /\ s.pc = "update" => s \in UpdateState
  BY DEF RequestState, CreateBidState, CreateBidTxState, RetractState, RetractTxState,
         RestoreState, RestoreTxState, ChooseWinnerState, CancelWinnerState, FinalizeState,
         UpdateState

\* Replacing the listed bids by a new one changes the number of rows by the
\* difference createBid writes to totalBids.
LEMMA ReplaceCount ==
    ASSUME NEW S, IsFiniteSet(S), NEW gone \in SUBSET S, NEW b, b \notin S
    PROVE  Cardinality((S \ gone) \union {b}) = Cardinality(S) - Cardinality(gone) + 1
<1>1. IsFiniteSet(gone) /\ IsFiniteSet(S \ gone)
  BY FS_Subset
<1>2. Cardinality(S \ gone) = Cardinality(S) - Cardinality(S \intersect gone)
  BY <1>1, FS_Difference
<1>3. S \intersect gone = gone
  OBVIOUS
<1>4. Cardinality((S \ gone) \union {b}) = Cardinality(S \ gone) + 1
  BY <1>1, FS_AddElement
<1> QED
  BY <1>2, <1>3, <1>4

-----------------------------------------------------------------------------
(***************************************************************************)
(* Steps that leave a request where it holds no lock.                      *)
(***************************************************************************)
Unlocked(state) == state.pc \notin {"createBidTx", "retractTx", "restoreTx"}

\* The requests' part of the invariant survives when the rows stay, and the
\* status stays or is written by the only request that may write it.
LEMMA RequestsPreserved ==
    ASSUME IInv, NEW r \in Request, NEW state \in RequestState, Unlocked(state),
           Goto(r, state), rows' = rows, status' = status \/ ~AuctionLocked(r)
    PROVE  /\ req' \in [Request -> RequestState]
           /\ OneLockHolder' /\ HolderIsCurrent' /\ WrittenBidsAreRows'
<1>1. req \in [Request -> RequestState]
  BY DEF IInv, TypeOK
<1>2. req' \in [Request -> RequestState]
  BY <1>1 DEF Goto
<1>3. \A s \in Request : ~Unlocked(req'[s]) => s # r /\ req'[s] = req[s]
  BY <1>1 DEF Goto
<1>4. OneLockHolder'
  BY <1>3 DEF IInv, OneLockHolder, At, Unlocked
<1>5. HolderIsCurrent'
  BY <1>3 DEF IInv, HolderIsCurrent, At, Unlocked, AuctionLocked
<1>6. WrittenBidsAreRows'
  BY <1>3 DEF IInv, WrittenBidsAreRows, At, Unlocked
<1> QED
  BY <1>2, <1>4, <1>5, <1>6

\* Reads, failures and finished checks: only the request moves.
LEMMA ReadPreserves ==
    ASSUME IInv, NEW r \in Request, NEW state \in RequestState, Unlocked(state),
           Goto(r, state), UNCHANGED <<auctionVars, bidVars, refunds>>
    PROVE  IInv'
<1> USE DEF auctionVars, bidVars
<1>1. /\ req' \in [Request -> RequestState]
      /\ OneLockHolder' /\ HolderIsCurrent' /\ WrittenBidsAreRows'
  BY RequestsPreserved
<1>2. TypeOK'
  BY <1>1 DEF IInv, TypeOK
<1>3. TotalBidsIsRowCount' /\ RowsHaveBidder'
  BY DEF IInv, TotalBidsIsRowCount, RowsHaveBidder
<1> QED
  BY <1>1, <1>2, <1>3 DEF IInv

\* A write that leaves bids where they are, and marks only rows.
LEMMA WritePreserves ==
    ASSUME IInv, NEW r \in Request, NEW state \in RequestState, Unlocked(state),
           Goto(r, state), UNCHANGED <<rows, bidderId, amount, totalBids>>,
           status' = status \/ ~AuctionLocked(r),
           status' \in AuctionStatus, deleted' \in BOOLEAN, startPrice' \in StartPrice,
           currentPrice' \in Nat, winnerId' \in Bidder \union {None},
           isRetracted' \subseteq rows, rejectedAt' \subseteq rows, isWinning' \subseteq rows,
           readByOwnerAt' = readByOwnerAt,
           refunds' \in 0..MaxRefunds
    PROVE  IInv'
<1>1. /\ req' \in [Request -> RequestState]
      /\ OneLockHolder' /\ HolderIsCurrent' /\ WrittenBidsAreRows'
  BY RequestsPreserved
<1>2. TypeOK'
  BY <1>1 DEF IInv, TypeOK
<1>3. TotalBidsIsRowCount' /\ RowsHaveBidder'
  BY DEF IInv, TotalBidsIsRowCount, RowsHaveBidder
<1> QED
  BY <1>1, <1>2, <1>3 DEF IInv

\* Where a request can be sent without holding a lock.
LEMMA IdleState == Idle \in RequestState /\ Unlocked(Idle)
  BY DEF Idle, RequestState, Unlocked

-----------------------------------------------------------------------------
(***************************************************************************)
(* createBid                                                               *)
(***************************************************************************)
LEMMA CreateBidLockPreserves ==
    ASSUME IInv, NEW r \in Request, CreateBidLock(r)
    PROVE  IInv'
<1> DEFINE state == [pc |-> "createBidTx", user |-> req[r].user, amount |-> req[r].amount,
                     deletedBidIds |-> LiveOf(req[r].user)]
<1>1. req[r] \in CreateBidState
  BY StateAt DEF IInv, TypeOK, CreateBidLock, At
<1>2. LiveOf(req[r].user) \subseteq rows /\ rows \subseteq Bid
  BY DEF IInv, TypeOK, LiveOf, Live
<1>3. state \in CreateBidTxState /\ state \in RequestState
  BY <1>1, <1>2 DEF CreateBidState, CreateBidTxState, RequestState
<1>4. Goto(r, state) /\ UNCHANGED <<auctionVars, bidVars, refunds>>
  BY DEF CreateBidLock
<1>5. req' \in [Request -> RequestState] /\ req'[r] = state
  BY <1>3, <1>4 DEF Goto, IInv, TypeOK
<1>6. \A s \in Request \ {r} : req'[s] = req[s] /\ ~At(s, "createBidTx")
  BY <1>4 DEF Goto, IInv, TypeOK, CreateBidLock, AuctionLocked
<1>7. TypeOK' /\ TotalBidsIsRowCount' /\ RowsHaveBidder'
  BY <1>4, <1>5 DEF IInv, TypeOK, TotalBidsIsRowCount, RowsHaveBidder, auctionVars, bidVars
<1>8. OneLockHolder'
  BY <1>6 DEF OneLockHolder, At
<1>9. HolderIsCurrent'
  <2>1. status' \in Open /\ rows' = rows
    BY <1>4 DEF CreateBidLock, TakesBids, auctionVars, bidVars
  <2> QED
    BY <1>2, <1>5, <1>6, <2>1 DEF HolderIsCurrent, At
<1>10. WrittenBidsAreRows'
  BY <1>4, <1>5, <1>6 DEF IInv, WrittenBidsAreRows, At, bidVars
<1> QED
  BY <1>7, <1>8, <1>9, <1>10 DEF IInv

LEMMA CreateBidCommitPreserves ==
    ASSUME IInv, NEW r \in Request, NEW b \in Bid, CreateBidCommit(r, b)
    PROVE  IInv'
<1> DEFINE gone == req[r].deletedBidIds
<1>1. req[r] \in CreateBidTxState /\ req \in [Request -> RequestState] /\ rows \subseteq Bid
  BY StateAt DEF IInv, TypeOK, CreateBidCommit, At
<1>2. gone \subseteq rows /\ b \notin rows
  BY DEF IInv, HolderIsCurrent, RowsHaveBidder, CreateBidCommit
<1>3. rows' = (rows \ gone) \union {b}
  BY DEF CreateBidCommit
<1>4. \A s \in Request \ {r} : req'[s] = req[s] /\ ~At(s, "createBidTx")
  BY <1>1 DEF CreateBidCommit, Goto, IInv, OneLockHolder
<1>5. req' \in [Request -> RequestState] /\ req'[r] = Idle
  BY <1>1, IdleState DEF CreateBidCommit, Goto
<1>6. IsFiniteSet(rows) /\ IsFiniteSet(gone)
  BY <1>1, <1>2, FS_Subset, BidBookAssumption
<1>7. Cardinality(gone) \in Nat
  BY <1>6, FS_CardinalityType
<1>8. TypeOK'
  <2>1. status' \in AuctionStatus /\ totalBids' \in Int
    BY <1>7 DEF CreateBidCommit, AuctionStatus, IInv, TypeOK
  <2>5. currentPrice' \in Nat
    BY <1>1, BidBookAssumption DEF CreateBidCommit, CreateBidTxState
  <2>2. rows' \subseteq Bid
    BY <1>1, <1>3
  <2>3. bidderId' \in [Bid -> Bidder \union {None}] /\ amount' \in [Bid -> Nat]
    BY <1>1, BidBookAssumption DEF CreateBidCommit, CreateBidTxState, IInv, TypeOK
  <2>4. /\ isRetracted' \subseteq rows' /\ rejectedAt' \subseteq rows' /\ isWinning' \subseteq rows'
        /\ readByOwnerAt' \subseteq rows'
    BY <1>3 DEF CreateBidCommit, WinningWithNew, IInv, TypeOK
  <2> QED
    BY <1>5, <2>1, <2>2, <2>3, <2>4, <2>5 DEF CreateBidCommit, IInv, TypeOK
<1>9. TotalBidsIsRowCount'
  <2>1. Cardinality(rows') = Cardinality(rows) - Cardinality(gone) + 1
    BY <1>2, <1>3, <1>6, ReplaceCount
  <2> QED
    BY <2>1 DEF CreateBidCommit, IInv, TotalBidsIsRowCount
<1>10. OneLockHolder' /\ HolderIsCurrent'
  BY <1>4, <1>5 DEF OneLockHolder, HolderIsCurrent, At, Idle
<1>11. WrittenBidsAreRows'
  <2> SUFFICES ASSUME NEW s \in Request \ {r}, At(s, "retractTx") \/ At(s, "restoreTx")
               PROVE  req[s].bid \in rows'
    BY <1>4, <1>5 DEF WrittenBidsAreRows, At, Idle
  <2>1. req[s].bid \in rows /\ req[s].bid \in LockedBids(r)
    BY DEF IInv, WrittenBidsAreRows, LockedBids
  <2>2. req[s].bid \notin gone
    BY <2>1 DEF CreateBidCommit
  <2> QED
    BY <1>3, <2>1, <2>2
<1>12. RowsHaveBidder'
  <2>1. \A c \in rows' : c = b \/ c \in rows
    BY <1>3
  <2>2. bidderId' = [bidderId EXCEPT ![b] = req[r].user] /\ req[r].user \in Bidder
    BY <1>1 DEF CreateBidCommit, CreateBidTxState
  <2>3. bidderId'[b] # None /\ \A c \in rows : bidderId'[c] # None
    BY <1>1, <1>2, <2>2, BidBookAssumption DEF IInv, TypeOK, RowsHaveBidder
  <2> QED
    BY <2>1, <2>3 DEF RowsHaveBidder
<1> QED
  BY <1>8, <1>9, <1>10, <1>11, <1>12 DEF IInv

-----------------------------------------------------------------------------
(***************************************************************************)
(* retractBid and restoreBid                                               *)
(***************************************************************************)

\* A transaction that has written its bid's row and not committed.
LEMMA TxStartPreserves ==
    ASSUME IInv, NEW r \in Request, NEW state \in RequestState,
           state.pc \in {"retractTx", "restoreTx"}, state.bid \in rows,
           Goto(r, state), UNCHANGED <<auctionVars, bidVars, refunds>>
    PROVE  IInv'
<1> USE DEF auctionVars, bidVars
<1>1. req \in [Request -> RequestState]
  BY DEF IInv, TypeOK
<1>2. req' \in [Request -> RequestState] /\ req'[r] = state
  BY <1>1 DEF Goto
<1>3. \A s \in Request \ {r} : req'[s] = req[s]
  BY <1>1 DEF Goto
<1>4. TypeOK'
  BY <1>2 DEF IInv, TypeOK
<1>5. TotalBidsIsRowCount' /\ RowsHaveBidder'
  BY DEF IInv, TotalBidsIsRowCount, RowsHaveBidder
<1>6. OneLockHolder' /\ HolderIsCurrent' /\ WrittenBidsAreRows'
  BY <1>2, <1>3 DEF IInv, OneLockHolder, HolderIsCurrent, WrittenBidsAreRows, At
<1> QED
  BY <1>4, <1>5, <1>6 DEF IInv

LEMMA RetractPreserves ==
    ASSUME IInv, NEW r \in Request,
           \/ \E b \in Bid, isOwner \in BOOLEAN : RetractBidRead(r, b, isOwner)
           \/ RetractLosingBid(r) \/ RetractWinningBid(r) \/ RetractCommit(r)
    PROVE  IInv'
<1>1. ASSUME NEW b \in Bid, NEW isOwner \in BOOLEAN, RetractBidRead(r, b, isOwner)
      PROVE  IInv'
  <2> DEFINE state == [pc |-> "retract", bid |-> b, wasWinning |-> b \in isWinning,
                       isOwner |-> isOwner, startPrice |-> startPrice]
  <2>1. state \in RetractState
    BY DEF RetractState, IInv, TypeOK
  <2>2. state \in RequestState /\ Unlocked(state)
    BY <2>1 DEF RequestState, Unlocked
  <2> QED
    BY <1>1, <2>2, ReadPreserves DEF RetractBidRead
<1>2. CASE RetractLosingBid(r)
  <2>1. req[r].bid \in rows
    BY <1>2 DEF RetractLosingBid
  <2>2. isRetracted' \subseteq rows /\ rejectedAt' \subseteq rows /\ isWinning' \subseteq rows
    BY <1>2, <2>1 DEF RetractLosingBid, WriteRetraction, IInv, TypeOK
  <2> QED
    BY <1>2, <2>2, IdleState, WritePreserves
    DEF RetractLosingBid, IInv, TypeOK, auctionVars
<1>3. CASE RetractWinningBid(r)
  <2> DEFINE b == req[r].bid
  <2>1. PICK heir \in IF Successors(b) = {} THEN {None} ELSE Successors(b) :
            Goto(r, [pc |-> "retractTx", bid |-> b, isOwner |-> req[r].isOwner, heir |-> heir,
                     startPrice |-> req[r].startPrice])
    BY <1>3 DEF RetractWinningBid
  <2> DEFINE state == [pc |-> "retractTx", bid |-> b, isOwner |-> req[r].isOwner,
                       heir |-> heir, startPrice |-> req[r].startPrice]
  <2>2. req[r] \in RetractState
    BY <1>3, StateAt DEF IInv, TypeOK, RetractWinningBid, At
  <2>3. heir \in Bid \union {None}
    BY <2>1 DEF Successors, Highest, Live, IInv, TypeOK
  <2>4. state \in RetractTxState
    BY <2>2, <2>3 DEF RetractState, RetractTxState
  <2>5. state \in RequestState
    BY <2>4 DEF RequestState
  <2> HIDE DEF state
  <2>6. Goto(r, state) /\ state.pc = "retractTx" /\ state.bid \in rows
    BY <1>3, <2>1 DEF RetractWinningBid, state
  <2> QED
    BY <1>3, <2>5, <2>6, TxStartPreserves DEF RetractWinningBid
<1>4. CASE RetractCommit(r)
  <2>1. req[r] \in RetractTxState
    BY <1>4, StateAt DEF IInv, TypeOK, RetractCommit, At
  <2>2. req[r].bid \in rows
    BY <1>4 DEF IInv, WrittenBidsAreRows, RetractCommit
  <2>3. isRetracted' \subseteq rows /\ rejectedAt' \subseteq rows
    BY <1>4, <2>2 DEF RetractCommit, WriteRetraction, IInv, TypeOK
  <2>4. isWinning' \subseteq rows
    BY <1>4 DEF RetractCommit, IInv, TypeOK
  <2>5. req[r].startPrice \in Nat /\ (req[r].heir \in rows => amount[req[r].heir] \in Nat)
    BY <2>1, BidBookAssumption DEF RetractTxState, IInv, TypeOK
  <2>6. currentPrice' \in Nat
    BY <1>4, <2>5 DEF RetractCommit
  <2> QED
    BY <1>4, <2>3, <2>4, <2>6, IdleState, WritePreserves DEF RetractCommit, IInv, TypeOK
<1> QED
  BY <1>1, <1>2, <1>3, <1>4

LEMMA RestorePreserves ==
    ASSUME IInv, NEW r \in Request,
           \/ \E b \in Bid : RestoreBidRead(r, b)
           \/ RestoreBidTx(r) \/ RestoreBidCommit(r)
    PROVE  IInv'
<1>1. ASSUME NEW b \in Bid, RestoreBidRead(r, b)
      PROVE  IInv'
  <2>1. [pc |-> "restore", bid |-> b] \in RequestState /\ Unlocked([pc |-> "restore", bid |-> b])
    BY DEF RestoreState, RequestState, Unlocked
  <2> QED
    BY <1>1, <2>1, ReadPreserves DEF RestoreBidRead
<1>2. CASE RestoreBidTx(r)
  <2> DEFINE b == req[r].bid
  <2>1. PICK heir \in Highest(Live \union {b}) :
            Goto(r, [pc |-> "restoreTx", bid |-> b, heir |-> heir, seen |-> rows])
    BY <1>2 DEF RestoreBidTx
  <2> DEFINE state == [pc |-> "restoreTx", bid |-> b, heir |-> heir, seen |-> rows]
  <2>2. b \in rows /\ rows \subseteq Bid
    BY <1>2 DEF RestoreBidTx, IInv, TypeOK
  <2>3. heir \in Bid
    BY <2>1, <2>2 DEF Highest, Live
  <2>4. state \in RequestState
    BY <2>2, <2>3 DEF RestoreTxState, RequestState
  <2> HIDE DEF state
  <2>5. Goto(r, state) /\ state.pc = "restoreTx" /\ state.bid \in rows
    BY <2>1, <2>2 DEF state
  <2> QED
    BY <1>2, <2>4, <2>5, TxStartPreserves DEF RestoreBidTx
<1>3. CASE RestoreBidCommit(r)
  <2>1. isRetracted' \subseteq rows /\ rejectedAt' \subseteq rows /\ isWinning' \subseteq rows
    BY <1>3 DEF RestoreBidCommit, IInv, TypeOK
  <2>2. currentPrice' \in Nat
    BY <1>3 DEF RestoreBidCommit, IInv, TypeOK
  <2> QED
    BY <1>3, <2>1, <2>2, IdleState, WritePreserves DEF RestoreBidCommit, IInv, TypeOK
<1> QED
  BY <1>1, <1>2, <1>3

-----------------------------------------------------------------------------
(***************************************************************************)
(* The operations of auction.service.ts                                    *)
(***************************************************************************)
LEMMA AuctionStepsPreserve ==
    ASSUME IInv, NEW r \in Request, AuctionSteps(r)
    PROVE  IInv'
<1>1. ASSUME NEW u \in Bidder, ChooseWinnerRead(r, u)
      PROVE  IInv'
  <2> DEFINE state == [pc |-> "chooseWinner", user |-> u, seen |-> rows]
  <2>1. state \in RequestState /\ Unlocked(state)
    BY DEF ChooseWinnerState, RequestState, Unlocked, IInv, TypeOK
  <2> QED
    BY <1>1, <2>1, ReadPreserves DEF ChooseWinnerRead
<1>2. CASE ChooseWinnerCommit(r)
  <2>1. req[r].user \in Bidder
    BY <1>2, StateAt DEF ChooseWinnerCommit, ChooseWinnerState, At, IInv, TypeOK
  <2>2. isWinning' \subseteq rows
    BY <1>2 DEF ChooseWinnerCommit, BestOf, Highest, LiveOf, Live, IInv, TypeOK
  <2> QED
    BY <1>2, <2>1, <2>2, IdleState, WritePreserves
    DEF ChooseWinnerCommit, AuctionStatus, IInv, TypeOK
<1>3. CASE CancelWinnerRead(r)
  <2> DEFINE state == [pc |-> "cancelWinner", seen |-> isWinning]
  <2>1. state \in RequestState /\ Unlocked(state)
    BY DEF CancelWinnerState, RequestState, Unlocked, IInv, TypeOK
  <2> QED
    BY <1>3, <2>1, ReadPreserves DEF CancelWinnerRead
<1>4. CASE CancelWinnerCommit(r)
  <2>1. isWinning' \subseteq rows /\ rejectedAt' \subseteq rows
    BY <1>4 DEF CancelWinnerCommit, IInv, TypeOK
  <2> QED
    BY <1>4, <2>1, IdleState, WritePreserves DEF CancelWinnerCommit, IInv, TypeOK
<1>5. CASE FinalizeRead(r)
  <2> DEFINE state == [pc |-> "finalize", noBids |-> NoBids]
  <2>1. state \in RequestState /\ Unlocked(state)
    BY DEF FinalizeState, RequestState, Unlocked, NoBids
  <2> QED
    BY <1>5, <2>1, ReadPreserves DEF FinalizeRead
<1>6. CASE FinalizeEnd(r)
  <2>1. [pc |-> "refund"] \in RequestState /\ Unlocked([pc |-> "refund"])
    BY DEF RequestState, Unlocked
  <2>2. PICK state \in {[pc |-> "refund"], Idle} : Goto(r, state)
    BY <1>6 DEF FinalizeEnd
  <2> QED
    BY <1>6, <2>1, <2>2, IdleState, WritePreserves
    DEF FinalizeEnd, AuctionStatus, bidVars, IInv, TypeOK
<1>7. CASE FinalizeRefund(r)
  <2>1. refunds' \in 0..MaxRefunds
    BY <1>7, BidBookAssumption DEF FinalizeRefund, IInv, TypeOK
  <2> QED
    BY <1>7, <2>1, IdleState, WritePreserves DEF FinalizeRefund, auctionVars, bidVars, IInv, TypeOK
<1>8. ASSUME NEW s \in AuctionStatus \union {None}, NEW p \in StartPrice \union {None},
             UpdateAuctionRead(r, s, p)
      PROVE  IInv'
  <2> DEFINE state == [pc |-> "update", status |-> s, startPrice |-> p]
  <2>1. state \in RequestState /\ Unlocked(state)
    BY DEF UpdateState, RequestState, Unlocked
  <2> QED
    BY <1>8, <2>1, ReadPreserves DEF UpdateAuctionRead
<1>9. CASE DeleteAuctionRead(r)
  <2> DEFINE state == [pc |-> "update", status |-> "CANCELLED", startPrice |-> None]
  <2>1. state \in RequestState /\ Unlocked(state)
    BY DEF UpdateState, RequestState, Unlocked, AuctionStatus
  <2> QED
    BY <1>9, <2>1, ReadPreserves DEF DeleteAuctionRead
<1>10. CASE UpdateAuctionWrite(r)
  <2>1. req[r] \in UpdateState
    BY <1>10, StateAt DEF UpdateAuctionWrite, At, IInv, TypeOK
  <2>2. status' \in AuctionStatus /\ deleted' \in BOOLEAN
    BY <1>10, <2>1 DEF UpdateAuctionWrite, UpdateState, IInv, TypeOK
  <2>3. startPrice' \in StartPrice /\ currentPrice' \in Nat
    BY <1>10, <2>1, BidBookAssumption DEF UpdateAuctionWrite, UpdateState, IInv, TypeOK
  <2> QED
    BY <1>10, <2>2, <2>3, IdleState, WritePreserves
    DEF UpdateAuctionWrite, bidVars, IInv, TypeOK
<1> QED
  BY <1>1, <1>2, <1>3, <1>4, <1>5, <1>6, <1>7, <1>8, <1>9, <1>10 DEF AuctionSteps

\* The owner's marks are on rows, and nothing else moves.
LEMMA MarkPreserves ==
    ASSUME IInv, NEW r \in Request,
           (\E b \in Bid : MarkBidAsRead(r, b)) \/ MarkAllBidsAsRead(r)
    PROVE  IInv'
<1>1. /\ UNCHANGED <<auctionVars, rows, bidderId, amount, isRetracted, rejectedAt, isWinning>>
      /\ UNCHANGED <<refunds, req>>
  BY DEF MarkBidAsRead, MarkAllBidsAsRead
<1>2. readByOwnerAt' \subseteq rows
  BY DEF MarkBidAsRead, MarkAllBidsAsRead, Live, IInv, TypeOK
<1> QED
  BY <1>1, <1>2
  DEF auctionVars, IInv, TypeOK, TotalBidsIsRowCount, OneLockHolder, HolderIsCurrent,
      WrittenBidsAreRows, RowsHaveBidder, At

LEMMA BidStepsPreserve ==
    ASSUME IInv, NEW r \in Request, BidSteps(r)
    PROVE  IInv'
<1>1. ASSUME NEW u \in Bidder, NEW a \in Amount, CreateBidRead(r, u, a)
      PROVE  IInv'
  <2> DEFINE state == [pc |-> "createBid", user |-> u, amount |-> a]
  <2>1. state \in RequestState /\ Unlocked(state)
    BY DEF CreateBidState, RequestState, Unlocked
  <2> QED
    BY <1>1, <2>1, ReadPreserves DEF CreateBidRead
<1> QED
  BY <1>1, CreateBidLockPreserves, CreateBidCommitPreserves, RetractPreserves, RestorePreserves,
     MarkPreserves
  DEF BidSteps

-----------------------------------------------------------------------------
(***************************************************************************)
(* The inductive invariant, and what follows from it.                      *)
(***************************************************************************)
LEMMA InitIInv == Init => IInv
<1> SUFFICES ASSUME Init PROVE IInv
  OBVIOUS
<1>1. TypeOK
  <2>1. req \in [Request -> RequestState] /\ refunds \in 0..MaxRefunds
    BY IdleState, BidBookAssumption DEF Init
  <2>2. bidderId \in [Bid -> Bidder \union {None}] /\ amount \in [Bid -> Nat]
    BY DEF Init
  <2>3. startPrice \in StartPrice /\ currentPrice \in Nat
    BY BidBookAssumption DEF Init
  <2>4. totalBids \in Int
    BY DEF Init
  <2> QED
    BY <2>1, <2>2, <2>3, <2>4 DEF Init, TypeOK, AuctionStatus
<1>2. TotalBidsIsRowCount
  BY FS_EmptySet DEF Init, TotalBidsIsRowCount
<1>3. OneLockHolder /\ HolderIsCurrent /\ WrittenBidsAreRows /\ RowsHaveBidder
  BY DEF Init, OneLockHolder, HolderIsCurrent, WrittenBidsAreRows, RowsHaveBidder, At, Idle
<1> QED
  BY <1>1, <1>2, <1>3 DEF IInv

LEMMA NextIInv == IInv /\ [Next]_vars => IInv'
<1> SUFFICES ASSUME IInv, [Next]_vars PROVE IInv'
  OBVIOUS
<1>1. ASSUME NEW r \in Request, Abort(r) PROVE IInv'
  BY <1>1, IdleState, ReadPreserves DEF Abort
<1>2. CASE UNCHANGED vars
  BY <1>2 DEF vars, auctionVars, bidVars, IInv, TypeOK, TotalBidsIsRowCount, OneLockHolder,
              HolderIsCurrent, WrittenBidsAreRows, RowsHaveBidder, At
<1> QED
  BY <1>1, <1>2, BidStepsPreserve, AuctionStepsPreserve DEF Next

THEOREM Invariance == Spec => []IInv
  BY InitIInv, NextIInv, PTL DEF Spec

\* Every column and every request in flight keeps its type; in particular
\* only existing bids are ever marked retracted, rejected or winning.
THEOREM TypeCorrect == Spec => []TypeOK
<1>1. IInv => TypeOK
  BY DEF IInv
<1> QED
  BY <1>1, Invariance, PTL

\* totalBids counts the bid rows, however bids, retractions, restorations and
\* closings interleave.
THEOREM TotalBidsCorrect == Spec => []TotalBidsIsRowCount
<1>1. IInv => TotalBidsIsRowCount
  BY DEF IInv
<1> QED
  BY <1>1, Invariance, PTL

\* Only createBid adds a row.
LEMMA NewRowIsBid ==
    ASSUME Next, rows' \ rows # {}
    PROVE  \E r \in Request, b \in Bid : CreateBidCommit(r, b)
<1>1. PICK r \in Request : BidSteps(r) \/ AuctionSteps(r) \/ Abort(r)
  BY DEF Next
<1> QED
  BY <1>1
  DEF BidSteps, AuctionSteps, Abort, CreateBidRead, CreateBidLock, RetractBidRead,
      RetractLosingBid, RetractWinningBid, RetractCommit, RestoreBidRead, RestoreBidTx,
      RestoreBidCommit, ChooseWinnerRead, ChooseWinnerCommit, CancelWinnerRead,
      CancelWinnerCommit, FinalizeRead, FinalizeEnd, FinalizeRefund, UpdateAuctionRead,
      DeleteAuctionRead, UpdateAuctionWrite, MarkBidAsRead, MarkAllBidsAsRead, bidVars

\* No bid row appears on an auction that is not open.
THEOREM BidsOnlyWhileOpen == Spec => NoBidOnClosedAuction
<1>1. IInv /\ [Next]_vars => [rows' \ rows # {} => status \in Open /\ status' = "ACTIVE"]_vars
  <2> SUFFICES ASSUME IInv, Next, rows' \ rows # {}
               PROVE  status \in Open /\ status' = "ACTIVE"
    OBVIOUS
  <2>1. PICK r \in Request, b \in Bid : CreateBidCommit(r, b)
    BY NewRowIsBid
  <2> QED
    BY <2>1 DEF CreateBidCommit, IInv, HolderIsCurrent
<1> QED
  BY <1>1, Invariance, PTL DEF Spec, NoBidOnClosedAuction

-----------------------------------------------------------------------------
(***************************************************************************)
(* A bid replaces its bidder's earlier ones.  createBid lists the bids to  *)
(* replace when it takes the auction row; until it commits, that list must *)
(* go on covering the bidder's live bids.  It does: whatever makes a bid   *)
(* live writes the auction row too, and so waits.                          *)
(***************************************************************************)
HolderListsLive ==
    \A r \in Request : At(r, "createBidTx") => LiveOf(req[r].user) \subseteq req[r].deletedBidIds

\* Steps that give nobody the auction row, and make no bid live if somebody
\* else holds it.
LEMMA ListStillCovers ==
    ASSUME IInv, HolderListsLive, NEW r \in Request, req'[r].pc # "createBidTx",
           \A s \in Request \ {r} : req'[s] = req[s],
           bidderId' = bidderId, Live' \subseteq Live \/ ~AuctionLocked(r)
    PROVE  HolderListsLive'
<1> SUFFICES ASSUME NEW s \in Request, At(s, "createBidTx")'
             PROVE  {b \in Live' : bidderId'[b] = req'[s].user} \subseteq req'[s].deletedBidIds
  BY DEF HolderListsLive, LiveOf
<1>2. s # r /\ req'[s] = req[s] /\ At(s, "createBidTx")
  BY DEF At
<1>3. Live' \subseteq Live /\ LiveOf(req[s].user) \subseteq req[s].deletedBidIds
  BY <1>2 DEF HolderListsLive, AuctionLocked
<1> QED
  BY <1>2, <1>3 DEF LiveOf

LEMMA InitHolderListsLive == Init => HolderListsLive
  BY DEF Init, HolderListsLive, At, Idle

LEMMA NextHolderListsLive == IInv /\ HolderListsLive /\ [Next]_vars => HolderListsLive'
<1> SUFFICES ASSUME IInv, HolderListsLive, [Next]_vars PROVE HolderListsLive'
  OBVIOUS
<1> USE DEF auctionVars, bidVars
<1>1. ASSUME UNCHANGED <<rows, bidderId, isRetracted, rejectedAt, req>> PROVE HolderListsLive'
  BY <1>1 DEF HolderListsLive, At, LiveOf, Live
<1>2. ASSUME NEW r \in Request, BidSteps(r) PROVE HolderListsLive'
  <2>1. CASE CreateBidLock(r)
    <3>1. req \in [Request -> RequestState]
      BY DEF IInv, TypeOK
    <3>2. UNCHANGED <<rows, bidderId, isRetracted, rejectedAt>>
      BY <2>1 DEF CreateBidLock
    <3>3. \A u : LiveOf(u)' = LiveOf(u)
      BY <3>2 DEF LiveOf, Live
    <3>4. /\ req'[r].user = req[r].user /\ req'[r].deletedBidIds = LiveOf(req[r].user)
          /\ \A s \in Request \ {r} : req'[s] = req[s]
      BY <2>1, <3>1 DEF CreateBidLock, Goto
    <3> QED
      BY <3>3, <3>4 DEF HolderListsLive, At
  <2>2. ASSUME NEW b \in Bid, CreateBidCommit(r, b) PROVE HolderListsLive'
    <3>1. \A s \in Request : ~At(s, "createBidTx")'
      BY <2>2 DEF CreateBidCommit, Goto, Idle, At, IInv, TypeOK, OneLockHolder
    <3> QED
      BY <3>1 DEF HolderListsLive
  <2>3. CASE \/ \E u \in Bidder, a \in Amount : CreateBidRead(r, u, a)
             \/ \E b \in Bid, isOwner \in BOOLEAN : RetractBidRead(r, b, isOwner)
             \/ \E b \in Bid : RestoreBidRead(r, b)
             \/ RetractWinningBid(r) \/ RestoreBidTx(r)
    <3>1. UNCHANGED <<rows, bidderId, isRetracted, rejectedAt>>
      BY <2>3 DEF CreateBidRead, RetractBidRead, RestoreBidRead, RetractWinningBid, RestoreBidTx
    <3>2. req'[r].pc # "createBidTx" /\ \A s \in Request \ {r} : req'[s] = req[s]
      BY <2>3
      DEF CreateBidRead, RetractBidRead, RestoreBidRead, RetractWinningBid, RestoreBidTx, Goto,
          IInv, TypeOK
    <3> QED
      BY <3>1, <3>2, ListStillCovers DEF Live
  <2>4. CASE RetractLosingBid(r) \/ RetractCommit(r)
    BY <2>4, ListStillCovers
    DEF RetractLosingBid, RetractCommit, WriteRetraction, Live, Goto, Idle, IInv, TypeOK
  <2>5. CASE RestoreBidCommit(r)
    BY <2>5, ListStillCovers DEF RestoreBidCommit, Goto, Idle, IInv, TypeOK
  <2>6. CASE MarkAllBidsAsRead(r) \/ \E b \in Bid : MarkBidAsRead(r, b)
    BY <1>1, <2>6 DEF MarkBidAsRead, MarkAllBidsAsRead
  <2> QED
    BY <1>2, <2>1, <2>2, <2>3, <2>4, <2>5, <2>6 DEF BidSteps
<1>3. ASSUME NEW r \in Request, AuctionSteps(r) \/ Abort(r) PROVE HolderListsLive'
  <2>1. CASE ChooseWinnerCommit(r) \/ CancelWinnerCommit(r) \/ UpdateAuctionWrite(r)
    BY <2>1, ListStillCovers
    DEF ChooseWinnerCommit, CancelWinnerCommit, UpdateAuctionWrite, Goto, Idle, IInv, TypeOK
  <2>2. CASE \/ FinalizeEnd(r) \/ FinalizeRefund(r) \/ CancelWinnerRead(r) \/ FinalizeRead(r)
             \/ DeleteAuctionRead(r) \/ Abort(r)
             \/ \E u \in Bidder : ChooseWinnerRead(r, u)
             \/ \E s \in AuctionStatus \union {None}, p \in StartPrice \union {None} :
                   UpdateAuctionRead(r, s, p)
    <3>1. UNCHANGED <<rows, bidderId, isRetracted, rejectedAt>>
      BY <2>2
      DEF FinalizeEnd, FinalizeRefund, CancelWinnerRead, FinalizeRead, DeleteAuctionRead, Abort,
          ChooseWinnerRead, UpdateAuctionRead
    <3>2. req'[r].pc # "createBidTx" /\ \A s \in Request \ {r} : req'[s] = req[s]
      BY <2>2
      DEF FinalizeEnd, FinalizeRefund, CancelWinnerRead, FinalizeRead, DeleteAuctionRead, Abort,
          ChooseWinnerRead, UpdateAuctionRead, Goto, Idle, IInv, TypeOK
    <3> QED
      BY <3>1, <3>2, ListStillCovers DEF Live
  <2> QED
    BY <1>3, <2>1, <2>2 DEF AuctionSteps
<1>4. CASE UNCHANGED vars
  BY <1>1, <1>4 DEF vars
<1> QED
  BY <1>2, <1>3, <1>4 DEF Next

\* A new bid leaves its bidder no other live bid, however bids, rejections and
\* restorations interleave.
THEOREM BidReplacesOwnCorrect == Spec => BidReplacesOwn
<1>1. Spec => [](IInv /\ HolderListsLive)
  BY Invariance, InitHolderListsLive, NextHolderListsLive, PTL DEF Spec
<1>2. IInv /\ HolderListsLive /\ [Next]_vars
      => [\A b \in rows' \ rows : {c \in Live' : bidderId'[c] = bidderId'[b]} = {b}]_vars
  <2> SUFFICES ASSUME IInv, HolderListsLive, Next, NEW n \in rows' \ rows
               PROVE  {c \in Live' : bidderId'[c] = bidderId'[n]} = {n}
    OBVIOUS
  <2>1. PICK r \in Request, b \in Bid : CreateBidCommit(r, b)
    BY NewRowIsBid
  <2> DEFINE gone == req[r].deletedBidIds
  <2>2. At(r, "createBidTx") /\ LiveOf(req[r].user) \subseteq gone
    BY <2>1 DEF CreateBidCommit, HolderListsLive
  <2>3. b \notin rows /\ n = b
    BY <2>1 DEF CreateBidCommit, IInv, RowsHaveBidder
  <2>4. bidderId'[b] = req[r].user /\ \A c \in Bid \ {b} : bidderId'[c] = bidderId[c]
    BY <2>1 DEF CreateBidCommit, IInv, TypeOK
  <2>5. Live' = (Live \ gone) \union {b} /\ rows \subseteq Bid
    BY <2>1, <2>3 DEF CreateBidCommit, Live, IInv, TypeOK
  <2> QED
    BY <2>2, <2>3, <2>4, <2>5 DEF LiveOf, Live
<1> QED
  BY <1>1, <1>2, PTL DEF Spec, BidReplacesOwn
=============================================================================
