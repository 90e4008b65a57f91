------------------------- MODULE BidBookSerialProofs -------------------------
(***************************************************************************)
(* What BidBook's handlers keep when they do not overlap, for any number   *)
(* of bidders and bids and any set of operations: the winner, the price    *)
(* and the refund are what the bids say, and the boards show no less.      *)
(* Each handler acts on rows it read before; the invariant says that these *)
(* reads are still current.                                                *)
(***************************************************************************)
EXTENDS BidBookProofs, BidViews, WellFoundedInduction

\* One request at a time: handlers do not overlap.
OneAtATime == \A r, s \in Request : r = s

\* Some amount bounds those of the bids there are, so a set of bids has a
\* highest one.
AmountsBounded == \E n \in Nat : \A b \in rows : amount[b] <= n

\* What a request read is still what the tables say.
ReadsAreCurrent(r) ==
    /\ At(r, "createBid") \/ At(r, "createBidTx") => req[r].amount >= currentPrice
    /\ At(r, "retract") =>
          /\ status = "ACTIVE"
          /\ req[r].wasWinning = (req[r].bid \in isWinning)
          /\ req[r].startPrice = startPrice
    /\ At(r, "retractTx") =>
          /\ status = "ACTIVE" /\ req[r].startPrice = startPrice
          /\ req[r].bid \in isWinning
          /\ IF Live \ {req[r].bid} = {} THEN req[r].heir = None
             ELSE req[r].heir \in Successors(req[r].bid)
    /\ At(r, "restore") => status = "ACTIVE" /\ req[r].bid \in rejectedAt
    /\ At(r, "restoreTx") =>
          /\ status = "ACTIVE" /\ req[r].bid \in rejectedAt /\ req[r].seen = rows
          /\ req[r].heir \in Highest(Live \union {req[r].bid})
    /\ At(r, "chooseWinner") => req[r].seen = rows /\ rows # {}
    /\ At(r, "cancelWinner") => status = "ENDED"
    /\ At(r, "finalize") => status \in Open /\ req[r].noBids = (rows = {})
    /\ At(r, "refund") => status = "ENDED" /\ rows = {} /\ refunds = 0
    /\ At(r, "update") =>
          /\ status \in Open \/ req[r].status = "CANCELLED"
          /\ req[r].status = "CANCELLED" \/ req[r].startPrice # None => rows = {}

SerialInv == BookInOrder /\ AmountsBounded /\ \A r \in Request : ReadsAreCurrent(r)

-----------------------------------------------------------------------------
(***************************************************************************)
(* Highest bids.                                                           *)
(***************************************************************************)
LEMMA HighestExists ==
    ASSUME TypeOK, AmountsBounded, NEW S \in SUBSET rows, S # {}
    PROVE  Highest(S) # {}
<1>1. PICK n \in Nat : \A b \in rows : amount[b] <= n
  BY DEF AmountsBounded
<1>2. \A b \in S : amount[b] \in Nat /\ n - amount[b] \in Nat
  BY <1>1 DEF TypeOK
<1> DEFINE T == {n - amount[b] : b \in S}
<1>3. T \subseteq Nat /\ T # {}
  BY <1>2
<1> HIDE DEF T
<1>4. PICK t \in T : \A s \in T : <<s, t>> \notin OpToRel(<, Nat)
  BY <1>3, WFMin, NatLessThanWellFounded
<1>5. \A s \in T : ~(s < t)
  BY <1>3, <1>4 DEF OpToRel
<1>6. PICK m \in S : t = n - amount[m]
  BY DEF T
<1>7. \A b \in S : amount[b] <= amount[m]
  <2> TAKE b \in S
  <2>1. n - amount[b] \in T
    BY DEF T
  <2>2. ~(n - amount[b] < t)
    BY <1>5, <2>1
  <2> QED
    BY <1>2, <1>6, <2>2
<1> QED
  BY <1>7 DEF Highest

\* The book is in order when it is given by its winning bid, or by the lack of one.
LEMMA InOrderWith ==
    ASSUME NEW w \in Highest(Live), isWinning = {w}, currentPrice = amount[w]
    PROVE  BookConsistent
  BY DEF BookConsistent, Highest

-----------------------------------------------------------------------------
(***************************************************************************)
(* Requests: the only one there is reads, or is done.                      *)
(***************************************************************************)
LEMMA DoneIsCurrent ==
    ASSUME OneAtATime, TypeOK, NEW r \in Request, Goto(r, Idle)
    PROVE  \A s \in Request : ReadsAreCurrent(s)'
<1>1. \A s \in Request : req'[s].pc = "idle"
  BY DEF OneAtATime, TypeOK, Goto, Idle
<1> QED
  BY <1>1 DEF ReadsAreCurrent, At

\* A step that leaves the tables as they are.
LEMMA TablesUnchanged ==
    ASSUME BookInOrder, AmountsBounded, UNCHANGED <<auctionVars, bidVars, refunds>>
    PROVE  BookInOrder' /\ AmountsBounded'
  BY DEF auctionVars, bidVars, BookInOrder, BookConsistent, WinnerHoldsWinningBid,
         RefundOnlyWithoutBids, AmountsBounded, Live, LiveOf, Highest

LEMMA ReadsPreserve ==
    ASSUME OneAtATime, IInv, SerialInv, NEW r \in Request,
           \/ \E u \in Bidder, a \in Amount : CreateBidRead(r, u, a)
           \/ \E b \in Bid, isOwner \in BOOLEAN : RetractBidRead(r, b, isOwner)
           \/ \E b \in Bid : RestoreBidRead(r, b)
           \/ \E u \in Bidder : ChooseWinnerRead(r, u)
           \/ CancelWinnerRead(r) \/ FinalizeRead(r)
           \/ \E s \in AuctionStatus \union {None}, p \in StartPrice \union {None} :
                 UpdateAuctionRead(r, s, p)
           \/ DeleteAuctionRead(r) \/ CreateBidLock(r) \/ RestoreBidTx(r) \/ Abort(r)
    PROVE  SerialInv'
<1> USE DEF auctionVars, bidVars
<1>1. UNCHANGED <<auctionVars, bidVars, refunds>>
  BY DEF CreateBidRead, RetractBidRead, RestoreBidRead, ChooseWinnerRead, CancelWinnerRead,
         FinalizeRead, UpdateAuctionRead, DeleteAuctionRead, CreateBidLock, RestoreBidTx, Abort
<1>2. BookInOrder' /\ AmountsBounded'
  BY <1>1, TablesUnchanged DEF SerialInv
<1>3. Request = {r} /\ req \in [Request -> RequestState]
  BY DEF OneAtATime, IInv, TypeOK
<1>4. totalBids = 0 <=> rows = {}
  <2>1. IsFiniteSet(rows)
    BY FS_Subset, BidBookAssumption DEF IInv, TypeOK
  <2> QED
    BY <2>1, FS_EmptySet DEF IInv, TotalBidsIsRowCount
<1>5. ReadsAreCurrent(r)'
  <2>1. CASE \E u \in Bidder, a \in Amount : CreateBidRead(r, u, a)
    <3>1. \A a \in Amount : a >= currentPrice + BidIncrement => a >= currentPrice
      BY BidBookAssumption DEF IInv, TypeOK
    <3> QED
      BY <1>1, <1>3, <2>1, <3>1 DEF CreateBidRead, MinimumRequiredBid, Goto, At, ReadsAreCurrent
  <2>2. CASE \E b \in Bid, isOwner \in BOOLEAN : RetractBidRead(r, b, isOwner)
    BY <1>1, <1>3, <2>2 DEF RetractBidRead, Goto, At, ReadsAreCurrent
  <2>3. CASE \E b \in Bid : RestoreBidRead(r, b)
    BY <1>1, <1>3, <2>3 DEF RestoreBidRead, Goto, At, ReadsAreCurrent
  <2>4. CASE \E u \in Bidder : ChooseWinnerRead(r, u)
    BY <1>1, <1>3, <2>4 DEF ChooseWinnerRead, LiveOf, Live, Goto, At, ReadsAreCurrent
  <2>5. CASE CancelWinnerRead(r)
    BY <1>1, <1>3, <2>5 DEF CancelWinnerRead, Goto, At, ReadsAreCurrent
  <2>6. CASE FinalizeRead(r)
    BY <1>1, <1>3, <1>4, <2>6 DEF FinalizeRead, NoBids, Goto, At, ReadsAreCurrent
  <2>7. ASSUME NEW s \in AuctionStatus \union {None}, NEW p \in StartPrice \union {None},
               UpdateAuctionRead(r, s, p)
        PROVE  ReadsAreCurrent(r)'
    BY <1>1, <1>3, <1>4, <2>7 DEF UpdateAuctionRead, Updatable, NoBids, Goto, At, ReadsAreCurrent
  <2>8. CASE DeleteAuctionRead(r)
    BY <1>1, <1>3, <1>4, <2>8 DEF DeleteAuctionRead, NoBids, Goto, At, ReadsAreCurrent
  <2>9. CASE CreateBidLock(r)
    BY <1>1, <1>3, <2>9 DEF CreateBidLock, Goto, At, SerialInv, ReadsAreCurrent
  <2>10. CASE RestoreBidTx(r)
    BY <1>1, <1>3, <2>10
    DEF RestoreBidTx, Live, Highest, Goto, At, SerialInv, ReadsAreCurrent
  <2>11. CASE Abort(r)
    BY <1>3, <2>11, DoneIsCurrent DEF Abort, IInv
  <2> QED
    BY <2>1, <2>2, <2>3, <2>4, <2>5, <2>6, <2>7, <2>8, <2>9, <2>10, <2>11
<1> QED
  BY <1>2, <1>3, <1>5 DEF SerialInv

\* The transaction of a retraction reads the successor of a winning bid.
LEMMA RetractWinningBidPreserves ==
    ASSUME OneAtATime, IInv, SerialInv, NEW r \in Request, RetractWinningBid(r)
    PROVE  SerialInv'
<1> DEFINE b == req[r].bid
<1>1. UNCHANGED <<auctionVars, bidVars, refunds>>
  BY DEF RetractWinningBid
<1>2. BookInOrder' /\ AmountsBounded'
  BY <1>1, TablesUnchanged DEF SerialInv
<1>3. Request = {r} /\ req \in [Request -> RequestState]
  BY DEF OneAtATime, IInv, TypeOK
<1>4. status = "ACTIVE" /\ req[r].startPrice = startPrice /\ b \in isWinning
  BY DEF RetractWinningBid, SerialInv, ReadsAreCurrent
<1>5. Live \ {b} # {} => Successors(b) # {}
  BY HighestExists DEF Successors, Live, IInv, SerialInv
<1>6. Live \ {b} = {} => Successors(b) = {}
  BY DEF Successors, Highest
<1>7. PICK heir \in IF Successors(b) = {} THEN {None} ELSE Successors(b) :
          Goto(r, [pc |-> "retractTx", bid |-> b, isOwner |-> req[r].isOwner, heir |-> heir,
                   startPrice |-> req[r].startPrice])
  BY DEF RetractWinningBid
<1>8. /\ At(r, "retractTx")' /\ req'[r].bid = b /\ req'[r].startPrice = startPrice
      /\ IF Live \ {b} = {} THEN req'[r].heir = None ELSE req'[r].heir \in Successors(b)
  BY <1>3, <1>4, <1>5, <1>6, <1>7 DEF Goto, At
<1>9. ReadsAreCurrent(r)'
  BY <1>1, <1>4, <1>8
  DEF ReadsAreCurrent, At, Live, Successors, Highest, auctionVars, bidVars
<1> QED
  BY <1>2, <1>3, <1>9 DEF SerialInv

-----------------------------------------------------------------------------
(***************************************************************************)
(* Writes.                                                                 *)
(***************************************************************************)
LEMMA NewBidPreserves ==
    ASSUME OneAtATime, IInv, SerialInv, NEW r \in Request, NEW b \in Bid, CreateBidCommit(r, b)
    PROVE  SerialInv'
<1> DEFINE gone == req[r].deletedBidIds
           a == req[r].amount
<1>1. status \in Open /\ a \in Nat /\ a >= currentPrice /\ currentPrice \in Nat
  <2>1. req[r] \in CreateBidTxState
    BY StateAt DEF CreateBidCommit, At, IInv, TypeOK
  <2>2. a \in Nat /\ currentPrice \in Nat
    BY <2>1, BidBookAssumption DEF CreateBidTxState, IInv, TypeOK
  <2>3. status \in Open /\ a >= currentPrice
    BY DEF CreateBidCommit, IInv, HolderIsCurrent, SerialInv, ReadsAreCurrent
  <2> QED
    BY <2>2, <2>3
<1>2. b \notin rows /\ b # None
  BY BidBookAssumption DEF CreateBidCommit, IInv, RowsHaveBidder
<1>3. /\ amount' = [amount EXCEPT ![b] = a] /\ rows' = (rows \ gone) \union {b}
      /\ isWinning' = {b} /\ currentPrice' = a /\ status' = "ACTIVE"
      /\ UNCHANGED <<winnerId, refunds>>
  BY DEF CreateBidCommit, WinningWithNew
<1>4. /\ amount \in [Bid -> Nat] /\ rows \subseteq Bid
      /\ isRetracted \subseteq rows /\ rejectedAt \subseteq rows
  BY DEF IInv, TypeOK
<1>5. Live' = (Live \ gone) \union {b}
  BY <1>2, <1>3, <1>4 DEF CreateBidCommit, Live
<1>6. \A c \in Live : amount[c] <= currentPrice
  <2>1. CASE Live = {}
    BY <2>1
  <2>2. CASE Live # {}
    <3>1. PICK w \in Highest(Live) : currentPrice = amount[w]
      BY <1>1, <2>2 DEF SerialInv, BookInOrder, BookConsistent
    <3> QED
      BY <3>1 DEF Highest
  <2> QED
    BY <2>1, <2>2
<1>7. \A c \in Live' : amount'[c] <= amount'[b]
  <2> SUFFICES ASSUME NEW c \in Live' PROVE amount'[c] <= a
    BY <1>3, <1>4
  <2>1. CASE c = b
    BY <1>1, <1>3, <1>4, <2>1
  <2>2. CASE c # b
    <3>1. c \in Live /\ c \in Bid /\ amount'[c] = amount[c] /\ amount[c] \in Nat
      BY <1>3, <1>4, <1>5, <2>2 DEF Live
    <3>2. amount[c] <= currentPrice
      BY <1>6, <3>1
    <3> QED
      BY <1>1, <3>1, <3>2
  <2> QED
    BY <2>1, <2>2
<1>8. BookConsistent'
  BY <1>3, <1>4, <1>5, <1>7 DEF BookConsistent, Highest
<1>9. WinnerHoldsWinningBid' /\ RefundOnlyWithoutBids'
  BY <1>1, <1>3
  DEF SerialInv, BookInOrder, WinnerHoldsWinningBid, RefundOnlyWithoutBids, Open, IInv, TypeOK
<1>10. AmountsBounded'
  <2>1. PICK n \in Nat : \A c \in rows : amount[c] <= n
    BY DEF SerialInv, AmountsBounded
  <2>2. \A c \in rows' : amount'[c] <= n + a
    <3> TAKE c \in rows'
    <3>1. CASE c = b
      BY <1>1, <1>3, <1>4, <3>1
    <3>2. CASE c # b
      BY <1>1, <1>3, <1>4, <2>1, <3>2
    <3> QED
      BY <3>1, <3>2
  <2> QED
    BY <1>1, <2>2 DEF AmountsBounded
<1>11. \A s \in Request : ReadsAreCurrent(s)'
  BY DoneIsCurrent DEF CreateBidCommit, IInv
<1> QED
  BY <1>8, <1>9, <1>10, <1>11 DEF SerialInv, BookInOrder

\* What a bid writes leaves alone: which bids there are, and the amounts.
LEMMA SameAmounts ==
    ASSUME AmountsBounded, UNCHANGED <<rows, amount>>
    PROVE  AmountsBounded' /\ \A S : Highest(S)' = Highest(S)
  BY DEF AmountsBounded, Highest

\* A retraction or a restoration leaves an ACTIVE auction with a new winning bid.
LEMMA NewWinningPreserves ==
    ASSUME OneAtATime, IInv, SerialInv, NEW r \in Request, Goto(r, Idle), status = "ACTIVE",
           UNCHANGED <<status, startPrice, winnerId, refunds, rows, bidderId, amount>>,
           BookConsistent'
    PROVE  SerialInv'
<1>1. winnerId = None /\ refunds = 0
  BY BidBookAssumption
  DEF SerialInv, BookInOrder, WinnerHoldsWinningBid, RefundOnlyWithoutBids, Open, IInv, TypeOK
<1>2. WinnerHoldsWinningBid' /\ RefundOnlyWithoutBids'
  BY <1>1 DEF WinnerHoldsWinningBid, RefundOnlyWithoutBids
<1>3. AmountsBounded'
  BY SameAmounts DEF SerialInv
<1>4. \A s \in Request : ReadsAreCurrent(s)'
  BY DoneIsCurrent DEF IInv
<1> QED
  BY <1>2, <1>3, <1>4 DEF SerialInv, BookInOrder

LEMMA RetractWritesPreserve ==
    ASSUME OneAtATime, IInv, SerialInv, NEW r \in Request, RetractLosingBid(r) \/ RetractCommit(r)
    PROVE  SerialInv'
<1> DEFINE b == req[r].bid
<1>1. status = "ACTIVE" /\ status \in Open
  BY DEF RetractLosingBid, RetractCommit, SerialInv, ReadsAreCurrent, Open
<1>2. /\ UNCHANGED <<status, startPrice, winnerId, refunds, rows, bidderId, amount>>
      /\ Goto(r, Idle)
  BY DEF RetractLosingBid, RetractCommit, auctionVars
<1>3. Live' = Live \ {b}
  BY DEF RetractLosingBid, RetractCommit, WriteRetraction, Live
<1>4. \A S : Highest(S)' = Highest(S)
  BY <1>2 DEF Highest
<1>5. CASE RetractLosingBid(r)
  <2>1. b \notin isWinning /\ isWinning' = isWinning /\ currentPrice' = currentPrice
    BY <1>5 DEF RetractLosingBid, SerialInv, ReadsAreCurrent, auctionVars
  <2>2. CASE Live = {}
    BY <1>1, <1>2, <1>3, <2>1, <2>2, NewWinningPreserves
    DEF SerialInv, BookInOrder, BookConsistent
  <2>3. CASE Live # {}
    <3>1. PICK w \in Highest(Live) : isWinning = {w} /\ currentPrice = amount[w]
      BY <1>1, <2>3 DEF SerialInv, BookInOrder, BookConsistent
    <3>2. w \in Highest(Live \ {b}) /\ w \in Live \ {b}
      BY <2>1, <3>1 DEF Highest
    <3>3. BookConsistent'
      BY <1>2, <1>3, <2>1, <3>1, <3>2 DEF BookConsistent, Highest
    <3> QED
      BY <1>1, <1>2, <3>3, NewWinningPreserves
  <2> QED
    BY <2>2, <2>3
<1>6. CASE RetractCommit(r)
  <2> DEFINE heir == req[r].heir
  <2>1. /\ b \in isWinning /\ req[r].startPrice = startPrice
        /\ IF Live \ {b} = {} THEN heir = None ELSE heir \in Highest(Live \ {b})
    BY <1>6 DEF RetractCommit, SerialInv, ReadsAreCurrent, Successors
  <2>2. isWinning = {b}
    BY <1>1, <2>1 DEF SerialInv, BookInOrder, BookConsistent
  <2>3. None \notin rows
    BY BidBookAssumption DEF IInv, TypeOK
  <2>4. CASE heir = None
    <3>1. Live' = {} /\ isWinning' = {} /\ currentPrice' = startPrice'
      BY <1>2, <1>3, <1>6, <2>1, <2>2, <2>3, <2>4 DEF RetractCommit, Highest, Live
    <3> QED
      BY <1>1, <1>2, <3>1, NewWinningPreserves DEF BookConsistent
  <2>5. CASE heir # None
    <3>1. heir \in Highest(Live') /\ isWinning' = {heir} /\ currentPrice' = amount[heir]
      BY <1>3, <1>6, <2>1, <2>2, <2>5 DEF RetractCommit
    <3>2. BookConsistent'
      BY <1>2, <3>1 DEF BookConsistent, Highest
    <3> QED
      BY <1>1, <1>2, <3>2, NewWinningPreserves
  <2> QED
    BY <2>4, <2>5
<1> QED
  BY <1>5, <1>6

LEMMA RestoreBidCommitPreserves ==
    ASSUME OneAtATime, IInv, SerialInv, NEW r \in Request, RestoreBidCommit(r)
    PROVE  SerialInv'
<1> DEFINE b == req[r].bid
           heir == req[r].heir
<1>1. /\ status = "ACTIVE" /\ b \in rejectedAt /\ req[r].seen = rows
      /\ heir \in Highest(Live \union {b})
  BY DEF RestoreBidCommit, SerialInv, ReadsAreCurrent
<1>2. /\ UNCHANGED <<status, startPrice, winnerId, refunds, rows, bidderId, amount>>
      /\ Goto(r, Idle) /\ currentPrice' = amount[heir]
  BY DEF RestoreBidCommit
<1>3. Live' = Live \union {b}
  BY <1>1 DEF RestoreBidCommit, Live, IInv, TypeOK
<1>4. isWinning' = {heir}
  BY <1>1 DEF RestoreBidCommit, IInv, TypeOK
<1>5. BookConsistent'
  BY <1>1, <1>2, <1>3, <1>4 DEF BookConsistent, Highest
<1> QED
  BY <1>1, <1>2, <1>5, NewWinningPreserves

LEMMA AuctionWritesPreserve ==
    ASSUME OneAtATime, IInv, SerialInv, NEW r \in Request,
           \/ ChooseWinnerCommit(r) \/ CancelWinnerCommit(r)
           \/ FinalizeEnd(r) \/ FinalizeRefund(r) \/ UpdateAuctionWrite(r)
    PROVE  SerialInv'
<1> USE DEF auctionVars, bidVars
<1>1. UNCHANGED <<rows, bidderId, amount>> /\ AmountsBounded'
  BY SameAmounts
  DEF ChooseWinnerCommit, CancelWinnerCommit, FinalizeEnd, FinalizeRefund, UpdateAuctionWrite,
      SerialInv
<1>2. ASSUME Goto(r, Idle), BookInOrder' PROVE SerialInv'
  BY <1>1, <1>2, DoneIsCurrent DEF SerialInv, IInv
<1>3. CASE ChooseWinnerCommit(r)
  <2> DEFINE u == req[r].user
  <2>1. req[r].seen = rows /\ rows # {}
    BY <1>3 DEF ChooseWinnerCommit, SerialInv, ReadsAreCurrent
  <2>2. PICK chosen \in LiveOf(u) : isWinning' = {chosen}
    BY <1>3, <2>1 DEF ChooseWinnerCommit, BestOf, Highest, IInv, TypeOK
  <2>3. /\ winnerId' = u /\ status' = "ENDED" /\ UNCHANGED <<isRetracted, rejectedAt, refunds>>
        /\ Goto(r, Idle)
    BY <1>3 DEF ChooseWinnerCommit
  <2>4. WinnerHoldsWinningBid'
    BY <1>1, <2>2, <2>3 DEF WinnerHoldsWinningBid, LiveOf, Live
  <2>5. BookConsistent' /\ RefundOnlyWithoutBids'
    BY <1>1, <2>1, <2>3
    DEF SerialInv, BookInOrder, BookConsistent, RefundOnlyWithoutBids, Open
  <2> QED
    BY <1>2, <2>3, <2>4, <2>5 DEF BookInOrder
<1>4. CASE CancelWinnerCommit(r)
  <2>1. status = "ENDED"
    BY <1>4 DEF CancelWinnerCommit, SerialInv, ReadsAreCurrent
  <2> QED
    BY <1>1, <1>2, <1>4, <2>1
    DEF CancelWinnerCommit, SerialInv, BookInOrder, BookConsistent, WinnerHoldsWinningBid,
        RefundOnlyWithoutBids, Open
<1>5. CASE FinalizeEnd(r)
  <2>1. status \in Open /\ req[r].noBids = (rows = {})
    BY <1>5 DEF FinalizeEnd, SerialInv, ReadsAreCurrent
  <2>2. refunds = 0
    BY <2>1 DEF SerialInv, BookInOrder, RefundOnlyWithoutBids, IInv, TypeOK
  <2>3. BookInOrder'
    BY <1>1, <1>5, <2>2
    DEF FinalizeEnd, BookInOrder, BookConsistent, WinnerHoldsWinningBid, RefundOnlyWithoutBids,
        Open
  <2>4. CASE req[r].noBids
    <3>1. Request = {r} /\ req' = [req EXCEPT ![r] = [pc |-> "refund"]]
      BY <1>5, <2>4 DEF FinalizeEnd, Goto, OneAtATime
    <3>2. ReadsAreCurrent(r)'
      BY <1>1, <1>5, <2>1, <2>2, <2>4, <3>1
      DEF FinalizeEnd, ReadsAreCurrent, At, IInv, TypeOK
    <3> QED
      BY <1>1, <2>3, <3>1, <3>2 DEF SerialInv
  <2>5. CASE ~req[r].noBids
    BY <1>2, <1>5, <2>3, <2>5 DEF FinalizeEnd
  <2> QED
    BY <2>4, <2>5
<1>6. CASE FinalizeRefund(r)
  <2>1. status = "ENDED" /\ rows = {} /\ refunds = 0
    BY <1>6 DEF FinalizeRefund, SerialInv, ReadsAreCurrent
  <2> QED
    BY <1>1, <1>2, <1>6, <2>1
    DEF FinalizeRefund, SerialInv, BookInOrder, BookConsistent, WinnerHoldsWinningBid,
        RefundOnlyWithoutBids, Open, LiveOf, Live
<1>7. CASE UpdateAuctionWrite(r)
  <2> DEFINE new == req[r]
  <2>1. /\ status \in Open \/ new.status = "CANCELLED"
        /\ new.status = "CANCELLED" \/ new.startPrice # None => rows = {}
    BY <1>7 DEF UpdateAuctionWrite, SerialInv, ReadsAreCurrent
  <2>2. /\ UNCHANGED <<isWinning, isRetracted, rejectedAt, winnerId, refunds>> /\ Goto(r, Idle)
        /\ status' = (IF new.status = None THEN status ELSE new.status)
        /\ startPrice' = (IF new.startPrice = None THEN startPrice ELSE new.startPrice)
        /\ currentPrice' = (IF new.startPrice = None THEN currentPrice ELSE new.startPrice)
    BY <1>7 DEF UpdateAuctionWrite
  <2>3. Live' = Live
    BY <1>1, <2>2 DEF Live
  <2>4. BookConsistent'
    <3> SUFFICES ASSUME status' \in Open PROVE BookConsistent'
      BY DEF BookConsistent
    <3>1. status \in Open
      BY <2>1, <2>2 DEF Open
    <3>2. CASE new.startPrice = None
      BY <1>1, <2>2, <2>3, <3>1, <3>2 DEF SerialInv, BookInOrder, BookConsistent, Highest
    <3>3. CASE new.startPrice # None
      <4>1. Live' = {} /\ isWinning' = {} /\ currentPrice' = startPrice'
        BY <2>1, <2>2, <2>3, <3>3 DEF Live, IInv, TypeOK
      <4> QED
        BY <4>1 DEF BookConsistent
    <3> QED
      BY <3>2, <3>3
  <2>5. WinnerHoldsWinningBid' /\ RefundOnlyWithoutBids'
    <3>1. CASE status \in Open
      <4>1. winnerId = None /\ refunds = 0
        BY <3>1 DEF SerialInv, BookInOrder, WinnerHoldsWinningBid, RefundOnlyWithoutBids, Open,
                    IInv, TypeOK
      <4> QED
        BY <2>2, <4>1 DEF WinnerHoldsWinningBid, RefundOnlyWithoutBids
    <3>2. CASE status \notin Open
      <4>1. status' = "CANCELLED" /\ rows = {}
        BY <2>1, <2>2, <3>2, BidBookAssumption DEF AuctionStatus
      <4>2. winnerId = None
        BY <4>1 DEF SerialInv, BookInOrder, WinnerHoldsWinningBid, LiveOf, Live
      <4> QED
        BY <1>1, <2>2, <4>1, <4>2
        DEF SerialInv, BookInOrder, WinnerHoldsWinningBid, RefundOnlyWithoutBids, Open
    <3> QED
      BY <3>1, <3>2
  <2> QED
    BY <1>2, <2>2, <2>4, <2>5 DEF BookInOrder
<1> QED
  BY <1>3, <1>4, <1>5, <1>6, <1>7

-----------------------------------------------------------------------------
(***************************************************************************)
(* The invariant, and the theorem.                                         *)
(***************************************************************************)
LEMMA InitSerialInv == Init => SerialInv
<1> SUFFICES ASSUME Init PROVE SerialInv
  OBVIOUS
<1>1. \A r \in Request : ReadsAreCurrent(r)
  BY DEF Init, ReadsAreCurrent, At, Idle
<1>2. BookInOrder /\ AmountsBounded
  BY DEF Init, BookInOrder, BookConsistent, WinnerHoldsWinningBid, RefundOnlyWithoutBids,
         AmountsBounded, Live
<1> QED
  BY <1>1, <1>2 DEF SerialInv

LEMMA NextSerialInv == OneAtATime /\ IInv /\ SerialInv /\ [Next]_vars => SerialInv'
<1> SUFFICES ASSUME OneAtATime, IInv, SerialInv, [Next]_vars PROVE SerialInv'
  OBVIOUS
<1>1. ASSUME UNCHANGED <<auctionVars, rows, bidderId, amount, isRetracted, rejectedAt, isWinning,
                         refunds, req>>
      PROVE  SerialInv'
  BY <1>1
  DEF auctionVars, SerialInv, BookInOrder, BookConsistent, WinnerHoldsWinningBid,
      RefundOnlyWithoutBids, AmountsBounded, ReadsAreCurrent, At, Successors, Live, LiveOf, Highest
<1>2. ASSUME NEW r \in Request, BidSteps(r) PROVE SerialInv'
  BY <1>1, <1>2, ReadsPreserve, RetractWinningBidPreserves, NewBidPreserves,
     RetractWritesPreserve, RestoreBidCommitPreserves
  DEF BidSteps, MarkBidAsRead, MarkAllBidsAsRead
<1>3. ASSUME NEW r \in Request, AuctionSteps(r) \/ Abort(r) PROVE SerialInv'
  BY <1>3, ReadsPreserve, AuctionWritesPreserve DEF AuctionSteps
<1>4. CASE UNCHANGED vars
  BY <1>1, <1>4 DEF vars, bidVars
<1> QED
  BY <1>2, <1>3, <1>4 DEF Next

\* The winning bid, the price, the winner and the refund are what the bids
\* say after any sequence of bids, rejections, restorations, choices, closings,
\* updates and deletions, each of which may fail half way.
THEOREM BookInOrderCorrect == ASSUME OneAtATime PROVE Spec => []BookInOrder
<1>1. Spec => []SerialInv
  BY OneAtATime, Invariance, InitSerialInv, NextSerialInv, PTL DEF Spec
<1>2. SerialInv => BookInOrder
  BY DEF SerialInv
<1> QED
  BY <1>1, <1>2, PTL

-----------------------------------------------------------------------------
(***************************************************************************)
(* What clients are shown of the book.                                     *)
(*                                                                         *)
(* The boards leave out the retracted bids only, and a rejected bid is     *)
(* retracted too as long as the auction takes bids: cancelWinner, which    *)
(* rejects without retracting, finds it ended.  So the bids on the boards  *)
(* are then the live ones, whose highest is the winning bid.               *)
(***************************************************************************)
RejectedIsRetracted == status \in Open => rejectedAt \subseteq isRetracted

LEMMA NextRejectedIsRetracted ==
    IInv /\ SerialInv /\ RejectedIsRetracted /\ [Next]_vars => RejectedIsRetracted'
<1> SUFFICES ASSUME IInv, SerialInv, RejectedIsRetracted, [Next]_vars PROVE RejectedIsRetracted'
  OBVIOUS
<1>1. ASSUME status' \in Open => status \in Open, UNCHANGED <<isRetracted, rejectedAt>>
      PROVE  RejectedIsRetracted'
  BY <1>1 DEF RejectedIsRetracted
<1>2. ASSUME NEW r \in Request, BidSteps(r) PROVE RejectedIsRetracted'
  <2>1. ASSUME NEW b \in Bid, CreateBidCommit(r, b) PROVE RejectedIsRetracted'
    <3>1. status \in Open
      BY <2>1 DEF CreateBidCommit, IInv, HolderIsCurrent
    <3> QED
      BY <2>1, <3>1 DEF CreateBidCommit, RejectedIsRetracted
  <2>2. CASE RetractLosingBid(r) \/ RetractCommit(r)
    <3>1. UNCHANGED status
      BY <2>2 DEF RetractLosingBid, RetractCommit, auctionVars
    <3>2. PICK b, isOwner : WriteRetraction(b, isOwner)
      BY <2>2 DEF RetractLosingBid, RetractCommit
    <3> QED
      BY <3>1, <3>2 DEF WriteRetraction, RejectedIsRetracted
  <2>3. CASE RestoreBidCommit(r)
    BY <2>3 DEF RestoreBidCommit, RejectedIsRetracted
  <2> QED
    BY <1>1, <1>2, <2>1, <2>2, <2>3
    DEF BidSteps, CreateBidRead, CreateBidLock, RetractBidRead, RetractWinningBid, RestoreBidRead,
        RestoreBidTx, MarkBidAsRead, MarkAllBidsAsRead, auctionVars, bidVars
<1>3. ASSUME NEW r \in Request, AuctionSteps(r) \/ Abort(r) PROVE RejectedIsRetracted'
  <2>1. CASE ChooseWinnerCommit(r) \/ FinalizeEnd(r)
    BY <1>1, <2>1 DEF ChooseWinnerCommit, FinalizeEnd, bidVars, Open
  <2>2. CASE CancelWinnerCommit(r)
    <3>1. status = "ENDED"
      BY <2>2 DEF CancelWinnerCommit, SerialInv, ReadsAreCurrent
    <3> QED
      BY <2>2, <3>1 DEF CancelWinnerCommit, RejectedIsRetracted, Open
  <2>3. CASE UpdateAuctionWrite(r)
    <3>1. status \in Open \/ req[r].status = "CANCELLED"
      BY <2>3 DEF UpdateAuctionWrite, SerialInv, ReadsAreCurrent
    <3>2. "CANCELLED" # None
      BY BidBookAssumption DEF AuctionStatus
    <3> QED
      BY <1>1, <2>3, <3>1, <3>2 DEF UpdateAuctionWrite, bidVars, Open
  <2> QED
    BY <1>1, <1>3, <2>1, <2>2, <2>3
    DEF AuctionSteps, Abort, ChooseWinnerRead, CancelWinnerRead, FinalizeRead, FinalizeRefund,
        UpdateAuctionRead, DeleteAuctionRead, auctionVars, bidVars
<1>4. CASE UNCHANGED vars
  BY <1>1, <1>4 DEF vars, auctionVars, bidVars
<1> QED
  BY <1>2, <1>3, <1>4 DEF Next

\* The highest bid of a bidder on the boards.
LEMMA HighestBidIs ==
    ASSUME IInv, AmountsBounded, NEW u \in Participants
    PROVE  /\ \A b \in OnBoard : bidderId[b] = u => amount[b] <= HighestBid(u)
           /\ \E b \in OnBoard : bidderId[b] = u /\ HighestBid(u) = amount[b]
<1> DEFINE S == {b \in OnBoard : bidderId[b] = u}
<1> DEFINE A == {amount[b] : b \in S}
<1>1. S \in SUBSET rows /\ S # {}
  BY DEF OnBoard, Participants
<1>2. PICK h \in S : \A b \in S : amount[b] <= amount[h]
  BY <1>1, HighestExists DEF Highest, IInv
<1>3. \A b \in S : amount[b] \in Nat
  BY <1>1 DEF IInv, TypeOK
<1>4. amount[h] \in A /\ \A x \in A : amount[h] >= x
  BY <1>2, <1>3
<1>5. HighestBid(u) = Max(A)
  BY DEF HighestBid
<1>6. Max(A) \in A /\ \A x \in A : Max(A) >= x
  <2> HIDE DEF A
  <2> QED
    BY <1>4 DEF Max
<1>7. \A b \in S : amount[b] \in A
  OBVIOUS
<1>8. PICK b \in S : Max(A) = amount[b]
  BY <1>6
<1> QED
  BY <1>3, <1>5, <1>6, <1>7, <1>8

\* A list of all members of a set holds each of them.
LEMMA SeqOfSetCovers ==
    ASSUME NEW S, IsFiniteSet(S), NEW s \in SetToSeqs(S)
    PROVE  /\ Cardinality(S) \in Nat
           /\ s \in [1..Cardinality(S) -> S]
           /\ \A x \in S : \E i \in 1..Cardinality(S) : s[i] = x
<1> DEFINE D == 1..Cardinality(S)
<1>1. Cardinality(S) \in Nat
  BY FS_CardinalityType
<1>2. s \in [D -> S] /\ \A i, j \in D : i # j => s[i] # s[j]
  BY DEF SetToSeqs
<1>3. s \in Injection(D, S)
  BY <1>2 DEF Injection, IsInjective
<1>4. Cardinality(D) = Cardinality(S)
  BY <1>1, FS_Interval
<1>5. s \in Surjection(D, S)
  BY <1>3, <1>4, FS_Injection
<1> QED
  BY <1>1, <1>2, <1>5 DEF Surjection

\* Who stands first on a board has as high a bid as anybody.
LEMMA LeaderIsHighest ==
    ASSUME IInv, AmountsBounded, Participants # {},
           NEW board \in GetLeaderboard \union GetWinners
    PROVE  /\ board[1] \in Participants
           /\ \A u \in Participants : HighestBid(board[1]) >= HighestBid(u)
<1>1. IsFiniteSet(Participants)
  <2>1. IsFiniteSet(OnBoard)
    BY BidBookAssumption, FS_Subset DEF OnBoard, IInv, TypeOK
  <2> DEFINE f == [b \in OnBoard |-> bidderId[b]]
  <2>2. f \in Surjection(OnBoard, Participants)
    BY DEF Surjection, Participants
  <2> QED
    BY <2>1, <2>2, FS_Surjection
<1>2. PICK s \in SetToSeqs(Participants) :
        /\ board = s \/ board = SubSeq(s, 1, Min({3, Len(s)}))
        /\ \A i, j \in DOMAIN s : i < j => ~(HighestBid(s[j]) > HighestBid(s[i]))
  BY DEF GetLeaderboard, GetParticipants, GetWinners, Orders
<1> DEFINE n == Cardinality(Participants)
<1>3. n \in Nat /\ s \in [1..n -> Participants] /\ \A u \in Participants : \E i \in 1..n : s[i] = u
  BY <1>1, SeqOfSetCovers
<1>4. 1 \in 1..n
  BY <1>3
<1>5. board[1] = s[1]
  <2>1. Len(s) = n /\ s \in Seq(Participants)
    BY <1>3
  <2>2. Min({3, n}) \in {3, n}
    <3>1. \E x \in {3, n} : \A y \in {3, n} : x <= y
      BY <1>3
    <3> QED
      BY <3>1 DEF Min
  <2>3. SubSeq(s, 1, Min({3, n}))[1] = s[1]
    BY <1>4, <2>1, <2>2
  <2> QED
    BY <1>2, <2>1, <2>3
<1>6. \A u \in Participants : HighestBid(u) \in Nat
  BY HighestBidIs DEF OnBoard, IInv, TypeOK
<1>7. \A i \in 1..n : HighestBid(s[1]) >= HighestBid(s[i])
  <2> TAKE i \in 1..n
  <2>1. HighestBid(s[1]) \in Nat /\ HighestBid(s[i]) \in Nat
    BY <1>3, <1>4, <1>6
  <2>2. CASE i = 1
    BY <2>1, <2>2
  <2>3. CASE 1 < i
    BY <1>2, <1>3, <1>4, <2>1, <2>3
  <2> QED
    BY <1>3, <2>2, <2>3
<1> QED
  BY <1>3, <1>4, <1>5, <1>7

\* The leader of a board, the bidder of the top bid and the count of top bids
\* agree with the price of an auction that takes bids, and a chosen winner finds
\* the winning bid among their own, whatever bids there are and however equal
\* ones are listed.
THEOREM BoardsAgreeCorrect == ASSUME OneAtATime PROVE Spec => []BoardsAgree
<1>1. Init => RejectedIsRetracted
  BY DEF Init, RejectedIsRetracted
<1>2. Spec => [](IInv /\ SerialInv /\ RejectedIsRetracted)
  BY <1>1, OneAtATime, Invariance, InitSerialInv, NextSerialInv, NextRejectedIsRetracted, PTL
  DEF Spec
<1>3. IInv /\ SerialInv /\ RejectedIsRetracted => BoardsAgree
  <2> SUFFICES ASSUME IInv, SerialInv, RejectedIsRetracted PROVE BoardsAgree
    OBVIOUS
  <2>1. ASSUME status = "ACTIVE", Live # {}
        PROVE  /\ \A board \in GetLeaderboard \union GetWinners :
                     HighestBid(board[1]) = currentPrice
               /\ \A b \in FindAllView("top") : HighestBid(bidderId[b]) = currentPrice
               /\ GetAuctionBidCounts.top = 1
    <3>1. PICK w \in Highest(Live) : isWinning = {w} /\ currentPrice = amount[w]
      BY <2>1 DEF SerialInv, BookInOrder, BookConsistent, Open
    <3>2. OnBoard = Live
      BY <2>1 DEF RejectedIsRetracted, OnBoard, Live, Open
    <3>3. w \in OnBoard /\ bidderId[w] \in Participants /\ currentPrice \in Nat
      BY <3>1, <3>2 DEF Highest, Participants, IInv, TypeOK
    <3>4. \A b \in OnBoard : amount[b] \in Nat /\ amount[b] <= currentPrice
      BY <3>1, <3>2 DEF Highest, Live, IInv, TypeOK
    <3>5. \A u \in Participants : HighestBid(u) \in Nat /\ HighestBid(u) <= currentPrice
      BY <3>4, HighestBidIs DEF SerialInv
    <3>6. HighestBid(bidderId[w]) = currentPrice
      <4>1. amount[w] <= HighestBid(bidderId[w])
        BY <3>3, HighestBidIs DEF SerialInv
      <4> QED
        BY <3>1, <3>3, <3>5, <4>1
    <3>7. ASSUME NEW board \in GetLeaderboard \union GetWinners
          PROVE  HighestBid(board[1]) = currentPrice
      <4>1. board[1] \in Participants /\ HighestBid(board[1]) >= HighestBid(bidderId[w])
        BY <3>3, <3>7, LeaderIsHighest DEF SerialInv
      <4> QED
        BY <3>3, <3>5, <3>6, <4>1
    <3>8. FindAllView("top") = {w}
      BY <3>1 DEF FindAllView
    <3>9. GetAuctionBidCounts.top = 1
      <4>1. Cardinality({w}) = 1
        BY FS_Singleton
      <4> QED
        BY <3>1, <4>1 DEF GetAuctionBidCounts
    <3> QED
      BY <3>6, <3>7, <3>8, <3>9
  <2>2. ASSUME winnerId # None PROVE isWinning \subseteq GetUserBids(winnerId)
    <3>1. PICK w \in LiveOf(winnerId) : isWinning = {w}
      BY <2>2 DEF SerialInv, BookInOrder, WinnerHoldsWinningBid
    <3> QED
      BY <3>1 DEF GetUserBids, FindAll, LiveOf, Live
  <2> QED
    BY <2>1, <2>2 DEF BoardsAgree
<1> QED
  BY <1>2, <1>3, PTL
=============================================================================
