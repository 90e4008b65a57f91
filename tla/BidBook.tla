------------------------------- MODULE BidBook -------------------------------
(***************************************************************************)
(* The bids of one auction: the table the handlers of bid.service.ts and   *)
(* auction.service.ts keep in PostgreSQL, and those handlers running       *)
(* concurrently.                                                           *)
(*                                                                         *)
(* Every handler first reads rows outside a transaction, checks what it    *)
(* read, and later writes inside one (READ COMMITTED).  A request in       *)
(* flight is a record that carries what the handler remembers of its       *)
(* reads; each action is one stretch of a handler that no other            *)
(* transaction can see half done.                                          *)
(*                                                                         *)
(* Locks.  createBid takes the auction row first (SELECT ... FOR UPDATE)   *)
(* and holds it until it commits.  retractBid and restoreBid hold the row  *)
(* of their bid from their first statement.  A statement that waits for a  *)
(* lock is a disabled action; a deadlock victim, a failed check, a lost    *)
(* connection is Abort.  An updateMany may have taken its snapshot before  *)
(* it waited, so the rows it clears are those it saw or those there now.   *)
(***************************************************************************)
EXTENDS Integers, FiniteSets

CONSTANTS
    Bidder,        \* users other than the seller
    Bid,           \* bid ids; an id is used once, so this bounds the bids
    Amount,        \* amounts a bid can have
    StartPrice,    \* start prices the seller can set
    MinBidAmount,  \* auction.minBidAmount
    BidIncrement,  \* auction.bidIncrement
    Request,       \* handlers that can be in flight at once
    Operation,     \* the operations that clients call in this instance
    MaxRefunds,    \* bound on the refunds counted
    None

Operations == {"createBid", "retractBid", "restoreBid", "chooseWinner",
               "cancelWinner", "closeAuction", "updateAuction", "deleteAuction", "markAsRead"}
AuctionStatus == {"PENDING", "ACTIVE", "ENDED", "CANCELLED"}

ASSUME BidBookAssumption ==
    /\ IsFiniteSet(Bid)
    /\ Amount \subseteq Nat
    /\ StartPrice \subseteq Nat /\ StartPrice # {}
    /\ MinBidAmount \in Nat /\ BidIncrement \in Nat /\ MaxRefunds \in Nat
    /\ Operation \subseteq Operations
    /\ None \notin Bid \union Bidder \union Nat \union AuctionStatus

VARIABLES
    \* the auction row
    status, deleted, startPrice, currentPrice, totalBids, winnerId,
    \* the rows of the bid table, and their columns
    rows, bidderId, amount, isRetracted, rejectedAt, isWinning, readByOwnerAt,
    \* publication credits given back to the seller because of this auction
    refunds,
    \* the requests in flight
    req

auctionVars == <<status, deleted, startPrice, currentPrice, totalBids, winnerId>>
bidVars == <<rows, bidderId, amount, isRetracted, rejectedAt, isWinning, readByOwnerAt>>
vars == <<auctionVars, bidVars, refunds, req>>

Open == {"PENDING", "ACTIVE"}

Live == rows \ (isRetracted \union rejectedAt)
LiveOf(u) == {b \in Live : bidderId[b] = u}
Highest(S) == {b \in S : \A c \in S : amount[c] <= amount[b]}

\* What the handlers check of the auction row they read, and, under "Fault",
\* the slips the properties below are there to catch.
FaultNoBidsIfNoneLive == Live = {}
NoBids == totalBids = 0

FaultNoIncrement == currentPrice
MinimumRequiredBid == currentPrice + BidIncrement

FaultNoRecheck == TRUE
TakesBids == status \in Open

Updatable(newStatus) == status \in Open \/ newStatus = "CANCELLED"

\* Which bids win: the new one alone; on a retraction the highest other live
\* bid; for a chosen winner the highest of their own.
FaultKeepsOldWinner(b) == isWinning \union {b}
WinningWithNew(b) == {b}

FaultPromotesDeadBid(b) == Highest(rows \ {b})
Successors(b) == Highest(Live \ {b})

FaultChoosesAnyBid(u) == Highest(Live)
BestOf(u) == Highest(LiveOf(u))

-----------------------------------------------------------------------------
(***************************************************************************)
(* Requests in flight: where each is, and what it remembers.               *)
(***************************************************************************)
Idle == [pc |-> "idle"]

CreateBidState == [pc : {"createBid"}, user : Bidder, amount : Amount]
CreateBidTxState ==
    [pc : {"createBidTx"}, user : Bidder, amount : Amount, deletedBidIds : SUBSET Bid]
RetractState ==
    [pc : {"retract"}, bid : Bid, wasWinning : BOOLEAN, isOwner : BOOLEAN, startPrice : StartPrice]
RetractTxState ==
    [pc : {"retractTx"}, bid : Bid, isOwner : BOOLEAN, heir : Bid \union {None},
     startPrice : StartPrice]
RestoreState == [pc : {"restore"}, bid : Bid]
RestoreTxState == [pc : {"restoreTx"}, bid : Bid, heir : Bid, seen : SUBSET Bid]
ChooseWinnerState == [pc : {"chooseWinner"}, user : Bidder, seen : SUBSET Bid]
CancelWinnerState == [pc : {"cancelWinner"}, seen : SUBSET Bid]
FinalizeState == [pc : {"finalize"}, noBids : BOOLEAN]
UpdateState ==
    [pc : {"update"}, status : AuctionStatus \union {None}, startPrice : StartPrice \union {None}]

RequestState ==
    UNION {[pc : {"idle", "refund"}], CreateBidState, CreateBidTxState, RetractState,
           RetractTxState, RestoreState, RestoreTxState, ChooseWinnerState, CancelWinnerState,
           FinalizeState, UpdateState}

Goto(r, state) == req' = [req EXCEPT ![r] = state]
Starts(r, op) == op \in Operation /\ req[r] = Idle
At(r, pc) == req[r].pc = pc

\* Another request holds the auction row (FOR UPDATE) ...
FaultNoRowLock(r) == FALSE
AuctionLocked(r) == \E s \in Request \ {r} : At(s, "createBidTx")
FaultDirtyWrites(r) == {}
\* ... or has written these bid rows and has not committed yet.
LockedBids(r) == {req[s].bid : s \in {t \in Request \ {r} : At(t, "retractTx") \/ At(t, "restoreTx")}}

-----------------------------------------------------------------------------
(***************************************************************************)
(* createAuction leaves a PENDING auction priced at its start price.       *)
(***************************************************************************)
Init ==
    /\ status = "PENDING" /\ deleted = FALSE
    /\ startPrice \in StartPrice /\ currentPrice = startPrice
    /\ totalBids = 0 /\ winnerId = None
    /\ rows = {} /\ isRetracted = {} /\ rejectedAt = {} /\ isWinning = {} /\ readByOwnerAt = {}
    /\ bidderId = [b \in Bid |-> None] /\ amount = [b \in Bid |-> 0]
    /\ refunds = 0
    /\ req = [r \in Request |-> Idle]

\* A request ends with an error and leaves the tables as they are: a failed
\* check, a ban, a rate limit, a row gone, a deadlock victim, a crash.
Abort(r) ==
    /\ req[r] # Idle
    /\ Goto(r, Idle)
    /\ UNCHANGED <<auctionVars, bidVars, refunds>>

(***************************************************************************)
(* createBid                                                               *)
(***************************************************************************)
RejectedCount(u) == Cardinality({b \in rejectedAt : bidderId[b] = u})

CreateBidRead(r, u, a) ==
    /\ Starts(r, "createBid")
    /\ ~deleted
    /\ RejectedCount(u) < 2
    /\ a >= MinBidAmount
    /\ a >= MinimumRequiredBid
    /\ Goto(r, [pc |-> "createBid", user |-> u, amount |-> a])
    /\ UNCHANGED <<auctionVars, bidVars, refunds>>

\* FOR UPDATE, the status check under it, and the bidder's bids to replace.
CreateBidLock(r) ==
    /\ At(r, "createBid") /\ ~AuctionLocked(r)
    /\ TakesBids
    /\ Goto(r, [pc |-> "createBidTx", user |-> req[r].user, amount |-> req[r].amount,
                deletedBidIds |-> LiveOf(req[r].user)])
    /\ UNCHANGED <<auctionVars, bidVars, refunds>>

\* The rest of the transaction. The winner it first promotes in place of a
\* replaced bid is overwritten by the new bid before it commits.
CreateBidCommit(r, b) ==
    LET gone == req[r].deletedBidIds IN
    /\ At(r, "createBidTx")
    /\ (gone \union isWinning) \intersect LockedBids(r) = {}
    /\ bidderId[b] = None
    /\ status' = "ACTIVE"
    /\ rows' = (rows \ gone) \union {b}
    /\ bidderId' = [bidderId EXCEPT ![b] = req[r].user]
    /\ amount' = [amount EXCEPT ![b] = req[r].amount]
    /\ isRetracted' = isRetracted \ gone
    /\ rejectedAt' = rejectedAt \ gone
    /\ isWinning' = WinningWithNew(b)
    /\ readByOwnerAt' = readByOwnerAt \ gone
    /\ totalBids' = totalBids - Cardinality(gone) + 1
    /\ currentPrice' = req[r].amount
    /\ Goto(r, Idle)
    /\ UNCHANGED <<deleted, startPrice, winnerId, refunds>>

(***************************************************************************)
(* retractBid, by the bidder or an admin, or by the owner of the auction,  *)
(* who thereby rejects the bid                                             *)
(***************************************************************************)
RetractBidRead(r, b, isOwner) ==
    /\ Starts(r, "retractBid")
    /\ b \in rows \ isRetracted
    /\ ~deleted /\ status = "ACTIVE"
    /\ Goto(r, [pc |-> "retract", bid |-> b, wasWinning |-> b \in isWinning,
                isOwner |-> isOwner, startPrice |-> startPrice])
    /\ UNCHANGED <<auctionVars, bidVars, refunds>>

\* The columns retractBid writes to its own bid.
WriteRetraction(b, isOwner) ==
    /\ isRetracted' = isRetracted \union {b}
    /\ rejectedAt' = IF isOwner THEN rejectedAt \union {b} ELSE rejectedAt

\* A bid that was not winning when it was read: one statement.
RetractLosingBid(r) ==
    LET b == req[r].bid IN
    /\ At(r, "retract") /\ ~req[r].wasWinning
    /\ b \in rows \ LockedBids(r)
    /\ WriteRetraction(b, req[r].isOwner)
    /\ isWinning' = isWinning \ {b}
    /\ Goto(r, Idle)
    /\ UNCHANGED <<auctionVars, rows, bidderId, amount, readByOwnerAt, refunds>>

\* A bid that was winning: its row is written, and the highest other live bid
\* the transaction sees is to win in its place.
RetractWinningBid(r) ==
    LET b == req[r].bid IN
    /\ At(r, "retract") /\ req[r].wasWinning
    /\ b \in rows \ LockedBids(r)
    /\ \E heir \in IF Successors(b) = {} THEN {None} ELSE Successors(b) :
          Goto(r, [pc |-> "retractTx", bid |-> b, isOwner |-> req[r].isOwner, heir |-> heir,
                   startPrice |-> req[r].startPrice])
    /\ UNCHANGED <<auctionVars, bidVars, refunds>>

RetractCommit(r) ==
    LET b == req[r].bid
        heir == req[r].heir
    IN
    /\ At(r, "retractTx") /\ ~AuctionLocked(r)
    /\ WriteRetraction(b, req[r].isOwner)
    /\ \/ /\ heir = None
          /\ isWinning' = isWinning \ {b}
          /\ currentPrice' = req[r].startPrice
       \/ /\ heir \in rows \ LockedBids(r)
          /\ isWinning' = (isWinning \ {b}) \union {heir}
          /\ currentPrice' = amount[heir]
    /\ Goto(r, Idle)
    /\ UNCHANGED <<status, deleted, startPrice, totalBids, winnerId, rows, bidderId, amount,
                   readByOwnerAt, refunds>>

(***************************************************************************)
(* restoreBid                                                              *)
(***************************************************************************)
RestoreBidRead(r, b) ==
    /\ Starts(r, "restoreBid")
    /\ b \in rejectedAt
    /\ ~deleted /\ status = "ACTIVE"
    /\ Goto(r, [pc |-> "restore", bid |-> b])
    /\ UNCHANGED <<auctionVars, bidVars, refunds>>

RestoreBidTx(r) ==
    LET b == req[r].bid IN
    /\ At(r, "restore")
    /\ b \in rows \ LockedBids(r)
    /\ \E heir \in Highest(Live \union {b}) :
          Goto(r, [pc |-> "restoreTx", bid |-> b, heir |-> heir, seen |-> rows])
    /\ UNCHANGED <<auctionVars, bidVars, refunds>>

\* updateMany clears the rows of its snapshot, then the heir is written.
RestoreBidCommit(r) ==
    LET b == req[r].bid
        heir == req[r].heir
    IN
    /\ At(r, "restoreTx") /\ ~AuctionLocked(r)
    /\ heir \in rows /\ rows \intersect LockedBids(r) = {}
    /\ isRetracted' = isRetracted \ {b}
    /\ rejectedAt' = rejectedAt \ {b}
    /\ \E cleared \in {req[r].seen, rows} : isWinning' = (isWinning \ cleared) \union {heir}
    /\ currentPrice' = amount[heir]
    /\ Goto(r, Idle)
    /\ UNCHANGED <<status, deleted, startPrice, totalBids, winnerId, rows, bidderId, amount,
                   readByOwnerAt, refunds>>

(***************************************************************************)
(* chooseWinner and cancelWinner                                           *)
(***************************************************************************)
ChooseWinnerRead(r, u) ==
    /\ Starts(r, "chooseWinner")
    /\ ~deleted /\ status \in {"ACTIVE", "ENDED"}
    /\ LiveOf(u) # {}
    /\ Goto(r, [pc |-> "chooseWinner", user |-> u, seen |-> rows])
    /\ UNCHANGED <<auctionVars, bidVars, refunds>>

ChooseWinnerCommit(r) ==
    LET u == req[r].user IN
    /\ At(r, "chooseWinner") /\ ~AuctionLocked(r)
    /\ rows \intersect LockedBids(r) = {}
    /\ \E cleared \in {req[r].seen, rows}, chosen \in BestOf(u) :
          isWinning' = (isWinning \ cleared) \union {chosen}
    /\ winnerId' = u
    /\ status' = "ENDED"
    /\ Goto(r, Idle)
    /\ UNCHANGED <<deleted, startPrice, currentPrice, totalBids, rows, bidderId, amount,
                   isRetracted, rejectedAt, readByOwnerAt, refunds>>

CancelWinnerRead(r) ==
    /\ Starts(r, "cancelWinner")
    /\ ~deleted /\ status = "ENDED" /\ winnerId # None
    /\ Goto(r, [pc |-> "cancelWinner", seen |-> isWinning])
    /\ UNCHANGED <<auctionVars, bidVars, refunds>>

CancelWinnerCommit(r) ==
    /\ At(r, "cancelWinner") /\ ~AuctionLocked(r)
    /\ isWinning \intersect LockedBids(r) = {}
    /\ \E cleared \in {req[r].seen \intersect isWinning, isWinning} :
          /\ isWinning' = isWinning \ cleared
          /\ rejectedAt' = rejectedAt \union cleared
    /\ winnerId' = None
    /\ Goto(r, Idle)
    /\ UNCHANGED <<status, deleted, startPrice, currentPrice, totalBids, rows, bidderId, amount,
                   isRetracted, readByOwnerAt, refunds>>

(***************************************************************************)
(* finalizeAuction, reached from closeAuction, from the completion job and *)
(* (with the same statements) from the sweep of expired auctions; the last *)
(* two only when the auction is ACTIVE and its end time has passed.        *)
(***************************************************************************)
FinalizeRead(r) ==
    /\ Starts(r, "closeAuction")
    /\ ~deleted /\ status \in Open
    /\ Goto(r, [pc |-> "finalize", noBids |-> NoBids])
    /\ UNCHANGED <<auctionVars, bidVars, refunds>>

FinalizeEnd(r) ==
    /\ At(r, "finalize") /\ ~AuctionLocked(r)
    /\ status' = "ENDED"
    /\ winnerId' = None
    /\ Goto(r, IF req[r].noBids THEN [pc |-> "refund"] ELSE Idle)
    /\ UNCHANGED <<deleted, startPrice, currentPrice, totalBids, bidVars, refunds>>

FinalizeRefund(r) ==
    /\ At(r, "refund") /\ refunds < MaxRefunds
    /\ refunds' = refunds + 1
    /\ Goto(r, Idle)
    /\ UNCHANGED <<auctionVars, bidVars>>

(***************************************************************************)
(* updateAuction (the fields bids depend on) and deleteAuction             *)
(***************************************************************************)
UpdateAuctionRead(r, newStatus, newStartPrice) ==
    /\ Starts(r, "updateAuction")
    /\ ~deleted
    /\ Updatable(newStatus)
    /\ newStatus = "CANCELLED" \/ newStartPrice # None => NoBids
    /\ Goto(r, [pc |-> "update", status |-> newStatus, startPrice |-> newStartPrice])
    /\ UNCHANGED <<auctionVars, bidVars, refunds>>

DeleteAuctionRead(r) ==
    /\ Starts(r, "deleteAuction")
    /\ ~deleted /\ NoBids
    /\ Goto(r, [pc |-> "update", status |-> "CANCELLED", startPrice |-> None])
    /\ UNCHANGED <<auctionVars, bidVars, refunds>>

UpdateAuctionWrite(r) ==
    LET new == req[r] IN
    /\ At(r, "update") /\ ~AuctionLocked(r)
    /\ status' = IF new.status = None THEN status ELSE new.status
    /\ deleted' = (deleted \/ new.status = "CANCELLED")
    /\ startPrice' = IF new.startPrice = None THEN startPrice ELSE new.startPrice
    /\ currentPrice' = IF new.startPrice = None THEN currentPrice ELSE new.startPrice
    /\ Goto(r, Idle)
    /\ UNCHANGED <<totalBids, winnerId, bidVars, refunds>>

(***************************************************************************)
(* markBidAsRead and markAllBidsAsRead: the owner reads the bids           *)
(***************************************************************************)
MarkBidAsRead(r, b) ==
    /\ Starts(r, "markAsRead")
    /\ ~deleted /\ b \in rows
    /\ readByOwnerAt' = readByOwnerAt \union {b}
    /\ UNCHANGED <<auctionVars, rows, bidderId, amount, isRetracted, rejectedAt, isWinning,
                   refunds, req>>

MarkAllBidsAsRead(r) ==
    /\ Starts(r, "markAsRead")
    /\ ~deleted
    /\ readByOwnerAt' = readByOwnerAt \union Live
    /\ UNCHANGED <<auctionVars, rows, bidderId, amount, isRetracted, rejectedAt, isWinning,
                   refunds, req>>

-----------------------------------------------------------------------------
BidSteps(r) ==
    \/ \E u \in Bidder, a \in Amount : CreateBidRead(r, u, a)
    \/ CreateBidLock(r)
    \/ \E b \in Bid : CreateBidCommit(r, b)
    \/ \E b \in Bid, isOwner \in BOOLEAN : RetractBidRead(r, b, isOwner)
    \/ RetractLosingBid(r) \/ RetractWinningBid(r) \/ RetractCommit(r)
    \/ \E b \in Bid : RestoreBidRead(r, b)
    \/ RestoreBidTx(r) \/ RestoreBidCommit(r)
    \/ \E b \in Bid : MarkBidAsRead(r, b)
    \/ MarkAllBidsAsRead(r)

AuctionSteps(r) ==
    \/ \E u \in Bidder : ChooseWinnerRead(r, u)
    \/ ChooseWinnerCommit(r)
    \/ CancelWinnerRead(r) \/ CancelWinnerCommit(r)
    \/ FinalizeRead(r) \/ FinalizeEnd(r) \/ FinalizeRefund(r)
    \/ \E s \in AuctionStatus \union {None}, p \in StartPrice \union {None} :
          UpdateAuctionRead(r, s, p)
    \/ DeleteAuctionRead(r) \/ UpdateAuctionWrite(r)

Next == \E r \in Request : BidSteps(r) \/ AuctionSteps(r) \/ Abort(r)

Spec == Init /\ [][Next]_vars

-----------------------------------------------------------------------------
TypeOK ==
    /\ status \in AuctionStatus /\ deleted \in BOOLEAN
    /\ startPrice \in StartPrice /\ currentPrice \in Nat
    /\ totalBids \in Int /\ winnerId \in Bidder \union {None}
    /\ rows \subseteq Bid
    /\ bidderId \in [Bid -> Bidder \union {None}] /\ amount \in [Bid -> Nat]
    /\ isRetracted \subseteq rows /\ rejectedAt \subseteq rows /\ isWinning \subseteq rows
    /\ readByOwnerAt \subseteq rows
    /\ refunds \in 0..MaxRefunds
    /\ req \in [Request -> RequestState]

-----------------------------------------------------------------------------
(***************************************************************************)
(* What holds however the requests interleave.                             *)
(***************************************************************************)

\* totalBids, which createBid only ever increments and decrements, is the
\* number of bid rows, retracted and rejected ones included: the sweep and
\* finalizeAuction refund, and deleteAuction deletes, on its being zero.
TotalBidsIsRowCount == totalBids = Cardinality(rows)

\* The row lock of createBid: no bid row appears once the auction has ended
\* or was cancelled, though the bid was validated while it was open.
NoBidOnClosedAuction ==
    [][rows' \ rows # {} => status \in Open /\ status' = "ACTIVE"]_vars

\* A bid replaces its bidder's earlier ones: when it commits it is the only live
\* bid they have, whichever of their other bids was made, rejected or restored
\* while it was on its way.
BidReplacesOwn ==
    [][\A b \in rows' \ rows : {c \in Live' : bidderId'[c] = bidderId'[b]} = {b}]_vars

(***************************************************************************)
(* What holds when requests do not overlap (one request at a time).        *)
(***************************************************************************)

\* While the auction is open, the winning bid is the highest live bid and
\* the price is its amount; without live bids nobody wins at the start price.
BookConsistent ==
    status \in Open =>
        IF Live = {} THEN isWinning = {} /\ currentPrice = startPrice
        ELSE \E w \in Highest(Live) : isWinning = {w} /\ currentPrice = amount[w]

\* A new bid is at least an increment above the price it was placed against.
\* createBid tells a lower bid: "Bid amount must be at least
\* {{minimumRequiredBid}} (current price + increment)".
BidRaisesPrice ==
    [][\A b \in rows' \ rows : amount'[b] >= currentPrice + BidIncrement]_vars

\* A winner of the auction holds the one winning bid, and it is live.
WinnerHoldsWinningBid ==
    winnerId # None =>
        /\ status = "ENDED"
        /\ \E w \in LiveOf(winnerId) : isWinning = {w}

\* The credit comes back at most once, and only for an auction without bids.
RefundOnlyWithoutBids == refunds > 0 => refunds = 1 /\ rows = {} /\ status \notin Open

\* All three: winner, price and refund are what the bids say, through bids,
\* rejections, restorations, choices, closings, updates and deletions in any order.
BookInOrder == BookConsistent /\ WinnerHoldsWinningBid /\ RefundOnlyWithoutBids
=============================================================================
