------------------------------ MODULE BidViews -------------------------------
(***************************************************************************)
(* What clients are shown of the bids that BidBook keeps: the lists and    *)
(* badges of the bid module and the boards of the auction module, as       *)
(* queries over the same rows.  Where SQL leaves the order of equal rows   *)
(* open, a query stands for all the answers it may give.  Pages are cut    *)
(* from these answers by position; accounts are not deleted here.          *)
(***************************************************************************)
EXTENDS BidBook, SequencesExt

-----------------------------------------------------------------------------
\* The boards: the bids that are not retracted, grouped by bidder.

FaultOnBoard == rows
OnBoard == rows \ isRetracted

Participants == {bidderId[b] : b \in OnBoard}

HighestBid(u) == Max({amount[b] : b \in {c \in OnBoard : bidderId[c] = u}})
BidCount(u) == Cardinality({b \in OnBoard : bidderId[b] = u})

\* The orders of the participants in which nobody comes before a better one.
Orders(Better(_, _)) ==
    {s \in SetToSeqs(Participants) :
        \A i, j \in DOMAIN s : i < j => ~Better(s[j], s[i])}

GetParticipants ==
    Orders(LAMBDA u, v :
        \/ HighestBid(u) > HighestBid(v)
        \/ HighestBid(u) = HighestBid(v) /\ BidCount(u) > BidCount(v))

GetLeaderboard == GetParticipants

GetWinners ==
    {SubSeq(s, 1, Min({3, Len(s)})) :
        s \in Orders(LAMBDA u, v : HighestBid(u) > HighestBid(v))}

-----------------------------------------------------------------------------
\* BidService.findAll with a view, and with filters; getUserBids.

FindAllView(view) ==
    CASE view = "new"      -> rows \ (readByOwnerAt \union rejectedAt \union isRetracted)
      [] view = "rejected" -> rejectedAt
      [] view = "top"      -> isWinning
      [] OTHER             -> rows

FindAll(ofBidder, retracted, winning) ==
    {b \in rows :
        /\ ofBidder # None => bidderId[b] = ofBidder
        /\ (b \in isRetracted) = retracted
        /\ winning # None => (b \in isWinning) = winning}

GetUserBids(u) == FindAll(u, FALSE, None)

GetAuctionBidCounts ==
    [all      |-> Cardinality(rows),
     new      |-> Cardinality(rows \ (readByOwnerAt \union rejectedAt \union isRetracted)),
     top      |-> Cardinality(isWinning),
     rejected |-> Cardinality(rejectedAt)]

-----------------------------------------------------------------------------
(***************************************************************************)
(* The boards tell the truth while bids are taken: whichever way equal     *)
(* bids are listed, the leader stands at the current price, and the bidder *)
(* of the winning bid stands at it too; there is exactly one winning bid   *)
(* to show as soon as a bid is live.  A chosen winner sees the winning bid *)
(* among their own bids.                                                   *)
(***************************************************************************)
BoardsAgree ==
    /\ status = "ACTIVE" /\ Live # {} =>
          /\ \A board \in GetLeaderboard \union GetWinners : HighestBid(board[1]) = currentPrice
          /\ \A b \in FindAllView("top") : HighestBid(bidderId[b]) = currentPrice
          /\ GetAuctionBidCounts.top = 1
    /\ winnerId # None => isWinning \subseteq GetUserBids(winnerId)
=============================================================================
