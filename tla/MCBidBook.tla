------------------------------ MODULE MCBidBook ------------------------------
(***************************************************************************)
(* Constants for model checking BidBook.                                   *)
(***************************************************************************)
EXTENDS BidBook, TLC

MCAmount == 1..4
MCAmountLow == 1..3
MCTwoAmounts == 1..2
MCStartPrice == {0, 1}
MCOneStartPrice == {0}
BiddingOperation == {"createBid", "closeAuction"}
AllOperation == Operations
RacingOperation == Operations \ {"updateAuction", "markAsRead"}

Symmetry == Permutations(Bid) \union Permutations(Bidder) \union Permutations(Request)
=============================================================================
