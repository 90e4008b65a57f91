----------------------------- MODULE MCBidViews ------------------------------
(***************************************************************************)
(* BidViews over the constants of MCBidBook, one request at a time.        *)
(***************************************************************************)
EXTENDS MCBidBook, BidViews
=============================================================================
