--------------------------- MODULE MCAuctionClock ---------------------------
(***************************************************************************)
(* Constants for model checking AuctionClock.                              *)
(***************************************************************************)
EXTENDS AuctionClock, TLC

Symmetry == Permutations(Request)
=============================================================================
