-------------------------------- MODULE MCTrade --------------------------------
(***************************************************************************)
(* Constants for model checking Trade.                                     *)
(***************************************************************************)
EXTENDS Trade
=============================================================================
