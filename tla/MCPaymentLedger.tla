--------------------------- MODULE MCPaymentLedger ---------------------------
(***************************************************************************)
(* Constants for model checking PaymentLedger.                             *)
(***************************************************************************)
EXTENDS PaymentLedger

\* 1 sum is 100 tiyins: a webhook for the one can be read as the other.
MCAmount == {1, 100}
=============================================================================
