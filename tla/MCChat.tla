-------------------------------- MODULE MCChat ---------------------------------
(* A buyer and a seller (or the administration), three messages, pages of one   *)
(* or two.                                                                      *)
EXTENDS Chat
=============================================================================
