------------------------------ MODULE MCCwKeyer ------------------------------
(* Small instances of CwKeyer: a message that starts the keyer and one that does not. *)
EXTENDS CwKeyer

MCMessages == {<<"[">>, <<"E">>}
=============================================================================
