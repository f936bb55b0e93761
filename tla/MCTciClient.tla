----------------------------- MODULE MCTciClient -----------------------------
(***************************************************************************)
(* TciClient with three values, as modes AM, SAM and another, and an         *)
(* operator who turns every knob.                                           *)
(***************************************************************************)
EXTENDS TciClient

MCKnobs == {"VFO", "MODULATION"}
MCFound == [v \in Values |-> IF v = "SAM" THEN "AM" ELSE v]
=============================================================================
