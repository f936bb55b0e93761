----------------------------- MODULE MCVfoCache -----------------------------
(* Small instances of VfoCache: the bandwidth that goes with each mode. *)
EXTENDS VfoCache, FiniteSets

MCDefBW == [m \in Modes |-> IF m = "USB" /\ 1 \in BWs THEN 1 ELSE 0]
=============================================================================
