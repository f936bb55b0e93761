---------------------------- MODULE MCLevelControl ----------------------------
(* Small instances of LevelControl: each control in turn.                    *)
EXTENDS LevelControl

MCControls == {"volume", "rfgain", "micgain", "squelch", "power"}
=============================================================================
