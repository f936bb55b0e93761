---------------------------- MODULE MCPttControl ----------------------------
(* Small instances of PttControl: one way to set and read at a time.       *)
EXTENDS PttControl

Prefs(catptt, cwOff, split, local) ==
    [serial_catptt |-> catptt, disable_CW_ptt |-> cwOff, split |-> split, local |-> local]

MCSettings ==
    {Prefs("BOTH", TRUE, TRUE, local) : local \in BOOLEAN}
        \cup {Prefs("SET", FALSE, FALSE, FALSE), Prefs("GET", FALSE, TRUE, TRUE)}
=============================================================================
