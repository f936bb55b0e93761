----------------------------- MODULE TwoVfoRadio -----------------------------
(***************************************************************************)
(* What flrig promises to do to a transceiver with two VFOs: each step     *)
(* changes one VFO and leaves the other, and the choice of the VFO in use, *)
(* alone; or selects a VFO; or exchanges the two; or copies one onto the   *)
(* other.  VfoCache, where one request is a string of select and set       *)
(* commands, is shown to keep this promise for sets that exchange their    *)
(* own VFOs.                                                               *)
(***************************************************************************)
CONSTANTS State

VARIABLE radio      \* [reg : [VFO -> State], inuse : VFO, split : BOOLEAN]

VFO == {"A", "B"}
Other(v) == IF v = "A" THEN "B" ELSE "A"

Init == radio \in [reg : [VFO -> State], inuse : {"A"}, split : {FALSE}]

Tune(v, s) == radio' = [radio EXCEPT !.reg[v] = s]

SelectVfo(v) == radio' = [radio EXCEPT !.inuse = v]

Exchange(v) ==
    radio' = [radio EXCEPT !.reg = [w \in VFO |-> radio.reg[Other(w)]],
                           !.inuse = v]

\* v is copied onto the other VFO and is in use afterwards.
Copy(v) ==
    radio' = [radio EXCEPT !.reg[Other(v)] = radio.reg[v], !.inuse = v]

\* Split with main and sub receivers also selects the main one.
Split(on, v) == radio' = [radio EXCEPT !.split = on, !.inuse = v]

Next ==
    \E v \in VFO :
        \/ \E s \in State : Tune(v, s)
        \/ SelectVfo(v) \/ Exchange(v) \/ Copy(v)
        \/ \E on \in BOOLEAN : Split(on, v)

Spec == Init /\ [][Next]_radio
=============================================================================
