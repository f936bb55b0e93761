-------------------------------- MODULE Rig --------------------------------
(***************************************************************************)
(* The transceiver as flrig's handlers reach it through selrig.  A radio   *)
(* value holds the two VFO registers of the set, the VFO in use (the       *)
(* driver's "inuse", which every select command keeps equal to the VFO the *)
(* set is on) and the set's split switch.  Each operator is one driver     *)
(* call: it maps the radio before the call to the radio after it.          *)
(*                                                                         *)
(* The flags are the capability members of rigbase that the shared code    *)
(* branches on.  Two kinds of set differ most: one whose commands name the *)
(* VFO they are for (can_change_alt_vfo, for instance the IC-7300), and    *)
(* one whose commands always act on the selected VFO (the IC-746).         *)
(***************************************************************************)
EXTENDS Integers

CONSTANTS
    Freqs,          \* frequencies, in tuning steps
    Modes,          \* operating modes
    BWs,            \* bandwidth table entries
    DefBW,          \* def_bandwidth(): mode -> bandwidth
    InBand,         \* the frequencies the set accepts; it ignores others
    CanChangeAlt,   \* can_change_alt_vfo
    TwoVfos,        \* twovfos(): the unselected VFO can be read
    CanSwap,        \* canswap()
    HasA2B,         \* has_a2b
    EqualizeA,      \* A2B() always copies A to B (FT-991), whatever is in use
    HasSplit,       \* has_split: the split switch can be read
    CanSplit,       \* can_split() or has_split_AB: it can be set
    ICOMrig, ICOMmainsub

Flags == {CanChangeAlt, TwoVfos, CanSwap, HasA2B, EqualizeA, HasSplit,
          CanSplit, ICOMrig, ICOMmainsub}

ASSUME RigAssumption ==
    /\ Freqs \subseteq Nat \ {0}
    /\ InBand \subseteq Freqs
    /\ DefBW \in [Modes -> BWs]
    /\ Flags \subseteq BOOLEAN
    /\ TwoVfos => CanChangeAlt
    /\ ICOMmainsub => ICOMrig

VFO == {"A", "B"}
Other(v) == IF v = "A" THEN "B" ELSE "A"

State == [freq : Freqs, imode : Modes, iBW : BWs]           \* what flrig stores
Register == [freq : InBand, imode : Modes, iBW : BWs]       \* what the set holds
Radio == [reg : [VFO -> Register], inuse : VFO, split : BOOLEAN]

-----------------------------------------------------------------------------

Select(r, v) == [r EXCEPT !.inuse = v]                  \* selectA(), selectB()

\* Mutant of Landing: no command says which VFO it is for.
LandingInUse(r, v) == r.inuse

\* The register that a command for VFO v changes.
Landing(r, v) == IF CanChangeAlt THEN v ELSE r.inuse

\* Mutant of SetFreq: the set takes any frequency.
SetFreqAnywhere(r, v, f) == [r EXCEPT !.reg[Landing(r, v)].freq = f]

SetFreq(r, v, f) ==
    IF f \in InBand THEN [r EXCEPT !.reg[Landing(r, v)].freq = f] ELSE r
SetMode(r, v, m) == [r EXCEPT !.reg[Landing(r, v)].imode = m]
SetBW(r, v, b) == [r EXCEPT !.reg[Landing(r, v)].iBW = b]

\* set_mode, set_bw, set_vfo, in the order serviceA/B and the Yaesu updates use.
SetAll(r, v, s) == SetFreq(SetBW(SetMode(r, v, s.imode), v, s.iBW), v, s.freq)

SetSplit(r, on) == [r EXCEPT !.split = on]

\* swapAB(): the set exchanges the contents of its two VFOs.
SwapAB(r) == [r EXCEPT !.reg = [v \in VFO |-> r.reg[Other(v)]]]

\* A2B(): the set copies one VFO onto the other.
Equalize(r) ==
    LET from == IF EqualizeA THEN "A" ELSE r.inuse
    IN  [r EXCEPT !.reg[Other(from)] = r.reg[from]]

\* Mutant of Return: the handler forgets to select back.
ReturnForgotten(r, before) == r

\* The select that a set without can_change_alt_vfo needs before a command for
\* the VFO not in use, and the select back after it.
Reach(r, v) == IF ~CanChangeAlt /\ r.inuse # v THEN Select(r, v) ELSE r
Return(r, before) == IF r.inuse # before.inuse THEN Select(r, before.inuse) ELSE r

=============================================================================
