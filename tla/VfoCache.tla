------------------------------ MODULE VfoCache ------------------------------
(***************************************************************************)
(* flrig's copy of the transceiver's two VFOs and every handler that reads *)
(* or writes it: the panel callbacks of the FLTK thread, the XML-RPC       *)
(* methods of the server thread and the readers of the serial poll thread. *)
(*                                                                         *)
(* Handlers take mutex_serial for their whole body, so a handler is one    *)
(* action, enabled while the lock is free.  What a handler does before it  *)
(* takes the lock (a widget changed, a request copied out of the cache) is *)
(* an action of its own, and so are the two halves of read_vfo(), between  *)
(* which the FLTK thread, which takes no lock, may run updateUI().         *)
(*                                                                         *)
(* Branches that name one set (FT-891, FTdx10, FT-2000, TT-550 and the     *)
(* Elecraft ones) are not modelled, and reject_xmlrpc_mode, an option      *)
(* that turns the mode methods off, is taken to be off.                    *)
(***************************************************************************)
EXTENDS Rig

CONSTANTS
    HasDSP      \* has_dsp_controls: setDSP() is reachable

\* Every driver with DSP filters sets the VFO not in use without selecting it.
ASSUME HasDSPAssumption == HasDSP \in BOOLEAN /\ (HasDSP => CanChangeAlt)

VARIABLES
    radio,      \* the transceiver and its driver
    cache,      \* vfoA and vfoB
    vfo,        \* the pointer vfo, as the name of the VFO it points to
    split,      \* progStatus.split
    opMODE,     \* opMODE->index(), the mode the panel shows
    shown,      \* the VFO that highlight_vfo() last marked as active
    polled,     \* current_vfo, the static of read_vfo()
    awake,      \* callbacks queued by Fl::awake and not yet run
    reading,    \* the poll thread is inside read_vfo(), holding mutex_serial
    ui          \* what the FLTK thread is doing before it takes mutex_serial

vars == <<radio, cache, vfo, split, opMODE, shown, polled, awake, reading, ui>>
panel == <<opMODE, shown, ui>>

Clicks == {"left", "right", "shift", "ctrl"}
Idle == [op |-> "idle"]
UIState ==
    {Idle, [op |-> "setMode"]}
        \cup [op : {"swapButton"}, click : Clicks]
        \cup [op : {"setDSP"}, to : VFO, vals : State]

TypeOK ==
    /\ radio \in Radio
    /\ cache \in [VFO -> State]
    /\ vfo \in VFO
    /\ split \in BOOLEAN
    /\ opMODE \in Modes
    /\ shown \in VFO
    /\ polled \in VFO \cup {"nil"}
    /\ awake \subseteq {"updateUI", "set_Mode_BW_control"}
    /\ reading \in BOOLEAN
    /\ ui \in UIState

\* initRig() ends with both VFOs read, VFO A selected and the panel redrawn.
Init ==
    /\ radio \in [reg : [VFO -> Register], inuse : {"A"}, split : {FALSE}]
    /\ cache = radio.reg
    /\ vfo = "A"
    /\ split = FALSE
    /\ opMODE = cache["A"].imode
    /\ shown = "A"
    /\ polled = "nil"
    /\ awake = {}
    /\ reading = FALSE
    /\ ui = Idle

LockFree == ~reading
UIFree == ui = Idle
Active == radio.inuse

Queue(callback) == awake' = awake \cup {callback}

-----------------------------------------------------------------------------
(* The transceiver's own front panel.                                      *)

FrontPanel(s) ==
    /\ s # radio.reg[Active]
    /\ radio' = [radio EXCEPT !.reg[Active] = s]
    /\ UNCHANGED <<cache, vfo, split, panel, polled, awake, reading>>

-----------------------------------------------------------------------------
(* The poll thread.                                                        *)

\* read_vfo() up to the comparison with current_vfo.
ReadVfoBegin ==
    /\ LockFree
    /\ reading' = TRUE
    /\ polled' = Active
    /\ IF polled # Active THEN Queue("updateUI") ELSE UNCHANGED awake
    /\ UNCHANGED <<radio, cache, vfo, split, panel>>

\* Mutant of ReadVfoEnd: the frequencies are read, the pointer stays.
ReadVfoEndNoPointer ==
    /\ reading
    /\ reading' = FALSE
    /\ cache' = [cache EXCEPT ![Active].freq = radio.reg[Active].freq]
    /\ UNCHANGED <<radio, vfo, split, panel, polled, awake>>

\* The rest of read_vfo(): the frequencies and the pointer.
ReadVfoEnd ==
    /\ reading
    /\ reading' = FALSE
    /\ vfo' = Active
    /\ cache' = [v \in VFO |->
                    IF v = Active \/ TwoVfos
                    THEN [cache[v] EXCEPT !.freq = radio.reg[v].freq]
                    ELSE cache[v]]
    /\ UNCHANGED <<radio, split, panel, polled, awake>>

\* Mutant of ReadMode: the set is compared with the cache.
ReadModeAgainstCache ==
    LET now == radio.reg[Active]
    IN  /\ LockFree
        /\ IF now.imode # cache[vfo].imode
           THEN /\ Queue("set_Mode_BW_control")
                /\ cache' = [cache EXCEPT ![vfo] = [@ EXCEPT !.imode = now.imode,
                                                           !.iBW = now.iBW]]
           ELSE UNCHANGED <<awake, cache>>
        /\ UNCHANGED <<radio, vfo, split, panel, polled, reading>>

\* read_mode() compares the set with the widget, not with the cache, and stores
\* what it finds through both the pointer and the VFO in use.
ReadMode ==
    LET now == radio.reg[Active]
        Refresh(s) == [s EXCEPT !.imode = now.imode, !.iBW = now.iBW]
        seen == [v \in VFO |-> IF now.imode # opMODE /\ v \in {vfo, Active}
                               THEN Refresh(cache[v]) ELSE cache[v]]
    IN  /\ LockFree
        /\ IF now.imode # opMODE
           THEN Queue("set_Mode_BW_control") ELSE UNCHANGED awake
        /\ cache' = IF TwoVfos
                    THEN [seen EXCEPT ![Other(Active)].imode =
                                          radio.reg[Other(Active)].imode]
                    ELSE seen
        /\ UNCHANGED <<radio, vfo, split, panel, polled, reading>>

\* Mutant of ReadBandwidth: VFO A is read whatever is in use.
ReadBandwidthA ==
    /\ LockFree
    /\ cache' = [cache EXCEPT !["A"].iBW = radio.reg["A"].iBW]
    /\ UNCHANGED <<radio, vfo, split, panel, polled, awake, reading>>

ReadBandwidth ==
    /\ LockFree
    /\ cache' = [v \in VFO |->
                    IF v \in {vfo, Active}
                    THEN [cache[v] EXCEPT !.iBW = radio.reg[Active].iBW]
                    ELSE cache[v]]
    /\ UNCHANGED <<radio, vfo, split, panel, polled, awake, reading>>

ReadSplit ==
    /\ LockFree
    /\ HasSplit
    /\ split' = radio.split
    /\ UNCHANGED <<radio, cache, vfo, panel, polled, awake, reading>>

Poll == ReadVfoBegin \/ ReadVfoEnd \/ ReadMode \/ ReadBandwidth \/ ReadSplit

-----------------------------------------------------------------------------
(* Callbacks the FLTK thread runs for Fl::awake.                           *)

RunModeControl ==
    /\ UIFree
    /\ "set_Mode_BW_control" \in awake
    /\ awake' = awake \ {"set_Mode_BW_control"}
    /\ opMODE' = cache[vfo].imode
    /\ UNCHANGED <<radio, cache, vfo, split, shown, polled, reading, ui>>

RunUpdateUI ==
    /\ UIFree
    /\ "updateUI" \in awake
    /\ awake' = awake \ {"updateUI"}
    /\ opMODE' = cache[vfo].imode
    /\ shown' = Active
    /\ UNCHANGED <<radio, cache, vfo, split, polled, reading, ui>>

Callbacks == RunModeControl \/ RunUpdateUI

-----------------------------------------------------------------------------
(* serviceA() and serviceB(), whose callers have filled in every field of n *)
(* from the cache.                                                         *)

\* The VFO in use: everything is sent, only the mode is stored.
ServiceActive(v, n) ==
    /\ v = Active
    /\ radio' = SetAll(radio, v, n)
    /\ cache' = [cache EXCEPT ![v].imode = n.imode]
    /\ vfo' = v

\* The other VFO of a set that can be told which VFO a command is for: a new
\* mode sends everything, otherwise only what differs from the cache is sent.
ServiceAlt(v, n) ==
    LET known == cache[v]
        width == IF known.iBW = n.iBW THEN radio ELSE SetBW(radio, v, n.iBW)
    IN  /\ v # Active
        /\ CanChangeAlt
        /\ IF known.imode # n.imode
           THEN /\ radio' = SetAll(radio, v, n)
                /\ cache' = [cache EXCEPT ![v].imode = n.imode]
           ELSE /\ radio' = IF known.freq = n.freq THEN width
                            ELSE SetFreq(width, v, n.freq)
                /\ cache' = [cache EXCEPT ![v] = n]
        /\ UNCHANGED vfo

\* The branch that selects the other VFO and back is for sets without
\* can_change_alt_vfo, whose setDSP() cannot be reached: every other caller asks
\* for the VFO in use.
Service(v, n) == ServiceActive(v, n) \/ ServiceAlt(v, n)

\* The callbacks serviceA/B queue.
ServiceAwakes(v) == IF v = Active THEN {"set_Mode_BW_control"} ELSE {}

-----------------------------------------------------------------------------
(* execute_swapAB() and execute_A2B().                                     *)

Exchanged == [v \in VFO |-> cache[Other(v)]]

\* Mutant of SwapMainSub: the main band is not selected again.
SwapMainSubStays ==
    /\ CanSwap /\ ICOMmainsub
    /\ radio' = SwapAB(radio)
    /\ cache' = Exchanged
    /\ vfo' = "A"

SwapMainSub ==
    /\ CanSwap /\ ICOMmainsub
    /\ radio' = Select(SwapAB(radio), "A")
    /\ cache' = Exchanged
    /\ vfo' = "A"

SwapIcom ==
    /\ CanSwap /\ ICOMrig /\ ~ICOMmainsub
    /\ radio' = Select(SwapAB(radio), Other(Active))
    /\ vfo' = Other(Active)
    /\ UNCHANGED cache

\* Mutant of SwapOther: the pointer is moved as SwapIcom moves it.
SwapOtherFollows ==
    /\ CanSwap /\ ~ICOMrig
    /\ radio' = Select(SwapAB(radio), Active)
    /\ cache' = Exchanged
    /\ vfo' = Other(Active)

SwapOther ==
    /\ CanSwap /\ ~ICOMrig
    /\ radio' = Select(SwapAB(radio), Active)
    /\ cache' = Exchanged
    /\ vfo' = Active

\* Mutant of SwapByHand: the values overwritten by the first half are not kept.
SwapByHandNoTemp ==
    /\ ~CanSwap
    /\ LET o == Other(Active)
           first == SetAll(Select(radio, o), o, cache[Active])
       IN  radio' = SetAll(Select(first, Active), Active, cache[Active])
    /\ cache' = [v \in VFO |-> cache[Active]]
    /\ vfo' = Active

\* Without an exchange command the cached values are written to both VFOs.
SwapByHand ==
    /\ ~CanSwap
    /\ LET o == Other(Active)
           first == SetAll(Select(radio, o), o, cache[Active])
       IN  radio' = SetAll(Select(first, Active), Active, cache[o])
    /\ cache' = Exchanged
    /\ vfo' = Active

ExecuteSwapAB == SwapMainSub \/ SwapIcom \/ SwapOther \/ SwapByHand

\* The VFO execute_A2B() copies: the main band, or the VFO in use.
CopyFrom == IF ICOMmainsub THEN "A" ELSE Active

\* Mutant of ExecuteA2B: the VFO copied to is selected first.
ExecuteA2BSelects ==
    LET to == Other(CopyFrom)
    IN  /\ radio' = Equalize(Select(radio, to))
        /\ cache' = [cache EXCEPT ![to] = cache[CopyFrom]]
        /\ vfo' = to

ExecuteA2B ==
    LET to == Other(CopyFrom)
        r == IF ICOMmainsub THEN Select(radio, "A") ELSE radio
    IN  /\ radio' = IF ICOMmainsub \/ HasA2B THEN Equalize(r)
                    ELSE SetAll(r, to, cache[CopyFrom])
        /\ cache' = [cache EXCEPT ![to] = cache[CopyFrom]]
        /\ vfo' = IF ICOMmainsub THEN "A" ELSE vfo

-----------------------------------------------------------------------------
(* serviceXCVR(): every case but the two of the PTT.                       *)

ServiceXCVR ==
    /\ LockFree
    /\ UNCHANGED <<opMODE, shown, polled, reading>>

ServiceSelect(v) ==
    /\ ServiceXCVR
    /\ radio' = Select(radio, v)
    /\ vfo' = v
    /\ Queue("updateUI")
    /\ UNCHANGED <<cache, split>>

ServiceSwap ==
    /\ ServiceXCVR
    /\ ExecuteSwapAB
    /\ Queue("updateUI")
    /\ UNCHANGED split

ServiceA2B ==
    /\ ServiceXCVR
    /\ ExecuteA2B
    /\ Queue("updateUI")
    /\ UNCHANGED split

\* after: progStatus.split as the caller left it.
ServiceSplit(on, after) ==
    /\ ServiceXCVR
    /\ radio' = IF ~CanSplit THEN radio
                ELSE IF ICOMmainsub THEN Select(SetSplit(radio, on), "A")
                ELSE SetSplit(radio, on)
    /\ vfo' = IF CanSplit /\ ICOMmainsub THEN "A" ELSE vfo
    /\ split' = IF CanSplit THEN on ELSE after
    /\ Queue("updateUI")
    /\ UNCHANGED cache

-----------------------------------------------------------------------------
(* The panel.  A callback runs in the FLTK thread, which waits inside it    *)
(* for mutex_serial and runs no other callback meanwhile.                  *)

PanelReady == UIFree /\ LockFree

\* movFreqA/B.  The display of a VFO that cannot be set is deactivated.
MovFreq(v, f) ==
    /\ PanelReady
    /\ v = shown \/ CanChangeAlt
    /\ cache' = [cache EXCEPT ![v].freq = f]
    /\ radio' = Return(SetFreq(Reach(radio, v), v, f), radio)
    /\ UNCHANGED <<vfo, split, panel, polled, awake, reading>>

\* A mode for VFO v, with the bandwidth that goes with it, stored through the
\* pointer as well.
SetModeOn(v, m) ==
    /\ radio' = SetBW(SetMode(radio, v, m), v, DefBW[m])
    /\ cache' = [w \in VFO |->
                    IF w \in {vfo, v}
                    THEN [cache[w] EXCEPT !.imode = m, !.iBW = DefBW[m]]
                    ELSE cache[w]]

\* selectFreq(): a memory is sent whole to the VFO in use.
SelectFreq(s) ==
    /\ PanelReady
    /\ radio' = SetAll(radio, Active, s)
    /\ cache' = [v \in VFO |->
                    IF v = Active THEN s
                    ELSE IF v = vfo
                         THEN [cache[v] EXCEPT !.imode = s.imode, !.iBW = s.iBW]
                         ELSE cache[v]]
    /\ Queue("set_Mode_BW_control")
    /\ UNCHANGED <<vfo, split, panel, polled, reading>>

\* setMode(): the combo box already shows the new mode while the callback waits.
PickMode(m) ==
    /\ UIFree
    /\ opMODE' = m
    /\ ui' = [op |-> "setMode"]
    /\ UNCHANGED <<radio, cache, vfo, split, shown, polled, awake, reading>>

PanelSetMode ==
    /\ LockFree
    /\ ui.op = "setMode"
    /\ SetModeOn(Active, opMODE)
    /\ opMODE' = cache'[vfo].imode
    /\ ui' = Idle
    /\ UNCHANGED <<vfo, split, shown, polled, awake, reading>>

PanelSetBW(b) ==
    /\ PanelReady
    /\ radio' = SetBW(radio, Active, b)
    /\ cache' = [v \in VFO |-> IF v \in {vfo, Active}
                              THEN [cache[v] EXCEPT !.iBW = b] ELSE cache[v]]
    /\ UNCHANGED <<vfo, split, panel, polled, awake, reading>>

\* setDSP(): the request is a copy of *vfo, and its VFO is chosen, before
\* serviceXCVR() takes the lock.
PickDSP(b) ==
    /\ HasDSP
    /\ UIFree
    /\ ui' = [op |-> "setDSP", to |-> Active,
              vals |-> [cache[vfo] EXCEPT !.iBW = b]]
    /\ UNCHANGED <<radio, cache, vfo, split, opMODE, shown, polled, awake, reading>>

PanelSetDSP ==
    /\ ui.op = "setDSP"
    /\ ServiceXCVR
    /\ Service(ui.to, ui.vals)
    /\ awake' = awake \cup ServiceAwakes(ui.to) \cup {"updateUI"}
    /\ ui' = Idle
    /\ UNCHANGED split

PanelSelect(v) == UIFree /\ ServiceSelect(v) /\ UNCHANGED ui

PanelSplit(on) == UIFree /\ ServiceSplit(on, on) /\ UNCHANGED ui

\* cbAswapB(): the mouse event, then what the callback does about it.
ClickSwap(click) ==
    /\ UIFree
    /\ ui' = [op |-> "swapButton", click |-> click]
    /\ UNCHANGED <<radio, cache, vfo, split, opMODE, shown, polled, awake, reading>>

PanelSwap ==
    /\ ui.op = "swapButton"
    /\ ui' = Idle
    /\ \/ ui.click = "left" /\ ServiceSwap
       \/ ui.click = "right" /\ ServiceA2B
       \/ /\ ui.click \in {"shift", "ctrl"}
          /\ UNCHANGED <<radio, cache, vfo, split, opMODE, shown, polled, awake, reading>>

Panel ==
    \/ \E v \in VFO, f \in Freqs : MovFreq(v, f)
    \/ \E s \in State : SelectFreq(s)
    \/ \E m \in Modes : PickMode(m)
    \/ \E b \in BWs : PanelSetBW(b) \/ PickDSP(b)
    \/ \E v \in VFO : PanelSelect(v)
    \/ \E on \in BOOLEAN : PanelSplit(on)
    \/ \E click \in Clicks : ClickSwap(click)

PanelContinue == PanelSetMode \/ PanelSetDSP \/ PanelSwap

-----------------------------------------------------------------------------
(* The XML-RPC methods.                                                    *)

Xml == LockFree /\ UNCHANGED <<panel, polled, reading>>

\* rig.get_vfoA, rig.get_vfoB.  A driver that cannot reach the VFO not in use
\* answers from its own record of it, which may be any frequency of the past.
XmlGetVfoV(v, f) ==
    /\ Xml
    /\ CanChangeAlt \/ v = Active => f = radio.reg[v].freq
    /\ cache' = [cache EXCEPT ![v].freq = f]
    /\ UNCHANGED <<radio, vfo, split, awake>>

XmlSetAB(v) ==                          \* rig.set_AB, rig.set_verify_AB
    /\ Xml
    /\ radio' = Select(radio, v)
    /\ UNCHANGED <<cache, vfo, split, awake>>

XmlSetVfoV(v, f) ==                     \* rig.set_vfoA, rig.set_vfoB
    /\ Xml
    /\ radio' = Return(SetFreq(Reach(radio, v), v, f), radio)
    /\ cache' = [cache EXCEPT ![v].freq = f]
    /\ UNCHANGED <<vfo, split, awake>>

XmlSetVerifyVfoV(v, f) ==               \* rig.set_verify_vfoA, ..._vfoB
    /\ Xml
    /\ LET set == SetFreq(Reach(radio, v), v, f)
       IN  /\ cache' = [cache EXCEPT ![v].freq = set.reg[Landing(set, v)].freq]
           /\ radio' = Return(set, radio)
    /\ UNCHANGED <<vfo, split, awake>>

XmlModVfoA(d) ==
    /\ Xml
    /\ cache["A"].freq + d \in Freqs
    /\ cache' = [cache EXCEPT !["A"].freq = @ + d]
    /\ radio' = Return(SetFreq(Reach(radio, "A"), "A", cache'["A"].freq), radio)
    /\ UNCHANGED <<vfo, split, awake>>

\* rig.mod_vfoB sends the frequency before it adds to it.
XmlModVfoB(d) ==
    /\ Xml
    /\ cache["B"].freq + d \in Freqs
    /\ radio' = Return(SetFreq(Reach(radio, "B"), "B", cache["B"].freq), radio)
    /\ cache' = [cache EXCEPT !["B"].freq = @ + d]
    /\ UNCHANGED <<vfo, split, awake>>

XmlVfoA2B ==
    /\ Xml
    /\ radio' = SetMode(SetFreq(radio, "B", cache["A"].freq), "B", cache["A"].imode)
    /\ cache' = [cache EXCEPT !["B"].freq = cache["A"].freq,
                              !["B"].imode = cache["A"].imode]
    /\ UNCHANGED <<vfo, split, awake>>

XmlFreqA2B ==
    /\ Xml
    /\ radio' = SetFreq(radio, "B", cache["A"].freq)
    /\ cache' = [cache EXCEPT !["B"].freq = cache["A"].freq]
    /\ UNCHANGED <<vfo, split, awake>>

XmlModeA2B ==
    /\ Xml
    /\ radio' = SetMode(radio, "B", cache["A"].imode)
    /\ cache' = [cache EXCEPT !["B"].imode = cache["A"].imode]
    /\ UNCHANGED <<vfo, split, awake>>

XmlSetVfo(f) ==                 \* rig.set_vfo, rig.set_frequency, main.set_frequency
    /\ Xml
    /\ radio' = SetFreq(radio, Active, f)
    /\ cache' = [cache EXCEPT ![Active].freq = f]
    /\ UNCHANGED <<vfo, split, awake>>

XmlSetVerifyVfo(f) ==           \* rig.set_verify_vfo, rig.set_verify_frequency
    /\ Xml
    /\ radio' = SetFreq(radio, Active, f)
    /\ cache' = [cache EXCEPT ![Active].freq = radio'.reg[Active].freq]
    /\ UNCHANGED <<vfo, split, awake>>

XmlSetMode(m) ==                        \* rig.set_mode, rig.set_verify_mode
    /\ Xml
    /\ SetModeOn(Active, m)
    /\ Queue("set_Mode_BW_control")
    /\ UNCHANGED <<vfo, split>>

XmlSetModeV(v, m) ==                    \* rig.set_modeA, rig.set_modeB, ...
    /\ Xml
    /\ SetModeOn(v, m)
    /\ Queue("set_Mode_BW_control")
    /\ UNCHANGED <<vfo, split>>

XmlSetBandwidth(b) ==                   \* rig.set_bandwidth
    /\ Xml
    /\ radio' = SetBW(radio, Active, b)
    /\ cache' = [cache EXCEPT ![Active].iBW = b]
    /\ UNCHANGED <<vfo, split, awake>>

XmlSetBw(b) ==                  \* rig.set_bw, rig.set_BW, rig.set_verify_bandwidth, ...
    /\ Xml
    /\ Service(Active, [cache[Active] EXCEPT !.iBW = b])
    /\ awake' = awake \cup ServiceAwakes(Active)
    /\ UNCHANGED split

XmlSwap == ServiceSwap /\ UNCHANGED ui                \* rig.swap, rig.set_swap, ...

XmlSplit(on) == ServiceSplit(on, split) /\ UNCHANGED ui

Server ==
    \/ \E v \in VFO : XmlSetAB(v)
    \/ \E v \in VFO, f \in Freqs :
            XmlGetVfoV(v, f) \/ XmlSetVfoV(v, f) \/ XmlSetVerifyVfoV(v, f)
    \/ \E d \in {-1, 1} : XmlModVfoA(d) \/ XmlModVfoB(d)
    \/ XmlVfoA2B \/ XmlFreqA2B \/ XmlModeA2B
    \/ \E f \in Freqs : XmlSetVfo(f) \/ XmlSetVerifyVfo(f)
    \/ \E m \in Modes : XmlSetMode(m) \/ \E v \in VFO : XmlSetModeV(v, m)
    \/ \E b \in BWs : XmlSetBandwidth(b) \/ XmlSetBw(b)
    \/ XmlSwap
    \/ \E on \in BOOLEAN : XmlSplit(on)

-----------------------------------------------------------------------------

Requests == Panel \/ Server \/ \E s \in Register : FrontPanel(s)

Next == Poll \/ Callbacks \/ PanelContinue \/ Requests

\* The poll loop runs for ever and visits every reader of its round (poll_mode,
\* poll_bandwidth, poll_split and poll_frequency on); Fl::wait() runs every queued callback,
\* and a callback that waits for mutex_serial gets it between two polls.
Fairness ==
    /\ WF_vars(ReadVfoBegin)
    /\ WF_vars(ReadVfoEnd)
    /\ SF_vars(ReadMode)
    /\ SF_vars(ReadBandwidth)
    /\ SF_vars(ReadSplit)
    /\ WF_vars(RunModeControl)
    /\ WF_vars(RunUpdateUI)
    /\ SF_vars(PanelContinue)

Spec == Init /\ [][Next]_vars

FairSpec == Spec /\ Fairness

-----------------------------------------------------------------------------
(* Properties that hold.                                                   *)

FrequencyRequest(v) ==
    \/ \E f \in Freqs : MovFreq(v, f) \/ XmlSetVfoV(v, f) \/ XmlSetVerifyVfoV(v, f)
    \/ v = "A" /\ \E d \in {-1, 1} : XmlModVfoA(d)
    \/ v = "B" /\ \E d \in {-1, 1} : XmlModVfoB(d)

LeavesOther ==
    \A v \in VFO :
        FrequencyRequest(v) => /\ radio'.reg[Other(v)] = radio.reg[Other(v)]
                               /\ radio'.inuse = radio.inuse

\* A request for the frequency of one VFO, from the panel or from a client,
\* leaves the other VFO of the set alone and the same VFO in use, also when the
\* set has to be switched to the other VFO and back to carry it out.
OtherVfoUntouched == [][LeavesOther]_vars

\* The set only ever sees what TwoVfoRadio promises.
Promise == INSTANCE TwoVfoRadio WITH State <- Register
KeepsPromise == Promise!Spec

\* The cache knows both VFOs as they are.
CacheExact == cache = radio.reg

ExchangeStep ==
    ServiceSwap /\ CacheExact
        => /\ radio'.reg = [v \in VFO |-> radio.reg[Other(v)]]
           /\ vfo' = radio'.inuse

\* A swap ordered while the cache is exact exchanges the VFOs of the set, however
\* the set does it, and flrig's pointer follows the VFO then in use.
SwapExchanges == [][ExchangeStep]_vars

\* A frequency the set does not take is stored unless it is read back.
Refused ==
    \/ \E f \in Freqs \ InBand :
        \/ XmlSetVfo(f) \/ \E v \in VFO : MovFreq(v, f) \/ XmlSetVfoV(v, f)
        \/ \E s \in State : s.freq = f /\ SelectFreq(s)
    \/ cache'["A"].freq \notin InBand /\ \E d \in {-1, 1} : XmlModVfoA(d)

\* Stored in one record and sent to the other VFO, or stored in both.
Misplaced ==
    \/ \E v \in VFO \ {Active}, m \in Modes : XmlSetModeV(v, m)
    \/ ~CanChangeAlt /\ Active = "A" /\ (XmlVfoA2B \/ XmlFreqA2B \/ XmlModeA2B)
    \/ ServiceA2B /\ (IF HasA2B THEN EqualizeA /\ Active = "B" ELSE ~CanChangeAlt)
    \/ ServiceSwap /\ CanSwap /\ ICOMrig /\ ~ICOMmainsub

\* Sent and not stored, or sent from a copy made before.
Unstored ==
    \/ \E b \in BWs : XmlSetBw(b)
    \/ \E d \in {-1, 1} : XmlModVfoB(d)
    \/ PanelSetDSP

\* The VFO not in use of a set that cannot be asked for it.
Unasked == ~CanChangeAlt /\ \E f \in Freqs : XmlGetVfoV(Other(Active), f)

Knows == CacheExact /\ vfo = Active

\* Once flrig knows both VFOs and which one is in use, it goes on knowing them
\* but for what is turned at the set, rig.set_AB, which leaves the pointer, and
\* the handlers above.  No poll, no callback and no other request makes the
\* cache wrong.
KnownUntil ==
    [][Knows => \/ Knows'
                \/ \E s \in Register : FrontPanel(s)
                \/ \E v \in VFO : XmlSetAB(v)
                \/ Refused \/ Misplaced \/ Unstored \/ Unasked]_vars

\* From some point on nobody asks for anything: the threads of flrig only poll,
\* run callbacks and finish what was begun.
Quiet == <>[][Poll \/ Callbacks \/ PanelContinue]_vars

\* Whatever panel, clients and operator did, and however their requests met the
\* poll thread, once they stop flrig knows which VFO is in use, its frequency
\* and its bandwidth, and whether the set is in split.
ActiveConverges ==
    Quiet => <>[](/\ vfo = Active
                  /\ cache[Active].freq = radio.reg[Active].freq
                  /\ cache[Active].iBW = radio.reg[Active].iBW
                  /\ HasSplit => split = radio.split)

\* ... and the panel shows the mode the set is in.
PanelModeConverges == Quiet => <>[](opMODE = radio.reg[Active].imode)

-----------------------------------------------------------------------------
(* What the documentation says and the code does not do.                   *)

\* rig.get_mode answers from the cache: it is "MODE of current VFO" in the end.
GetModeConverges == Quiet => <>[](cache[vfo].imode = radio.reg[Active].imode)

\* rig.mod_vfoB d moves VFO B by d Hz.
ModVfoBMoves ==
    [][\A d \in {-1, 1} :
        XmlModVfoB(d) /\ CacheExact
        => radio'.reg["B"].freq = radio.reg["B"].freq + d]_vars

\* A2B copies the active VFO to the inactive one.
A2BCopiesActive ==
    [][ServiceA2B => radio'.reg[Other(Active)] = radio.reg[Active]]_vars

=============================================================================
