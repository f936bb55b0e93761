----------------------------- MODULE LevelControl -----------------------------
(***************************************************************************)
(* A level of the set, volume, RF gain, microphone gain, squelch or power,  *)
(* and flrig's two records of it: progStatus, which clients are answered    *)
(* from, and the slider.  Three threads change them: the poll thread, which *)
(* reads the set and holds mutex_serial while it does, the FLTK thread and  *)
(* the XML-RPC server thread, which write progStatus before they wait for   *)
(* mutex_serial and send.                                                   *)
(*                                                                         *)
(* The five differ in when a slider's callback sends, in what a reading is  *)
(* compared with, and in whether a client's order takes the mutex first;    *)
(* the actions have the five variants side by side.  vfo->mic_gain and        *)
(* vfo->squelch, which only the poll thread reads and writes, are left out, *)
(* and so is the set's own rounding.                                        *)
(*                                                                         *)
(* The XML-RPC methods do not look at the level a client asks for: it is    *)
(* recorded, shown and sent as it is.  One level below the set's range and  *)
(* one above stand for all that are out of it.                              *)
(***************************************************************************)
EXTENDS Integers, Sequences

CONSTANTS
    Controls,       \* the controls to consider
    MaxLevel,       \* levels are 0..MaxLevel; up to 1 the set is silent
    power_limit,    \* progStatus.power_limit, as a level; MaxLevel + 1 when disabled
    MaxAwake,       \* bound: callbacks waiting for the FLTK thread
    MaxOrders       \* bound: how often operator and clients act

Level == 0..MaxLevel
Asked == -1..(MaxLevel + 1)
Callback == {"slider", "muted", "unmuted"}

ASSUME LevelAssumption ==
    /\ Controls \subseteq {"volume", "rfgain", "micgain", "squelch", "power"}
    /\ MaxLevel \in Nat \ {0, 1}
    /\ power_limit \in Level \cup {MaxLevel + 1}
    /\ MaxAwake \in Nat \ {0}
    /\ MaxOrders \in Nat

VARIABLES
    control,        \* the control
    use_rig_data,   \* progStatus.use_rig_data: the set's levels are taken over
    radio,          \* its level in the set
    level,          \* progStatus.volume, .rfgain, .mic_gain, .squelch, .power_level
    slider,         \* the widget
    btnVol,         \* the volume's button: lit when not muted
    active,         \* the volume's slider can be moved
    inhibit,        \* readings the poll thread is to skip
    drag,           \* the operator holds the slider
    fltk,           \* what the FLTK thread has still to send
    server,         \* what the server thread has still to send
    awake,          \* callbacks queued by Fl::awake
    orders,         \* how often operator and clients have acted
    last            \* auxiliary: the last order, if it was given alone

panel == <<slider, btnVol, active, inhibit, drag>>
vars == <<control, use_rig_data, radio, level, panel, fltk, server, awake, orders, last>>

\* No order, or one that crossed another.
None == -1

\* A pending order: what was asked for, and where the handler is.
Idle == [at |-> "idle", want |-> 0]
Order == [at : {"idle", "send", "verify", "mute"}, want : Asked]

TypeOK ==
    /\ control \in Controls /\ use_rig_data \in BOOLEAN
    /\ radio \in Level /\ level \in Asked /\ slider \in Asked
    /\ btnVol \in BOOLEAN /\ active \in BOOLEAN /\ drag \in BOOLEAN
    /\ inhibit \in {0, 1}
    /\ fltk \in Order /\ server \in Order
    /\ awake \in Seq(Callback)
    /\ orders \in 0..MaxOrders
    /\ last \in Level \cup {None}

Init ==
    /\ control \in Controls /\ use_rig_data \in BOOLEAN
    /\ radio \in 2..MaxLevel /\ level = radio /\ slider = radio
    /\ btnVol = TRUE /\ active = TRUE /\ inhibit = 0 /\ drag = FALSE
    /\ fltk = Idle /\ server = Idle /\ awake = <<>>
    /\ orders = 0 /\ last = None

\* Mutant of Clamped: the lower end is forgotten.
ClampedAbove(v) == IF v > MaxLevel THEN MaxLevel ELSE v

\* rig.mod_vol and rig.mod_rfg keep the level in the set's range.
Clamped(v) == IF v > MaxLevel THEN MaxLevel ELSE IF v < 0 THEN 0 ELSE v

\* What a set at level r makes of an order v: it takes a level of its range; of
\* any other it takes the nearest or nothing.
Made(r, v) == IF v \in Level THEN {v} ELSE {r, Clamped(v)}

\* The ring of callbacks has room enough: MaxAwake is only a bound.
Room == Len(awake) < MaxAwake
Queue(callback) == Room /\ awake' = Append(awake, callback)

Act == orders < MaxOrders /\ orders' = orders + 1

-----------------------------------------------------------------------------
(* The poll thread, under mutex_serial.                                    *)

\* A reading is skipped after a slider was moved.  Nothing sets
\* inhibit_volume.
Skip ==
    /\ inhibit > 0
    /\ inhibit' = inhibit - 1
    /\ UNCHANGED <<control, use_rig_data, radio, level, slider, btnVol, active, drag,
                   fltk, server, awake, orders, last>>

\* read_volume(): a silent set is no news while the button is dark.
read_volume ==
    /\ control = "volume" /\ inhibit = 0
    /\ radio # level
    /\ btnVol \/ radio > 1
    /\ level' = radio
    /\ Queue(IF radio <= 1 THEN "muted" ELSE "unmuted")
    /\ UNCHANGED <<control, use_rig_data, radio, panel, fltk, server, orders, last>>

\* read_rfgain() compares with the record only.
read_rfgain ==
    /\ control = "rfgain" /\ inhibit = 0
    /\ radio # level
    /\ level' = radio
    /\ Queue("slider")
    /\ UNCHANGED <<control, use_rig_data, radio, panel, fltk, server, orders, last>>

\* read_mic_gain() and read_squelch() also compare with the slider.
read_mic_gain ==
    /\ control \in {"micgain", "squelch"} /\ inhibit = 0
    /\ radio # level \/ radio # slider
    /\ level' = radio
    /\ Queue("slider")
    /\ UNCHANGED <<control, use_rig_data, radio, panel, fltk, server, orders, last>>

\* read_power_control() redraws after every reading.
read_power_control ==
    /\ control = "power" /\ inhibit = 0
    /\ level' = radio
    /\ Queue("slider")
    /\ UNCHANGED <<control, use_rig_data, radio, panel, fltk, server, orders, last>>

Poll == Skip \/ read_volume \/ read_rfgain \/ read_mic_gain \/ read_power_control

-----------------------------------------------------------------------------
(* The FLTK thread.                                                        *)

Free == fltk.at = "idle"

\* A slider under the mouse moves and calls back for every push and drag.
\* setVolume() records at once and sends, unless muted; the others only inhibit
\* a reading.
Drag ==
    /\ Free /\ Act
    /\ active
    /\ \E v \in Level : slider' = v
    /\ drag' = TRUE
    /\ IF control = "volume"
       THEN /\ level' = slider'
            /\ fltk' = IF btnVol THEN [at |-> "send", want |-> slider'] ELSE fltk
            /\ UNCHANGED inhibit
       ELSE /\ inhibit' = 1
            /\ UNCHANGED <<level, fltk>>
    /\ last' = None
    /\ UNCHANGED <<control, use_rig_data, radio, btnVol, active, server, awake>>

\* The orders that are sent as they were given, and nothing else after them.
Sole(v) == v \in Level /\ (control = "power" => use_rig_data)

\* Released: setRFGAIN(), setMicGain(), setSQUELCH(), execute_setPower() and
\* setVolume() record the slider's value and keep it to send it.  The power is
\* recorded before it is limited.
Release ==
    LET set == IF control = "power" /\ slider > power_limit THEN power_limit ELSE slider
        muted == control = "volume" /\ ~btnVol
    IN  /\ Free /\ drag
        /\ drag' = FALSE
        /\ level' = slider
        /\ slider' = set
        /\ fltk' = IF muted THEN fltk ELSE [at |-> "send", want |-> set]
        /\ last' = IF server.at = "idle" /\ ~muted /\ Sole(set) THEN set ELSE None
        /\ UNCHANGED <<control, use_rig_data, radio, btnVol, active, inhibit, server,
                       awake, orders>>

\* set_init_power_control() ends execute_setPower(): the record becomes what the
\* set has, or the set is sent the record, after the level that was ordered.
SendPower(order) ==
    \E r \in Made(radio, order) :
        IF use_rig_data
        THEN radio' = r /\ level' = r
        ELSE radio' \in Made(r, level) /\ UNCHANGED level

\* Mutant of FltkSend: the record is sent, as the XML-RPC methods do.
FltkSendRecord ==
    /\ fltk.at = "send"
    /\ IF control = "power"
       THEN SendPower(level)
       ELSE radio' \in Made(radio, level) /\ UNCHANGED level
    /\ fltk' = Idle
    /\ UNCHANGED <<control, use_rig_data, panel, server, awake, orders, last>>

\* Their last lines, under mutex_serial.
FltkSend ==
    /\ fltk.at = "send"
    /\ IF control = "power"
       THEN SendPower(fltk.want)
       ELSE radio' \in Made(radio, fltk.want) /\ UNCHANGED level
    /\ fltk' = Idle
    /\ UNCHANGED <<control, use_rig_data, panel, server, awake, orders, last>>

\* The mute button toggles; cbMute() waits for mutex_serial, silences the set
\* or gives it the slider's volume, and records what it sent.  The slider of a
\* muted volume is dead.
PressMute ==
    /\ Free /\ ~drag /\ Act
    /\ control = "volume"
    /\ btnVol' = ~btnVol
    /\ fltk' = [at |-> "mute", want |-> slider]
    /\ last' = None
    /\ UNCHANGED <<control, use_rig_data, radio, level, slider, active, inhibit, drag,
                   server, awake>>

cbMute ==
    LET set == IF btnVol THEN slider ELSE 0
    IN  /\ fltk.at = "mute"
        /\ radio' \in Made(radio, set) /\ level' = set
        /\ active' = btnVol
        /\ fltk' = Idle
        /\ UNCHANGED <<control, use_rig_data, slider, btnVol, inhibit, drag, server,
                       awake, orders, last>>

\* The callbacks read the record when they run; update_volume() also lights the
\* button or darkens it, and makes the slider movable either way.
RunAwake ==
    /\ Free /\ awake # <<>>
    /\ slider' = level
    /\ btnVol' = CASE Head(awake) = "muted" -> FALSE
                   [] Head(awake) = "unmuted" -> TRUE
                   [] OTHER -> btnVol
    /\ active' = (active \/ Head(awake) # "slider")
    /\ awake' = Tail(awake)
    /\ UNCHANGED <<control, use_rig_data, radio, level, inhibit, drag, fltk, server,
                   orders, last>>

-----------------------------------------------------------------------------
(* The server thread, and the set's own knob.                              *)

\* rig.set_volume, rig.set_rfgain, rig.set_micgain and their verifying forms,
\* rig.mod_vol and rig.mod_rfg: the record first, then mutex_serial.
XmlRecord ==
    /\ server.at = "idle" /\ Act
    /\ control \in {"volume", "rfgain", "micgain"}
    /\ \E v \in Asked : level' = v
    /\ \E form \in {"send", "verify"} : server' = [at |-> form, want |-> level']
    /\ last' = None
    /\ UNCHANGED <<control, use_rig_data, radio, panel, fltk, awake>>

XmlModify ==
    /\ server.at = "idle" /\ Act
    /\ control \in {"volume", "rfgain"}
    /\ \E d \in {-1, 1} : level' = Clamped(level + d)
    /\ server' = [at |-> "send", want |-> level']
    /\ last' = None
    /\ UNCHANGED <<control, use_rig_data, radio, panel, fltk, awake>>

\* Mutant of XmlSend: no callback for the slider.
XmlSendNoCallback ==
    /\ server.at # "idle"
    /\ radio' \in Made(radio, level)
    /\ level' = IF server.at = "verify" THEN radio' ELSE level
    /\ server' = Idle
    /\ UNCHANGED <<control, use_rig_data, panel, fltk, awake, orders, last>>

\* What is sent is the record.  The verifying form records what the set says.
XmlSend ==
    /\ server.at # "idle"
    /\ radio' \in Made(radio, level)
    /\ level' = IF server.at = "verify" THEN radio' ELSE level
    /\ server' = Idle
    /\ Queue("slider")
    /\ UNCHANGED <<control, use_rig_data, panel, fltk, orders, last>>

\* rig.set_power records what was asked for, rig.set_verify_power what the set
\* says, rig.mod_pwr (to which both come with a level in range) what it made of
\* the record: all under mutex_serial.  power_limit is the panel's alone.
XmlPower ==
    /\ server.at = "idle" /\ Act
    /\ control = "power"
    /\ \E v \in Asked :
          /\ radio' \in Made(radio, v)
          /\ level' \in {v, radio'}
          /\ last' = IF Free /\ v \in Level THEN v ELSE None
    /\ Queue("slider")
    /\ UNCHANGED <<control, use_rig_data, panel, fltk, server>>

Knob ==
    /\ Act
    /\ \E v \in Level : radio' = v
    /\ last' = None
    /\ UNCHANGED <<control, use_rig_data, level, panel, fltk, server, awake>>

-----------------------------------------------------------------------------

Next ==
    \/ Skip \/ read_volume \/ read_rfgain \/ read_mic_gain \/ read_power_control
    \/ Drag \/ Release \/ FltkSend \/ PressMute \/ cbMute \/ RunAwake
    \/ XmlRecord \/ XmlModify \/ XmlSend \/ XmlPower \/ Knob

Spec == Init /\ [][Next]_vars

\* Each thread goes on, and an operator who drags lets go.
FairSpec ==
    /\ Spec
    /\ WF_vars(Poll)
    /\ WF_vars(RunAwake) /\ WF_vars(FltkSend \/ cbMute) /\ WF_vars(Release)
    /\ WF_vars(XmlSend)

-----------------------------------------------------------------------------
(* What must hold.                                                         *)

\* When operator, clients and knob leave the control alone, slider, record and
\* set come to agree, whatever orders crossed; a muted set is left silent.
Agree ==
    \/ slider = level /\ level = radio
    \/ control = "volume" /\ ~btnVol /\ radio <= 1
LevelConverges == <>[]Agree

\* Nobody is about to send, and what there is to agree on is agreed; a muted set
\* also has no callback waiting that would light the button.
Settled ==
    /\ fltk.at = "idle" /\ server.at = "idle" /\ ~drag
    /\ \/ slider = level /\ level = radio
       \/ /\ control = "volume" /\ ~btnVol /\ radio <= 1
          /\ \A n \in 1..Len(awake) : awake[n] # "unmuted"

\* Once settled the three stay so until operator, client or knob acts: no
\* reading, no skipped reading and no redraw, in whatever order they were
\* queued, parts them again.
SettledStays == [][Settled => Settled' \/ Act]_vars

\* An order within the set's range that the operator gives by letting go of a
\* slider, or a client for the power, is what the set is left with when no other
\* order crosses it: once it is sent, no reading of the old level, no redraw
\* queued before it and no earlier order undoes it.  The operator's power only
\* with use_rig_data: without it the handler itself sends the record after it.
OrderStands == last # None /\ Free => radio = last

\* initial_setup.txt:284, "a transmit power out limit may be set": the panel's
\* orders keep to it.  Without use_rig_data the power recorded before it was
\* limited follows the limited one.
LimitHolds ==
    [][control = "power" /\ fltk.at = "send" /\ fltk.want \in Level /\ fltk' = Idle
        => radio' <= power_limit]_vars

\* What the slider was released at is what its handler leaves the set with.
\* Without use_rig_data the power is not even then when it is under the limit: a
\* reading may come between the record and the handler's mutex_serial.
PanelOrderSent ==
    [][fltk.at = "send" /\ fltk.want \in Level /\ fltk' = Idle => radio' = fltk.want]_vars

\* xmlrpc.txt: "rig.set_rfgain n:i set rf gain control".
ClientOrderSent ==
    [][server.at # "idle" /\ server.want \in Level /\ server' = Idle
        => radio' = server.want]_vars
=============================================================================
