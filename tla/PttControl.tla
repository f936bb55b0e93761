----------------------------- MODULE PttControl -----------------------------
(***************************************************************************)
(* Push to talk: the global PTT, the PTT button and the transmitter, and   *)
(* the threads that change them under mutex_serial (doPTT, the XML-RPC     *)
(* methods, the poll) or without it (the callbacks queued by Fl::awake, the *)
(* poll thread's choice between its receive and transmit polls).           *)
(*                                                                         *)
(* PTT goes by CAT.  The driver is one of those that remember what they    *)
(* last sent or were told (IC-7300, FT-991), not the FT-817 family, which  *)
(* the poll leaves alone; poll_ptt is on, its default.  VFO A is in use.   *)
(***************************************************************************)
EXTENDS Naturals, Sequences

CONSTANTS
    Settings,   \* the preferences to check, a set of records
    Arrivals,   \* whether commands and replies arrive: {TRUE} or BOOLEAN
    MaxAwake    \* bound: room in the ring of Fl::awake callbacks

Setting == [serial_catptt : {"BOTH", "SET", "GET"},
            disable_CW_ptt : BOOLEAN,
            split : BOOLEAN,        \* and the driver's can_split() is FALSE
            local : BOOLEAN]        \* the PTT button and the keyers are used

ASSUME PttAssumption ==
    /\ Settings \subseteq Setting
    /\ Arrivals \in {{TRUE}, BOOLEAN}
    /\ MaxAwake \in Nat

VARIABLES
    progStatus, \* the preferences, which no step changes
    PTT,        \* the flag
    btnPTT,     \* the button
    tx,         \* the set transmits
    ptt_,       \* what the driver believes of that
    mode,       \* the set's mode
    vfoA,       \* mode of flrig's record of VFO A, "zero" for an empty record
    opMODE,     \* the mode shown on the panel
    holder,     \* who is inside a PTT call, with mutex_serial
    click,      \* doPTT() calls of the FLTK thread waiting for the mutex
    loop,       \* where the poll thread is
    isRX,       \* the poll thread's local of that name
    awake       \* callbacks queued by Fl::awake

set == <<tx, mode>>
vars == <<progStatus, PTT, btnPTT, set, ptt_, vfoA, opMODE, holder, click, loop, isRX,
          awake>>

Mode == {"USB", "CW"}

\* update_UI_PTT shows the flag as it then is, set_ptt what it was given.
Callback == [f : {"update_UI_PTT", "set_ptt"}, d : BOOLEAN]
Update == [f |-> "update_UI_PTT", d |-> FALSE]
SetPtt(on) == [f |-> "set_ptt", d |-> on]

Init ==
    /\ progStatus \in Settings
    /\ PTT = FALSE /\ btnPTT = FALSE /\ ptt_ = FALSE
    /\ tx \in BOOLEAN
    /\ mode \in Mode
    /\ vfoA = mode /\ opMODE = mode
    /\ holder = "nobody"
    /\ click = <<>>
    /\ loop = "check"
    /\ isRX = FALSE
    /\ awake = <<>>

Free == holder = "nobody"

\* Fl::awake() does not wait; Room, the bound, is only asked of steps that can.
Room == Len(awake) < MaxAwake
Queue(f) == awake' = Append(awake, f)

-----------------------------------------------------------------------------
(* Setting and reading the transmitter.                                    *)

\* Mutant of Released: fake_vfo on the stack, never initialized.
ReleasedUninitialized(on) == IF ~on /\ progStatus.split THEN "junk" ELSE vfoA

\* fake_split(false), run for every set whose driver has no can_split(),
\* restores a record nothing ever saved; its mode is no CW mode.
Released(on) == IF ~on /\ progStatus.split THEN "zero" ELSE vfoA

Sends(on) ==
    /\ progStatus.serial_catptt # "GET"
    /\ ~(Released(on) = "CW" /\ progStatus.disable_CW_ptt)

rigPTT(on) == \E arrives \in Arrivals :
    /\ vfoA' = Released(on)
    /\ tx' = IF Sends(on) /\ arrives THEN on ELSE tx
    /\ ptt_' = IF Sends(on) THEN on ELSE ptt_
    /\ UNCHANGED <<mode, opMODE>>

\* get_PTT() with the reply missing answers from memory.
get_PTT(arrives) == IF arrives THEN tx ELSE ptt_

Readable == progStatus.serial_catptt # "SET"
ptt_state(arrives) == Readable /\ get_PTT(arrives)
Remember(arrives) == ptt_' = IF Readable THEN get_PTT(arrives) ELSE ptt_

-----------------------------------------------------------------------------
(* doPTT(), called by the button and by the CW and FSK keyers.             *)

\* The button has changed when its callback runs; the callback may have to wait.
Click ==
    /\ progStatus.local
    /\ holder # "FLTK" /\ click = <<>>
    /\ btnPTT' = ~btnPTT
    /\ click' = <<btnPTT'>>
    /\ UNCHANGED <<progStatus, PTT, set, ptt_, vfoA, opMODE, holder, loop,
                   isRX, awake>>

doPTT(caller, on) ==
    /\ Free
    /\ holder' = caller
    /\ PTT' = on
    /\ rigPTT(on)
    /\ btnPTT' = on
    /\ UNCHANGED <<progStatus, loop, isRX, awake>>

ClickPTT == click # <<>> /\ doPTT("FLTK", click[1]) /\ click' = <<>>
KeyerPTT(on) == progStatus.local /\ doPTT("keyer", on) /\ UNCHANGED click

\* doPTT() reads until the set agrees, or 100 times, and lets go.  It asks
\* whenever there is a CAT setting, be it SET.
doPTTDone(arrives) ==
    /\ holder \in {"FLTK", "keyer"}
    /\ ptt_' = get_PTT(arrives)
    /\ holder' = "nobody"
    /\ UNCHANGED <<progStatus, PTT, btnPTT, set, vfoA, opMODE, click, loop,
                   isRX, awake>>

-----------------------------------------------------------------------------
(* The XML-RPC methods.                                                    *)

\* rig.set_ptt and rig.set_verify_ptt, up to the first reading.
XmlSetPTT(on) ==
    /\ Free /\ Room
    /\ holder' = "server"
    /\ PTT' = on
    /\ rigPTT(on)
    /\ UNCHANGED <<progStatus, btnPTT, click, loop, isRX, awake>>

\* Mutant of XmlVerify: the flag corrected after update_UI_PTT was queued and run.
XmlVerifySilent(arrives) ==
    /\ holder = "server"
    /\ PTT' = ptt_state(arrives)
    /\ Remember(arrives)
    /\ holder' = "nobody"
    /\ UNCHANGED <<progStatus, btnPTT, set, vfoA, opMODE, click, loop, isRX, awake>>

\* The last reading: the set agrees, or it was asked 100 times in vain.
XmlVerify(arrives) ==
    /\ holder = "server"
    /\ PTT' = ptt_state(arrives)
    /\ Remember(arrives)
    /\ Queue(Update)
    /\ holder' = "nobody"
    /\ UNCHANGED <<progStatus, btnPTT, set, vfoA, opMODE, click, loop, isRX>>

\* A reading before the last, by rig.set_ptt or doPTT().
ReadAgain(arrives) ==
    /\ ~Free
    /\ get_PTT(arrives) # PTT
    /\ IF holder = "server" THEN Remember(arrives) ELSE ptt_' = get_PTT(arrives)
    /\ UNCHANGED <<progStatus, PTT, btnPTT, set, vfoA, opMODE, holder, click,
                   loop, isRX, awake>>

XmlSetPTTFast(on) ==
    /\ Free /\ Room
    /\ PTT' = on
    /\ rigPTT(on)
    /\ Queue(Update)
    /\ UNCHANGED <<progStatus, btnPTT, holder, click, loop, isRX>>

-----------------------------------------------------------------------------
(* The poll thread, and the callbacks in the FLTK thread.                  *)

\* Mutant of check_ptt: compared with what the driver last believed.
check_pttOwnChange(arrives) ==
    /\ loop = "check"
    /\ Free /\ Room
    /\ Remember(arrives)
    /\ PTT' = IF ptt_state(arrives) # ptt_ THEN ptt_state(arrives) ELSE PTT
    /\ IF PTT' # PTT THEN Queue(SetPtt(PTT')) ELSE UNCHANGED awake
    /\ loop' = "branch"
    /\ UNCHANGED <<progStatus, btnPTT, set, vfoA, opMODE, holder, click, isRX>>

check_ptt(arrives) ==
    /\ loop = "check"
    /\ Free /\ Room
    /\ Remember(arrives)
    /\ PTT' = ptt_state(arrives)
    /\ IF PTT' # PTT THEN Queue(SetPtt(PTT')) ELSE UNCHANGED awake
    /\ loop' = "branch"
    /\ UNCHANGED <<progStatus, btnPTT, set, vfoA, opMODE, holder, click, isRX>>

\* The flag is read without the mutex.
Branch ==
    /\ loop = "branch"
    /\ Room
    /\ isRX' = ~PTT
    /\ IF isRX' # isRX THEN Queue(Update) ELSE UNCHANGED awake
    /\ loop' = "poll"
    /\ UNCHANGED <<progStatus, PTT, btnPTT, set, ptt_, vfoA, opMODE, holder, click>>

\* Of the polls only read_mode() matters here, a receive poll.  It leaves the
\* record alone when the panel shows the mode already.  (The callback that
\* changes the panel is taken with it; VfoCache has it apart.)
PollMode ==
    /\ loop = "poll"
    /\ Free
    /\ vfoA' = IF isRX /\ mode # opMODE THEN mode ELSE vfoA
    /\ opMODE' = IF isRX THEN mode ELSE opMODE
    /\ loop' = "check"
    /\ UNCHANGED <<progStatus, PTT, btnPTT, set, ptt_, holder, click, isRX, awake>>

\* Callbacks run while the FLTK thread is neither in doPTT() nor waiting to be.
RunCallback ==
    /\ awake # <<>>
    /\ holder # "FLTK" /\ click = <<>>
    /\ btnPTT' = IF Head(awake) = Update THEN PTT ELSE Head(awake).d
    /\ awake' = Tail(awake)
    /\ UNCHANGED <<progStatus, PTT, set, ptt_, vfoA, opMODE, holder, click,
                   loop, isRX>>

\* At the set: microphone button or foot switch, and the mode knob.
FrontPanel ==
    /\ \/ tx' = ~tx /\ UNCHANGED mode
       \/ mode' \in Mode \ {mode} /\ UNCHANGED tx
    /\ UNCHANGED <<progStatus, PTT, btnPTT, ptt_, vfoA, opMODE, holder, click,
                   loop, isRX, awake>>

-----------------------------------------------------------------------------

Serial == (\E arrives \in Arrivals : check_ptt(arrives)) \/ Branch \/ PollMode
Finish == \E arrives \in Arrivals : XmlVerify(arrives) \/ doPTTDone(arrives)

Order ==
    Click \/ \E on \in BOOLEAN : KeyerPTT(on) \/ XmlSetPTT(on) \/ XmlSetPTTFast(on)

Next ==
    \/ Serial \/ Finish \/ RunCallback \/ FrontPanel \/ ClickPTT \/ Order
    \/ \E arrives \in Arrivals : ReadAgain(arrives)

\* The threads run, and a reply that is asked for over and over arrives.
Fairness ==
    /\ SF_vars(check_ptt(TRUE))
    /\ WF_vars(Branch) /\ SF_vars(PollMode)
    /\ WF_vars(Finish)
    /\ WF_vars(RunCallback) /\ SF_vars(ClickPTT)

Spec == Init /\ [][Next]_vars
FairSpec == Spec /\ Fairness

-----------------------------------------------------------------------------
(* Properties.                                                             *)

TypeOK ==
    /\ progStatus \in Settings
    /\ PTT \in BOOLEAN /\ btnPTT \in BOOLEAN /\ tx \in BOOLEAN /\ ptt_ \in BOOLEAN
    /\ mode \in Mode
    /\ vfoA \in Mode \cup {"zero"} /\ opMODE \in Mode
    /\ holder \in {"nobody", "FLTK", "keyer", "server"}
    /\ click \in {<<>>, <<TRUE>>, <<FALSE>>}
    /\ loop \in {"check", "branch", "poll"}
    /\ isRX \in BOOLEAN
    /\ awake \in Seq(Callback)

\* When clients alone key the set, the button shows the flag as soon as no call
\* is under way and no callback is queued: of the updates queued by the
\* methods, the poll and the change of polls, the last is the one that counts.
ButtonSettles ==
    ~progStatus.local /\ Free /\ awake = <<>> => btnPTT = PTT

\* Once nobody orders anything and the set stays as it is, however it was keyed
\* and whatever was lost, the flag agrees with it for good, and the thread polls
\* for the right state.
FlagConverges == \A on \in BOOLEAN :
    <>[][~Order]_vars /\ <>[](Readable /\ tx = on) => <>[](PTT = on /\ isRX = ~on)

\* Flag, driver and set agree, and nobody has asked for anything else.
Agreed == Readable /\ click = <<>> /\ PTT = tx /\ ptt_ = tx

\* Once they agree they go on agreeing until somebody keys or unkeys, here or at
\* the set: no poll, no verification and no callback takes the flag away, and
\* no reply that is lost.
FlagStays == [][Agreed => Agreed' \/ Order \/ tx' # tx]_vars

\* "sets & verifies PTT on (1) or off (0)": the flag that rig.set_verify_ptt
\* leaves is the state of the set, in the settings that let flrig read it.
VerifyHolds ==
    [][holder = "server" /\ Free' /\ Readable => PTT' = tx]_vars

=============================================================================
