------------------------------- MODULE FskKeyer -------------------------------
(***************************************************************************)
(* The FSK keyer: a thread that takes text, turns it into Baudot code and  *)
(* keys it on a modem control line, bit by bit, while the FLTK thread      *)
(* (buttons, Alt keys, callbacks queued by Fl::awake) and the XML-RPC      *)
(* server thread go on.                                                    *)
(*                                                                         *)
(* A Baudot code means one character in letters shift and another in       *)
(* figures shift; LTRS and FIGS change the shift of whoever listens.  So   *)
(* the model has a listener: rx is the shift of a receiver tuned to the    *)
(* set, not known until it has heard LTRS or FIGS since the set began to   *)
(* transmit.  With usos it is one that unshifts on space.                  *)
(*                                                                         *)
(* str_buff is read and shortened by the thread without fskio_text_mutex,  *)
(* and FSK_send_text tests and sets FSK_process without any lock.  A step  *)
(* is what a thread does between two accesses to what others change.       *)
(***************************************************************************)
EXTENDS Integers, Sequences

CONSTANTS
    Char,               \* the characters of a text, "[" and "]" among them
    Code,               \* Baudot codes, LTRS and FIGS excepted
    blank,              \* the code of a space, in either shift
    letters, figures,   \* what a code means in each shift
    Messages,           \* what macro keys and clients add
    MaxText,            \* bound: longest text waiting
    MaxAwake,           \* bound: callbacks waiting for the FLTK thread
    fsk_idles,          \* progStatus.fsk_idles
    usos                \* the receiver unshifts on space

Shift == {"letters", "figures"}
ShiftCode == {"LTRS", "FIGS"}

ASSUME FskAssumption ==
    /\ {"[", "]", " ", "NUL"} \subseteq Char
    /\ letters \in [Code -> Char] /\ figures \in [Code -> Char]
    /\ blank \in Code /\ letters[blank] = " " /\ figures[blank] = " "
    /\ \E i \in Code : letters[i] = "NUL"
    /\ Code \cap ShiftCode = {}
    /\ Messages \subseteq Seq(Char)
    /\ MaxText \in Nat /\ MaxAwake \in Nat
    /\ fsk_idles \in Nat
    /\ usos \in BOOLEAN

VARIABLES
    FSK_new_text,   \* added, not yet taken by the thread
    str_buff,       \* what the thread has still to send
    idles,          \* LTRS still to send before the text
    shift_state,    \* the shift the thread believes listeners are in
    pc,             \* where the thread is
    chr,            \* the character the thread is sending
    chr_out,        \* its code
    FSK_process,    \* sending wanted, for FSK_send_text
    PTT,            \* the set transmits
    SEND,           \* the Xmt/Rcv button
    awake,          \* button callbacks queued by Fl::awake
    fltk,           \* where the FLTK thread is
    rx,             \* the receiver's shift
    onAir,          \* PTT was on since the code being keyed began
    starter         \* what switched PTT on last: a "[" or the button

text == <<FSK_new_text, str_buff>>
baudot == <<idles, shift_state, chr, chr_out>>
air == <<PTT, rx, onAir, starter>>
vars == <<text, baudot, pc, FSK_process, SEND, awake, fltk, air>>

NoCode == Char \ ({letters[i] : i \in Code} \cup {figures[i] : i \in Code})

TypeOK ==
    /\ FSK_new_text \in Seq(Char) /\ str_buff \in Seq(Char)
    /\ idles \in 0..fsk_idles
    /\ shift_state \in Shift
    /\ pc \in {"take", "test", "sendOn", "pttOn", "sendOff", "pttOff", "pick",
               "encode", "idle", "shift", "erase", "char"}
    /\ chr \in Char /\ chr_out \in Code
    /\ FSK_process \in BOOLEAN /\ PTT \in BOOLEAN /\ SEND \in BOOLEAN
    /\ awake \in Seq({"SEND_ON", "SEND_OFF"})
    /\ fltk \in {"idle", "clearing", "sendOn", "pttOn", "sendOff", "pttOff"}
    /\ rx \in Shift \cup {"unknown"}
    /\ onAir \in BOOLEAN
    /\ starter \in {"bracket", "button"}

Init ==
    /\ FSK_new_text = <<>> /\ str_buff = <<>>
    /\ idles = fsk_idles /\ shift_state = "figures"
    /\ pc = "take" /\ chr = "NUL" /\ chr_out = blank
    /\ FSK_process = FALSE /\ PTT = FALSE /\ SEND = FALSE
    /\ awake = <<>> /\ fltk = "idle"
    /\ rx = "unknown" /\ onAir = FALSE /\ starter = "button"

-----------------------------------------------------------------------------
(* The code.                                                               *)

\* Mutant of baudot_shift: a space needs no shift.
BlankInAnyShift(c) ==
    IF c # " " /\ \E i \in Code : letters[i] = c THEN "letters"
    ELSE IF c # " " /\ \E i \in Code : figures[i] = c THEN "figures"
    ELSE shift_state

\* baudot_enc(): the shift and the code of a character.  A space belongs to
\* letters; what has no code becomes a space in whatever shift there is.
baudot_shift(c) ==
    IF c = " " \/ \E i \in Code : letters[i] = c THEN "letters"
    ELSE IF \E i \in Code : figures[i] = c THEN "figures"
    ELSE shift_state

baudot_code(c) ==
    IF c = " " THEN blank
    ELSE IF \E i \in Code : letters[i] = c THEN CHOOSE i \in Code : letters[i] = c
    ELSE IF \E i \in Code : figures[i] = c THEN CHOOSE i \in Code : figures[i] = c
    ELSE blank

\* What a listener in shift s prints when it hears a code.
Printed(s, code) == IF s = "letters" THEN letters[code] ELSE figures[code]

\* What it should print: a character without a code is a space.
Meant(c) == IF c \in NoCode THEN " " ELSE c

Unwanted == {"[", "]"}

Erased(s) == IF s = <<>> THEN s ELSE Tail(s)
First(s) == IF s = <<>> THEN "NUL" ELSE Head(s)

-----------------------------------------------------------------------------
(* PTT.                                                                    *)

\* doPTT(): when the set begins or stops to transmit, a listener loses step.
doPTT(on, who) ==
    /\ PTT' = on
    /\ rx' = IF on = PTT THEN rx ELSE "unknown"
    /\ onAir' = (onAir /\ on = PTT)
    /\ starter' = IF on /\ ~PTT THEN who ELSE starter

\* Mutant of PassedOn: doPTT is called before FSK_process is stored.
PassedOnFormer(state) == {~state}

\* doPTT(FSK_process) in FSK_send_text, after FSK_process = state: what it
\* passes is the value just stored or one another thread has stored since.
PassedOn(state) == {state, FSK_process}

-----------------------------------------------------------------------------
(* The FSK thread.                                                         *)

\* sending(), first half: what was added is taken, under fskio_text_mutex.
TakeText ==
    /\ pc = "take"
    /\ str_buff' = str_buff \o FSK_new_text
    /\ FSK_new_text' = <<>>
    /\ pc' = "test"
    /\ UNCHANGED <<baudot, FSK_process, SEND, awake, fltk, air>>

\* sending(), second half: "[" is erased and starts, "]" throws the rest of
\* the text away and stops.
OpeningBracket ==
    /\ pc = "test" /\ First(str_buff) = "["
    /\ Len(awake) < MaxAwake
    /\ str_buff' = Erased(str_buff)
    /\ awake' = Append(awake, "SEND_ON")
    /\ pc' = "sendOn"
    /\ UNCHANGED <<FSK_new_text, baudot, FSK_process, SEND, fltk, air>>

ClosingBracket ==
    /\ pc = "test" /\ First(str_buff) = "]"
    /\ Len(awake) < MaxAwake
    /\ str_buff' = <<>>
    /\ awake' = Append(awake, "SEND_OFF")
    /\ pc' = "sendOff"
    /\ UNCHANGED <<FSK_new_text, baudot, FSK_process, SEND, fltk, air>>

\* Otherwise the button decides; when it is off the thread sleeps.
AskButton ==
    /\ pc = "test" /\ First(str_buff) \notin Unwanted
    /\ pc' = IF SEND THEN "pick" ELSE "take"
    /\ UNCHANGED <<text, baudot, FSK_process, SEND, awake, fltk, air>>

\* FSK_send_text(true) and (false), then idles = fsk_idles after "[".
FskSendOn ==
    /\ pc = "sendOn"
    /\ FSK_process' = TRUE
    /\ pc' = IF FSK_process THEN "pick" ELSE "pttOn"
    /\ idles' = IF FSK_process THEN fsk_idles ELSE idles
    /\ UNCHANGED <<text, shift_state, chr, chr_out, SEND, awake, fltk, air>>

\* Mutant of FskPttOn: "[" does not ask for idles.
FskPttOnNoIdles ==
    /\ pc = "pttOn"
    /\ \E on \in PassedOn(TRUE) : doPTT(on, "bracket")
    /\ pc' = "pick"
    /\ UNCHANGED <<text, baudot, FSK_process, SEND, awake, fltk>>

FskPttOn ==
    /\ pc = "pttOn"
    /\ \E on \in PassedOn(TRUE) : doPTT(on, "bracket")
    /\ pc' = "pick"
    /\ idles' = fsk_idles
    /\ UNCHANGED <<text, shift_state, chr, chr_out, FSK_process, SEND, awake, fltk>>


FskSendOff ==
    /\ pc = "sendOff"
    /\ FSK_process' = FALSE
    /\ pc' = IF FSK_process THEN "pttOff" ELSE "take"
    /\ UNCHANGED <<text, baudot, SEND, awake, fltk, air>>

FskPttOff ==
    /\ pc = "pttOff"
    /\ \E on \in PassedOn(FALSE) : doPTT(on, "button")
    /\ pc' = "take"
    /\ UNCHANGED <<text, baudot, FSK_process, SEND, awake, fltk>>

\* Mutant of PickIdle: send_baudot(LTRS) does not note the shift.
PickIdleForgetsShift ==
    /\ pc = "pick" /\ (str_buff = <<>> \/ idles > 0)
    /\ idles' = IF idles > 0 THEN idles - 1 ELSE idles
    /\ onAir' = PTT
    /\ pc' = "idle"
    /\ UNCHANGED <<text, shift_state, chr, chr_out, FSK_process, SEND, awake, fltk,
                   PTT, rx, starter>>

\* Mutant of PickIdle: the idles are counted past zero.
PickIdlePastZero ==
    /\ pc = "pick" /\ (str_buff = <<>> \/ idles > 0)
    /\ shift_state' = "letters"
    /\ idles' = idles - 1
    /\ onAir' = PTT
    /\ pc' = "idle"
    /\ UNCHANGED <<text, chr, chr_out, FSK_process, SEND, awake, fltk, PTT, rx, starter>>

\* callback_method(), sending: an idle LTRS, or the next character.
PickIdle ==
    /\ pc = "pick" /\ (str_buff = <<>> \/ idles > 0)
    /\ shift_state' = "letters"
    /\ idles' = IF idles > 0 THEN idles - 1 ELSE idles
    /\ onAir' = PTT
    /\ pc' = "idle"
    /\ UNCHANGED <<text, chr, chr_out, FSK_process, SEND, awake, fltk, PTT, rx, starter>>

PickChar ==
    /\ pc = "pick" /\ str_buff # <<>> /\ idles = 0
    /\ pc' = "encode"
    /\ UNCHANGED <<text, baudot, FSK_process, SEND, awake, fltk, air>>

\* The first character is looked up; a shift goes first when it needs one.
Encode ==
    LET c == First(str_buff)
    IN  /\ pc = "encode"
        /\ chr' = c /\ chr_out' = baudot_code(c)
        /\ shift_state' = baudot_shift(c)
        /\ IF baudot_shift(c) # shift_state
           THEN pc' = "shift" /\ onAir' = PTT
           ELSE pc' = "erase" /\ UNCHANGED onAir
        /\ UNCHANGED <<text, idles, FSK_process, SEND, awake, fltk, PTT, rx, starter>>

\* An idle LTRS has been keyed, or the shift before a character.
IdleKeyed ==
    /\ pc = "idle"
    /\ rx' = IF onAir THEN "letters" ELSE rx
    /\ pc' = "take"
    /\ UNCHANGED <<text, baudot, FSK_process, SEND, awake, fltk, PTT, onAir, starter>>

ShiftKeyed ==
    /\ pc = "shift"
    /\ rx' = IF onAir THEN shift_state ELSE rx
    /\ pc' = "erase"
    /\ UNCHANGED <<text, baudot, FSK_process, SEND, awake, fltk, PTT, onAir, starter>>

\* The character leaves the buffer and its bits are keyed.
EraseChar ==
    /\ pc = "erase"
    /\ str_buff' = Erased(str_buff)
    /\ onAir' = PTT
    /\ pc' = "char"
    /\ UNCHANGED <<FSK_new_text, baudot, FSK_process, SEND, awake, fltk, PTT, rx, starter>>

CharKeyed ==
    /\ pc = "char"
    /\ rx' = IF onAir /\ usos /\ chr_out = blank /\ rx # "unknown" THEN "letters" ELSE rx
    /\ pc' = "take"
    /\ UNCHANGED <<text, baudot, FSK_process, SEND, awake, fltk, PTT, onAir, starter>>

Thread ==
    \/ TakeText \/ OpeningBracket \/ ClosingBracket \/ AskButton
    \/ FskSendOn \/ FskPttOn \/ FskSendOff \/ FskPttOff
    \/ PickIdle \/ PickChar \/ Encode
    \/ IdleKeyed \/ ShiftKeyed \/ EraseChar \/ CharKeyed

-----------------------------------------------------------------------------
(* The FLTK thread and the clients.                                        *)

\* FSK_add(): a macro key or rig.fskio_text.
FSK_add ==
    /\ \E m \in Messages :
        /\ Len(FSK_new_text) + Len(str_buff) + Len(m) <= MaxText
        /\ FSK_new_text' = FSK_new_text \o m
    /\ UNCHANGED <<str_buff, baudot, pc, FSK_process, SEND, awake, fltk, air>>

\* A callback queued by the thread sets the button, and no more.
RunAwake ==
    /\ fltk = "idle" /\ awake # <<>>
    /\ SEND' = (Head(awake) = "SEND_ON")
    /\ awake' = Tail(awake)
    /\ UNCHANGED <<text, baudot, pc, FSK_process, fltk, air>>

\* The button or Alt-S, the button or Alt-P.
SendKey ==
    /\ fltk = "idle"
    /\ SEND' = TRUE
    /\ fltk' = "sendOn"
    /\ UNCHANGED <<text, baudot, pc, FSK_process, awake, air>>

PauseKey ==
    /\ fltk = "idle"
    /\ SEND' = FALSE
    /\ fltk' = "sendOff"
    /\ UNCHANGED <<text, baudot, pc, FSK_process, awake, air>>

\* Their FSK_send_text.
FltkSend ==
    LET state == fltk = "sendOn"
    IN  /\ fltk \in {"sendOn", "sendOff"}
        /\ FSK_process' = state
        /\ fltk' = IF FSK_process = state THEN "idle" ELSE IF state THEN "pttOn" ELSE "pttOff"
        /\ UNCHANGED <<text, baudot, pc, SEND, awake, air>>

FltkPtt ==
    /\ fltk \in {"pttOn", "pttOff"}
    /\ \E on \in PassedOn(fltk = "pttOn") : doPTT(on, "button")
    /\ fltk' = "idle"
    /\ UNCHANGED <<text, baudot, pc, FSK_process, SEND, awake>>

\* FSK_clear_text(): the buffer, then the widget that shows it; what has been
\* added and not yet taken stays.
Clear ==
    /\ fltk = "idle"
    /\ str_buff' = <<>>
    /\ fltk' = "clearing"
    /\ UNCHANGED <<FSK_new_text, baudot, pc, FSK_process, SEND, awake, air>>

Cleared ==
    /\ fltk = "clearing"
    /\ fltk' = "idle"
    /\ UNCHANGED <<text, baudot, pc, FSK_process, SEND, awake, air>>

Fltk == FltkSend \/ FltkPtt \/ RunAwake \/ Cleared

Next ==
    \/ TakeText \/ OpeningBracket \/ ClosingBracket \/ AskButton
    \/ FskSendOn \/ FskPttOn \/ FskSendOff \/ FskPttOff
    \/ PickIdle \/ PickChar \/ Encode
    \/ IdleKeyed \/ ShiftKeyed \/ EraseChar \/ CharKeyed
    \/ FSK_add
    \/ RunAwake \/ SendKey \/ PauseKey \/ FltkSend \/ FltkPtt \/ Clear \/ Cleared

Spec == Init /\ [][Next]_vars

\* The thread never waits but for bits to pass and for doPTT; the FLTK thread
\* runs what is queued and finishes what the operator began, even while the
\* operator goes on pressing keys.
FairSpec ==
    /\ Spec
    /\ WF_vars(Thread)
    /\ WF_vars(FltkSend \/ FltkPtt \/ Cleared) /\ SF_vars(RunAwake)

-----------------------------------------------------------------------------
(* What must hold.                                                         *)

\* A character reaches a listener: it is keyed to its end with PTT on.
Heard == pc = "char" /\ pc' = "take" /\ onAir

\* A listener that has heard a shift since the set began to transmit prints
\* every character as it stands in the text, across idles, pauses, shifts
\* keyed with PTT off, texts cleared half way and transmissions that end and
\* begin while the thread keeps its shift_state.
Copy == [][Heard /\ rx # "unknown" => Printed(rx, chr_out) = Meant(chr)]_vars

\* When the thread itself switched PTT on, for a "[", the listener hears LTRS
\* before any character, whatever shift the last transmission ended in.
OpensInStep == [][Heard /\ starter = "bracket" => rx # "unknown"]_vars

\* The set does not stay keyed: while it transmits, a text in the buffer that
\* ends in "]" ends with PTT off, whether its "[" has just begun the transmission,
\* an earlier one or the button did, and whatever is added behind it meanwhile,
\* unless the operator clears it; provided the two threads never are in
\* FSK_send_text at the same time.
Sending == {"sendOn", "pttOn", "sendOff", "pttOff"}
Overlap == pc \in Sending /\ fltk \in Sending
Closing == str_buff # <<>> /\ str_buff[Len(str_buff)] = "]"

\* Nobody is between storing FSK_process and passing it on, and PTT is what was
\* stored; or somebody is, and what he stored is still there.
PttFollows ==
    /\ pc = "pttOn" \/ fltk = "pttOn" => FSK_process
    /\ pc = "pttOff" \/ fltk = "pttOff" => ~FSK_process
    /\ {pc, fltk} \cap {"pttOn", "pttOff"} = {} => PTT = FSK_process

\* PTT and FSK_process, by which keys and brackets decide whether there is
\* anything to switch, part in one way only: with two threads in FSK_send_text,
\* which takes no lock.
PttPartsInOverlap == [][PttFollows /\ ~Overlap => PttFollows']_vars

\* fskioUI.cxx:893, the tooltip of fsk_idles: "Transmit # <LTRS> after PTT on".
LtrsAfterPttOn == [][Heard => rx # "unknown"]_vars
=============================================================================
