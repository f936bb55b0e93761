------------------------------- MODULE CwKeyer -------------------------------
(***************************************************************************)
(* The CW keyer: a thread that waits on a condition variable for the global *)
(* cwio_process to become SEND or CALIBRATE and then closes and opens the   *)
(* key line (DTR or RTS), driven by the FLTK thread, which owns the keyer   *)
(* dialog, and by the XML-RPC server thread.                               *)
(*                                                                         *)
(* None of the three locks the variables they share: cwio_process is a     *)
(* plain int, and txt_to_send, a widget, is read and written by all of     *)
(* them.  A step of a thread here is what it does between two accesses to  *)
(* shared state that another thread can notice.                            *)
(*                                                                         *)
(* A character is one of three kinds: "E" has a Morse code, "]" ends the    *)
(* sending, "[" stands for itself, the blank and all others without code.   *)
(* The port is open and keyed by DTR or RTS; cwio_text, which nothing       *)
(* fills, is left out.  send_cwkey() reads cwioINVERTED for the argument of *)
(* cwio_key(), which reads it again after doPTT(): two steps, the second    *)
(* with the setting of the line it is the argument of.                     *)
(***************************************************************************)
EXTENDS Integers, Sequences

CONSTANTS
    Messages,       \* what macro keys and clients add to the text
    MaxText,        \* bound: longest text in the dialog
    MaxAwake,       \* room in the ring of Fl::awake callbacks
    MaxCode,        \* bound: elements of a character
    CalChars,       \* bound: characters of a calibration
    cwioPTT         \* progStatus.cwioPTT: a PTT delay is set

Char == {"E", "[", "]"}

ASSUME CwAssumption ==
    /\ Messages \subseteq Seq(Char) \ {<<>>}
    /\ MaxText \in Nat
    /\ MaxAwake \in Nat
    /\ MaxCode \in Nat \ {0}
    /\ CalChars \in Nat \ {0}
    /\ cwioPTT \in BOOLEAN

VARIABLES
    cwio_process,   \* what the thread is to do
    txt_to_send,    \* the text in the dialog
    snd,            \* the thread's copy of it
    new_text,       \* add_cwio()'s copy of it, empty when no longer used
    pc,             \* where the keyer thread is
    code,           \* elements left of the character being sent
    left,           \* characters left of the calibration, when calibrating
    job,            \* who called send_cwkey()
    seen,           \* cwioINVERTED as send_cwkey() read it for its last edge
    line,           \* the modem control line that keys the set
    PTT,            \* what doPTT() was last told
    key,            \* the KEY button is down
    fltk,           \* where the FLTK thread is
    server,         \* where the server thread is
    awake,          \* callbacks queued by Fl::awake
    cwioINVERTED    \* progStatus.cwioINVERTED: the line is inverted

text == <<txt_to_send, snd, new_text>>
sending == <<code, left, job, seen>>
keying == <<line, PTT, key>>
vars == <<cwio_process, text, pc, sending, keying, fltk, server, awake, cwioINVERTED>>

Process == {"NONE", "SEND", "END", "TERMINATE", "CALIBRATE", "KEYDOWN"}

TypeOK ==
    /\ cwio_process \in Process
    /\ txt_to_send \in Seq(Char) /\ snd \in Seq(Char) /\ new_text \in Seq(Char)
    /\ pc \in {"wait", "woken", "loop", "erase", "down", "close", "up", "open",
               "calibrate", "checkCal", "dead"}
    /\ code \in 0..MaxCode
    /\ left \in 0..CalChars
    /\ job \in {"text", "calibrate"} /\ seen \in BOOLEAN
    /\ line \in BOOLEAN /\ PTT \in BOOLEAN
    /\ key \in BOOLEAN /\ cwioINVERTED \in BOOLEAN
    /\ fltk \in {"idle", "keyLine", "keyProcess", "calibrate", "terminate",
                 "join", "stopped"}
    /\ server \in {"idle", "adding", "starting"}
    /\ awake \in Seq({"update_txt_to_send", "cwio_clear_text"})

\* The thread has been started and the port opened: reset_cwioport() has put
\* the line at rest.
Init ==
    /\ cwioINVERTED \in BOOLEAN
    /\ cwio_process = "NONE"
    /\ txt_to_send = <<>> /\ snd = <<>> /\ new_text = <<>>
    /\ pc = "wait" /\ code = 0 /\ left = 0 /\ job = "text" /\ seen = FALSE
    /\ line = cwioINVERTED /\ PTT = FALSE /\ key = FALSE
    /\ fltk = "idle" /\ server = "idle" /\ awake = <<>>


\* Fl::awake() drops a callback for which its ring has no room.
Queue(callback) ==
    awake' = IF Len(awake) < MaxAwake THEN Append(awake, callback) ELSE awake

\* pthread_cond_signal(): a signal nobody waits for is lost.
Signal == pc' = IF pc = "wait" THEN "woken" ELSE pc

\* doPTT(), which the keyer calls only when a PTT delay is set.
DoPTT(on) == PTT' = IF cwioPTT THEN on ELSE PTT

-----------------------------------------------------------------------------
(* The keyer thread.                                                       *)

\* pthread_cond_wait() may return without a signal.
SpuriousWakeup ==
    /\ pc = "wait"
    /\ pc' = "woken"
    /\ UNCHANGED <<cwio_process, text, sending, keying, fltk, server, awake, cwioINVERTED>>

\* cwio_loop() after the wait: TERMINATE first, then SEND.
Woken ==
    /\ pc = "woken"
    /\ pc' = CASE cwio_process = "TERMINATE" -> "dead"
               [] cwio_process = "SEND" -> "loop"
               [] OTHER -> "checkCal"
    /\ IF cwio_process = "SEND" THEN DoPTT(TRUE) ELSE UNCHANGED PTT
    /\ UNCHANGED <<cwio_process, text, sending, line, key, fltk, server, awake, cwioINVERTED>>

\* Mutant of TakeText: the text is sent to its end, whatever is wanted.
TakeTextToEnd ==
    /\ pc = "loop"
    /\ snd' = txt_to_send
    /\ pc' = IF txt_to_send = <<>> THEN "loop" ELSE "erase"
    /\ UNCHANGED <<cwio_process, txt_to_send, new_text, sending, keying, fltk,
                   server, awake, cwioINVERTED>>

\* sending_text(): another character is wanted; the text is copied.  Without
\* text the thread sleeps and looks again.
TakeText ==
    /\ pc = "loop"
    /\ cwio_process = "SEND"
    /\ snd' = txt_to_send
    /\ pc' = IF txt_to_send = <<>> THEN "loop" ELSE "erase"
    /\ UNCHANGED <<cwio_process, txt_to_send, new_text, sending, keying, fltk,
                   server, awake, cwioINVERTED>>

\* The first character leaves the copy, which the FLTK thread will show.
EraseFirst ==
    LET c == Head(snd)
    IN  /\ pc = "erase"
        /\ Queue("update_txt_to_send")
        /\ snd' = Tail(snd)
        /\ IF c = "]" THEN cwio_process' = "END" ELSE UNCHANGED cwio_process
        /\ IF c = "E"
           THEN /\ code' \in 1..MaxCode
                /\ job' = "text"
                /\ pc' = "down"
           ELSE /\ pc' = IF c = "]" THEN "checkCal" ELSE "loop"
                /\ UNCHANGED <<code, job>>
        /\ UNCHANGED <<txt_to_send, new_text, left, seen, keying, fltk, server, cwioINVERTED>>

\* Anything but SEND ends the loop.
StopSending ==
    /\ pc = "loop"
    /\ cwio_process # "SEND"
    /\ pc' = "checkCal"
    /\ DoPTT(FALSE)
    /\ UNCHANGED <<cwio_process, text, sending, line, key, fltk, server, awake, cwioINVERTED>>

\* Where send_cwkey() returns to.
Caller == IF job = "text" THEN "loop" ELSE "calibrate"

\* send_cwkey(): the PTT, then the line, for each edge of each element.
\* cwio_key() is told ~seen for a closing and seen for an opening, tells doPTT()
\* the same, and inverts it again when it finds the option set.
KeyDownPTT ==
    /\ pc = "down"
    /\ IF cwio_process = "END"
       THEN pc' = Caller /\ code' = 0 /\ UNCHANGED <<seen, PTT>>
       ELSE /\ pc' = "close"
            /\ seen' = cwioINVERTED
            /\ DoPTT(~seen')
            /\ UNCHANGED code
    /\ UNCHANGED <<cwio_process, text, left, job, line, key, fltk, server, awake, cwioINVERTED>>

KeyDownLine ==
    /\ pc = "close"
    /\ line' = (~seen # cwioINVERTED)
    /\ pc' = "up"
    /\ UNCHANGED <<cwio_process, text, sending, PTT, key, fltk, server, awake, cwioINVERTED>>

\* Mutant of KeyUpPTT: an element of a message that was ended is given up.
KeyUpPTTGivesUp ==
    /\ pc = "up"
    /\ seen' = cwioINVERTED
    /\ DoPTT(seen')
    /\ pc' = IF cwio_process = "END" THEN Caller ELSE "open"
    /\ UNCHANGED <<cwio_process, text, code, left, job, line, key, fltk, server, awake, cwioINVERTED>>

KeyUpPTT ==
    /\ pc = "up"
    /\ seen' = cwioINVERTED
    /\ DoPTT(seen')
    /\ pc' = "open"
    /\ UNCHANGED <<cwio_process, text, code, left, job, line, key, fltk, server, awake, cwioINVERTED>>

KeyUpLine ==
    /\ pc = "open"
    /\ line' = (seen # cwioINVERTED)
    /\ code' = code - 1
    /\ pc' = IF code = 1 THEN Caller ELSE "down"
    /\ UNCHANGED <<cwio_process, text, left, job, seen, PTT, key, fltk, server, awake, cwioINVERTED>>

\* cwio_loop() after sending_text().
CheckCalibrate ==
    /\ pc = "checkCal"
    /\ IF cwio_process = "CALIBRATE"
       THEN pc' = "calibrate" /\ left' = CalChars
       ELSE pc' = "wait" /\ UNCHANGED left
    /\ UNCHANGED <<cwio_process, text, code, job, seen, keying, fltk, server, awake, cwioINVERTED>>

\* Mutant of Calibrate: one character more than the string has.
CalibrateOneMore ==
    /\ pc = "calibrate"
    /\ left' = left - 1
    /\ code' \in 1..MaxCode
    /\ job' = "calibrate"
    /\ pc' = "down"
    /\ UNCHANGED <<cwio_process, text, seen, keying, fltk, server, awake, cwioINVERTED>>

\* do_calibration(): nothing but the end of the string ends it.
Calibrate ==
    /\ pc = "calibrate"
    /\ IF left = 0
       THEN pc' = "wait" /\ UNCHANGED <<code, left, job>>
       ELSE /\ left' = left - 1
            /\ code' \in 1..MaxCode
            /\ job' = "calibrate"
            /\ pc' = "down"
    /\ UNCHANGED <<cwio_process, text, seen, keying, fltk, server, awake, cwioINVERTED>>

Thread ==
    \/ Woken \/ TakeText \/ EraseFirst \/ StopSending
    \/ KeyDownPTT \/ KeyDownLine \/ KeyUpPTT \/ KeyUpLine
    \/ CheckCalibrate \/ Calibrate

-----------------------------------------------------------------------------
(* send_text() and add_cwio(), called by the FLTK and the server thread.   *)

\* Ordering to send what is being sent already stops it.
SendText(on) ==
    IF on /\ cwio_process # "SEND"
    THEN cwio_process' = "SEND" /\ Signal
    ELSE cwio_process' = "NONE" /\ UNCHANGED pc

\* A message that starts with '[' starts the keyer.
StartAfter(msg) ==
    IF Head(msg) = "[" THEN SendText(TRUE) ELSE UNCHANGED <<cwio_process, pc>>

Fits(msg) == Len(txt_to_send) + Len(msg) <= MaxText

-----------------------------------------------------------------------------
(* The FLTK thread: the keyer dialog, the callbacks of Fl::awake, the exit. *)

Idle == fltk = "idle"

Type(c) ==
    /\ Idle
    /\ Fits(<<c>>)
    /\ txt_to_send' = Append(txt_to_send, c)
    /\ UNCHANGED <<cwio_process, snd, new_text, pc, sending, keying, fltk, server,
                   awake, cwioINVERTED>>

\* The Clear button and Alt-C.
Clear ==
    /\ Idle
    /\ txt_to_send' = <<>>
    /\ UNCHANGED <<cwio_process, snd, new_text, pc, sending, keying, fltk, server,
                   awake, cwioINVERTED>>

\* The SEND button, Alt-S and Alt-P.
SendButton(on) ==
    /\ Idle
    /\ SendText(on)
    /\ UNCHANGED <<text, sending, keying, fltk, server, awake, cwioINVERTED>>

\* exec_msg(): add_cwio() with the message of a function key.
Macro(msg) ==
    /\ Idle
    /\ Fits(msg)
    /\ txt_to_send' = txt_to_send \o msg
    /\ new_text' = IF server = "idle" THEN <<>> ELSE txt_to_send'
    /\ StartAfter(msg)
    /\ UNCHANGED <<snd, sending, keying, fltk, server, awake, cwioINVERTED>>

\* The KEY button: cwio_key(), PTT then line, and only then cwio_process.
PressKey ==
    /\ Idle
    /\ key' = ~key
    /\ DoPTT(key')
    /\ fltk' = "keyLine"
    /\ UNCHANGED <<cwio_process, text, pc, sending, line, server, awake, cwioINVERTED>>

KeyLine ==
    /\ fltk = "keyLine"
    /\ line' = (key # cwioINVERTED)
    /\ fltk' = "keyProcess"
    /\ UNCHANGED <<cwio_process, text, pc, sending, PTT, key, server, awake, cwioINVERTED>>

KeyProcess ==
    /\ fltk = "keyProcess"
    /\ cwio_process' = IF key THEN "KEYDOWN" ELSE "NONE"
    /\ fltk' = "idle"
    /\ UNCHANGED <<text, pc, sending, keying, server, awake, cwioINVERTED>>

\* calibrate_cwio(): END, a sleep of 50 ms, CALIBRATE.
CalibrateButton ==
    /\ Idle
    /\ txt_to_send' = <<>>
    /\ cwio_process' = "END"
    /\ fltk' = "calibrate"
    /\ UNCHANGED <<snd, new_text, pc, sending, keying, server, awake, cwioINVERTED>>

CalibrateOrder ==
    /\ fltk = "calibrate"
    /\ cwio_process' = "CALIBRATE"
    /\ Signal
    /\ fltk' = "idle"
    /\ UNCHANGED <<text, sending, keying, server, awake, cwioINVERTED>>

SetInverted ==
    /\ Idle
    /\ cwioINVERTED' = ~cwioINVERTED
    /\ line' = cwioINVERTED'
    /\ UNCHANGED <<cwio_process, text, pc, sending, PTT, key, fltk, server, awake>>

\* update_txt_to_send() shows what snd is now; set_cwio_send_button(0) clears.
RunCallback ==
    /\ Idle
    /\ awake # <<>>
    /\ Head(awake) = "cwio_clear_text" => server = "idle"     \* cwio_text_mutex
    /\ awake' = Tail(awake)
    /\ txt_to_send' = IF Head(awake) = "update_txt_to_send" THEN snd ELSE <<>>
    /\ UNCHANGED <<cwio_process, snd, new_text, pc, sending, keying, fltk, server, cwioINVERTED>>

\* stop_cwio_thread(), from cbExit().
Exit ==
    /\ Idle
    /\ cwio_process' = "END"
    /\ fltk' = "terminate"
    /\ UNCHANGED <<text, pc, sending, keying, server, awake, cwioINVERTED>>

Terminate ==
    /\ fltk = "terminate"
    /\ cwio_process' = "TERMINATE"
    /\ Signal
    /\ fltk' = "join"
    /\ UNCHANGED <<text, sending, keying, server, awake, cwioINVERTED>>

\* pthread_join(), then the port is closed.
Join ==
    /\ fltk = "join"
    /\ pc = "dead"
    /\ cwio_process' = "NONE"
    /\ fltk' = "stopped"
    /\ UNCHANGED <<text, pc, sending, keying, server, awake, cwioINVERTED>>

Continue == KeyLine \/ KeyProcess \/ CalibrateOrder \/ Terminate \/ Join

Dialog ==
    \/ \E c \in Char : Type(c)
    \/ Clear
    \/ \E on \in BOOLEAN : SendButton(on)
    \/ \E msg \in Messages : Macro(msg)
    \/ PressKey \/ CalibrateButton \/ SetInverted
    \/ Exit

-----------------------------------------------------------------------------
(* The server thread, which cwio_thread_running keeps out after the exit.  *)

Running == fltk # "stopped"

\* rig.cwio_text: add_cwio() reads the text and writes it back.
XmlText(msg) ==
    /\ server = "idle"
    /\ Running
    /\ Fits(msg)
    /\ new_text' = txt_to_send \o msg
    /\ server' = IF Head(msg) = "[" THEN "starting" ELSE "adding"
    /\ UNCHANGED <<cwio_process, txt_to_send, snd, pc, sending, keying, fltk, awake,
                   cwioINVERTED>>

XmlTextDone ==
    /\ server # "idle"
    /\ txt_to_send' = new_text
    /\ new_text' = <<>>
    /\ server' = "idle"
    /\ IF server = "starting" /\ Running
       THEN SendText(TRUE) ELSE UNCHANGED <<cwio_process, pc>>
    /\ UNCHANGED <<snd, sending, keying, fltk, awake, cwioINVERTED>>

\* rig.cwio_send: "off" clears the text too, later, in the FLTK thread.
XmlSend(on) ==
    /\ server = "idle"
    /\ Running
    /\ SendText(on)
    /\ IF on THEN UNCHANGED awake ELSE Queue("cwio_clear_text")
    /\ UNCHANGED <<text, sending, keying, fltk, server, cwioINVERTED>>

Client == (\E msg \in Messages : XmlText(msg)) \/ \E on \in BOOLEAN : XmlSend(on)

-----------------------------------------------------------------------------

Next ==
    \/ SpuriousWakeup \/ Thread
    \/ Continue \/ RunCallback \/ Dialog
    \/ XmlTextDone \/ Client

\* The threads run: the keyer thread, the FLTK thread inside a callback and in
\* Fl::wait(), the server thread inside a method.
Fairness ==
    /\ WF_vars(Thread)
    /\ WF_vars(Continue)
    /\ WF_vars(RunCallback)
    /\ WF_vars(XmlTextDone)

Spec == Init /\ [][Next]_vars
FairSpec == Spec /\ Fairness

-----------------------------------------------------------------------------
(* Properties.                                                             *)

Resting == pc \in {"wait", "dead"}
Closed == line # cwioINVERTED

\* With a line that is not inverted, the key is open whenever the thread is
\* not inside a character and the KEY button is up, however the button, a
\* pause, a ']', a calibration and the exit met the character being sent.  Of the
\* option the thread must have found it so when it last read it (~seen): when
\* "Inverted" is switched off between the two reads of an opening, cwio_key()
\* closes the key instead, and nothing opens it before the next edge.
KeyRests ==
    ~cwioINVERTED /\ ~seen /\ Resting /\ ~key /\ fltk # "keyLine" => ~Closed

\* The same whenever "Inverted" was switched; not so, for the reason above.
KeyRestsSwitched ==
    ~cwioINVERTED /\ Resting /\ ~key /\ fltk # "keyLine" => ~Closed

\* Once nothing is wanted, the thread finishes the character it is sending and
\* never touches the key line again.
PauseSilences ==
    <>[](cwio_process \notin {"SEND", "CALIBRATE"})
        => <>[](pc \notin {"down", "close", "up", "open"})

Wanted == cwio_process \in {"SEND", "CALIBRATE"}

\* The steps a calibration of n characters takes at most.
Calibration(n) == 1 + n * (4 * MaxCode + 1)

\* How many steps the thread may still take before it is out of the text or the
\* calibration: of the character being sent, of what comes after it, and of a
\* character it has just copied.
ToGo ==
    LET after == IF job = "text" THEN 1 ELSE Calibration(left)
    IN  CASE pc = "loop" -> 1
          [] pc = "calibrate" -> Calibration(left)
          [] pc = "erase" -> 4 * MaxCode + 2
          [] pc = "down" -> 4 * code + after
          [] pc = "close" -> 4 * code + after - 1
          [] pc = "up" -> 4 * code + after - 2
          [] pc = "open" -> 4 * code + after - 3
          [] OTHER -> 0

\* While nothing is wanted each step of the thread brings that end nearer and
\* no step of the dialog, a callback or a client puts it off, whatever they do
\* to the text: the thread leaves the key line alone after at most ToGo steps
\* of its own (sending_text, send_cwkey, do_calibration).
PauseShortens ==
    [][~Wanted /\ ~Wanted'
        => ToGo' <= ToGo /\ (Thread /\ ToGo > 0 => ToGo' < ToGo)]_vars

\* With a PTT delay set, "the same delay will be applied to the last CW keyline
\* closure and PTT-off": the set transmits while the key is closed.
PttCoversKey == ~cwioINVERTED /\ cwioPTT /\ Closed => PTT

\* rig.shutdown does "shutdown xcvr & flrig": when clients ask for nothing more,
\* the exit ends.
ShutdownEnds ==
    <>[][~Client]_vars => (fltk = "terminate" ~> fltk = "stopped")

=============================================================================
