------------------------------- MODULE TciClient -------------------------------
(***************************************************************************)
(* The set is an SDR program behind a web socket (TCI).  Nothing is asked:  *)
(* the program tells every change, flrig's own orders included, and the     *)
(* receiving thread tci_loop writes what it is told into slice_0, which the *)
(* driver answers from.  Orders are queued in send_list by tci_send and     *)
(* sent by tci_loop.  The FLTK thread closes the socket and opens another.  *)
(*                                                                         *)
(* Receiver 0 only.  An order is VFO A's frequency (VFO), whose record is   *)
(* written before it is queued; the volume (VOLUME), written after, as PTT  *)
(* and power are; or the mode (MODULATION), which slice_0 has from the      *)
(* program alone.  A frequency or a mode is a member of Values; the modes    *)
(* are those of TCI_modes, the ones the program can be ordered to.          *)
(***************************************************************************)
EXTENDS Integers, Sequences

CONSTANTS
    Values,
    Found,              \* the mode a reading takes each mode's name for
    Knobs,              \* what the operator changes in the program's window
    WAIT_ON_MODE,       \* readings during which an ordered mode stands
    MaxChanges, MaxLosses, MaxPresses   \* bounds: orders and the operator's
                        \* changes; sockets lost; closings asked for

Items == {"VFO", "VOLUME", "MODULATION"}

ASSUME TciAssumption ==
    /\ Values # {}
    /\ Found \in [Values -> Values]
    /\ Knobs \subseteq Items
    /\ WAIT_ON_MODE \in Nat \ {0}
    /\ MaxChanges \in Nat /\ MaxLosses \in Nat /\ MaxPresses \in Nat

VARIABLES
    radio,          \* the items in the SDR program
    slice,          \* slice_0
    imode,          \* A.imode and B.imode, the driver's modes
    inuse,
    wait_on_mode,   \* 0 for every value that is not positive
    ws,             \* readyState, or none without a socket
    listed,         \* send_list is not NULL
    send_list,
    commands,       \* orders on the way to the program
    reports,        \* changes on the way to tci_loop
    tci_run, loop,  \* tci_loop
    run_mutex, send_mutex,
    at, call,       \* the caller that holds mutex_serial, and its order
    fltk,           \* what the FLTK thread does to the socket
    changes, losses, presses

driver == <<imode, inuse, wait_on_mode>>
socket == <<ws, listed, tci_run, losses, presses>>
vars == <<radio, slice, imode, inuse, wait_on_mode, ws, listed, send_list, commands,
          reports, tci_run, loop, run_mutex, send_mutex, at, call, fltk,
          changes, losses, presses>>

Message == [item : Items, val : Values]
NoOrder == [item |-> "VFO", val |-> CHOOSE v \in Values : TRUE]

TypeOK ==
    /\ radio \in [Items -> Values] /\ slice \in [Items -> Values]
    /\ imode \in [{"A", "B"} -> Values] /\ inuse \in {"A", "B"}
    /\ wait_on_mode \in 0..WAIT_ON_MODE
    /\ ws \in {"none", "open", "closed"} /\ listed \in BOOLEAN
    /\ send_list \in Seq(Message) /\ commands \in Seq(Message)
    /\ reports \in Seq(Message)
    /\ tci_run \in BOOLEAN /\ loop \in {"none", "top", "lock", "sending", "io"}
    /\ run_mutex \in {"free", "caller", "closer"}
    /\ send_mutex \in {"free", "loop", "closer"}
    /\ at \in {"idle", "send", "push", "record"} /\ call \in Message
    /\ fltk \in {"idle", "reopen", "exit", "gone"}
    /\ changes \in 0..MaxChanges /\ losses \in 0..MaxLosses
    /\ presses \in 0..MaxPresses

\* initRig() has opened the socket, and the program has told everything.
Init ==
    /\ radio = [i \in Items |-> CHOOSE v \in Values : TRUE] /\ slice = radio
    /\ imode = [f \in {"A", "B"} |-> Found[radio["MODULATION"]]] /\ inuse = "A"
    /\ wait_on_mode = 0
    /\ ws = "open" /\ listed = TRUE
    /\ send_list = <<>> /\ commands = <<>> /\ reports = <<>>
    /\ tci_run = TRUE /\ loop = "top"
    /\ run_mutex = "free" /\ send_mutex = "free"
    /\ at = "idle" /\ call = NoOrder
    /\ fltk = "idle" /\ changes = 0 /\ losses = 0 /\ presses = 0

-----------------------------------------------------------------------------
(* Orders and readings, one at a time under mutex_serial.                   *)

\* Mutant of RecordedFirst: set_vfoA sends first, as set_volume_control does.
RecordedLast == {}

\* The items whose setter writes slice_0 before it sends; it writes VOLUME
\* after, and MODULATION never.
RecordedFirst == {"VFO"}

\* set_vfoA, set_volume_control, set_modeA or set_modeB, up to tci_send.
Order(i, v) ==
    /\ at = "idle" /\ fltk # "gone" /\ changes < MaxChanges
    /\ changes' = changes + 1
    /\ slice' = IF i \in RecordedFirst THEN [slice EXCEPT ![i] = v] ELSE slice
    /\ call' = [item |-> i, val |-> v]
    /\ at' = "send"
    /\ UNCHANGED <<radio, driver, socket, send_list, commands, reports, loop,
                   run_mutex, send_mutex, fltk>>

\* Mutant of TciSend: the list is tested without run_mutex.
TciSendUnlocked ==
    /\ at = "send"
    /\ at' = IF listed THEN "push" ELSE "record"
    /\ UNCHANGED <<radio, slice, driver, socket, send_list, commands, reports, loop,
                   run_mutex, send_mutex, call, fltk, changes>>

\* tci_send: without a list the order is gone.
TciSend ==
    /\ at = "send" /\ run_mutex = "free"
    /\ IF listed THEN at' = "push" /\ run_mutex' = "caller"
                 ELSE at' = "record" /\ UNCHANGED run_mutex
    /\ UNCHANGED <<radio, slice, driver, socket, send_list, commands, reports, loop,
                   send_mutex, call, fltk, changes>>

PushBack ==
    /\ at = "push" /\ send_mutex = "free"
    /\ send_list' = Append(send_list, call)
    /\ run_mutex' = "free"
    /\ at' = "record"
    /\ UNCHANGED <<radio, slice, driver, socket, commands, reports, loop, send_mutex,
                   call, fltk, changes>>

\* Mutant of Hidden: a reading too many.
HiddenLonger == WAIT_ON_MODE + 1

\* The readings an order of a mode hides.
Hidden == WAIT_ON_MODE

\* The rest of the order.  A mode was ordered by set_modeA or by set_modeB, which
\* clients call for either VFO whichever is in use.
Record ==
    /\ at = "record"
    /\ at' = "idle" /\ call' = NoOrder
    /\ slice' = IF call.item \in {"VFO", "VOLUME"} \ RecordedFirst
                THEN [slice EXCEPT ![call.item] = call.val] ELSE slice
    /\ IF call.item = "MODULATION"
       THEN /\ \E f \in {"A", "B"} : imode' = [imode EXCEPT ![f] = call.val]
            /\ wait_on_mode' = Hidden
       ELSE UNCHANGED <<imode, wait_on_mode>>
    /\ UNCHANGED <<radio, inuse, socket, send_list, commands, reports, loop, run_mutex,
                   send_mutex, fltk, changes>>

\* The mode slice_0's name is taken for: the first one of TCI_modes whose own
\* name is somewhere in it.  "AM" comes before "SAM".
NameFound == Found[slice["MODULATION"]]

\* Mutant of Reading: get_modeA compares with B.imode.
ReadingOther ==
    IF NameFound # imode[IF inuse = "A" THEN "B" ELSE "A"]
    THEN [imode EXCEPT ![inuse] = NameFound] ELSE imode

\* get_modeA takes a mode that is not A's; get_modeB compares with A's too.
Reading ==
    IF NameFound # imode["A"] THEN [imode EXCEPT ![inuse] = NameFound] ELSE imode

\* The poll's get_modeA or get_modeB.
GetMode ==
    /\ at = "idle" /\ fltk # "gone"
    /\ IF wait_on_mode > 1
       THEN wait_on_mode' = wait_on_mode - 1 /\ UNCHANGED imode
       ELSE wait_on_mode' = 0 /\ imode' = Reading
    /\ UNCHANGED <<radio, slice, inuse, socket, send_list, commands, reports, loop,
                   run_mutex, send_mutex, at, call, fltk, changes>>

\* selectA, selectB; what they send changes none of the items.
Select ==
    /\ at = "idle" /\ fltk # "gone"
    /\ inuse' = IF inuse = "A" THEN "B" ELSE "A"
    /\ UNCHANGED <<radio, slice, imode, wait_on_mode, socket, send_list, commands,
                   reports, loop, run_mutex, send_mutex, at, call, fltk, changes>>

-----------------------------------------------------------------------------
(* tci_loop.                                                                *)

LoopEnds ==
    /\ loop = "top" /\ (~tci_run \/ ws = "closed")
    /\ loop' = "none"
    /\ UNCHANGED <<radio, slice, driver, socket, send_list, commands, reports, run_mutex,
                   send_mutex, at, call, fltk, changes>>

LoopTop ==
    /\ loop = "top" /\ tci_run /\ ws = "open"
    /\ loop' = IF send_list # <<>> THEN "lock" ELSE "io"
    /\ UNCHANGED <<radio, slice, driver, socket, send_list, commands, reports, run_mutex,
                   send_mutex, at, call, fltk, changes>>

LoopLock ==
    /\ loop = "lock" /\ send_mutex = "free"
    /\ send_mutex' = "loop" /\ loop' = "sending"
    /\ UNCHANGED <<radio, slice, driver, socket, send_list, commands, reports, run_mutex,
                   at, call, fltk, changes>>

\* ws->send() and, before tci_run is tested again, ws->poll().
LoopSend ==
    /\ loop = "sending"
    /\ IF send_list # <<>>
       THEN /\ commands' = Append(commands, Head(send_list))
            /\ send_list' = Tail(send_list)
            /\ UNCHANGED <<loop, send_mutex>>
       ELSE loop' = "io" /\ send_mutex' = "free" /\ UNCHANGED <<commands, send_list>>
    /\ UNCHANGED <<radio, slice, driver, socket, reports, run_mutex, at, call, fltk,
                   changes>>

\* ws->dispatch(): handle_message() stores one report.
Handle ==
    /\ loop = "io" /\ reports # <<>>
    /\ slice' = [slice EXCEPT ![Head(reports).item] = Head(reports).val]
    /\ reports' = Tail(reports)
    /\ UNCHANGED <<radio, driver, socket, send_list, commands, loop, run_mutex, send_mutex,
                   at, call, fltk, changes>>

LoopSleeps ==
    /\ loop = "io"
    /\ loop' = "top"
    /\ UNCHANGED <<radio, slice, driver, socket, send_list, commands, reports, run_mutex,
                   send_mutex, at, call, fltk, changes>>

\* ws->poll() finds the socket closed; nobody opens it again by itself.
Lost ==
    /\ loop = "io" /\ ws = "open" /\ losses < MaxLosses
    /\ losses' = losses + 1
    /\ ws' = "closed"
    /\ commands' = <<>> /\ reports' = <<>>
    /\ UNCHANGED <<radio, slice, driver, listed, tci_run, presses, send_list, loop,
                   run_mutex, send_mutex, at, call, fltk, changes>>

-----------------------------------------------------------------------------
(* The FLTK thread: Init of the set-up window opens the socket again, the   *)
(* end of the program closes it.                                            *)

Press ==
    /\ fltk = "idle"
    /\ fltk' \in {"reopen", "exit"}
    /\ presses < MaxPresses /\ presses' = presses + 1
    /\ UNCHANGED <<radio, slice, driver, ws, listed, tci_run, losses, send_list, commands, reports,
                   loop, run_mutex, send_mutex, at, call, changes>>

\* Mutant of Close: tci_close takes both mutexes.
CloseLocked ==
    /\ fltk \in {"reopen", "exit"} /\ ws # "none"
    /\ run_mutex = "free" /\ run_mutex' = "closer"
    /\ send_mutex = "free" /\ send_mutex' = "closer"
    /\ tci_run' = FALSE
    /\ UNCHANGED <<radio, slice, driver, ws, listed, losses, presses, send_list, commands, reports,
                   loop, at, call, fltk, changes>>

\* tci_close, up to its pthread_join().
Close ==
    /\ fltk \in {"reopen", "exit"} /\ ws # "none"
    /\ run_mutex = "free" /\ run_mutex' = "closer"
    /\ tci_run' = FALSE
    /\ UNCHANGED <<radio, slice, driver, ws, listed, losses, presses, send_list, commands, reports,
                   loop, send_mutex, at, call, fltk, changes>>

\* Its rest.  What was queued is not sent any more.
Join ==
    /\ run_mutex = "closer" /\ loop = "none"
    /\ ws' = "none" /\ listed' = FALSE
    /\ send_list' = <<>> /\ commands' = <<>> /\ reports' = <<>>
    /\ run_mutex' = "free" /\ send_mutex' = "free"
    /\ UNCHANGED <<radio, slice, driver, tci_run, losses, presses, loop, at, call, fltk, changes>>

\* tci_open: the program answers and tells everything, or does not answer.
Open ==
    /\ fltk = "reopen" /\ ws = "none"
    /\ ws' = "open" /\ listed' = TRUE /\ tci_run' = TRUE /\ loop' = "top"
    /\ reports' = << [item |-> "VFO", val |-> radio["VFO"]],
                     [item |-> "MODULATION", val |-> radio["MODULATION"]],
                     [item |-> "VOLUME", val |-> radio["VOLUME"]] >>
    /\ fltk' = "idle"
    /\ UNCHANGED <<radio, slice, driver, losses, presses, send_list, commands, run_mutex, send_mutex,
                   at, call, changes>>

OpenFails ==
    /\ fltk = "reopen" /\ ws = "none"
    /\ fltk' = "idle"
    /\ UNCHANGED <<radio, slice, driver, socket, send_list, commands, reports, loop,
                   run_mutex, send_mutex, at, call, changes>>

Exit ==
    /\ fltk = "exit" /\ ws = "none"
    /\ fltk' = "gone"
    /\ UNCHANGED <<radio, slice, driver, socket, send_list, commands, reports, loop,
                   run_mutex, send_mutex, at, call, changes>>

-----------------------------------------------------------------------------
(* The SDR program.                                                         *)

\* It does an order and tells its clients.
Apply ==
    /\ commands # <<>>
    /\ radio' = [radio EXCEPT ![Head(commands).item] = Head(commands).val]
    /\ commands' = Tail(commands)
    /\ reports' = Append(reports, Head(commands))
    /\ UNCHANGED <<slice, driver, socket, send_list, loop, run_mutex, send_mutex, at, call,
                   fltk, changes>>

\* Its operator changes an item.
Turn(i, v) ==
    /\ changes < MaxChanges /\ changes' = changes + 1
    /\ radio' = [radio EXCEPT ![i] = v]
    /\ reports' = IF ws = "open" THEN Append(reports, [item |-> i, val |-> v]) ELSE reports
    /\ UNCHANGED <<slice, driver, socket, send_list, commands, loop, run_mutex, send_mutex,
                   at, call, fltk>>

-----------------------------------------------------------------------------
Caller == TciSend \/ PushBack \/ Record
Loop == LoopEnds \/ LoopTop \/ LoopLock \/ LoopSend \/ LoopSleeps
Fltk == Close \/ Join \/ Open \/ OpenFails \/ Exit

Next ==
    \/ \E i \in Items, v \in Values : Order(i, v)
    \/ TciSend \/ PushBack \/ Record \/ GetMode \/ Select
    \/ LoopEnds \/ LoopTop \/ LoopLock \/ LoopSend \/ Handle \/ LoopSleeps \/ Lost
    \/ Press \/ Close \/ Join \/ Open \/ OpenFails \/ Exit
    \/ Apply \/ \E i \in Knobs, v \in Values : Turn(i, v)

Spec == Init /\ [][Next]_vars

\* The threads go on, the program does what reaches it, the poll reads, and
\* what has arrived when ws->poll() runs is dispatched.
Fairness ==
    /\ WF_vars(Caller) /\ WF_vars(GetMode) /\ WF_vars(Loop) /\ SF_vars(Handle)
    /\ WF_vars(Fltk) /\ WF_vars(Apply)

FairSpec == Spec /\ Fairness

-----------------------------------------------------------------------------
Quiet ==
    /\ ws = "open" /\ at = "idle"
    /\ send_list = <<>> /\ commands = <<>> /\ reports = <<>>

\* Once nothing is queued or on its way, the frequency and the mode flrig
\* answers with are those of the SDR program, whoever changed them last and
\* however orders, reports and a change of socket met (set_vfoA writes its
\* record before it sends).
SliceAgrees == Quiet => \A i \in {"VFO", "MODULATION"} : slice[i] = radio[i]

\* send_list is there while tci_send adds to it and while tci_loop empties it:
\* tci_close deletes it only when neither can be under way.
ListAlive == (at = "push" \/ loop # "none") => listed

\* Who waits for whom: for the holder of a mutex, or to join a thread.
Waits ==
    {w \in {"caller"} \X {run_mutex, send_mutex} :
        \/ at = "send" /\ w[2] = run_mutex
        \/ at = "push" /\ w[2] = send_mutex}
    \cup {w \in {"loop"} \X {send_mutex} : loop = "lock"}
    \cup {w \in {"closer"} \X {run_mutex, "loop"} :
            /\ fltk \in {"reopen", "exit"} /\ ws # "none"
            /\ IF run_mutex = "closer" THEN w[2] = "loop" /\ loop # "none"
                                      ELSE w[2] = run_mutex}

\* A caller, tci_loop and tci_close take the two mutexes in different orders and
\* one of them waits for another to end, yet of any of them that wait some one
\* waits for none of the others: never is each waiting for the next.
NoDeadlock ==
    \A S \in (SUBSET {"caller", "loop", "closer"}) \ {{}} :
        \E t \in S : \A u \in S : <<t, u>> \notin Waits

\* A closing of the socket ends: tci_close waits for tci_loop with run_mutex,
\* which tci_loop never needs.
CloseEnds == (fltk \in {"reopen", "exit"}) ~> (fltk \in {"idle", "gone"})

\* With VFO A in use and the socket open for good, A.imode ends up as the mode
\* the name of the SDR program's mode is taken for, though an order hides the
\* reports for a while.
ModeFollows ==
    <>[](ws = "open" /\ inuse = "A") => <>[](imode["A"] = Found[radio["MODULATION"]])

\* xmlrpc_server.txt:28, rig.get_mode is to "return MODE of current VFO": once the
\* hidden readings are over, nothing is on its way and the reading is taken, it is
\* the program's own.  Not for SAM, which a reading takes for AM.
ModeIsPrograms ==
    Quiet /\ inuse = "A" /\ wait_on_mode = 0 /\ imode["A"] = Found[radio["MODULATION"]]
        => imode["A"] = radio["MODULATION"]

\* With VFO A in use flrig answers with the mode the program's is taken for, and
\* nothing is on its way.
ModeFollowed == Quiet /\ inuse = "A" /\ imode["A"] = Found[radio["MODULATION"]]

\* It stays so, whether a hidden order is still counted down or a reading looks
\* at slice_0, until there is an order, a change in the program's window, VFO B
\* or no socket.
ModeStays ==
    [][ModeFollowed => \/ ModeFollowed'
                       \/ changes' > changes \/ inuse' = "B" \/ ws' # "open"]_vars
=============================================================================
