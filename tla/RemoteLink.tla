------------------------------ MODULE RemoteLink ------------------------------
(***************************************************************************)
(* The set behind a socket (progStatus.use_tcpip): the handler that holds   *)
(* mutex_serial asks and orders over it, the receiving thread               *)
(* rcv_socket_loop empties the socket into rxbuffer, and the connection to  *)
(* the server in front of the set breaks and is made again.                 *)
(*                                                                         *)
(* Questions and orders are those of the Kenwood drivers: a question is     *)
(* sent and awaited by wait_char, which takes whatever is in rxbuffer, and  *)
(* the driver uses it if it is one answer to its own question; an order is  *)
(* sent by sendCommand, which first spends a second emptying rxbuffer.      *)
(*                                                                         *)
(* Orders ask for 1, 2, 3, ..., so that a value is the number of the order  *)
(* it comes from.  Answers cross the link whole.  The knobs of the set and  *)
(* the check box that switches use_tcpip are left alone.                    *)
(***************************************************************************)
EXTENDS Integers, Sequences

CONSTANTS
    Items,                  \* what is asked for: "FA", "MD"
    tcpip_drops_allowed,    \* sends that fail before the connection is given up
    RetryCalls,             \* calls tcpip_reconnect_after lasts
    MaxOrders, MaxFalls, MaxLate    \* bounds: orders; breaks of the connection;
                                    \* answers later than wait_char waits

ASSUME LinkAssumption ==
    /\ tcpip_drops_allowed \in Nat \ {0}
    /\ RetryCalls \in Nat \ {0}
    /\ MaxOrders \in Nat /\ MaxFalls \in Nat /\ MaxLate \in Nat

VARIABLES
    up,             \* the server accepts connections
    conn,           \* tcpip: none, or the state of its connection
    inbox,          \* commands on the way to the set
    wire,           \* answers on the way to rcv_socket_loop
    radio,          \* the items in the set
    known,          \* flrig's record of them
    at,             \* where the call under way is
    call,           \* that call
    rxbuffer,       \* answers received and not taken yet
    rx,             \* rcv_socket_loop
    exit_socket_loop,
    retry_after,    \* in calls
    drop_count,
    orders, falls, lates

peer == <<up, radio, falls>>
vars == <<up, conn, inbox, wire, radio, known, at, call, rxbuffer, rx,
          exit_socket_loop, retry_after, drop_count, orders, falls, lates>>

Value == 0..MaxOrders
Command == [op : {"read", "order"}, item : Items, val : Value]
Answer == [item : Items, val : Value]

TypeOK ==
    /\ up \in BOOLEAN
    \* A connection the server has left first swallows what is sent, then
    \* refuses it.
    /\ conn \in {"none", "live", "silent", "reset"}
    /\ inbox \in Seq(Command) /\ wire \in Seq(Answer) /\ rxbuffer \in Seq(Answer)
    /\ radio \in [Items -> Value] /\ known \in [Items -> Value]
    /\ at \in {"idle", "drain", "send", "join", "wait", "crashed"}
    /\ call \in Command
    /\ rx \in {"none", "idle", "recv"}
    /\ exit_socket_loop \in BOOLEAN
    /\ retry_after \in 0..RetryCalls
    /\ drop_count \in 0..tcpip_drops_allowed - 1
    /\ orders \in 0..MaxOrders /\ falls \in 0..MaxFalls /\ lates \in 0..MaxLate

\* initRig() has connected.
Init ==
    /\ up = TRUE /\ conn = "live" /\ inbox = <<>> /\ wire = <<>> /\ rxbuffer = <<>>
    /\ radio = [i \in Items |-> 0] /\ known = radio
    /\ at = "idle" /\ call \in [op : {"read"}, item : Items, val : {0}]
    /\ rx = "idle" /\ exit_socket_loop = FALSE
    /\ retry_after = 0 /\ drop_count = 0
    /\ orders = 0 /\ falls = 0 /\ lates = 0

\* What the set has, or will have when it has done what is on its way.
Due(i) ==
    LET ordered == {n \in 1..Len(inbox) : inbox[n].op = "order" /\ inbox[n].item = i}
    IN  IF ordered = {} THEN radio[i]
        ELSE inbox[CHOOSE n \in ordered : \A k \in ordered : k <= n].val

-----------------------------------------------------------------------------
(* Calls, one at a time under mutex_serial.                                 *)

\* get_vfoA() and the like: send_to_remote(), then wait.
Read(i) ==
    /\ at = "idle"
    /\ call' = [op |-> "read", item |-> i, val |-> 0]
    /\ at' = "send"
    /\ UNCHANGED <<peer, conn, inbox, wire, known, rxbuffer, rx, exit_socket_loop,
                   retry_after, drop_count, orders, lates>>

\* set_vfoA() and the like: the driver's record has the value at once.
SetItem(i) ==
    /\ at = "idle" /\ orders < MaxOrders
    /\ orders' = orders + 1
    /\ known' = [known EXCEPT ![i] = orders + 1]
    /\ call' = [op |-> "order", item |-> i, val |-> orders + 1]
    /\ at' = "drain"
    /\ UNCHANGED <<peer, conn, inbox, wire, rxbuffer, rx, exit_socket_loop,
                   retry_after, drop_count, lates>>

\* Another of the hundred passes of readResponse() without terminators.
Drain ==
    /\ at = "drain" /\ conn # "none" /\ rx # "recv"
    /\ rxbuffer # <<>> /\ rxbuffer' = <<>>
    /\ UNCHANGED <<peer, conn, inbox, wire, known, at, call, rx, exit_socket_loop,
                   retry_after, drop_count, orders, lates>>

\* Mutant of Drained: sendCommand sends at once.
NotDrained == TRUE

\* The second they take is longer than any answer is late.  Without a
\* connection read_from_remote() empties nothing.
Drained ==
    \/ conn = "none"
    \/ inbox = <<>> /\ wire = <<>> /\ rxbuffer = <<>>

EndDrain ==
    /\ at = "drain" /\ Drained
    /\ at' = "send"
    /\ UNCHANGED <<peer, conn, inbox, wire, known, call, rxbuffer, rx, exit_socket_loop,
                   retry_after, drop_count, orders, lates>>

\* Where a call goes after send_to_remote(): sendCommand does not wait.
AfterSend == IF call.op = "read" THEN "wait" ELSE "idle"

\* Mutant of SkipSend: the calls until the next attempt are not counted.
SkipSendForever ==
    /\ at = "send" /\ retry_after > 0
    /\ at' = AfterSend
    /\ UNCHANGED <<peer, conn, inbox, wire, known, call, rxbuffer, rx, exit_socket_loop,
                   retry_after, drop_count, orders, lates>>

\* send_to_remote() soon after a connection could not be made.
SkipSend ==
    /\ at = "send" /\ retry_after > 0
    /\ retry_after' = retry_after - 1
    /\ at' = AfterSend
    /\ UNCHANGED <<peer, conn, inbox, wire, known, call, rxbuffer, rx, exit_socket_loop,
                   drop_count, orders, lates>>

\* connect_to_remote(), under mutex_rcv_socket; it starts the receiving thread
\* unless there is one.
Connect ==
    /\ at = "send" /\ retry_after = 0 /\ conn = "none" /\ rx # "recv" /\ up
    /\ conn' = "live"
    /\ rx' = IF rx = "none" THEN "idle" ELSE rx
    /\ UNCHANGED <<peer, inbox, wire, known, at, call, rxbuffer, exit_socket_loop,
                   retry_after, drop_count, orders, lates>>

ConnectFails ==
    /\ at = "send" /\ retry_after = 0 /\ conn = "none" /\ ~up
    /\ retry_after' = RetryCalls
    /\ at' = AfterSend
    /\ UNCHANGED <<peer, conn, inbox, wire, known, call, rxbuffer, rx, exit_socket_loop,
                   drop_count, orders, lates>>

\* The socket takes the command; it reaches the set if the server is there.
Send ==
    /\ at = "send" /\ retry_after = 0 /\ conn \in {"live", "silent"}
    /\ inbox' = IF conn = "live" THEN Append(inbox, call) ELSE inbox
    /\ drop_count' = 0
    /\ at' = AfterSend
    /\ UNCHANGED <<peer, conn, wire, known, call, rxbuffer, rx, exit_socket_loop,
                   retry_after, orders, lates>>

\* Mutant of SendFails: a drop is counted once too often.
SendFailsTwice ==
    /\ at = "send" /\ retry_after = 0 /\ conn = "reset"
    /\ drop_count + 1 < tcpip_drops_allowed
    /\ drop_count' = drop_count + 2
    /\ at' = AfterSend
    /\ UNCHANGED <<peer, conn, inbox, wire, known, call, rxbuffer, rx, exit_socket_loop,
                   retry_after, orders, lates>>

\* The socket refuses the command.
SendFails ==
    /\ at = "send" /\ retry_after = 0 /\ conn = "reset"
    /\ drop_count + 1 < tcpip_drops_allowed
    /\ drop_count' = drop_count + 1
    /\ at' = AfterSend
    /\ UNCHANGED <<peer, conn, inbox, wire, known, call, rxbuffer, rx, exit_socket_loop,
                   retry_after, orders, lates>>

\* Once too often: disconnect_from_remote() deletes tcpip without
\* mutex_rcv_socket.  If rcv_socket_loop is inside tcpip->recv() that is
\* undefined: it may go on or end the program.
Disconnect ==
    /\ at = "send" /\ retry_after = 0 /\ conn = "reset"
    /\ drop_count + 1 = tcpip_drops_allowed
    /\ conn' = "none"
    /\ exit_socket_loop' = TRUE
    /\ drop_count' = 0
    /\ at' \in IF rx = "recv" THEN {"join", "crashed"} ELSE {"join"}
    /\ UNCHANGED <<peer, inbox, wire, known, call, rxbuffer, rx, retry_after, orders, lates>>

\* pthread_join() in disconnect_from_remote().
Join ==
    /\ at = "join" /\ rx = "none"
    /\ at' = AfterSend
    /\ UNCHANGED <<peer, conn, inbox, wire, known, call, rxbuffer, rx, exit_socket_loop,
                   retry_after, drop_count, orders, lates>>

\* The reply is one answer of the length expected, to this question.
Fits(reply) == Len(reply) = 1 /\ reply[1].item = call.item

\* A pass of wait_char() that finds a terminator, and the driver's use of it.
Take ==
    /\ at = "wait" /\ conn # "none" /\ rx # "recv"
    /\ rxbuffer # <<>> /\ rxbuffer' = <<>>
    /\ known' = IF Fits(rxbuffer) THEN [known EXCEPT ![call.item] = rxbuffer[1].val] ELSE known
    /\ at' = "idle"
    /\ UNCHANGED <<peer, conn, inbox, wire, call, rx, exit_socket_loop, retry_after,
                   drop_count, orders, lates>>

\* wait_char() has waited long enough: nothing comes, or it comes late.
TimeOut ==
    /\ at = "wait"
    /\ conn = "none" \/ rxbuffer = <<>>
    /\ \/ inbox = <<>> /\ wire = <<>> /\ lates' = lates
       \/ (inbox # <<>> \/ wire # <<>>) /\ lates < MaxLate /\ lates' = lates + 1
    /\ at' = "idle"
    /\ UNCHANGED <<peer, conn, inbox, wire, known, call, rxbuffer, rx, exit_socket_loop,
                   retry_after, drop_count, orders>>

-----------------------------------------------------------------------------
(* rcv_socket_loop, which holds mutex_rcv_socket in every round.            *)

RecvBegin ==
    /\ rx = "idle" /\ ~exit_socket_loop /\ conn # "none"
    /\ rx' = "recv"
    /\ UNCHANGED <<peer, conn, inbox, wire, known, at, call, rxbuffer, exit_socket_loop,
                   retry_after, drop_count, orders, lates>>

RecvEnd ==
    /\ rx = "recv" /\ at # "crashed"
    /\ rx' = "idle"
    /\ rxbuffer' = rxbuffer \o wire /\ wire' = <<>>
    /\ UNCHANGED <<peer, conn, inbox, known, at, call, exit_socket_loop,
                   retry_after, drop_count, orders, lates>>

\* Mutant of RecvExit: the flag that ends the loop stays set.
RecvExitFlagged ==
    /\ rx = "idle" /\ exit_socket_loop
    /\ rx' = "none" /\ exit_socket_loop' = exit_socket_loop
    /\ UNCHANGED <<peer, conn, inbox, wire, known, at, call, rxbuffer,
                   retry_after, drop_count, orders, lates>>

RecvExit ==
    /\ rx = "idle" /\ exit_socket_loop
    /\ rx' = "none" /\ exit_socket_loop' = FALSE
    /\ UNCHANGED <<peer, conn, inbox, wire, known, at, call, rxbuffer,
                   retry_after, drop_count, orders, lates>>

-----------------------------------------------------------------------------
(* The server, the set and the network.                                     *)

\* The set does the next command.
Execute ==
    /\ inbox # <<>>
    /\ inbox' = Tail(inbox)
    /\ LET c == Head(inbox) IN
       IF c.op = "order"
       THEN radio' = [radio EXCEPT ![c.item] = c.val] /\ wire' = wire
       ELSE wire' = Append(wire, [item |-> c.item, val |-> radio[c.item]]) /\ radio' = radio
    /\ UNCHANGED <<up, conn, known, at, call, rxbuffer, rx, exit_socket_loop,
                   retry_after, drop_count, orders, falls, lates>>

\* The server goes: what it had received is lost.
ServerGoes ==
    /\ up /\ falls < MaxFalls
    /\ falls' = falls + 1 /\ up' = FALSE
    /\ conn' = IF conn = "live" THEN "silent" ELSE conn
    /\ inbox' = <<>>
    /\ UNCHANGED <<wire, radio, known, at, call, rxbuffer, rx, exit_socket_loop,
                   retry_after, drop_count, orders, lates>>

ServerReturns ==
    /\ ~up /\ up' = TRUE
    /\ UNCHANGED <<conn, inbox, wire, radio, known, at, call, rxbuffer, rx,
                   exit_socket_loop, retry_after, drop_count, orders, falls, lates>>

\* The kernel learns that nobody is there, and drops what it had not delivered.
Reset ==
    /\ conn = "silent"
    /\ conn' = "reset" /\ wire' = <<>>
    /\ UNCHANGED <<peer, inbox, known, at, call, rxbuffer, rx, exit_socket_loop,
                   retry_after, drop_count, orders, lates>>

-----------------------------------------------------------------------------
Call ==
    \/ \E i \in Items : Read(i)
    \/ Drain \/ EndDrain \/ SkipSend \/ Connect \/ ConnectFails \/ Send \/ SendFails
    \/ Disconnect \/ Join \/ Take \/ TimeOut

rcv_socket_loop == RecvBegin \/ RecvEnd \/ RecvExit

Next ==
    \/ Call \/ \E i \in Items : SetItem(i)
    \/ rcv_socket_loop
    \/ Execute \/ ServerGoes \/ ServerReturns \/ Reset

Spec == Init /\ [][Next]_vars

\* The poll thread goes on calling, and gets mutex_rcv_socket, which the loop
\* releases for five milliseconds in every round.
FairSpec == Spec /\ SF_vars(Call) /\ WF_vars(Execute) /\ WF_vars(Reset)
                 /\ WF_vars(RecvBegin) /\ WF_vars(RecvEnd) /\ WF_vars(RecvExit)

-----------------------------------------------------------------------------
(* Properties.                                                               *)

\* While there is a connection its receiving thread is there to read it, and
\* nothing has told it to end: a second connection does not inherit the flag
\* that ended the thread of the first (connect_to_remote, disconnect_from_remote).
ReceiverRuns == conn # "none" => rx # "none" /\ ~exit_socket_loop

\* Between two connections there is no receiving thread: that of the first was
\* told to end and joined before the caller goes on, so the next connection
\* starts its own (disconnect_from_remote, connect_to_remote).
NoneBetween ==
    conn = "none" => \/ rx = "none"
                     \/ at = "join" /\ exit_socket_loop
                     \/ at = "crashed"

\* No reading takes back an order: flrig's record is at least as new as what
\* the set has or is about to do, whatever answers were late, and whether the
\* connection was lost and made again in between (sendCommand, wait_char,
\* disconnect_from_remote).
OrdersStand == \A i \in Items : known[i] >= Due(i)

\* When the server stays, flrig is connected again and stays so, by its own
\* calls alone, unless the program has ended in disconnect_from_remote().
Reconnects == <>[]up => <>[](conn = "live") \/ <>(at = "crashed")
=============================================================================
