--------------------------- MODULE RemoteLinkProofs ---------------------------
(* What TLAPS proves of the link over a socket, for every set of items and   *)
(* every bound.                                                              *)
EXTENDS RemoteLink, TLAPS

\* An element of a sequence over a set is in the set.
LEMMA Elements ==
    ASSUME NEW S, NEW s \in Seq(S), NEW n \in 1..Len(s)
    PROVE  s[n] \in S
OBVIOUS

\* Every state is well typed: the drops counted stay below the number allowed,
\* and the calls until the next attempt to connect run out at zero.
THEOREM TypeCorrect == Spec => []TypeOK
<1>0. /\ tcpip_drops_allowed \in Nat \ {0} /\ RetryCalls \in Nat \ {0}
      /\ MaxOrders \in Nat /\ MaxFalls \in Nat /\ MaxLate \in Nat
  BY LinkAssumption
<1>. USE DEF TypeOK
<1>1. Init => TypeOK
  <2>. SUFFICES ASSUME Init PROVE TypeOK
    OBVIOUS
  <2>1. 0 \in Value
    BY <1>0 DEF Value
  <2>2. call \in Command
    BY <2>1 DEF Init, Command
  <2>3. radio \in [Items -> Value] /\ known \in [Items -> Value]
    BY <2>1 DEF Init
  <2>4. inbox \in Seq(Command) /\ wire \in Seq(Answer) /\ rxbuffer \in Seq(Answer)
    BY DEF Init
  <2>5. /\ drop_count \in 0..tcpip_drops_allowed - 1 /\ retry_after \in 0..RetryCalls
        /\ orders \in 0..MaxOrders /\ falls \in 0..MaxFalls /\ lates \in 0..MaxLate
    BY <1>0 DEF Init
  <2>. QED  BY <2>2, <2>3, <2>4, <2>5 DEF Init
<1>2. TypeOK /\ [Next]_vars => TypeOK'
  <2>. SUFFICES ASSUME TypeOK, [Next]_vars PROVE TypeOK'
    OBVIOUS
  <2>. USE DEF peer, AfterSend
  <2>1. ASSUME NEW i \in Items, Read(i) PROVE TypeOK'
    BY <2>1, <1>0 DEF Read, Value, Command
  <2>2. ASSUME NEW i \in Items, SetItem(i) PROVE TypeOK'
    BY <2>2, <1>0 DEF SetItem, Value, Command
  <2>3. CASE Drain
    BY <2>3, <1>0 DEF Drain
  <2>4. CASE EndDrain
    BY <2>4, <1>0 DEF EndDrain
  <2>5. CASE SkipSend
    BY <2>5, <1>0 DEF SkipSend
  <2>6. CASE Connect
    BY <2>6, <1>0 DEF Connect
  <2>7. CASE ConnectFails
    BY <2>7, <1>0 DEF ConnectFails
  <2>8. CASE Send
    <3>1. Append(inbox, call) \in Seq(Command)
      OBVIOUS
    <3>2. inbox' \in Seq(Command)
      BY <2>8, <3>1 DEF Send
    <3>. QED  BY <2>8, <3>2, <1>0 DEF Send
  <2>9. CASE SendFails
    BY <2>9, <1>0 DEF SendFails
  <2>10. CASE Disconnect
    BY <2>10, <1>0 DEF Disconnect
  <2>11. CASE Join
    BY <2>11, <1>0 DEF Join
  <2>12. CASE Take
    <3>1. Fits(rxbuffer) => rxbuffer[1].val \in Value
      <4>. SUFFICES ASSUME Fits(rxbuffer) PROVE rxbuffer[1].val \in Value
        OBVIOUS
      <4>1. rxbuffer \in Seq(Answer) /\ 1 \in 1..Len(rxbuffer)
        BY DEF Fits
      <4>2. rxbuffer[1] \in Answer
        BY <4>1, Elements
      <4>. QED  BY <4>2 DEF Answer
    <3>2. known' \in [Items -> Value]
      BY <2>12, <3>1 DEF Take
    <3>. QED  BY <2>12, <3>2 DEF Take
  <2>13. CASE TimeOut
    BY <2>13, <1>0 DEF TimeOut
  <2>14. CASE RecvBegin
    BY <2>14, <1>0 DEF RecvBegin
  <2>15. CASE RecvEnd
    <3>1. rxbuffer' \in Seq(Answer) /\ wire' \in Seq(Answer)
      BY <2>15 DEF RecvEnd
    <3>. QED  BY <2>15, <3>1 DEF RecvEnd
  <2>16. CASE RecvExit
    BY <2>16, <1>0 DEF RecvExit
  <2>17. CASE Execute
    <3>1. Head(inbox) \in Command /\ inbox' \in Seq(Command)
      BY <2>17 DEF Execute
    <3>2. Head(inbox).item \in Items /\ Head(inbox).val \in Value
      BY <3>1 DEF Command
    <3>3. [item |-> Head(inbox).item, val |-> radio[Head(inbox).item]] \in Answer
      BY <3>2 DEF Answer
    <3>4. radio' \in [Items -> Value]
      BY <2>17, <3>2 DEF Execute
    <3>5. Append(wire, [item |-> Head(inbox).item, val |-> radio[Head(inbox).item]]) \in Seq(Answer)
      BY <3>3
    <3>6. wire' \in Seq(Answer)
      BY <2>17, <3>5 DEF Execute
    <3>. QED  BY <2>17, <3>1, <3>4, <3>6 DEF Execute
  <2>18. CASE ServerGoes
    <3>1. conn' \in {"none", "live", "silent", "reset"} /\ inbox' \in Seq(Command)
      BY <2>18 DEF ServerGoes
    <3>2. falls' \in 0..MaxFalls
      BY <2>18, <1>0 DEF ServerGoes
    <3>. QED  BY <2>18, <3>1, <3>2 DEF ServerGoes
  <2>19. CASE ServerReturns
    BY <2>19, <1>0 DEF ServerReturns
  <2>20. CASE Reset
    BY <2>20, <1>0 DEF Reset
  <2>21. CASE UNCHANGED vars
    BY <2>21 DEF vars
  <2>. QED
    BY <2>1, <2>2, <2>3, <2>4, <2>5, <2>6, <2>7, <2>8, <2>9, <2>10, <2>11, <2>12, <2>13, <2>14, <2>15, <2>16, <2>17, <2>18, <2>19, <2>20, <2>21
       DEF Next, Call, rcv_socket_loop
<1>. QED  BY <1>1, <1>2, PTL DEF Spec

-----------------------------------------------------------------------------
\* The receiving thread and the flag that ends it.
ThreadOK ==
    /\ conn # "none" => rx # "none" /\ ~exit_socket_loop
    /\ exit_socket_loop => rx # "none" /\ at \in {"join", "crashed"}
    /\ at = "join" => conn = "none"
    /\ NoneBetween

LEMMA ThreadOKInitially == Init => ThreadOK
BY DEF Init, ThreadOK, NoneBetween

LEMMA ThreadOKKept == ThreadOK /\ [Next]_vars => ThreadOK'
<1>. SUFFICES ASSUME ThreadOK, [Next]_vars PROVE ThreadOK'
  OBVIOUS
<1>. USE DEF ThreadOK, NoneBetween
<1>1. ASSUME NEW i \in Items, Read(i) PROVE ThreadOK'
  BY <1>1 DEF Read
<1>2. ASSUME NEW i \in Items, SetItem(i) PROVE ThreadOK'
  BY <1>2 DEF SetItem
<1>3. CASE Drain
  BY <1>3 DEF Drain
<1>4. CASE EndDrain
  BY <1>4 DEF EndDrain
<1>5. CASE SkipSend
  BY <1>5 DEF SkipSend, AfterSend
<1>6. CASE Connect
  BY <1>6 DEF Connect
<1>7. CASE ConnectFails
  BY <1>7 DEF ConnectFails, AfterSend
<1>8. CASE Send
  BY <1>8 DEF Send, AfterSend
<1>9. CASE SendFails
  BY <1>9 DEF SendFails, AfterSend
<1>10. CASE Disconnect
  BY <1>10 DEF Disconnect
<1>11. CASE Join
  BY <1>11 DEF Join, AfterSend
<1>12. CASE Take
  BY <1>12 DEF Take
<1>13. CASE TimeOut
  BY <1>13 DEF TimeOut
<1>14. CASE RecvBegin
  BY <1>14 DEF RecvBegin
<1>15. CASE RecvEnd
  BY <1>15 DEF RecvEnd
<1>16. CASE RecvExit
  BY <1>16 DEF RecvExit
<1>17. CASE Execute
  BY <1>17 DEF Execute
<1>18. CASE ServerGoes
  BY <1>18 DEF ServerGoes
<1>19. CASE ServerReturns
  BY <1>19 DEF ServerReturns
<1>20. CASE Reset
  BY <1>20 DEF Reset
<1>21. CASE UNCHANGED vars
  BY <1>21 DEF vars
<1>. QED
  BY <1>1, <1>2, <1>3, <1>4, <1>5, <1>6, <1>7, <1>8, <1>9, <1>10, <1>11, <1>12, <1>13, <1>14, <1>15, <1>16, <1>17, <1>18, <1>19, <1>20, <1>21
     DEF Next, Call, rcv_socket_loop

\* While there is a connection, the receiving thread runs.
THEOREM ReceiverRunsAlways == Spec => []ReceiverRuns
<1>1. ThreadOK => ReceiverRuns
  BY DEF ThreadOK, ReceiverRuns
<1>. QED  BY <1>1, ThreadOKInitially, ThreadOKKept, PTL DEF Spec

\* Between two connections there is none, unless it is being joined.
THEOREM NoneBetweenAlways == Spec => []NoneBetween
<1>1. ThreadOK => NoneBetween
  BY DEF ThreadOK
<1>. QED  BY <1>1, ThreadOKInitially, ThreadOKKept, PTL DEF Spec

-----------------------------------------------------------------------------
\* An answer that has left the set is still true.
AnswersTrue ==
    /\ \A n \in 1..Len(wire) : wire[n].val = radio[wire[n].item]
    /\ \A n \in 1..Len(rxbuffer) : rxbuffer[n].val = radio[rxbuffer[n].item]

\* Because an order goes out alone.
OrderAlone ==
    /\ \A n \in 1..Len(inbox) :
           inbox[n].op = "order" => n = 1 /\ wire = <<>> /\ rxbuffer = <<>>
    /\ at = "send" /\ call.op = "order" => inbox = <<>> /\ wire = <<>> /\ rxbuffer = <<>>

\* What the state of the connection says of the three queues.
QueuesOK ==
    /\ conn # "live" => inbox = <<>>
    /\ conn \in {"none", "reset"} => wire = <<>>
    /\ conn = "none" => rxbuffer = <<>>
    /\ drop_count > 0 => conn = "reset" /\ (at # "wait" => rxbuffer = <<>>)

\* flrig's record covers the set's, and every order under way.
RecordOK ==
    /\ \A i \in Items : radio[i] <= known[i] /\ known[i] <= orders
    /\ \A n \in 1..Len(inbox) :
           inbox[n].op = "order" => inbox[n].val <= known[inbox[n].item]
    /\ at \in {"drain", "send"} /\ call.op = "order" => call.val <= known[call.item]

LinkInv == AnswersTrue /\ OrderAlone /\ QueuesOK /\ RecordOK

LEMMA LinkInvInitially == Init => LinkInv
<1>. SUFFICES ASSUME Init PROVE LinkInv
  OBVIOUS
<1>1. Len(inbox) = 0 /\ Len(wire) = 0 /\ Len(rxbuffer) = 0
  BY DEF Init
<1>. QED  BY <1>1 DEF Init, LinkInv, AnswersTrue, OrderAlone, QueuesOK, RecordOK

LEMMA LinkInvKept ==
    ASSUME tcpip_drops_allowed >= 2, TypeOK, LinkInv, [Next]_vars
    PROVE  LinkInv'
<1>0. /\ orders \in Nat /\ drop_count \in Nat /\ tcpip_drops_allowed \in Nat
      /\ call.item \in Items /\ call.op \in {"read", "order"}
      /\ \A i \in Items : radio[i] \in Nat /\ known[i] \in Nat
  BY LinkAssumption DEF TypeOK, Value, Command
<1>. USE DEF LinkInv, AnswersTrue, OrderAlone, QueuesOK, RecordOK, peer
<1>1. ASSUME NEW i \in Items, Read(i) PROVE LinkInv'
  BY <1>1 DEF Read
<1>2. ASSUME NEW i \in Items, SetItem(i) PROVE LinkInv'
  <2>1. known \in [Items -> Value] /\ inbox \in Seq(Command)
    BY DEF TypeOK
  <2>2. known' = [known EXCEPT ![i] = orders + 1] /\ orders' = orders + 1
    BY <1>2 DEF SetItem
  <2>3. \A k \in Items : known'[k] = IF k = i THEN orders + 1 ELSE known[k]
    BY <2>1, <2>2
  <2>4. \A k \in Items : known[k] <= known'[k] /\ known'[k] <= orders'
    BY <1>0, <2>2, <2>3
  <2>5. \A k \in Items : radio'[k] <= known'[k]
    BY <1>0, <1>2, <2>3 DEF SetItem
  <2>6. \A n \in 1..Len(inbox) : inbox[n].item \in Items /\ inbox[n].val \in Nat
    <3>1. \A n \in 1..Len(inbox) : inbox[n] \in Command
      BY <2>1, Elements
    <3>2. Value \subseteq Nat
      BY LinkAssumption DEF Value
    <3>. QED  BY <3>1, <3>2 DEF Command
  <2>7. RecordOK'
    <3>1. \A n \in 1..Len(inbox) :
              inbox[n].op = "order" => inbox[n].val <= known'[inbox[n].item]
      BY <1>0, <2>3, <2>4, <2>6
    <3>2. call'.val <= known'[call'.item]
      BY <1>0, <1>2, <2>3 DEF SetItem
    <3>. QED  BY <1>2, <2>4, <2>5, <3>1, <3>2 DEF SetItem
  <2>8. AnswersTrue' /\ OrderAlone' /\ QueuesOK'
    BY <1>2 DEF SetItem
  <2>. QED  BY <2>7, <2>8
<1>3. CASE Drain
  BY <1>0, <1>3 DEF Drain
<1>4. CASE EndDrain
  BY <1>0, <1>4 DEF EndDrain, Drained
<1>5. CASE SkipSend
  BY <1>0, <1>5 DEF SkipSend, AfterSend
<1>6. CASE Connect
  BY <1>0, <1>6 DEF Connect
<1>7. CASE ConnectFails
  BY <1>0, <1>7 DEF ConnectFails, AfterSend
<1>8. CASE Send
  BY <1>0, <1>8 DEF Send, AfterSend
<1>9. CASE SendFails
  BY <1>0, <1>9 DEF SendFails, AfterSend
<1>10. CASE Disconnect
  BY <1>0, <1>10 DEF Disconnect
<1>11. CASE Join
  BY <1>0, <1>11 DEF Join, AfterSend
<1>12. CASE Take
  <2>1. known \in [Items -> Value]
    BY DEF TypeOK
  <2>2. rxbuffer # <<>> /\ rxbuffer' = <<>> /\ UNCHANGED <<inbox, wire, radio, orders, conn, call>>
    BY <1>12 DEF Take
  <2>3. \A n \in 1..Len(inbox) : inbox[n].op # "order"
    BY <2>2
  <2>4. known' = known \/ known' = [known EXCEPT ![call.item] = radio[call.item]]
    <3>1. Fits(rxbuffer) => rxbuffer[1].val = radio[call.item]
      BY DEF Fits
    <3>. QED  BY <1>12, <3>1 DEF Take
  <2>5. \A k \in Items : known'[k] = known[k] \/ known'[k] = radio[k]
    BY <2>1, <2>4
  <2>6. \A k \in Items : radio'[k] <= known'[k] /\ known'[k] <= orders'
    BY <1>0, <2>2, <2>5
  <2>7. RecordOK'
    BY <1>12, <2>2, <2>3, <2>6 DEF Take
  <2>8. AnswersTrue' /\ OrderAlone' /\ QueuesOK'
    BY <1>12, <2>2 DEF Take
  <2>. QED  BY <2>7, <2>8
<1>13. CASE TimeOut
  BY <1>0, <1>13 DEF TimeOut
<1>14. CASE RecvBegin
  BY <1>0, <1>14 DEF RecvBegin
<1>15. CASE RecvEnd
  BY <1>0, <1>15 DEF RecvEnd
<1>16. CASE RecvExit
  BY <1>0, <1>16 DEF RecvExit
<1>17. CASE Execute
  <2>. DEFINE c == Head(inbox)
  <2>1. /\ c = inbox[1] /\ 1 \in 1..Len(inbox)
        /\ \A n \in 1..Len(inbox') : inbox'[n] = inbox[n + 1] /\ n + 1 \in 1..Len(inbox)
    BY <1>17 DEF Execute, TypeOK
  <2>2. \A n \in 1..Len(inbox') : inbox'[n].op # "order"
    BY <2>1
  <2>3. c \in Command
    BY <2>1, Elements DEF TypeOK
  <2>4. radio \in [Items -> Value] /\ known' = known /\ orders' = orders
    BY <1>17 DEF TypeOK, Execute
  <2>5. CASE c.op = "order"
    <3>1. wire = <<>> /\ rxbuffer = <<>> /\ wire' = <<>> /\ rxbuffer' = <<>>
      BY <1>17, <2>1, <2>5 DEF Execute
    <3>2. radio' = [radio EXCEPT ![c.item] = c.val] /\ c.val <= known[c.item]
      BY <1>17, <2>1, <2>5 DEF Execute
    <3>3. \A i \in Items : radio'[i] <= known'[i] /\ known'[i] <= orders'
      BY <2>4, <3>2
    <3>4. AnswersTrue'
      BY <3>1
    <3>. QED  BY <1>17, <2>2, <3>1, <3>3, <3>4 DEF Execute
  <2>6. CASE c.op # "order"
    <3>. DEFINE a == [item |-> c.item, val |-> radio[c.item]]
    <3>1. wire' = Append(wire, a) /\ radio' = radio /\ rxbuffer' = rxbuffer
      BY <1>17, <2>6 DEF Execute
    <3>2. \A n \in 1..Len(wire') : wire'[n].val = radio'[wire'[n].item]
      BY <3>1 DEF TypeOK
    <3>3. conn = "live"
      BY <1>17 DEF Execute
    <3>4. AnswersTrue'
      BY <3>1, <3>2
    <3>5. ~(at = "send" /\ call.op = "order")
      BY <1>17 DEF Execute
    <3>6. OrderAlone' /\ QueuesOK' /\ RecordOK'
      BY <1>17, <2>2, <2>4, <3>1, <3>3, <3>5 DEF Execute
    <3>. QED  BY <3>4, <3>6
  <2>. QED  BY <2>5, <2>6
<1>18. CASE ServerGoes
  BY <1>0, <1>18 DEF ServerGoes
<1>19. CASE ServerReturns
  BY <1>0, <1>19 DEF ServerReturns
<1>20. CASE Reset
  BY <1>0, <1>20 DEF Reset
<1>21. CASE UNCHANGED vars
  BY <1>21 DEF vars
<1>. QED
  BY <1>1, <1>2, <1>3, <1>4, <1>5, <1>6, <1>7, <1>8, <1>9, <1>10, <1>11, <1>12, <1>13, <1>14, <1>15, <1>16, <1>17, <1>18, <1>19, <1>20, <1>21
     DEF Next, Call, rcv_socket_loop

\* With two drops allowed at least, no reading takes back an order.
THEOREM OrdersStandAlways ==
    ASSUME tcpip_drops_allowed >= 2
    PROVE  Spec => []OrdersStand
<1>1. TypeOK /\ LinkInv => OrdersStand
  <2>. SUFFICES ASSUME TypeOK, LinkInv, NEW i \in Items PROVE known[i] >= Due(i)
    BY DEF OrdersStand
  <2>. DEFINE ordered == {n \in 1..Len(inbox) : inbox[n].op = "order" /\ inbox[n].item = i}
  <2>0. known[i] \in Nat /\ radio[i] \in Nat /\ radio[i] <= known[i]
    BY LinkAssumption DEF TypeOK, Value, LinkInv, RecordOK
  <2>1. CASE ordered = {}
    BY <2>0, <2>1 DEF Due
  <2>2. CASE ordered # {}
    <3>1. ordered = {1}
      BY <2>2 DEF LinkInv, OrderAlone
    <3>2. Due(i) = inbox[1].val
      BY <3>1 DEF Due
    <3>3. inbox[1] \in Command /\ inbox[1].val <= known[inbox[1].item] /\ inbox[1].item = i
      BY <3>1, Elements DEF LinkInv, RecordOK, TypeOK
    <3>4. inbox[1].val \in Nat
      BY <3>3, LinkAssumption DEF Command, Value
    <3>. QED  BY <2>0, <3>2, <3>3, <3>4
  <2>. QED  BY <2>1, <2>2
<1>. QED  BY <1>1, LinkInvInitially, LinkInvKept, TypeCorrect, PTL DEF Spec

=============================================================================
