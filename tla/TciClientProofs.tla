---------------------------- MODULE TciClientProofs ----------------------------
(* What TLAPS proves of the TCI client, for every set of values, knobs and   *)
(* every bound.                                                              *)
EXTENDS TciClient, TLAPS

\* An element of a sequence over a set is in the set.
LEMMA Elements ==
    ASSUME NEW S, NEW s \in Seq(S), NEW n \in 1..Len(s)
    PROVE  s[n] \in S
OBVIOUS

\* The first element of a sequence, and what its removal leaves.
LEMMA HeadTail ==
    ASSUME NEW S, NEW s \in Seq(S), s # <<>>
    PROVE  /\ Head(s) = s[1] /\ Head(s) \in S /\ 1 \in 1..Len(s)
           /\ Tail(s) \in Seq(S) /\ Len(Tail(s)) = Len(s) - 1
           /\ \A n \in 1..Len(Tail(s)) : Tail(s)[n] = s[n + 1] /\ n + 1 \in 1..Len(s)
OBVIOUS

LEMMA Appending ==
    ASSUME NEW S, NEW s \in Seq(S), NEW e \in S
    PROVE  /\ Append(s, e) \in Seq(S) /\ Len(Append(s, e)) = Len(s) + 1
           /\ Append(s, e)[Len(s) + 1] = e
           /\ \A n \in 1..Len(s) : Append(s, e)[n] = s[n] /\ n \in 1..Len(Append(s, e))
           /\ \A n \in 1..Len(Append(s, e)) : n \in 1..Len(s) \/ n = Len(s) + 1
OBVIOUS

LEMMA NoOrderTyped == NoOrder \in Message
<1>1. (CHOOSE v \in Values : TRUE) \in Values
  BY TciAssumption
<1>. QED  BY <1>1 DEF NoOrder, Message, Items

\* Every state is well typed; in particular the readings an ordered mode stands
\* for run out at zero.
THEOREM TypeCorrect == Spec => []TypeOK
<1>0. /\ WAIT_ON_MODE \in Nat \ {0} /\ MaxChanges \in Nat /\ MaxLosses \in Nat
      /\ MaxPresses \in Nat /\ Knobs \subseteq Items
  BY TciAssumption
<1>. USE DEF TypeOK
<1>1. Init => TypeOK
  <2>. SUFFICES ASSUME Init PROVE TypeOK
    OBVIOUS
  <2>1. (CHOOSE v \in Values : TRUE) \in Values
    BY TciAssumption
  <2>2. radio \in [Items -> Values] /\ slice \in [Items -> Values]
    BY <2>1 DEF Init
  <2>3. imode \in [{"A", "B"} -> Values]
    BY <2>2, TciAssumption DEF Init, Items
  <2>4. call \in Message
    BY NoOrderTyped DEF Init
  <2>5. wait_on_mode \in 0..WAIT_ON_MODE /\ changes \in 0..MaxChanges
        /\ losses \in 0..MaxLosses /\ presses \in 0..MaxPresses
    BY <1>0 DEF Init
  <2>6. send_list \in Seq(Message) /\ commands \in Seq(Message) /\ reports \in Seq(Message)
    BY DEF Init
  <2>. QED  BY <2>2, <2>3, <2>4, <2>5, <2>6 DEF Init
<1>2. TypeOK /\ [Next]_vars => TypeOK'
  <2>. SUFFICES ASSUME TypeOK, [Next]_vars PROVE TypeOK'
    OBVIOUS
  <2>. USE DEF driver, socket
  <2>1. ASSUME NEW i \in Items, NEW v \in Values, Order(i, v) PROVE TypeOK'
    <3>1. call' \in Message
      BY <2>1 DEF Order, Message
    <3>2. slice' \in [Items -> Values] /\ changes' \in 0..MaxChanges
      BY <1>0, <2>1 DEF Order
    <3>. QED  BY <2>1, <3>1, <3>2 DEF Order
  <2>2. CASE TciSend
    BY <2>2 DEF TciSend
  <2>3. CASE PushBack
    <3>1. send_list' \in Seq(Message)
      BY <2>3, Appending DEF PushBack
    <3>. QED  BY <2>3, <3>1 DEF PushBack
  <2>4. CASE Record
    <3>1. call.item \in Items /\ call.val \in Values
      BY DEF Message
    <3>2. slice' \in [Items -> Values] /\ imode' \in [{"A", "B"} -> Values]
      BY <2>4, <3>1 DEF Record
    <3>3. wait_on_mode' \in 0..WAIT_ON_MODE
      BY <1>0, <2>4 DEF Record, Hidden
    <3>. QED  BY <2>4, <3>2, <3>3, NoOrderTyped DEF Record
  <2>5. CASE GetMode
    <3>1. Reading \in [{"A", "B"} -> Values]
      BY TciAssumption DEF Reading, NameFound, Items
    <3>2. wait_on_mode' \in 0..WAIT_ON_MODE /\ imode' \in [{"A", "B"} -> Values]
      BY <1>0, <2>5, <3>1 DEF GetMode
    <3>. QED  BY <2>5, <3>2 DEF GetMode
  <2>6. CASE Select
    BY <2>6 DEF Select
  <2>7. CASE LoopEnds
    BY <2>7 DEF LoopEnds
  <2>8. CASE LoopTop
    BY <2>8 DEF LoopTop
  <2>9. CASE LoopLock
    BY <2>9 DEF LoopLock
  <2>10. CASE LoopSend
    <3>1. send_list' \in Seq(Message) /\ commands' \in Seq(Message)
      <4>1. CASE send_list # <<>>
        <5>1. /\ send_list' = Tail(send_list)
              /\ commands' = Append(commands, Head(send_list))
          BY <2>10, <4>1 DEF LoopSend
        <5>2. Head(send_list) \in Message /\ Tail(send_list) \in Seq(Message)
          BY <4>1, HeadTail
        <5>3. Append(commands, Head(send_list)) \in Seq(Message)
          BY <5>2, Appending
        <5>. QED  BY <5>1, <5>2, <5>3
      <4>2. CASE send_list = <<>>
        BY <2>10, <4>2 DEF LoopSend
      <4>. QED  BY <4>1, <4>2
    <3>. QED  BY <2>10, <3>1 DEF LoopSend
  <2>11. CASE Handle
    <3>1. Head(reports) \in Message /\ reports' \in Seq(Message)
      BY <2>11, HeadTail DEF Handle
    <3>2. slice' \in [Items -> Values]
      BY <2>11, <3>1 DEF Handle, Message
    <3>. QED  BY <2>11, <3>1, <3>2 DEF Handle
  <2>12. CASE LoopSleeps
    BY <2>12 DEF LoopSleeps
  <2>13. CASE Lost
    BY <1>0, <2>13 DEF Lost
  <2>14. CASE Press
    <3>1. presses' \in 0..MaxPresses
      BY <1>0, <2>14 DEF Press
    <3>2. fltk' \in {"idle", "reopen", "exit", "gone"}
      BY <2>14 DEF Press
    <3>. QED  BY <2>14, <3>1, <3>2 DEF Press
  <2>15. CASE Close
    BY <2>15 DEF Close
  <2>16. CASE Join
    <3>1. /\ send_list' \in Seq(Message) /\ commands' \in Seq(Message)
          /\ reports' \in Seq(Message)
      BY <2>16 DEF Join
    <3>. QED  BY <2>16, <3>1 DEF Join
  <2>17. CASE Open
    <3>1. /\ [item |-> "VFO", val |-> radio["VFO"]] \in Message
          /\ [item |-> "MODULATION", val |-> radio["MODULATION"]] \in Message
          /\ [item |-> "VOLUME", val |-> radio["VOLUME"]] \in Message
      BY DEF Message, Items
    <3>2. reports' \in Seq(Message)
      BY <2>17, <3>1 DEF Open
    <3>. QED  BY <2>17, <3>2 DEF Open
  <2>18. CASE OpenFails
    BY <2>18 DEF OpenFails
  <2>19. CASE Exit
    BY <2>19 DEF Exit
  <2>20. CASE Apply
    <3>1. Head(commands) \in Message /\ commands' \in Seq(Message)
      BY <2>20, HeadTail DEF Apply
    <3>2. radio' \in [Items -> Values]
      BY <2>20, <3>1 DEF Apply, Message
    <3>3. reports' \in Seq(Message)
      BY <2>20, <3>1, Appending DEF Apply
    <3>. QED  BY <2>20, <3>1, <3>2, <3>3 DEF Apply
  <2>21. ASSUME NEW i \in Knobs, NEW v \in Values, Turn(i, v) PROVE TypeOK'
    <3>1. [item |-> i, val |-> v] \in Message
      BY <1>0 DEF Message
    <3>2. reports' \in Seq(Message)
      BY <2>21, <3>1, Appending DEF Turn
    <3>3. radio' \in [Items -> Values] /\ changes' \in 0..MaxChanges
      BY <1>0, <2>21 DEF Turn
    <3>. QED  BY <2>21, <3>2, <3>3 DEF Turn
  <2>22. CASE UNCHANGED vars
    BY <2>22 DEF vars
  <2>. QED
    BY <2>1, <2>2, <2>3, <2>4, <2>5, <2>6, <2>7, <2>8, <2>9, <2>10, <2>11, <2>12, <2>13, <2>14, <2>15, <2>16, <2>17, <2>18, <2>19, <2>20, <2>21, <2>22
       DEF Next
<1>. QED  BY <1>1, <1>2, PTL DEF Spec

-----------------------------------------------------------------------------
\* Who holds run_mutex, and what the list and the thread need: the list lives
\* as long as the socket, and outlives every use.
ListInv ==
    /\ listed <=> ws # "none"
    /\ loop # "none" => listed
    /\ at = "push" <=> run_mutex = "caller"
    /\ at = "push" => listed

LEMMA ListInvKept == ListInv /\ [Next]_vars => ListInv'
<1>. SUFFICES ASSUME ListInv, [Next]_vars PROVE ListInv'
  OBVIOUS
<1>. USE DEF ListInv, driver, socket
<1>1. ASSUME NEW i \in Items, NEW v \in Values, Order(i, v) PROVE ListInv'
  BY <1>1 DEF Order
<1>2. CASE TciSend
  BY <1>2 DEF TciSend
<1>3. CASE PushBack
  BY <1>3 DEF PushBack
<1>4. CASE Record
  BY <1>4 DEF Record
<1>5. CASE GetMode
  BY <1>5 DEF GetMode
<1>6. CASE Select
  BY <1>6 DEF Select
<1>7. CASE LoopEnds
  BY <1>7 DEF LoopEnds
<1>8. CASE LoopTop
  BY <1>8 DEF LoopTop
<1>9. CASE LoopLock
  BY <1>9 DEF LoopLock
<1>10. CASE LoopSend
  BY <1>10 DEF LoopSend
<1>11. CASE Handle
  BY <1>11 DEF Handle
<1>12. CASE LoopSleeps
  BY <1>12 DEF LoopSleeps
<1>13. CASE Lost
  BY <1>13 DEF Lost
<1>14. CASE Press
  BY <1>14 DEF Press
<1>15. CASE Close
  BY <1>15 DEF Close
<1>16. CASE Join
  BY <1>16 DEF Join
<1>17. CASE Open
  BY <1>17 DEF Open
<1>18. CASE OpenFails
  BY <1>18 DEF OpenFails
<1>19. CASE Exit
  BY <1>19 DEF Exit
<1>20. CASE Apply
  BY <1>20 DEF Apply
<1>21. ASSUME NEW i \in Knobs, NEW v \in Values, Turn(i, v) PROVE ListInv'
  BY <1>21 DEF Turn
<1>22. CASE UNCHANGED vars
  BY <1>22 DEF vars
<1>. QED
  BY <1>1, <1>2, <1>3, <1>4, <1>5, <1>6, <1>7, <1>8, <1>9, <1>10, <1>11, <1>12, <1>13, <1>14, <1>15, <1>16, <1>17, <1>18, <1>19, <1>20, <1>21, <1>22
     DEF Next

\* send_list is there whenever tci_send adds to it and tci_loop runs.
THEOREM ListAliveAlways == Spec => []ListAlive
<1>1. Init => ListInv
  BY DEF Init, ListInv
<1>2. ListInv => ListAlive
  BY DEF ListInv, ListAlive
<1>. QED  BY <1>1, <1>2, ListInvKept, PTL DEF Spec

-----------------------------------------------------------------------------
\* send_mutex is held exactly while tci_loop sends, and never by tci_close.
LockInv ==
    /\ loop = "sending" <=> send_mutex = "loop"
    /\ send_mutex # "closer"

LEMMA LockInvKept == ListInv /\ LockInv /\ [Next]_vars => LockInv'
<1>. SUFFICES ASSUME ListInv, LockInv, [Next]_vars PROVE LockInv'
  OBVIOUS
<1>. USE DEF ListInv, LockInv, driver, socket
<1>1. ASSUME NEW i \in Items, NEW v \in Values, Order(i, v) PROVE LockInv'
  BY <1>1 DEF Order
<1>2. CASE TciSend
  BY <1>2 DEF TciSend
<1>3. CASE PushBack
  BY <1>3 DEF PushBack
<1>4. CASE Record
  BY <1>4 DEF Record
<1>5. CASE GetMode
  BY <1>5 DEF GetMode
<1>6. CASE Select
  BY <1>6 DEF Select
<1>7. CASE LoopEnds
  BY <1>7 DEF LoopEnds
<1>8. CASE LoopTop
  BY <1>8 DEF LoopTop
<1>9. CASE LoopLock
  BY <1>9 DEF LoopLock
<1>10. CASE LoopSend
  BY <1>10 DEF LoopSend
<1>11. CASE Handle
  BY <1>11 DEF Handle
<1>12. CASE LoopSleeps
  BY <1>12 DEF LoopSleeps
<1>13. CASE Lost
  BY <1>13 DEF Lost
<1>14. CASE Press
  BY <1>14 DEF Press
<1>15. CASE Close
  BY <1>15 DEF Close
<1>16. CASE Join
  BY <1>16 DEF Join
<1>17. CASE Open
  BY <1>17 DEF Open
<1>18. CASE OpenFails
  BY <1>18 DEF OpenFails
<1>19. CASE Exit
  BY <1>19 DEF Exit
<1>20. CASE Apply
  BY <1>20 DEF Apply
<1>21. ASSUME NEW i \in Knobs, NEW v \in Values, Turn(i, v) PROVE LockInv'
  BY <1>21 DEF Turn
<1>22. CASE UNCHANGED vars
  BY <1>22 DEF vars
<1>. QED
  BY <1>1, <1>2, <1>3, <1>4, <1>5, <1>6, <1>7, <1>8, <1>9, <1>10, <1>11, <1>12, <1>13, <1>14, <1>15, <1>16, <1>17, <1>18, <1>19, <1>20, <1>21, <1>22
     DEF Next

\* No circle of threads waits for one another.
THEOREM NoDeadlockAlways == Spec => []NoDeadlock
<1>1. Init => ListInv /\ LockInv
  BY DEF Init, ListInv, LockInv
<1>2. TypeOK /\ ListInv /\ LockInv => NoDeadlock
  <2>. SUFFICES ASSUME TypeOK, ListInv, LockInv PROVE NoDeadlock
    OBVIOUS
  <2>. USE DEF TypeOK, ListInv, LockInv, Waits
  <2>1. \A u \in {"caller", "loop", "closer"} : <<"loop", u>> \notin Waits
    OBVIOUS
  <2>2. <<"caller", "caller">> \notin Waits /\ <<"closer", "closer">> \notin Waits
    OBVIOUS
  <2>3. ~(<<"caller", "closer">> \in Waits /\ <<"closer", "caller">> \in Waits)
    OBVIOUS
  <2>. HIDE DEF TypeOK, ListInv, LockInv, Waits
  <2>4. ASSUME NEW S \in SUBSET {"caller", "loop", "closer"}, S # {}
        PROVE  \E t \in S : \A u \in S : <<t, u>> \notin Waits
    <3>1. CASE "loop" \in S
      BY <2>1, <3>1
    <3>2. CASE "loop" \notin S /\ "caller" \in S
      BY <2>2, <2>3, <3>2
    <3>3. CASE "loop" \notin S /\ "caller" \notin S
      BY <2>2, <2>4, <3>3
    <3>. QED  BY <3>1, <3>2, <3>3
  <2>. QED  BY <2>4 DEF NoDeadlock
<1>. QED  BY <1>1, <1>2, ListInvKept, LockInvKept, TypeCorrect, PTL DEF Spec

-----------------------------------------------------------------------------
\* An order of item i is on its way to the program.
Ordering(i) ==
    \/ at \in {"send", "push"} /\ call.item = i
    \/ \E n \in 1..Len(send_list) : send_list[n].item = i
    \/ \E n \in 1..Len(commands) : commands[n].item = i

\* The last report of item i on its way says what the program has.
Reporting(i) ==
    \E n \in 1..Len(reports) :
        /\ reports[n].item = i /\ reports[n].val = radio[i]
        /\ \A k \in 1..Len(reports) : k > n => reports[k].item # i

\* Nothing is, and slice_0 agrees.
Settled(i) ==
    /\ \A k \in 1..Len(reports) : reports[k].item # i
    /\ slice[i] = radio[i]

Told == {"VFO", "MODULATION"}
AgreeInv == ws = "open" => \A i \in Told : Ordering(i) \/ Reporting(i) \/ Settled(i)

LEMMA AgreeInvKept == TypeOK /\ ListInv /\ AgreeInv /\ [Next]_vars => AgreeInv'
<1>. SUFFICES ASSUME TypeOK, ListInv, AgreeInv, [Next]_vars, ws' = "open",
                     NEW i \in Told
              PROVE  (Ordering(i) \/ Reporting(i) \/ Settled(i))'
  BY DEF AgreeInv
<1>. DEFINE Goal == (Ordering(i) \/ Reporting(i) \/ Settled(i))'
<1>0. i \in Items /\ (ws = "open" => Ordering(i) \/ Reporting(i) \/ Settled(i))
  BY DEF AgreeInv, Told, Items
<1>. USE DEF driver, socket
\* A step that leaves the queues, the caller's order and the item alone.
<1>a. ASSUME ws = "open", slice'[i] = slice[i], radio' = radio, reports' = reports,
             commands' = commands, send_list' = send_list,
             at \in {"send", "push"} /\ call.item = i
                => at' \in {"send", "push"} /\ call'.item = i
      PROVE  Goal
  BY <1>0, <1>a DEF Ordering, Reporting, Settled
<1>1. ASSUME NEW j \in Items, NEW v \in Values, Order(j, v) PROVE Goal
  <2>1. CASE j = i
    BY <1>1, <2>1 DEF Order, Ordering
  <2>2. CASE j # i
    <3>1. slice'[i] = slice[i]
      BY <1>0, <1>1, <2>2 DEF Order, TypeOK
    <3>. QED  BY <1>1, <3>1, <1>a DEF Order
  <2>. QED  BY <2>1, <2>2
<1>2. CASE TciSend
  <2>1. listed
    BY <1>2 DEF TciSend, ListInv
  <2>. QED  BY <1>2, <2>1, <1>a DEF TciSend
<1>3. CASE PushBack
  <2>1. send_list \in Seq(Message) /\ call \in Message /\ send_list' = Append(send_list, call)
    BY <1>3 DEF PushBack, TypeOK
  <2>2. CASE call.item = i
    <3>1. send_list'[Len(send_list) + 1] = call /\ Len(send_list) + 1 \in 1..Len(send_list')
      BY <2>1, Appending
    <3>. QED  BY <2>2, <3>1 DEF Ordering
  <2>3. CASE call.item # i
    <3>1. \A n \in 1..Len(send_list) : send_list'[n] = send_list[n] /\ n \in 1..Len(send_list')
      BY <2>1, Appending
    <3>2. /\ ws = "open"
          /\ UNCHANGED <<slice, radio, reports, commands>>
      BY <1>3 DEF PushBack
    <3>. QED  BY <1>0, <2>3, <3>1, <3>2 DEF Ordering, Reporting, Settled
  <2>. QED  BY <2>2, <2>3
<1>4. CASE Record
  <2>1. slice'[i] = slice[i]
    BY <1>0, <1>4 DEF Record, RecordedFirst, Told, TypeOK
  <2>. QED  BY <1>4, <2>1, <1>a DEF Record
<1>5. CASE GetMode
  BY <1>5, <1>a DEF GetMode
<1>6. CASE Select
  BY <1>6, <1>a DEF Select
<1>7. CASE LoopEnds
  BY <1>7, <1>a DEF LoopEnds
<1>8. CASE LoopTop
  BY <1>8, <1>a DEF LoopTop
<1>9. CASE LoopLock
  BY <1>9, <1>a DEF LoopLock
<1>10. CASE LoopSend
  <2>1. CASE send_list = <<>>
    BY <1>10, <2>1, <1>a DEF LoopSend
  <2>2. CASE send_list # <<>>
    <3>0. /\ send_list' = Tail(send_list) /\ commands' = Append(commands, Head(send_list))
          /\ UNCHANGED <<ws, slice, radio, reports, at, call>>
      BY <1>10, <2>2 DEF LoopSend
    <3>1. /\ send_list \in Seq(Message) /\ commands \in Seq(Message)
          /\ Head(send_list) = send_list[1] /\ Head(send_list) \in Message
          /\ Len(send_list') = Len(send_list) - 1
          /\ \A n \in 1..Len(send_list') : send_list'[n] = send_list[n + 1]
      BY <2>2, <3>0, HeadTail DEF TypeOK
    <3>2. /\ commands'[Len(commands) + 1] = send_list[1]
          /\ Len(commands) + 1 \in 1..Len(commands')
          /\ \A n \in 1..Len(commands) : commands'[n] = commands[n] /\ n \in 1..Len(commands')
      BY <3>0, <3>1, Appending
    <3>3. ASSUME NEW n \in 1..Len(send_list), send_list[n].item = i PROVE Goal
      <4>1. CASE n = 1
        BY <3>2, <3>3, <4>1 DEF Ordering
      <4>2. CASE n # 1
        <5>1. n - 1 \in 1..Len(send_list') /\ send_list'[n - 1] = send_list[n]
          BY <3>1, <4>2
        <5>. QED  BY <3>3, <5>1 DEF Ordering
      <4>. QED  BY <4>1, <4>2
    <3>4. ASSUME NEW n \in 1..Len(commands), commands[n].item = i PROVE Goal
      BY <3>2, <3>4 DEF Ordering
    <3>5. CASE at \in {"send", "push"} /\ call.item = i
      BY <3>0, <3>5 DEF Ordering
    <3>6. CASE Reporting(i) \/ Settled(i)
      BY <3>0, <3>6 DEF Reporting, Settled
    <3>. QED  BY <1>0, <3>0, <3>3, <3>4, <3>5, <3>6 DEF Ordering
  <2>. QED  BY <2>1, <2>2
<1>11. CASE Handle
  <2>. DEFINE h == Head(reports)
  <2>0. /\ reports' = Tail(reports) /\ slice' = [slice EXCEPT ![h.item] = h.val]
        /\ UNCHANGED <<ws, radio, send_list, commands, at, call>>
    BY <1>11 DEF Handle
  <2>1. /\ reports \in Seq(Message) /\ h = reports[1] /\ h \in Message
        /\ Len(reports') = Len(reports) - 1 /\ 1 \in 1..Len(reports)
        /\ \A n \in 1..Len(reports') : reports'[n] = reports[n + 1] /\ n + 1 \in 1..Len(reports)
    BY <1>11, <2>0, HeadTail DEF Handle, TypeOK
  <2>2. slice \in [Items -> Values] /\ h.item \in Items
    BY <2>1 DEF TypeOK, Message
  <2>3. CASE Ordering(i)
    BY <2>0, <2>3 DEF Ordering
  <2>4. CASE Reporting(i)
    <3>1. PICK n \in 1..Len(reports) :
              /\ reports[n].item = i /\ reports[n].val = radio[i]
              /\ \A k \in 1..Len(reports) : k > n => reports[k].item # i
      BY <2>4 DEF Reporting
    <3>2. CASE n = 1
      <4>1. \A k \in 1..Len(reports') : reports'[k].item # i
        BY <2>1, <3>1, <3>2
      <4>2. slice'[i] = radio'[i]
        BY <1>0, <2>0, <2>1, <2>2, <3>1, <3>2
      <4>. QED  BY <4>1, <4>2 DEF Settled
    <3>3. CASE n # 1
      <4>1. n - 1 \in 1..Len(reports') /\ reports'[n - 1] = reports[n]
        BY <2>1, <3>3
      <4>2. \A k \in 1..Len(reports') : k > n - 1 => reports'[k].item # i
        BY <2>1, <3>1
      <4>. QED  BY <2>0, <3>1, <4>1, <4>2 DEF Reporting
    <3>. QED  BY <3>2, <3>3
  <2>5. CASE Settled(i)
    <3>1. h.item # i
      BY <2>1, <2>5 DEF Settled
    <3>2. slice'[i] = radio'[i]
      BY <1>0, <2>0, <2>2, <2>5, <3>1 DEF Settled
    <3>3. \A k \in 1..Len(reports') : reports'[k].item # i
      BY <2>1, <2>5 DEF Settled
    <3>. QED  BY <3>2, <3>3 DEF Settled
  <2>. QED  BY <1>0, <2>0, <2>3, <2>4, <2>5
<1>12. CASE LoopSleeps
  BY <1>12, <1>a DEF LoopSleeps
<1>13. CASE Lost
  BY <1>13 DEF Lost
<1>14. CASE Press
  BY <1>14, <1>a DEF Press
<1>15. CASE Close
  BY <1>15, <1>a DEF Close
<1>16. CASE Join
  BY <1>16 DEF Join
<1>17. CASE Open
  <2>1. /\ reports' = << [item |-> "VFO", val |-> radio["VFO"]],
                         [item |-> "MODULATION", val |-> radio["MODULATION"]],
                         [item |-> "VOLUME", val |-> radio["VOLUME"]] >>
        /\ radio' = radio
    BY <1>17 DEF Open
  <2>2. /\ Len(reports') = 3 /\ 1 \in 1..3 /\ 2 \in 1..3
        /\ reports'[1].item = "VFO" /\ reports'[1].val = radio'["VFO"]
        /\ reports'[2].item = "MODULATION" /\ reports'[2].val = radio'["MODULATION"]
        /\ reports'[3].item = "VOLUME"
    BY <2>1
  <2>3. \A k \in 1..3 : k = 1 \/ k = 2 \/ k = 3
    OBVIOUS
  <2>4. CASE i = "VFO"
    <3>1. \A k \in 1..3 : k > 1 => reports'[k].item # "VFO"
      BY <2>2, <2>3
    <3>. QED  BY <2>2, <2>4, <3>1 DEF Reporting
  <2>5. CASE i = "MODULATION"
    <3>1. \A k \in 1..3 : k > 2 => reports'[k].item # "MODULATION"
      BY <2>2, <2>3
    <3>. QED  BY <2>2, <2>5, <3>1 DEF Reporting
  <2>. QED  BY <2>4, <2>5 DEF Told
<1>18. CASE OpenFails
  BY <1>18 DEF OpenFails
<1>19. CASE Exit
  BY <1>19 DEF Exit
\* What the program has changed is the last report.
<1>b. ASSUME NEW m \in Message, reports' = Append(reports, m),
             radio' = [radio EXCEPT ![m.item] = m.val],
             ws = "open", slice' = slice, at' = at, call' = call, send_list' = send_list,
             \A n \in 1..Len(commands) : commands[n].item = i =>
                 m.item = i \/ \E k \in 1..Len(commands') : commands'[k].item = i
      PROVE  Goal
  <2>1. /\ reports \in Seq(Message) /\ radio \in [Items -> Values] /\ m.item \in Items
        /\ Len(reports') = Len(reports) + 1 /\ reports'[Len(reports) + 1] = m
        /\ \A n \in 1..Len(reports) : reports'[n] = reports[n] /\ n \in 1..Len(reports')
        /\ \A n \in 1..Len(reports') : n \in 1..Len(reports) \/ n = Len(reports) + 1
    BY <1>b, Appending DEF TypeOK, Message
  <2>2. CASE m.item = i
    <3>1. Len(reports) + 1 \in 1..Len(reports') /\ radio'[i] = m.val
      BY <1>b, <2>1, <2>2
    <3>2. \A k \in 1..Len(reports') : k > Len(reports) + 1 => reports'[k].item # i
      BY <2>1
    <3>. QED  BY <2>1, <2>2, <3>1, <3>2 DEF Reporting
  <2>3. CASE m.item # i
    <3>1. radio'[i] = radio[i]
      BY <1>0, <1>b, <2>1, <2>3
    <3>2. CASE Ordering(i)
      BY <1>b, <2>3, <3>2 DEF Ordering
    <3>3. CASE Reporting(i)
      <4>1. PICK n \in 1..Len(reports) :
                /\ reports[n].item = i /\ reports[n].val = radio[i]
                /\ \A k \in 1..Len(reports) : k > n => reports[k].item # i
        BY <3>3 DEF Reporting
      <4>2. \A k \in 1..Len(reports') : k > n => reports'[k].item # i
        BY <2>1, <2>3, <4>1
      <4>3. n \in 1..Len(reports') /\ reports'[n] = reports[n]
        BY <2>1
      <4>. QED  BY <3>1, <4>1, <4>2, <4>3 DEF Reporting
    <3>4. CASE Settled(i)
      <4>1. \A k \in 1..Len(reports') : reports'[k].item # i
        BY <2>1, <2>3, <3>4 DEF Settled
      <4>. QED  BY <1>b, <3>1, <3>4, <4>1 DEF Settled
    <3>. QED  BY <1>0, <1>b, <3>2, <3>3, <3>4
  <2>. QED  BY <2>2, <2>3
<1>20. CASE Apply
  <2>1. /\ commands \in Seq(Message) /\ Head(commands) \in Message
        /\ Head(commands) = commands[1] /\ commands' = Tail(commands)
        /\ Len(commands') = Len(commands) - 1
        /\ \A n \in 1..Len(commands') : commands'[n] = commands[n + 1]
    BY <1>20, HeadTail DEF Apply, TypeOK
  <2>2. ASSUME NEW n \in 1..Len(commands), commands[n].item = i, Head(commands).item # i
        PROVE  \E k \in 1..Len(commands') : commands'[k].item = i
    <3>1. n - 1 \in 1..Len(commands') /\ commands'[n - 1] = commands[n]
      BY <2>1, <2>2
    <3>. QED  BY <2>2, <3>1
  <2>3. /\ reports' = Append(reports, Head(commands)) /\ ws = "open"
        /\ radio' = [radio EXCEPT ![Head(commands).item] = Head(commands).val]
        /\ UNCHANGED <<slice, at, call, send_list>>
    BY <1>20 DEF Apply
  <2>. QED  BY <2>1, <2>2, <2>3, <1>b
<1>21. ASSUME NEW j \in Knobs, NEW v \in Values, Turn(j, v) PROVE Goal
  <2>. DEFINE m == [item |-> j, val |-> v]
  <2>1. m \in Message /\ m.item = j /\ m.val = v
    BY TciAssumption DEF Message
  <2>2. /\ reports' = Append(reports, m) /\ ws = "open" /\ commands' = commands
        /\ radio' = [radio EXCEPT ![m.item] = m.val]
        /\ UNCHANGED <<slice, at, call, send_list>>
    BY <1>21 DEF Turn
  <2>. HIDE DEF m
  <2>. QED  BY <2>1, <2>2, <1>b
<1>22. CASE UNCHANGED vars
  BY <1>22, <1>a DEF vars
<1>. QED
  BY <1>1, <1>2, <1>3, <1>4, <1>5, <1>6, <1>7, <1>8, <1>9, <1>10, <1>11, <1>12, <1>13, <1>14, <1>15, <1>16, <1>17, <1>18, <1>19, <1>20, <1>21, <1>22
     DEF Next

\* Once nothing is queued or on its way, slice_0 has the frequency and the mode
\* of the SDR program.
THEOREM SliceAgreesAlways == Spec => []SliceAgrees
<1>1. Init => ListInv /\ AgreeInv
  BY DEF Init, ListInv, AgreeInv, Told, Items, Settled
<1>2. ListInv /\ [Next]_vars => ListInv'
  BY ListInvKept
<1>3. AgreeInv => SliceAgrees
  <2>. SUFFICES ASSUME AgreeInv, Quiet, NEW i \in Told PROVE slice[i] = radio[i]
    BY DEF SliceAgrees, Told
  <2>1. Len(send_list) = 0 /\ Len(commands) = 0 /\ Len(reports) = 0
    BY DEF Quiet
  <2>. QED  BY <2>1 DEF AgreeInv, Quiet, Ordering, Reporting, Settled
<1>. QED  BY <1>1, <1>2, <1>3, AgreeInvKept, TypeCorrect, PTL DEF Spec

\* A mode that flrig has from the program it keeps, for every way the names of the
\* modes are read and every number of readings an order hides: when nothing is on its way slice_0 agrees with the program
\* (SliceAgreesAlways), so that no reading finds another mode.
THEOREM ModeStaysAlways == Spec => ModeStays
<1>1. TypeOK /\ SliceAgrees /\ [Next]_vars
        => [ModeFollowed => \/ ModeFollowed'
                            \/ changes' > changes \/ inuse' = "B" \/ ws' # "open"]_vars
  <2>. SUFFICES ASSUME TypeOK, SliceAgrees, Next, ModeFollowed, ws' = "open",
                       ~(changes' > changes)
                PROVE  ModeFollowed' \/ inuse' = "B"
    OBVIOUS
  <2>. USE DEF ModeFollowed, Quiet
  <2>0. slice["MODULATION"] = radio["MODULATION"] /\ changes \in Nat
    BY DEF SliceAgrees, TypeOK
  <2>1. ASSUME NEW i \in Items, NEW v \in Values, Order(i, v) \/ Turn(i, v) PROVE FALSE
    BY <2>0, <2>1 DEF Order, Turn
  <2>2. ~TciSend /\ ~PushBack /\ ~Record
    BY DEF TciSend, PushBack, Record
  <2>3. CASE GetMode
    <3>1. imode' = imode
      BY <2>0, <2>3 DEF GetMode, Reading, NameFound
    <3>. QED  BY <2>3, <3>1 DEF GetMode, socket
  <2>4. CASE Select
    BY <2>4 DEF Select
  <2>5. CASE LoopEnds \/ LoopTop \/ LoopLock \/ LoopSleeps
    <3>1. UNCHANGED <<radio, driver, socket, send_list, commands, reports, at>>
      BY <2>5 DEF LoopEnds, LoopTop, LoopLock, LoopSleeps
    <3>. QED  BY <3>1 DEF driver, socket
  <2>6. CASE LoopSend
    BY <2>6 DEF LoopSend, driver, socket
  <2>7. ~Handle /\ ~Apply
    BY DEF Handle, Apply
  <2>8. ~Lost /\ ~Join /\ ~Open /\ ~OpenFails /\ ~Exit
    BY DEF Lost, Join, Open, OpenFails, Exit
  <2>9. CASE Press \/ Close
    BY <2>9 DEF Press, Close, driver
  <2>. QED
    BY <2>1, <2>2, <2>3, <2>4, <2>5, <2>6, <2>7, <2>8, <2>9, TciAssumption DEF Next
<1>. QED  BY <1>1, TypeCorrect, SliceAgreesAlways, PTL DEF Spec, ModeStays
=============================================================================
