-------------------------- MODULE LevelControlProofs --------------------------
(* What TLAPS proves of the level controls, for every range and any set of   *)
(* controls.                                                                *)
EXTENDS LevelControl, TLAPS

\* A set is left within its range, whatever it is sent.
LEMMA MadeInRange ==
    ASSUME NEW r \in Level, NEW v \in Asked
    PROVE  Made(r, v) \subseteq Level
  BY LevelAssumption DEF Made, Clamped, Level, Asked

LEMMA LevelAsked == Level \subseteq Asked
  BY LevelAssumption DEF Level, Asked

\* Every state is well typed: a client's level may be out of the set's range, and
\* with it record, slider and every order made of them; but no sequence of
\* orders, modifications and readings takes them beyond what a client asked for,
\* and the set stays within its range.
THEOREM TypeCorrect == Spec => []TypeOK
<1>0. /\ MaxLevel \in Nat \ {0, 1} /\ power_limit \in Level \cup {MaxLevel + 1} /\ MaxOrders \in Nat
  BY LevelAssumption
<1>. USE LevelAsked DEF TypeOK, Order, Callback
<1>1. Init => TypeOK
  <2>. SUFFICES ASSUME Init PROVE TypeOK
    OBVIOUS
  <2>1. radio \in Level /\ 0 \in Level
    BY <1>0 DEF Init, Level
  <2>2. orders \in 0..MaxOrders
    BY <1>0 DEF Init
  <2>3. fltk \in Order /\ server \in Order
    BY <2>1 DEF Init, Idle
  <2>4. awake \in Seq(Callback)
    BY DEF Init
  <2>. QED  BY <2>1, <2>2, <2>3, <2>4 DEF Init
<1>2. TypeOK /\ [Next]_vars => TypeOK'
  <2>. SUFFICES ASSUME TypeOK, [Next]_vars PROVE TypeOK'
    OBVIOUS
  <2>0. 0 \in Level /\ Idle \in Order
    BY <1>0 DEF Level, Idle
  <2>a. Act => orders' \in 0..MaxOrders
    BY <1>0 DEF Act
  <2>r. \A r \in Level, v \in Asked : Made(r, v) \subseteq Level
    BY MadeInRange
  <2>1. CASE Skip
    BY <2>1 DEF Skip
  <2>2. CASE read_volume
    BY <2>2 DEF read_volume, Queue, panel
  <2>3. CASE read_rfgain
    BY <2>3 DEF read_rfgain, Queue, panel
  <2>4. CASE read_mic_gain
    BY <2>4 DEF read_mic_gain, Queue, panel
  <2>5. CASE read_power_control
    BY <2>5 DEF read_power_control, Queue, panel
  <2>6. CASE Drag
    BY <2>6, <2>a DEF Drag
  <2>7. CASE Release
    <3>0. power_limit \in Asked
      BY <1>0 DEF Asked, Level
    <3>1. slider' \in Asked
      BY <2>7, <3>0 DEF Release
    <3>2. last' \in Level \cup {None}
      BY <2>7 DEF Release, Sole
    <3>3. fltk' = fltk \/ fltk' = [at |-> "send", want |-> slider']
      BY <2>7 DEF Release
    <3>4. fltk' \in Order
      BY <3>1, <3>3
    <3>. QED  BY <2>7, <3>1, <3>2, <3>4 DEF Release
  <2>8. CASE FltkSend
    <3>1. fltk.want \in Asked
      OBVIOUS
    <3>2. radio' \in Level /\ level' \in Asked
      BY <2>8, <3>1, <2>r DEF FltkSend, SendPower
    <3>. QED  BY <2>8, <2>0, <3>2 DEF FltkSend, panel
  <2>9. CASE PressMute
    BY <2>9, <2>a DEF PressMute
  <2>10. CASE cbMute
    <3>1. radio' \in Level /\ level' \in Asked
      BY <2>10, <2>0, <2>r DEF cbMute
    <3>. QED  BY <2>10, <2>0, <3>1 DEF cbMute
  <2>11. CASE RunAwake
    <3>1. awake' \in Seq(Callback)
      BY <2>11 DEF RunAwake
    <3>2. btnVol' \in BOOLEAN /\ active' \in BOOLEAN
      BY <2>11 DEF RunAwake
    <3>. QED  BY <2>11, <3>1, <3>2 DEF RunAwake
  <2>12. CASE XmlRecord
    BY <2>12, <2>a DEF XmlRecord, panel
  <2>13. CASE XmlModify
    <3>1. PICK d \in {-1, 1} : level' = Clamped(level + d)
      BY <2>13 DEF XmlModify
    <3>2. Clamped(level + d) \in Level
      BY <1>0, <3>1 DEF Clamped, Level
    <3>. QED  BY <2>13, <2>a, <3>1, <3>2 DEF XmlModify, panel
  <2>14. CASE XmlSend
    <3>1. radio' \in Level /\ level' \in Asked
      BY <2>14, <2>r DEF XmlSend
    <3>. QED  BY <2>14, <2>0, <3>1 DEF XmlSend, Queue, panel
  <2>15. CASE XmlPower
    <3>1. PICK v \in Asked : /\ radio' \in Made(radio, v)
                             /\ level' \in {v, radio'}
                             /\ last' # None => last' = v /\ v \in Level
      BY <2>15 DEF XmlPower
    <3>2. radio' \in Level /\ level' \in Asked
      BY <3>1, <2>r
    <3>3. last' \in Level \cup {None}
      BY <3>1
    <3>. QED  BY <2>15, <2>a, <3>2, <3>3 DEF XmlPower, Queue, panel
  <2>16. CASE Knob
    BY <2>16, <2>a DEF Knob, panel
  <2>17. CASE UNCHANGED vars
    BY <2>17 DEF vars, panel
  <2>. QED
    BY <2>1, <2>2, <2>3, <2>4, <2>5, <2>6, <2>7, <2>8, <2>9, <2>10, <2>11, <2>12,
       <2>13, <2>14, <2>15, <2>16, <2>17 DEF Next
<1>. QED  BY <1>1, <1>2, PTL DEF Spec

\* While an order stands, no other is on its way to the set, and the handler that
\* still has to send it will send nothing after it.
OnTheWay ==
    last # None =>
        /\ server.at = "idle"
        /\ fltk.at = "send" => fltk.want = last /\ Sole(last)
        /\ fltk.at # "mute"

OrderInv == OnTheWay /\ OrderStands

\* An order given alone is what the set is left with, whatever the polls read
\* and the callbacks redraw meanwhile.
THEOREM OrderStandsAlways == Spec => []OrderStands
<1>. USE DEF OrderInv, OnTheWay, OrderStands, Free, Idle, Sole
<1>1. Init => OrderInv
  BY DEF Init
<1>2. TypeOK /\ OrderInv /\ [Next]_vars => OrderInv'
  <2>. SUFFICES ASSUME TypeOK, OrderInv, [Next]_vars PROVE OrderInv'
    OBVIOUS
  <2>1. CASE Skip
    BY <2>1 DEF Skip
  <2>2. CASE read_volume
    BY <2>2 DEF read_volume, panel
  <2>3. CASE read_rfgain
    BY <2>3 DEF read_rfgain, panel
  <2>4. CASE read_mic_gain
    BY <2>4 DEF read_mic_gain, panel
  <2>5. CASE read_power_control
    BY <2>5 DEF read_power_control, panel
  <2>6. CASE Drag
    BY <2>6 DEF Drag
  <2>7. CASE Release
    BY <2>7 DEF Release
  <2>8. CASE FltkSend
    <3>1. UNCHANGED <<control, use_rig_data, last, server>> /\ fltk' = Idle
      BY <2>8 DEF FltkSend
    <3>2. last # None => radio' = last
      <4>. SUFFICES ASSUME last # None PROVE radio' = last
        OBVIOUS
      <4>1. fltk.want = last /\ Sole(last) /\ last \in Level
        BY <2>8 DEF FltkSend, TypeOK
      <4>2. Made(radio, last) = {last}
        BY <4>1 DEF Made
      <4>. QED  BY <2>8, <4>1, <4>2 DEF FltkSend, SendPower, Sole
    <3>. QED  BY <3>1, <3>2
  <2>9. CASE PressMute
    BY <2>9 DEF PressMute
  <2>10. CASE cbMute
    BY <2>10 DEF cbMute, panel
  <2>11. CASE RunAwake
    BY <2>11 DEF RunAwake
  <2>12. CASE XmlRecord
    BY <2>12 DEF XmlRecord, panel
  <2>13. CASE XmlModify
    BY <2>13 DEF XmlModify, panel
  <2>14. CASE XmlSend
    BY <2>14 DEF XmlSend, panel
  <2>15. CASE XmlPower
    <3>1. last' # None => Free /\ radio' = last'
      BY <2>15 DEF XmlPower, Made
    <3>2. UNCHANGED <<fltk, server>> /\ server.at = "idle"
      BY <2>15 DEF XmlPower
    <3>. QED  BY <3>1, <3>2
  <2>16. CASE Knob
    BY <2>16 DEF Knob, panel
  <2>17. CASE UNCHANGED vars
    BY <2>17 DEF vars, panel
  <2>. QED
    BY <2>1, <2>2, <2>3, <2>4, <2>5, <2>6, <2>7, <2>8, <2>9, <2>10, <2>11, <2>12,
       <2>13, <2>14, <2>15, <2>16, <2>17 DEF Next
<1>3. OrderInv => OrderStands
  OBVIOUS
<1>. QED  BY <1>1, <1>2, <1>3, TypeCorrect, PTL DEF Spec

\* For every control, range and order of callbacks: settled levels are parted
\* only by an order of the operator or a client, or by the set's own knob.
THEOREM SettledStaysAlways == Spec => SettledStays
<1>1. TypeOK /\ [Next]_vars => [Settled => Settled' \/ Act]_vars
  <2>. SUFFICES ASSUME TypeOK, Next, Settled, ~Act PROVE Settled'
    OBVIOUS
  <2>. USE DEF Settled
  <2>0. awake \in Seq(Callback) /\ radio \in Level
    BY DEF TypeOK
  <2>1. CASE Skip
    BY <2>1 DEF Skip
  \* The set is read to be silent when the button is dark: nothing is new.
  <2>2. ~read_volume
    BY <2>0, LevelAssumption DEF read_volume, Level
  <2>3. ~read_rfgain
    BY DEF read_rfgain
  <2>4. ~read_mic_gain
    BY DEF read_mic_gain
  <2>5. CASE read_power_control
    BY <2>5 DEF read_power_control, panel
  <2>6. ~Drag /\ ~PressMute /\ ~XmlRecord /\ ~XmlModify /\ ~XmlPower /\ ~Knob
    BY DEF Drag, PressMute, XmlRecord, XmlModify, XmlPower, Knob
  <2>7. ~Release /\ ~FltkSend /\ ~cbMute /\ ~XmlSend
    BY DEF Release, FltkSend, cbMute, XmlSend
  <2>8. CASE RunAwake
    <3>1. CASE slider = level /\ level = radio
      BY <2>8, <3>1 DEF RunAwake
    <3>2. CASE /\ control = "volume" /\ ~btnVol /\ radio <= 1
               /\ \A n \in 1..Len(awake) : awake[n] # "unmuted"
      <4>1. awake # <<>> /\ awake' = Tail(awake)
        BY <2>8 DEF RunAwake
      <4>2. Len(awake) >= 1 /\ Head(awake) # "unmuted"
        BY <2>0, <3>2, <4>1
      <4>3. \A n \in 1..Len(awake') : awake'[n] # "unmuted"
        BY <2>0, <3>2, <4>1
      <4>4. ~btnVol'
        BY <2>8, <3>2, <4>2 DEF RunAwake
      <4>. QED  BY <2>8, <3>2, <4>3, <4>4 DEF RunAwake
    <3>. QED  BY <3>1, <3>2
  <2>. QED
    BY <2>1, <2>2, <2>3, <2>4, <2>5, <2>6, <2>7, <2>8 DEF Next
<1>. QED  BY <1>1, TypeCorrect, PTL DEF Spec, SettledStays
=============================================================================
