-------------------------- MODULE PttControlProofs --------------------------
(* Type correctness of PttControl and the agreement of button and flag, for *)
(* every set of preferences and any room for callbacks.                     *)
EXTENDS PttControl, SequenceTheorems, TLAPS

LEMMA CallbacksTyped ==
    Update \in Callback /\ \A on \in BOOLEAN : SetPtt(on) \in Callback
  BY DEF Update, SetPtt, Callback

\* Whatever rigPTT() leaves in the cache, the driver and the set is well typed.
LEMMA RigTyped ==
    ASSUME TypeOK, NEW on \in BOOLEAN, rigPTT(on)
    PROVE  /\ vfoA' \in Mode \cup {"zero"} /\ tx' \in BOOLEAN /\ ptt_' \in BOOLEAN
           /\ mode' \in Mode /\ opMODE' \in Mode
  BY DEF TypeOK, rigPTT, Released

LEMMA QueueTyped ==
    ASSUME awake \in Seq(Callback), NEW f \in Callback, Queue(f)
    PROVE  awake' \in Seq(Callback)
  BY DEF Queue

LEMMA ReadTyped ==
    ASSUME TypeOK, NEW arrives \in Arrivals
    PROVE  get_PTT(arrives) \in BOOLEAN /\ ptt_state(arrives) \in BOOLEAN
  BY DEF TypeOK, get_PTT, ptt_state, Readable

LEMMA RememberTyped ==
    ASSUME TypeOK, NEW arrives \in Arrivals, Remember(arrives)
    PROVE  ptt_' \in BOOLEAN
  BY ReadTyped DEF TypeOK, Remember

LEMMA TypeInit == Init => TypeOK
<1> SUFFICES ASSUME Init PROVE TypeOK
  OBVIOUS
<1>1. PTT \in BOOLEAN /\ btnPTT \in BOOLEAN /\ ptt_ \in BOOLEAN /\ isRX \in BOOLEAN
  BY DEF Init
<1>2. awake \in Seq(Callback)
  BY DEF Init
<1> QED
  BY <1>1, <1>2 DEF Init, TypeOK

LEMMA TypeStep == TypeOK /\ [Next]_vars => TypeOK'
<1> SUFFICES ASSUME TypeOK, [Next]_vars PROVE TypeOK'
  OBVIOUS
<1>1. ASSUME NEW arrives \in Arrivals, check_ptt(arrives) PROVE TypeOK'
  <2>1. ptt_' \in BOOLEAN /\ PTT' \in BOOLEAN
    BY <1>1, ReadTyped, RememberTyped DEF check_ptt
  <2>2. awake' \in Seq(Callback)
    BY <1>1, <2>1, QueueTyped, CallbacksTyped DEF check_ptt, TypeOK
  <2> QED
    BY <1>1, <2>1, <2>2 DEF check_ptt, TypeOK, set
<1>2. CASE Branch
  <2>1. awake' \in Seq(Callback)
    BY <1>2, QueueTyped, CallbacksTyped DEF Branch, TypeOK
  <2> QED
    BY <1>2, <2>1 DEF Branch, TypeOK, set
<1>3. CASE PollMode
  BY <1>3 DEF PollMode, TypeOK, set
<1>4. ASSUME NEW arrives \in Arrivals, XmlVerify(arrives) PROVE TypeOK'
  <2>1. ptt_' \in BOOLEAN /\ PTT' \in BOOLEAN
    BY <1>4, ReadTyped, RememberTyped DEF XmlVerify
  <2>2. awake' \in Seq(Callback)
    BY <1>4, QueueTyped, CallbacksTyped DEF XmlVerify, TypeOK
  <2> QED
    BY <1>4, <2>1, <2>2 DEF XmlVerify, TypeOK, set
<1>5. ASSUME NEW arrives \in Arrivals, doPTTDone(arrives) PROVE TypeOK'
  BY <1>5, ReadTyped DEF doPTTDone, TypeOK, set
<1>6. CASE RunCallback
  <2>1. Head(awake) \in Callback /\ Tail(awake) \in Seq(Callback)
    BY <1>6 DEF RunCallback, TypeOK
  <2>2. Head(awake).d \in BOOLEAN
    BY <2>1 DEF Callback
  <2> QED
    BY <1>6, <2>1, <2>2 DEF RunCallback, TypeOK, set
<1>7. CASE FrontPanel
  BY <1>7 DEF FrontPanel, TypeOK
<1>8. CASE ClickPTT
  <2>1. click[1] \in BOOLEAN
    <3>1. click = <<TRUE>> \/ click = <<FALSE>>
      BY <1>8 DEF ClickPTT, TypeOK
    <3>2. <<TRUE>>[1] = TRUE /\ <<FALSE>>[1] = FALSE
      OBVIOUS
    <3> QED
      BY <3>1, <3>2, Zenon
  <2> QED
    BY <1>8, <2>1, RigTyped DEF ClickPTT, doPTT, TypeOK
<1>9. CASE Click
  BY <1>9 DEF Click, TypeOK, set
<1>10. ASSUME NEW on \in BOOLEAN, KeyerPTT(on) PROVE TypeOK'
  BY <1>10, RigTyped DEF KeyerPTT, doPTT, TypeOK
<1>11. ASSUME NEW on \in BOOLEAN, XmlSetPTT(on) PROVE TypeOK'
  BY <1>11, RigTyped DEF XmlSetPTT, TypeOK
<1>12. ASSUME NEW on \in BOOLEAN, XmlSetPTTFast(on) PROVE TypeOK'
  <2>1. awake' \in Seq(Callback)
    BY <1>12, QueueTyped, CallbacksTyped DEF XmlSetPTTFast, TypeOK
  <2> QED
    BY <1>12, <2>1, RigTyped DEF XmlSetPTTFast, TypeOK
<1>13. ASSUME NEW arrives \in Arrivals, ReadAgain(arrives) PROVE TypeOK'
  BY <1>13, ReadTyped, RememberTyped DEF ReadAgain, TypeOK, set
<1>14. CASE UNCHANGED vars
  BY <1>14 DEF vars, set, TypeOK
<1> QED
  BY <1>1, <1>2, <1>3, <1>4, <1>5, <1>6, <1>7, <1>8, <1>9, <1>10, <1>11, <1>12,
     <1>13, <1>14 DEF Next, Serial, Finish, Order

\* Every state of the push-to-talk control is well typed.
THEOREM TypeCorrect == Spec => []TypeOK
  BY TypeInit, TypeStep, PTL DEF Spec

\* No step changes the preferences.
LEMMA PreferencesStand == [Next]_vars => progStatus' = progStatus
<1> SUFFICES ASSUME [Next]_vars PROVE progStatus' = progStatus
  OBVIOUS
<1>1. CASE Serial
  BY <1>1 DEF Serial, check_ptt, Branch, PollMode
<1>2. CASE Finish
  BY <1>2 DEF Finish, XmlVerify, doPTTDone
<1>3. CASE Order
  BY <1>3 DEF Order, Click, KeyerPTT, doPTT, XmlSetPTT, XmlSetPTTFast
<1>4. CASE RunCallback \/ FrontPanel \/ UNCHANGED vars
  BY <1>4 DEF RunCallback, FrontPanel, vars
<1>5. CASE ClickPTT
  BY <1>5 DEF ClickPTT, doPTT
<1>6. ASSUME NEW arrives \in Arrivals, ReadAgain(arrives)
      PROVE  progStatus' = progStatus
  BY <1>6 DEF ReadAgain
<1> QED
  BY <1>1, <1>2, <1>3, <1>4, <1>5, <1>6 DEF Next

-----------------------------------------------------------------------------
(* The inductive form of ButtonSettles: outside the calls, the last         *)
(* callback, or the button when there is none, already stands for the flag. *)

Shows(f) == IF f = Update THEN PTT ELSE f.d
Pending == IF awake = <<>> THEN btnPTT ELSE Shows(awake[Len(awake)])

Settled ==
    ~progStatus.local =>
        /\ holder \in {"nobody", "server"}
        /\ click = <<>>
        /\ Free => Pending = PTT

LEMMA SettledInit == Init => Settled
  BY DEF Init, Settled, Pending, Free

\* After Fl::awake(update_UI_PTT) the button will show the flag as it is now.
LEMMA UpdateSettles ==
    ASSUME awake \in Seq(Callback), Queue(Update)
    PROVE  Pending' = PTT'
<1>1. awake' # <<>> /\ awake'[Len(awake')] = Update
  BY CallbacksTyped DEF Queue
<1> QED
  BY <1>1 DEF Pending, Shows, Update

\* ... as it will after Fl::awake(set_ptt) with the flag's new value.
LEMMA SetSettles ==
    ASSUME awake \in Seq(Callback), NEW on \in BOOLEAN, Queue(SetPtt(on)), PTT' = on
    PROVE  Pending' = PTT'
<1>1. awake' # <<>> /\ awake'[Len(awake')] = SetPtt(on)
  BY CallbacksTyped DEF Queue
<1>2. SetPtt(on) # Update /\ SetPtt(on).d = on
  BY DEF SetPtt, Update
<1> QED
  BY <1>1, <1>2 DEF Pending, Shows, Update

\* Running a callback leaves the last one, or its effect, in force.
LEMMA RunSettles ==
    ASSUME TypeOK, RunCallback
    PROVE  Pending' = Pending
<1>1. /\ awake \in Seq(Callback) /\ awake # <<>>
      /\ awake' = Tail(awake) /\ PTT' = PTT
      /\ btnPTT' = Shows(Head(awake))
  BY DEF TypeOK, RunCallback, Shows, Update
<1>2. CASE Len(awake) = 1
  <2>1. awake' = <<>> /\ Head(awake) = awake[Len(awake)]
    BY <1>1, <1>2
  <2> QED
    BY <1>1, <2>1 DEF Pending
<1>3. CASE Len(awake) > 1
  <2>1. awake' # <<>> /\ awake'[Len(awake')] = awake[Len(awake)]
    BY <1>1, <1>3
  <2> QED
    BY <1>1, <2>1 DEF Pending, Shows, Update
<1>4. Len(awake) = 1 \/ Len(awake) > 1
  <2>1. Len(awake) \in Nat \ {0}
    BY <1>1, EmptySeq
  <2>2. \A n \in Nat \ {0} : n = 1 \/ n > 1
    OBVIOUS
  <2> QED
    BY <2>1, <2>2, Zenon
<1> QED
  BY <1>2, <1>3, <1>4

LEMMA SettledStep == TypeOK /\ Settled /\ [Next]_vars => Settled'
<1> SUFFICES ASSUME TypeOK, Settled, [Next]_vars, ~progStatus.local
             PROVE  Settled'
  <2> QED
    BY PreferencesStand DEF Settled
<1>0. /\ holder \in {"nobody", "server"} /\ click = <<>>
      /\ Free => Pending = PTT
      /\ awake \in Seq(Callback)
  BY DEF Settled, TypeOK
<1>1. ASSUME NEW arrives \in Arrivals, check_ptt(arrives) PROVE Settled'
  <2>1. CASE PTT' = PTT
    BY <1>0, <1>1, <2>1 DEF check_ptt, Settled, Free, Pending, Shows, Update
  <2>2. CASE PTT' # PTT
    <3>1. PTT' \in BOOLEAN
      BY <1>1, ReadTyped DEF check_ptt
    <3>2. Pending' = PTT'
      BY <1>0, <1>1, <2>2, <3>1, SetSettles DEF check_ptt
    <3> QED
      BY <1>0, <1>1, <3>2 DEF check_ptt, Settled
  <2> QED
    BY <2>1, <2>2
<1>2. CASE Branch
  <2>1. CASE isRX' = isRX
    BY <1>0, <1>2, <2>1 DEF Branch, Settled, Free, Pending, Shows, Update
  <2>2. CASE isRX' # isRX
    <3>1. Pending' = PTT'
      BY <1>0, <1>2, <2>2, UpdateSettles DEF Branch
    <3> QED
      BY <1>0, <1>2, <3>1 DEF Branch, Settled
  <2> QED
    BY <2>1, <2>2
<1>3. ASSUME NEW arrives \in Arrivals, XmlVerify(arrives) PROVE Settled'
  <2>1. Pending' = PTT'
    BY <1>0, <1>3, UpdateSettles DEF XmlVerify
  <2> QED
    BY <1>0, <1>3, <2>1 DEF XmlVerify, Settled
<1>4. ASSUME NEW on \in BOOLEAN, XmlSetPTTFast(on) PROVE Settled'
  <2>1. Pending' = PTT'
    BY <1>0, <1>4, UpdateSettles DEF XmlSetPTTFast
  <2> QED
    BY <1>0, <1>4, <2>1 DEF XmlSetPTTFast, Settled
<1>5. ASSUME NEW on \in BOOLEAN, XmlSetPTT(on) PROVE Settled'
  BY <1>0, <1>5 DEF XmlSetPTT, Settled, Free
<1>6. CASE RunCallback
  <2>1. Pending' = Pending
    BY <1>6, RunSettles
  <2> QED
    BY <1>0, <1>6, <2>1 DEF RunCallback, Settled, Free
<1>7. CASE PollMode \/ FrontPanel \/ UNCHANGED vars
  BY <1>0, <1>7 DEF PollMode, FrontPanel, vars, Settled, Free, Pending, Shows, Update
<1>8. ASSUME NEW arrives \in Arrivals, ReadAgain(arrives) PROVE Settled'
  BY <1>0, <1>8 DEF ReadAgain, Settled, Free, Pending, Shows, Update
<1>9. ASSUME NEW arrives \in Arrivals, doPTTDone(arrives) PROVE FALSE
  BY <1>0, <1>9 DEF doPTTDone
<1>10. ~Click /\ ~ClickPTT /\ \A on \in BOOLEAN : ~KeyerPTT(on)
  BY <1>0 DEF Click, ClickPTT, KeyerPTT
<1> QED
  BY <1>1, <1>2, <1>3, <1>4, <1>5, <1>6, <1>7, <1>8, <1>9, <1>10
     DEF Next, Serial, Finish, Order

\* When clients alone key the set, the button agrees with the flag whenever no
\* call is under way and no callback is queued.
THEOREM ButtonSettlesAlways == Spec => []ButtonSettles
<1>1. Spec => []Settled
  BY SettledInit, SettledStep, TypeCorrect, PTL DEF Spec
<1>2. Settled => ButtonSettles
  BY DEF Settled, ButtonSettles, Pending
<1> QED
  BY <1>1, <1>2, PTL
-----------------------------------------------------------------------------
(* The flag stays with the set.                                            *)

\* While driver and set agree it makes no difference whether a reply arrives.
LEMMA AgreedReads ==
    ASSUME TypeOK, Agreed, NEW arrives \in Arrivals
    PROVE  /\ get_PTT(arrives) = tx /\ ptt_state(arrives) = tx
           /\ Remember(arrives) => ptt_' = tx
<1>1. get_PTT(arrives) = tx /\ tx \in BOOLEAN /\ Readable
  BY DEF Agreed, get_PTT, TypeOK
<1>2. ptt_state(arrives) = tx
  BY <1>1 DEF ptt_state
<1> QED
  BY <1>1, <1>2 DEF Remember

\* Once flag, driver and set agree only an order or the set's own key parts them,
\* for every setting that lets flrig read, whatever replies are lost.
THEOREM FlagStaysAlways == Spec => FlagStays
<1>1. TypeOK /\ [Next]_vars => [Agreed => Agreed' \/ Order \/ tx' # tx]_vars
  <2> SUFFICES ASSUME TypeOK, Next, Agreed, ~Order, tx' = tx PROVE Agreed'
    OBVIOUS
  <2>0. progStatus' = progStatus
    BY PreferencesStand
  <2>1. ASSUME NEW arrives \in Arrivals, check_ptt(arrives) PROVE Agreed'
    BY <2>0, <2>1, AgreedReads DEF check_ptt, Agreed, Readable
  <2>2. CASE Branch \/ PollMode
    BY <2>0, <2>2 DEF Branch, PollMode, Agreed, Readable
  <2>3. ASSUME NEW arrives \in Arrivals, XmlVerify(arrives) PROVE Agreed'
    BY <2>0, <2>3, AgreedReads DEF XmlVerify, Agreed, Readable
  <2>4. ASSUME NEW arrives \in Arrivals, doPTTDone(arrives) PROVE Agreed'
    BY <2>0, <2>4, AgreedReads DEF doPTTDone, Agreed, Readable
  <2>5. CASE RunCallback \/ FrontPanel
    BY <2>0, <2>5 DEF RunCallback, FrontPanel, Agreed, Readable
  <2>6. ~ClickPTT
    BY DEF ClickPTT, Agreed
  <2>7. ASSUME NEW arrives \in Arrivals, ReadAgain(arrives) PROVE FALSE
    BY <2>7, AgreedReads DEF ReadAgain, Agreed
  <2> QED
    BY <2>1, <2>2, <2>3, <2>4, <2>5, <2>6, <2>7 DEF Next, Serial, Finish
<1> QED
  BY <1>1, TypeCorrect, PTL DEF Spec, FlagStays
=============================================================================
