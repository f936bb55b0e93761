---------------------------- MODULE CwKeyerProofs ----------------------------
(* Type correctness of CwKeyer and the key line at rest, for all messages   *)
(* and bounds.                                                              *)
EXTENDS CwKeyer, TLAPS

\* What a place of the thread says about the character it is sending.
Progress ==
    /\ pc = "erase" => snd # <<>>
    /\ pc \in {"down", "close", "up", "open"} => code > 0

Typed == TypeOK /\ Progress

LEMMA DoPTTTyped ==
    ASSUME NEW on \in BOOLEAN, PTT \in BOOLEAN, DoPTT(on)
    PROVE  PTT' \in BOOLEAN
  BY DEF DoPTT

LEMMA QueueTyped ==
    ASSUME NEW callback \in {"update_txt_to_send", "cwio_clear_text"},
           awake \in Seq({"update_txt_to_send", "cwio_clear_text"}),
           Queue(callback)
    PROVE  awake' \in Seq({"update_txt_to_send", "cwio_clear_text"})
  BY DEF Queue

LEMMA TypedInit == Init => Typed
<1> SUFFICES ASSUME Init PROVE Typed
  OBVIOUS
<1>1. line \in BOOLEAN /\ PTT \in BOOLEAN /\ key \in BOOLEAN /\ seen \in BOOLEAN
  BY DEF Init
<1> QED
  BY <1>1, CwAssumption DEF Init, Typed, TypeOK, Progress, Process, Char

LEMMA TypedStep == Typed /\ [Next]_vars => Typed'
<1> SUFFICES ASSUME Typed, [Next]_vars PROVE Typed'
  OBVIOUS
<1> USE CwAssumption
<1>1. CASE SpuriousWakeup
  BY <1>1 DEF Typed, TypeOK, Progress, Process, Char, text, sending, keying,
       SpuriousWakeup
<1>2. CASE Woken
  <2>1. PTT' \in BOOLEAN
    BY <1>2, DoPTTTyped DEF Woken, Typed, TypeOK
  <2> QED
    BY <1>2, <2>1 DEF Typed, TypeOK, Progress, Process, Char, text, sending,
         keying, Woken
<1>3. CASE TakeText
  BY <1>3 DEF Typed, TypeOK, Progress, Process, Char, text, sending, keying,
       TakeText
<1>4. CASE EraseFirst
  BY <1>4 DEF Typed, TypeOK, Progress, Process, Char, text, sending, keying,
       EraseFirst, Queue
<1>5. CASE StopSending
  <2>1. PTT' \in BOOLEAN
    BY <1>5, DoPTTTyped DEF StopSending, Typed, TypeOK
  <2> QED
    BY <1>5, <2>1 DEF Typed, TypeOK, Progress, Process, Char, text, sending,
         keying, StopSending
<1>6. CASE KeyDownPTT
  <2>1. PTT' \in BOOLEAN
    BY <1>6, DoPTTTyped DEF KeyDownPTT, Typed, TypeOK
  <2> QED
    BY <1>6, <2>1 DEF Typed, TypeOK, Progress, Process, Char, text, sending,
         keying, KeyDownPTT, Caller
<1>7. CASE KeyDownLine
  BY <1>7 DEF Typed, TypeOK, Progress, Process, Char, text, sending, keying,
       KeyDownLine
<1>8. CASE KeyUpPTT
  BY <1>8 DEF Typed, TypeOK, Progress, Process, Char, text, sending, keying,
       KeyUpPTT, DoPTT
<1>9. CASE KeyUpLine
  <2>1. code \in 1..MaxCode /\ code' \in 0..MaxCode
    BY <1>9 DEF KeyUpLine, Typed, TypeOK, Progress
  <2>2. pc' \in {"loop", "calibrate"} \/ (pc' = "down" /\ code' > 0)
    BY <1>9, <2>1 DEF KeyUpLine, Caller
  <2>3. line' \in BOOLEAN
    BY <1>9 DEF KeyUpLine
  <2>4. UNCHANGED <<cwio_process, text, left, job, seen, PTT, key, fltk, server, awake,
                    cwioINVERTED>>
    BY <1>9 DEF KeyUpLine
  <2>5. TypeOK'
    BY <2>1, <2>2, <2>3, <2>4 DEF Typed, TypeOK, Process, Char, text
  <2>6. Progress'
    BY <2>2 DEF Progress
  <2> QED
    BY <2>5, <2>6 DEF Typed
<1>10. CASE CheckCalibrate
  BY <1>10 DEF Typed, TypeOK, Progress, Process, Char, text, sending, keying,
       CheckCalibrate
<1>11. CASE Calibrate
  BY <1>11 DEF Typed, TypeOK, Progress, Process, Char, text, sending, keying,
       Calibrate
<1>12. CASE KeyLine
  BY <1>12 DEF Typed, TypeOK, Progress, Process, Char, text, sending, keying,
       KeyLine
<1>13. CASE KeyProcess
  BY <1>13 DEF Typed, TypeOK, Progress, Process, Char, text, sending, keying,
       KeyProcess
<1>14. CASE CalibrateOrder
  BY <1>14 DEF Typed, TypeOK, Progress, Process, Char, text, sending, keying,
       CalibrateOrder, Signal
<1>15. CASE Terminate
  BY <1>15 DEF Typed, TypeOK, Progress, Process, Char, text, sending, keying,
       Terminate, Signal
<1>16. CASE Join
  BY <1>16 DEF Typed, TypeOK, Progress, Process, Char, text, sending, keying,
       Join
<1>17. CASE RunCallback
  BY <1>17 DEF Typed, TypeOK, Progress, Process, Char, text, sending, keying,
       RunCallback, Idle
<1>18. ASSUME NEW c \in Char, Type(c) PROVE Typed'
  BY <1>18 DEF Typed, TypeOK, Progress, Process, Char, text, sending, keying,
       Type, Idle, Fits
<1>19. CASE Clear
  BY <1>19 DEF Typed, TypeOK, Progress, Process, Char, text, sending, keying,
       Clear, Idle
<1>20. ASSUME NEW on \in BOOLEAN, SendButton(on) PROVE Typed'
  BY <1>20 DEF Typed, TypeOK, Progress, Process, Char, text, sending, keying,
       SendButton, Idle, SendText, Signal
<1>21. ASSUME NEW msg \in Messages, Macro(msg) PROVE Typed'
  BY <1>21 DEF Typed, TypeOK, Progress, Process, Char, text, sending, keying,
       Macro, Idle, Fits, StartAfter, SendText, Signal
<1>22. CASE PressKey
  <2>1. key' \in BOOLEAN /\ PTT' \in BOOLEAN
    BY <1>22, DoPTTTyped DEF PressKey, Typed, TypeOK
  <2> QED
    BY <1>22, <2>1 DEF Typed, TypeOK, Progress, Process, Char, text, sending,
         keying, PressKey, Idle
<1>23. CASE CalibrateButton
  BY <1>23 DEF Typed, TypeOK, Progress, Process, Char, text, sending, keying,
       CalibrateButton, Idle
<1>24. CASE SetInverted
  BY <1>24 DEF Typed, TypeOK, Progress, Process, Char, text, sending, keying,
       SetInverted, Idle
<1>25. CASE Exit
  BY <1>25 DEF Typed, TypeOK, Progress, Process, Char, text, sending, keying,
       Exit, Idle
<1>26. CASE XmlTextDone
  BY <1>26 DEF Typed, TypeOK, Progress, Process, Char, text, sending, keying,
       XmlTextDone, SendText, Signal, Running
<1>27. ASSUME NEW msg \in Messages, XmlText(msg) PROVE Typed'
  BY <1>27 DEF Typed, TypeOK, Progress, Process, Char, text, sending, keying,
       XmlText, Running, Fits
<1>28. ASSUME NEW on \in BOOLEAN, XmlSend(on) PROVE Typed'
  BY <1>28, QueueTyped DEF Typed, TypeOK, Progress, Process, Char, text,
       sending, keying,
       XmlSend, Running, SendText, Signal
<1>29. CASE UNCHANGED vars
  BY <1>29 DEF Typed, TypeOK, Progress, Process, Char, text, sending, keying,
       vars
<1>q. QED
  BY <1>1, <1>2, <1>3, <1>4, <1>5, <1>6, <1>7, <1>8, <1>9, <1>10, <1>11,
     <1>12, <1>13, <1>14, <1>15, <1>16, <1>17, <1>18, <1>19, <1>20, <1>21,
     <1>22, <1>23, <1>24, <1>25, <1>26, <1>27, <1>28, <1>29 DEF Next, Thread,
     Continue, Dialog, Client

\* Every state is well typed: in particular no thread takes a character from an
\* empty text or counts past the last element of a character.
THEOREM TypeCorrect == Spec => []TypeOK
<1>1. Spec => []Typed
  BY TypedInit, TypedStep, PTL DEF Spec
<1>2. Typed => TypeOK
  BY DEF Typed
<1> QED
  BY <1>1, <1>2, PTL

-----------------------------------------------------------------------------

\* The inductive form of KeyRests: who may hold the key closed.  What an opening
\* that misread the option left closed stays so until the next closing is over.
KeyHeld ==
    ~cwioINVERTED /\ ~seen /\ ~key /\ fltk # "keyLine"
        /\ pc \notin {"close", "up", "open"}
        => ~line

LEMMA KeyHeldInit == Init => KeyHeld
  BY DEF Init, KeyHeld

LEMMA KeyHeldStep == TypeOK /\ KeyHeld /\ [Next]_vars => KeyHeld'
<1> SUFFICES ASSUME TypeOK, KeyHeld, [Next]_vars PROVE KeyHeld'
  OBVIOUS
<1>1. CASE SpuriousWakeup
  BY <1>1 DEF TypeOK, KeyHeld, text, sending, keying, SpuriousWakeup
<1>2. CASE Woken
  BY <1>2 DEF TypeOK, KeyHeld, text, sending, keying, Woken, DoPTT
<1>3. CASE TakeText
  BY <1>3 DEF TypeOK, KeyHeld, text, sending, keying, TakeText
<1>4. CASE EraseFirst
  BY <1>4 DEF TypeOK, KeyHeld, text, sending, keying, EraseFirst, Queue
<1>5. CASE StopSending
  BY <1>5 DEF TypeOK, KeyHeld, text, sending, keying, StopSending, DoPTT
<1>6. CASE KeyDownPTT
  BY <1>6 DEF TypeOK, KeyHeld, text, sending, keying, KeyDownPTT, DoPTT, Caller
<1>7. CASE KeyDownLine
  BY <1>7 DEF TypeOK, KeyHeld, text, sending, keying, KeyDownLine
<1>8. CASE KeyUpPTT
  BY <1>8 DEF TypeOK, KeyHeld, text, sending, keying, KeyUpPTT, DoPTT
<1>9. CASE KeyUpLine
  BY <1>9 DEF TypeOK, KeyHeld, text, sending, keying, KeyUpLine, Caller
<1>10. CASE CheckCalibrate
  BY <1>10 DEF TypeOK, KeyHeld, text, sending, keying, CheckCalibrate
<1>11. CASE Calibrate
  BY <1>11 DEF TypeOK, KeyHeld, text, sending, keying, Calibrate
<1>12. CASE KeyLine
  BY <1>12 DEF TypeOK, KeyHeld, text, sending, keying, KeyLine
<1>13. CASE KeyProcess
  BY <1>13 DEF TypeOK, KeyHeld, text, sending, keying, KeyProcess
<1>14. CASE CalibrateOrder
  BY <1>14 DEF TypeOK, KeyHeld, text, sending, keying, CalibrateOrder, Signal
<1>15. CASE Terminate
  BY <1>15 DEF TypeOK, KeyHeld, text, sending, keying, Terminate, Signal
<1>16. CASE Join
  BY <1>16 DEF TypeOK, KeyHeld, text, sending, keying, Join
<1>17. CASE RunCallback
  BY <1>17 DEF TypeOK, KeyHeld, text, sending, keying, RunCallback, Idle
<1>18. ASSUME NEW c \in Char, Type(c) PROVE KeyHeld'
  BY <1>18 DEF TypeOK, KeyHeld, text, sending, keying, Type, Idle, Fits
<1>19. CASE Clear
  BY <1>19 DEF TypeOK, KeyHeld, text, sending, keying, Clear, Idle
<1>20. ASSUME NEW on \in BOOLEAN, SendButton(on) PROVE KeyHeld'
  BY <1>20 DEF TypeOK, KeyHeld, text, sending, keying, SendButton, Idle,
       SendText, Signal
<1>21. ASSUME NEW msg \in Messages, Macro(msg) PROVE KeyHeld'
  BY <1>21 DEF TypeOK, KeyHeld, text, sending, keying, Macro, Idle, Fits,
       StartAfter, SendText, Signal
<1>22. CASE PressKey
  BY <1>22 DEF TypeOK, KeyHeld, text, sending, keying, PressKey, DoPTT, Idle
<1>23. CASE CalibrateButton
  BY <1>23 DEF TypeOK, KeyHeld, text, sending, keying, CalibrateButton, Idle
<1>24. CASE SetInverted
  BY <1>24 DEF TypeOK, KeyHeld, text, sending, keying, SetInverted, Idle
<1>25. CASE Exit
  BY <1>25 DEF TypeOK, KeyHeld, text, sending, keying, Exit, Idle
<1>26. CASE XmlTextDone
  BY <1>26 DEF TypeOK, KeyHeld, text, sending, keying, XmlTextDone, SendText,
       Signal, Running
<1>27. ASSUME NEW msg \in Messages, XmlText(msg) PROVE KeyHeld'
  BY <1>27 DEF TypeOK, KeyHeld, text, sending, keying, XmlText, Running, Fits
<1>28. ASSUME NEW on \in BOOLEAN, XmlSend(on) PROVE KeyHeld'
  BY <1>28 DEF TypeOK, KeyHeld, text, sending, keying, XmlSend, Running,
       SendText, Signal, Queue
<1>29. CASE UNCHANGED vars
  BY <1>29 DEF TypeOK, KeyHeld, text, sending, keying, vars
<1>q. QED
  BY <1>1, <1>2, <1>3, <1>4, <1>5, <1>6, <1>7, <1>8, <1>9, <1>10, <1>11,
     <1>12, <1>13, <1>14, <1>15, <1>16, <1>17, <1>18, <1>19, <1>20, <1>21,
     <1>22, <1>23, <1>24, <1>25, <1>26, <1>27, <1>28, <1>29 DEF Next, Thread,
     Continue, Dialog, Client

\* With a line that is not inverted, and was not when the thread last read the
\* option, the key is open whenever the thread rests and the KEY button is up.
THEOREM KeyRestsAlways == Spec => []KeyRests
<1>1. Spec => []KeyHeld
  BY KeyHeldInit, KeyHeldStep, TypeCorrect, PTL DEF Spec
<1>2. TypeOK /\ KeyHeld => KeyRests
  BY DEF TypeOK, KeyHeld, KeyRests, Resting, Closed
<1> QED
  BY <1>1, <1>2, TypeCorrect, PTL
-----------------------------------------------------------------------------

LEMMA CalibrationNat ==
    ASSUME NEW n \in Nat
    PROVE  Calibration(n) \in Nat \ {0}
<1>1. 4 * MaxCode + 1 \in Nat
  BY CwAssumption
<1>2. n * (4 * MaxCode + 1) \in Nat
  BY <1>1
<1> QED
  BY <1>2 DEF Calibration

LEMMA CalibrationShrinks ==
    ASSUME NEW n \in Nat \ {0}
    PROVE  Calibration(n) = Calibration(n - 1) + 4 * MaxCode + 1
<1> DEFINE each == 4 * MaxCode + 1
<1>1. each \in Nat
  BY CwAssumption
<1>2. n * each = (n - 1) * each + each
  <2> HIDE DEF each
  <2> QED
    BY <1>1
<1>3. Calibration(n) = 1 + n * each /\ Calibration(n - 1) = 1 + (n - 1) * each
  BY DEF Calibration
<1>4. (n - 1) * each \in Nat
  <2> HIDE DEF each
  <2> QED
    BY <1>1
<1>5. each = 4 * MaxCode + 1
  OBVIOUS
<1> HIDE DEF each
<1> QED
  BY <1>1, <1>2, <1>3, <1>4, <1>5, CwAssumption

LEMMA ToGoNat == Typed => ToGo \in Nat
<1> SUFFICES ASSUME Typed PROVE ToGo \in Nat
  OBVIOUS
<1>1. left \in Nat /\ code \in Nat /\ MaxCode \in Nat
  BY CwAssumption DEF Typed, TypeOK
<1>2. Calibration(left) \in Nat \ {0}
  BY <1>1, CalibrationNat
<1>3. CASE pc \in {"down", "close", "up", "open"}
  <2>1. code > 0
    BY <1>3 DEF Typed, Progress
  <2> QED
    BY <1>1, <1>2, <1>3, <2>1 DEF ToGo
<1>4. CASE pc \notin {"down", "close", "up", "open"}
  BY <1>1, <1>2, <1>4 DEF ToGo
<1> QED
  BY <1>3, <1>4

\* ToGo looks at the thread's own variables only.
LEMMA ToGoKept ==
    ASSUME Typed, UNCHANGED sending,
           pc' = pc \/ (pc \in {"wait", "woken", "checkCal", "dead"}
                         /\ pc' \in {"wait", "woken", "checkCal", "dead"})
    PROVE  ToGo' = ToGo
<1>1. code' = code /\ left' = left /\ job' = job
  BY DEF sending
<1>2. Calibration(left)' = Calibration(left)
  BY <1>1 DEF Calibration
<1> QED
  BY <1>1, <1>2 DEF ToGo

\* The steps of the dialog, the callbacks and the clients: those that order
\* something, and Signal, leave a thread that sends where it is.
LEMMA OthersKeepToGo ==
    Typed /\ [Next]_vars /\ ~Thread => ToGo' = ToGo
<1> SUFFICES ASSUME Typed, [Next]_vars, ~Thread PROVE ToGo' = ToGo
  OBVIOUS
<1> DEFINE moved == pc' = pc \/ (pc \in {"wait", "woken", "checkCal", "dead"}
                         /\ pc' \in {"wait", "woken", "checkCal", "dead"})
<1>1. SpuriousWakeup => UNCHANGED sending /\ moved
  BY DEF SpuriousWakeup, sending, text, keying
<1>12. KeyLine => UNCHANGED sending /\ moved
  BY DEF KeyLine, sending, text, keying
<1>13. KeyProcess => UNCHANGED sending /\ moved
  BY DEF KeyProcess, sending, text, keying
<1>14. CalibrateOrder => UNCHANGED sending /\ moved
  BY DEF CalibrateOrder, sending, text, keying, Signal
<1>15. Terminate => UNCHANGED sending /\ moved
  BY DEF Terminate, sending, text, keying, Signal
<1>16. Join => UNCHANGED sending /\ moved
  BY DEF Join, sending, text, keying
<1>17. RunCallback => UNCHANGED sending /\ moved
  BY DEF RunCallback, sending, text, keying
<1>18. ASSUME NEW c \in Char, Type(c) PROVE UNCHANGED sending /\ moved
  BY <1>18 DEF Type, sending, text, keying
<1>19. Clear => UNCHANGED sending /\ moved
  BY DEF Clear, sending, text, keying
<1>20. ASSUME NEW on \in BOOLEAN, SendButton(on) PROVE UNCHANGED sending /\ moved
  BY <1>20 DEF SendButton, sending, text, keying, SendText, Signal
<1>21. ASSUME NEW msg \in Messages, Macro(msg) PROVE UNCHANGED sending /\ moved
  BY <1>21 DEF Macro, sending, text, keying, StartAfter, SendText, Signal
<1>22. PressKey => UNCHANGED sending /\ moved
  BY DEF PressKey, sending, text, keying
<1>23. CalibrateButton => UNCHANGED sending /\ moved
  BY DEF CalibrateButton, sending, text, keying
<1>24. SetInverted => UNCHANGED sending /\ moved
  BY DEF SetInverted, sending, text, keying
<1>25. Exit => UNCHANGED sending /\ moved
  BY DEF Exit, sending, text, keying
<1>26. XmlTextDone => UNCHANGED sending /\ moved
  BY DEF XmlTextDone, sending, text, keying, SendText, Signal
<1>27. ASSUME NEW msg \in Messages, XmlText(msg) PROVE UNCHANGED sending /\ moved
  BY <1>27 DEF XmlText, sending, text, keying
<1>28. ASSUME NEW on \in BOOLEAN, XmlSend(on) PROVE UNCHANGED sending /\ moved
  BY <1>28 DEF XmlSend, sending, text, keying, SendText, Signal
<1>29. UNCHANGED vars => UNCHANGED sending /\ moved
  BY DEF vars, sending
<1>30. UNCHANGED sending /\ moved
  BY <1>1, <1>12, <1>13, <1>14, <1>15, <1>16, <1>17, <1>18, <1>19, <1>20, <1>21, <1>22, <1>23, <1>24, <1>25, <1>26, <1>27, <1>28, <1>29 DEF Next, Continue, Dialog, Client
<1> QED
  BY <1>30, ToGoKept

\* The steps of the thread, nothing being wanted.
LEMMA ThreadShortens ==
    Typed /\ Thread /\ ~Wanted /\ ~Wanted'
        => IF ToGo > 0 THEN ToGo' < ToGo ELSE ToGo' = 0
<1> SUFFICES ASSUME Typed, Thread, ~Wanted, ~Wanted'
             PROVE  IF ToGo > 0 THEN ToGo' < ToGo ELSE ToGo' = 0
  OBVIOUS
<1>a. left \in 0..CalChars /\ code \in 0..MaxCode /\ MaxCode \in Nat \ {0}
      /\ CalChars \in Nat \ {0} /\ job \in {"text", "calibrate"}
  BY CwAssumption DEF Typed, TypeOK
<1>b. Calibration(left) \in Nat \ {0}
  BY <1>a, CalibrationNat
<1>c. cwio_process \notin {"SEND", "CALIBRATE"} /\ cwio_process' \notin {"SEND", "CALIBRATE"}
  BY DEF Wanted
<1>1. CASE Woken
  BY <1>1, <1>c DEF Woken, ToGo
<1>2. CASE TakeText
  BY <1>2, <1>c DEF TakeText
<1>3. CASE EraseFirst
  <2>1. pc = "erase" /\ (pc' \in {"loop", "checkCal"}
            \/ (pc' = "down" /\ job' = "text" /\ code' \in 1..MaxCode))
    BY <1>3 DEF EraseFirst
  <2> QED
    BY <1>a, <2>1 DEF ToGo
<1>4. CASE StopSending
  BY <1>4 DEF StopSending, ToGo
<1>5. CASE KeyDownPTT
  <2>1. pc = "down" /\ left' = left /\ job' = job /\ code > 0
    BY <1>5 DEF KeyDownPTT, Typed, Progress
  <2>2. (pc' = "close" /\ code' = code)
        \/ (pc' = (IF job = "text" THEN "loop" ELSE "calibrate"))
    BY <1>5 DEF KeyDownPTT, Caller
  <2>3. Calibration(left)' = Calibration(left)
    BY <2>1 DEF Calibration
  <2> QED
    BY <1>a, <1>b, <2>1, <2>2, <2>3 DEF ToGo
<1>6. CASE KeyDownLine
  <2>1. pc = "close" /\ pc' = "up" /\ left' = left /\ job' = job /\ code' = code
    BY <1>6 DEF KeyDownLine, sending
  <2>2. Calibration(left)' = Calibration(left)
    BY <2>1 DEF Calibration
  <2>3. code > 0
    BY <2>1 DEF Typed, Progress
  <2> QED
    BY <1>a, <1>b, <2>1, <2>2, <2>3 DEF ToGo
<1>7. CASE KeyUpPTT
  <2>1. pc = "up" /\ pc' = "open" /\ left' = left /\ job' = job /\ code' = code
    BY <1>7 DEF KeyUpPTT
  <2>2. Calibration(left)' = Calibration(left)
    BY <2>1 DEF Calibration
  <2>3. code > 0
    BY <2>1 DEF Typed, Progress
  <2> QED
    BY <1>a, <1>b, <2>1, <2>2, <2>3 DEF ToGo
<1>8. CASE KeyUpLine
  <2>1. pc = "open" /\ left' = left /\ job' = job /\ code' = code - 1 /\ code > 0
    BY <1>8 DEF KeyUpLine, Typed, Progress
  <2>2. pc' = IF code = 1 THEN (IF job = "text" THEN "loop" ELSE "calibrate")
              ELSE "down"
    BY <1>8 DEF KeyUpLine, Caller
  <2>3. Calibration(left)' = Calibration(left)
    BY <2>1 DEF Calibration
  <2> QED
    BY <1>a, <1>b, <2>1, <2>2, <2>3 DEF ToGo
<1>9. CASE CheckCalibrate
  BY <1>9, <1>c DEF CheckCalibrate, ToGo
<1>10. CASE Calibrate
  <2>1. pc = "calibrate"
    BY <1>10 DEF Calibrate
  <2>2. CASE left = 0
    BY <1>10, <1>b, <2>1, <2>2 DEF Calibrate, ToGo
  <2>3. CASE left # 0
    <3>1. left' = left - 1 /\ code' \in 1..MaxCode /\ job' = "calibrate" /\ pc' = "down"
      BY <1>10, <2>3 DEF Calibrate
    <3>2. Calibration(left) = Calibration(left - 1) + 4 * MaxCode + 1
      BY <1>a, <2>3, CalibrationShrinks
    <3>3. Calibration(left - 1) \in Nat \ {0}
      BY <1>a, <2>3, CalibrationNat
    <3>4. Calibration(left)' = Calibration(left - 1)
      BY <3>1 DEF Calibration
    <3> QED
      BY <1>a, <1>b, <2>1, <3>1, <3>2, <3>3, <3>4 DEF ToGo
  <2> QED
    BY <2>2, <2>3
<1> QED
  BY <1>1, <1>2, <1>3, <1>4, <1>5, <1>6, <1>7, <1>8, <1>9, <1>10 DEF Thread

\* A pause, a ']', an END or the exit, and everything the dialog and the clients
\* do afterwards short of a new order, lets the thread out of the text or the
\* calibration within ToGo steps: what PauseSilences needs besides fairness.
THEOREM PauseShortensAlways == Spec => PauseShortens
<1>1. Typed /\ ToGo \in Nat /\ (ToGo \in Nat)' /\ [Next]_vars
        => [~Wanted /\ ~Wanted'
              => ToGo' <= ToGo /\ (Thread /\ ToGo > 0 => ToGo' < ToGo)]_vars
  <2> SUFFICES ASSUME Typed, ToGo \in Nat, ToGo' \in Nat, [Next]_vars,
                      ~Wanted, ~Wanted'
               PROVE  ToGo' <= ToGo /\ (Thread /\ ToGo > 0 => ToGo' < ToGo)
    OBVIOUS
  <2>1. CASE Thread
    BY <2>1, ThreadShortens
  <2>2. CASE ~Thread
    BY <2>2, OthersKeepToGo
  <2> QED
    BY <2>1, <2>2
<1>2. Spec => []Typed
  BY TypedInit, TypedStep, PTL DEF Spec
<1> QED
  BY <1>1, <1>2, ToGoNat, PTL DEF Spec, PauseShortens
=============================================================================
