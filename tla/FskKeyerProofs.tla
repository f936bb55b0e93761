---------------------------- MODULE FskKeyerProofs ----------------------------
(* What TLAPS proves of the FSK keyer, for every alphabet, text and bound.   *)
EXTENDS FskKeyer, TLAPS

\* A code, sent in the shift baudot_enc() asks for, is printed as it is meant.
LEMMA EncodePrints ==
    ASSUME shift_state \in Shift, NEW c \in Char
    PROVE  /\ baudot_shift(c) \in Shift
           /\ baudot_code(c) \in Code
           /\ Printed(baudot_shift(c), baudot_code(c)) = Meant(c)
<1>. USE FskAssumption DEF baudot_shift, baudot_code, Printed, Meant, NoCode, Shift
<1>1. CASE c = " "
  BY <1>1
<1>2. CASE c # " " /\ \E i \in Code : letters[i] = c
  BY <1>2
<1>3. CASE c # " " /\ ~(\E i \in Code : letters[i] = c) /\ \E i \in Code : figures[i] = c
  BY <1>3
<1>4. CASE ~(c = " " \/ (\E i \in Code : letters[i] = c) \/ \E i \in Code : figures[i] = c)
  BY <1>4
<1>. QED  BY <1>1, <1>2, <1>3, <1>4

\* The first character of a text, or NUL when the text has just been cleared.
LEMMA FirstChar ==
    ASSUME NEW T, NEW s \in Seq(T)
    PROVE  /\ Erased(s) \in Seq(T)
           /\ First(s) \in T \cup {"NUL"}
<1>1. CASE s = <<>>
  BY <1>1 DEF Erased, First
<1>2. CASE s # <<>>
  BY <1>2 DEF Erased, First
<1>. QED  BY <1>1, <1>2

\* Every state of the keyer is well typed: the idles never pass zero and no
\* state of the thread is left without a successor.
THEOREM TypeCorrect == Spec => []TypeOK
<1>0. /\ fsk_idles \in Nat /\ Messages \subseteq Seq(Char)
      /\ "NUL" \in Char /\ blank \in Code
  BY FskAssumption
<1>. USE DEF TypeOK
<1>1. Init => TypeOK
  <2>. SUFFICES ASSUME Init PROVE TypeOK
    OBVIOUS
  <2>1. idles \in 0..fsk_idles
    BY <1>0 DEF Init
  <2>2. /\ FSK_new_text \in Seq(Char) /\ str_buff \in Seq(Char)
        /\ awake \in Seq({"SEND_ON", "SEND_OFF"})
    BY DEF Init
  <2>. QED  BY <1>0, <2>1, <2>2 DEF Init, Shift
<1>2. TypeOK /\ [Next]_vars => TypeOK'
  <2>. SUFFICES ASSUME TypeOK, [Next]_vars PROVE TypeOK'
    OBVIOUS
  <2>1. CASE TakeText
    BY <2>1 DEF TakeText, baudot, air
  <2>2. CASE OpeningBracket
    <3>1. str_buff' \in Seq(Char)
      BY <2>2, <1>0, FirstChar DEF OpeningBracket
    <3>. QED  BY <2>2, <3>1 DEF OpeningBracket, baudot, air
  <2>3. CASE ClosingBracket
    BY <2>3 DEF ClosingBracket, baudot, air
  <2>4. CASE AskButton
    BY <2>4 DEF AskButton, text, baudot, air
  <2>5. CASE FskSendOn
    <3>1. idles' \in 0..fsk_idles
      BY <2>5, <1>0 DEF FskSendOn
    <3>. QED  BY <2>5, <3>1 DEF FskSendOn, text, air
  <2>6. CASE FskPttOn
    <3>1. idles' \in 0..fsk_idles
      BY <2>6, <1>0 DEF FskPttOn
    <3>. QED  BY <2>6, <3>1 DEF FskPttOn, doPTT, PassedOn, text
  <2>7. CASE FskSendOff
    BY <2>7 DEF FskSendOff, text, baudot, air
  <2>8. CASE FskPttOff
    BY <2>8 DEF FskPttOff, doPTT, PassedOn, text, baudot
  <2>9. CASE PickIdle
    BY <2>9, <1>0 DEF PickIdle, text, Shift
  <2>10. CASE PickChar
    BY <2>10 DEF PickChar, text, baudot, air
  <2>11. CASE Encode
    <3>. DEFINE c == First(str_buff)
    <3>1. c \in Char
      BY <1>0, FirstChar
    <3>2. baudot_shift(c) \in Shift /\ baudot_code(c) \in Code
      BY <3>1, EncodePrints
    <3>. QED  BY <2>11, <3>1, <3>2 DEF Encode, text
  <2>12. CASE IdleKeyed
    BY <2>12 DEF IdleKeyed, text, baudot, Shift
  <2>13. CASE ShiftKeyed
    BY <2>13 DEF ShiftKeyed, text, baudot
  <2>14. CASE EraseChar
    <3>1. str_buff' \in Seq(Char)
      BY <2>14, FirstChar DEF EraseChar
    <3>. QED  BY <2>14, <3>1 DEF EraseChar, baudot
  <2>15. CASE CharKeyed
    BY <2>15 DEF CharKeyed, text, baudot, Shift
  <2>16. CASE FSK_add
    BY <2>16, <1>0 DEF FSK_add, baudot, air
  <2>17. CASE RunAwake
    BY <2>17 DEF RunAwake, text, baudot, air
  <2>18. CASE SendKey
    BY <2>18 DEF SendKey, text, baudot, air
  <2>19. CASE PauseKey
    BY <2>19 DEF PauseKey, text, baudot, air
  <2>20. CASE FltkSend
    BY <2>20 DEF FltkSend, text, baudot, air
  <2>21. CASE FltkPtt
    BY <2>21 DEF FltkPtt, doPTT, PassedOn, text, baudot
  <2>22. CASE Clear
    BY <2>22 DEF Clear, baudot, air
  <2>23. CASE Cleared
    BY <2>23 DEF Cleared, text, baudot, air
  <2>24. CASE UNCHANGED vars
    BY <2>24 DEF vars, text, baudot, air
  <2>. QED
    BY <2>1, <2>2, <2>3, <2>4, <2>5, <2>6, <2>7, <2>8, <2>9, <2>10, <2>11, <2>12,
       <2>13, <2>14, <2>15, <2>16, <2>17, <2>18, <2>19, <2>20, <2>21, <2>22, <2>23,
       <2>24 DEF Next
<1>. QED  BY <1>1, <1>2, PTL DEF Spec

-----------------------------------------------------------------------------
(* Listener and keyer agree on the shift.                                  *)

\* A receiver that unshifts on space asks more: every character has a code, and
\* a "[" is followed by an idle, so that no bracket is ever looked up.
Codable == (Char \ NoCode) \cup Unwanted
Followable ==
    usos => fsk_idles > 0 /\ Messages \subseteq Seq(Codable)

\* The inductive invariant: a listener that has heard a shift has the thread's
\* shift_state, but for the time a shift is on its way to it.
OnAirInv ==
    /\ rx # "unknown" => PTT
    /\ onAir => PTT

AgreeInv ==
    /\ pc \in {"idle", "shift"} /\ ~onAir => rx = "unknown"
    /\ pc \notin {"idle", "shift"} => rx \in {"unknown", shift_state}
    /\ pc = "idle" => shift_state = "letters"

CodeInv ==
    pc \in {"shift", "erase", "char"} =>
        /\ Printed(shift_state, chr_out) = Meant(chr)
        /\ usos /\ chr_out = blank => shift_state = "letters"

TextInv ==
    usos =>
        /\ FSK_new_text \in Seq(Codable) /\ str_buff \in Seq(Codable)
        /\ pc = "pick" /\ idles = 0 => First(str_buff) \notin Unwanted
        /\ pc = "encode" => First(str_buff) \notin Unwanted

CopyInv == OnAirInv /\ AgreeInv /\ CodeInv /\ TextInv

\* Only a space has the blank code, among the characters that have one.
LEMMA BlankIsLetters ==
    ASSUME shift_state \in Shift, NEW c \in Char \ NoCode, baudot_code(c) = blank
    PROVE  baudot_shift(c) = "letters"
  BY FskAssumption DEF baudot_code, baudot_shift, NoCode

\* A change of PTT leaves nothing half heard.
LEMMA DoPttOnAir ==
    ASSUME PTT \in BOOLEAN, onAir \in BOOLEAN, OnAirInv,
           NEW on \in BOOLEAN, NEW who, doPTT(on, who)
    PROVE  OnAirInv'
<1>1. CASE on = PTT
  BY <1>1 DEF OnAirInv, doPTT
<1>2. CASE on # PTT
  BY <1>2 DEF OnAirInv, doPTT
<1>. QED  BY <1>1, <1>2

\* What is on the air is heard only while the set transmits.
LEMMA OnAirStep == TypeOK /\ OnAirInv /\ [Next]_vars => OnAirInv'
<1>. SUFFICES ASSUME TypeOK, OnAirInv, [Next]_vars PROVE OnAirInv'
  OBVIOUS
<1>. USE DEF OnAirInv, TypeOK, Shift
<1>1. CASE TakeText
  BY <1>1 DEF TakeText, baudot, air
<1>2. CASE OpeningBracket
  BY <1>2 DEF OpeningBracket, baudot, air
<1>3. CASE ClosingBracket
  BY <1>3 DEF ClosingBracket, baudot, air
<1>4. CASE AskButton
  BY <1>4 DEF AskButton, text, baudot, air
<1>5. CASE FskSendOn
  BY <1>5 DEF FskSendOn, text, air
<1>6. CASE FskPttOn
  <2>1. PICK on \in PassedOn(TRUE) : doPTT(on, "bracket")
    BY <1>6 DEF FskPttOn
  <2>2. on \in BOOLEAN
    BY DEF PassedOn
  <2>. QED  BY <2>1, <2>2, DoPttOnAir
<1>7. CASE FskSendOff
  BY <1>7 DEF FskSendOff, text, baudot, air
<1>8. CASE FskPttOff
  <2>1. PICK on \in PassedOn(FALSE) : doPTT(on, "button")
    BY <1>8 DEF FskPttOff
  <2>2. on \in BOOLEAN
    BY DEF PassedOn
  <2>. QED  BY <2>1, <2>2, DoPttOnAir
<1>9. CASE PickIdle
  BY <1>9 DEF PickIdle, text
<1>10. CASE PickChar
  BY <1>10 DEF PickChar, text, baudot, air
<1>11. CASE Encode
  BY <1>11 DEF Encode, text
<1>12. CASE IdleKeyed
  BY <1>12 DEF IdleKeyed, text, baudot
<1>13. CASE ShiftKeyed
  BY <1>13 DEF ShiftKeyed, text, baudot
<1>14. CASE EraseChar
  BY <1>14 DEF EraseChar, baudot
<1>15. CASE CharKeyed
  BY <1>15 DEF CharKeyed, text, baudot
<1>16. CASE FSK_add
  BY <1>16 DEF FSK_add, baudot, air
<1>17. CASE RunAwake
  BY <1>17 DEF RunAwake, text, baudot, air
<1>18. CASE SendKey
  BY <1>18 DEF SendKey, text, baudot, air
<1>19. CASE PauseKey
  BY <1>19 DEF PauseKey, text, baudot, air
<1>20. CASE FltkSend
  BY <1>20 DEF FltkSend, text, baudot, air
<1>21. CASE FltkPtt
  <2>1. PICK on \in PassedOn(fltk = "pttOn") : doPTT(on, "button")
    BY <1>21 DEF FltkPtt
  <2>2. on \in BOOLEAN
    BY DEF PassedOn
  <2>. QED  BY <2>1, <2>2, DoPttOnAir
<1>22. CASE Clear
  BY <1>22 DEF Clear, baudot, air
<1>23. CASE Cleared
  BY <1>23 DEF Cleared, text, baudot, air
<1>24. CASE UNCHANGED vars
  BY <1>24 DEF vars, text, baudot, air
<1>. QED
  BY <1>1, <1>2, <1>3, <1>4, <1>5, <1>6, <1>7, <1>8, <1>9, <1>10, <1>11, <1>12,
     <1>13, <1>14, <1>15, <1>16, <1>17, <1>18, <1>19, <1>20, <1>21, <1>22, <1>23,
     <1>24 DEF Next

LEMMA AgreeStep == TypeOK /\ OnAirInv /\ AgreeInv /\ CodeInv /\ [Next]_vars => AgreeInv'
<1>. SUFFICES ASSUME TypeOK, OnAirInv, AgreeInv, CodeInv, [Next]_vars PROVE AgreeInv'
  OBVIOUS
<1>. USE DEF OnAirInv, AgreeInv, TypeOK, Shift
<1>1. CASE TakeText
  BY <1>1 DEF TakeText, baudot, air
<1>2. CASE OpeningBracket
  BY <1>2 DEF OpeningBracket, baudot, air
<1>3. CASE ClosingBracket
  BY <1>3 DEF ClosingBracket, baudot, air
<1>4. CASE AskButton
  BY <1>4 DEF AskButton, text, baudot, air
<1>5. CASE FskSendOn
  BY <1>5 DEF FskSendOn, text, air
<1>6. CASE FskPttOn
  BY <1>6 DEF FskPttOn, doPTT, PassedOn, text
<1>7. CASE FskSendOff
  BY <1>7 DEF FskSendOff, text, baudot, air
<1>8. CASE FskPttOff
  BY <1>8 DEF FskPttOff, doPTT, PassedOn, text, baudot
<1>9. CASE PickIdle
  BY <1>9 DEF PickIdle, text
<1>10. CASE PickChar
  BY <1>10 DEF PickChar, text, baudot, air
<1>11. CASE Encode
  BY <1>11 DEF Encode, text
<1>12. CASE IdleKeyed
  BY <1>12 DEF IdleKeyed, text, baudot
<1>13. CASE ShiftKeyed
  BY <1>13 DEF ShiftKeyed, text, baudot
<1>14. CASE EraseChar
  BY <1>14 DEF EraseChar, baudot
<1>15. CASE CharKeyed
  BY <1>15 DEF CharKeyed, CodeInv, text, baudot
<1>16. CASE FSK_add
  BY <1>16 DEF FSK_add, baudot, air
<1>17. CASE RunAwake
  BY <1>17 DEF RunAwake, text, baudot, air
<1>18. CASE SendKey
  BY <1>18 DEF SendKey, text, baudot, air
<1>19. CASE PauseKey
  BY <1>19 DEF PauseKey, text, baudot, air
<1>20. CASE FltkSend
  BY <1>20 DEF FltkSend, text, baudot, air
<1>21. CASE FltkPtt
  BY <1>21 DEF FltkPtt, doPTT, PassedOn, text, baudot
<1>22. CASE Clear
  BY <1>22 DEF Clear, baudot, air
<1>23. CASE Cleared
  BY <1>23 DEF Cleared, text, baudot, air
<1>24. CASE UNCHANGED vars
  BY <1>24 DEF vars, text, baudot, air
<1>. QED
  BY <1>1, <1>2, <1>3, <1>4, <1>5, <1>6, <1>7, <1>8, <1>9, <1>10, <1>11, <1>12,
     <1>13, <1>14, <1>15, <1>16, <1>17, <1>18, <1>19, <1>20, <1>21, <1>22, <1>23,
     <1>24 DEF Next

\* The code on its way is the one its character needs.
LEMMA CodeStep == Followable /\ TypeOK /\ TextInv /\ CodeInv /\ [Next]_vars => CodeInv'
<1>. SUFFICES ASSUME Followable, TypeOK, TextInv, CodeInv, [Next]_vars PROVE CodeInv'
  OBVIOUS
<1>. USE DEF CodeInv, TypeOK, Printed
<1>1. CASE TakeText
  BY <1>1 DEF TakeText, baudot, air
<1>2. CASE OpeningBracket
  BY <1>2 DEF OpeningBracket, baudot, air
<1>3. CASE ClosingBracket
  BY <1>3 DEF ClosingBracket, baudot, air
<1>4. CASE AskButton
  BY <1>4 DEF AskButton, text, baudot, air
<1>5. CASE FskSendOn
  BY <1>5 DEF FskSendOn, text, air
<1>6. CASE FskPttOn
  BY <1>6 DEF FskPttOn, doPTT, PassedOn, text
<1>7. CASE FskSendOff
  BY <1>7 DEF FskSendOff, text, baudot, air
<1>8. CASE FskPttOff
  BY <1>8 DEF FskPttOff, doPTT, PassedOn, text, baudot
<1>9. CASE PickIdle
  BY <1>9 DEF PickIdle, text
<1>10. CASE PickChar
  BY <1>10 DEF PickChar, text, baudot, air
<1>11. CASE Encode
  <2>. DEFINE c == First(str_buff)
  <2>1. c \in Char
    BY FirstChar, FskAssumption
  <2>2. Printed(shift_state', chr_out') = Meant(chr')
    BY <1>11, <2>1, EncodePrints DEF Encode
  <2>3. ASSUME usos, chr_out' = blank PROVE shift_state' = "letters"
    <3>1. str_buff \in Seq(Codable) /\ c \notin Unwanted
      BY <1>11, <2>3 DEF Encode, TextInv
    <3>2. "NUL" \in Char \ NoCode
      BY FskAssumption DEF NoCode
    <3>3. c \in Codable \cup {"NUL"}
      BY <3>1, FirstChar
    <3>4. c \in Char \ NoCode
      BY <3>1, <3>2, <3>3 DEF Codable
    <3>. QED  BY <1>11, <2>3, <3>4, BlankIsLetters DEF Encode
  <2>. QED  BY <2>2, <2>3 DEF Printed
<1>12. CASE IdleKeyed
  BY <1>12 DEF IdleKeyed, text, baudot
<1>13. CASE ShiftKeyed
  BY <1>13 DEF ShiftKeyed, text, baudot
<1>14. CASE EraseChar
  BY <1>14 DEF EraseChar, baudot
<1>15. CASE CharKeyed
  BY <1>15 DEF CharKeyed, text, baudot
<1>16. CASE FSK_add
  BY <1>16 DEF FSK_add, baudot, air
<1>17. CASE RunAwake
  BY <1>17 DEF RunAwake, text, baudot, air
<1>18. CASE SendKey
  BY <1>18 DEF SendKey, text, baudot, air
<1>19. CASE PauseKey
  BY <1>19 DEF PauseKey, text, baudot, air
<1>20. CASE FltkSend
  BY <1>20 DEF FltkSend, text, baudot, air
<1>21. CASE FltkPtt
  BY <1>21 DEF FltkPtt, doPTT, PassedOn, text, baudot
<1>22. CASE Clear
  BY <1>22 DEF Clear, baudot, air
<1>23. CASE Cleared
  BY <1>23 DEF Cleared, text, baudot, air
<1>24. CASE UNCHANGED vars
  BY <1>24 DEF vars, text, baudot, air
<1>. QED
  BY <1>1, <1>2, <1>3, <1>4, <1>5, <1>6, <1>7, <1>8, <1>9, <1>10, <1>11, <1>12,
     <1>13, <1>14, <1>15, <1>16, <1>17, <1>18, <1>19, <1>20, <1>21, <1>22, <1>23,
     <1>24 DEF Next

\* No bracket is looked up, and every character taken has a code.
LEMMA TextStep == Followable /\ TypeOK /\ TextInv /\ [Next]_vars => TextInv'
<1>. SUFFICES ASSUME Followable, TypeOK, TextInv, usos, [Next]_vars PROVE TextInv'
  BY DEF TextInv
<1>. USE DEF TextInv, TypeOK, Followable
<1>0. "NUL" \notin Unwanted
  BY DEF Unwanted
<1>1. CASE TakeText
  BY <1>1 DEF TakeText, baudot, air
<1>2. CASE OpeningBracket
  <2>1. Erased(str_buff) \in Seq(Codable)
    BY FirstChar
  <2>. QED  BY <1>2, <2>1 DEF OpeningBracket, baudot, air
<1>3. CASE ClosingBracket
  BY <1>3 DEF ClosingBracket, baudot, air
<1>4. CASE AskButton
  BY <1>4 DEF AskButton, text, baudot, air
<1>5. CASE FskSendOn
  BY <1>5 DEF FskSendOn, text, air
<1>6. CASE FskPttOn
  BY <1>6 DEF FskPttOn, doPTT, PassedOn, text
<1>7. CASE FskSendOff
  BY <1>7 DEF FskSendOff, text, baudot, air
<1>8. CASE FskPttOff
  BY <1>8 DEF FskPttOff, doPTT, PassedOn, text, baudot
<1>9. CASE PickIdle
  BY <1>9 DEF PickIdle, text
<1>10. CASE PickChar
  BY <1>10 DEF PickChar, text, baudot, air
<1>11. CASE Encode
  BY <1>11 DEF Encode, text
<1>12. CASE IdleKeyed
  BY <1>12 DEF IdleKeyed, text, baudot
<1>13. CASE ShiftKeyed
  BY <1>13 DEF ShiftKeyed, text, baudot
<1>14. CASE EraseChar
  <2>1. Erased(str_buff) \in Seq(Codable)
    BY FirstChar
  <2>. QED  BY <1>14, <2>1 DEF EraseChar, baudot
<1>15. CASE CharKeyed
  BY <1>15 DEF CharKeyed, text, baudot
<1>16. CASE FSK_add
  BY <1>16 DEF FSK_add, baudot, air
<1>17. CASE RunAwake
  BY <1>17 DEF RunAwake, text, baudot, air
<1>18. CASE SendKey
  BY <1>18 DEF SendKey, text, baudot, air
<1>19. CASE PauseKey
  BY <1>19 DEF PauseKey, text, baudot, air
<1>20. CASE FltkSend
  BY <1>20 DEF FltkSend, text, baudot, air
<1>21. CASE FltkPtt
  BY <1>21 DEF FltkPtt, doPTT, PassedOn, text, baudot
<1>22. CASE Clear
  BY <1>0, <1>22 DEF Clear, First, baudot, air
<1>23. CASE Cleared
  BY <1>23 DEF Cleared, text, baudot, air
<1>24. CASE UNCHANGED vars
  BY <1>24 DEF vars, text, baudot, air
<1>. QED
  BY <1>1, <1>2, <1>3, <1>4, <1>5, <1>6, <1>7, <1>8, <1>9, <1>10, <1>11, <1>12,
     <1>13, <1>14, <1>15, <1>16, <1>17, <1>18, <1>19, <1>20, <1>21, <1>22, <1>23,
     <1>24 DEF Next

\* A listener that has heard a shift prints every character as it stands in
\* the text: for a receiver that keeps its shift through spaces whatever the
\* text, for one that unshifts if the text is Followable.
THEOREM CopyAlways == ASSUME Followable PROVE Spec => Copy
<1>1. Init => CopyInv
  <2>. SUFFICES ASSUME Init PROVE CopyInv
    OBVIOUS
  <2>1. OnAirInv /\ AgreeInv /\ CodeInv
    BY DEF Init, OnAirInv, AgreeInv, CodeInv
  <2>2. TextInv
    BY DEF Init, TextInv
  <2>. QED  BY <2>1, <2>2 DEF CopyInv
<1>2. TypeOK /\ CopyInv /\ [Next]_vars => CopyInv'
  BY Followable, OnAirStep, AgreeStep, CodeStep, TextStep DEF CopyInv
<1>3. TypeOK /\ CopyInv => (Heard /\ rx # "unknown" => Printed(rx, chr_out) = Meant(chr))
  BY DEF CopyInv, AgreeInv, CodeInv, Heard
<1>4. TypeOK /\ CopyInv /\ [Next]_vars =>
        [Heard /\ rx # "unknown" => Printed(rx, chr_out) = Meant(chr)]_vars
  BY <1>3
<1>. QED  BY <1>1, <1>2, <1>4, TypeCorrect, PTL DEF Spec, Copy

-----------------------------------------------------------------------------
(* A text that opens with "[" is in step from its first character.          *)

\* While a set keyed by "[" has not been heard to shift, the thread is about to
\* key an idle, or keying it.
OpenInv ==
    PTT /\ starter = "bracket" /\ rx = "unknown" =>
        \/ pc = "pick" /\ idles > 0
        \/ pc = "idle" /\ onAir

LEMMA OpenStep == fsk_idles > 0 /\ TypeOK /\ OnAirInv /\ OpenInv /\ [Next]_vars => OpenInv'
<1>. SUFFICES ASSUME fsk_idles > 0, TypeOK, OnAirInv, OpenInv, [Next]_vars PROVE OpenInv'
  OBVIOUS
<1>. USE DEF OpenInv, OnAirInv, TypeOK
<1>1. CASE TakeText
  BY <1>1 DEF TakeText, baudot, air
<1>2. CASE OpeningBracket
  BY <1>2 DEF OpeningBracket, baudot, air
<1>3. CASE ClosingBracket
  BY <1>3 DEF ClosingBracket, baudot, air
<1>4. CASE AskButton
  BY <1>4 DEF AskButton, text, baudot, air
<1>5. CASE FskSendOn
  BY <1>5 DEF FskSendOn, text, air
<1>6. CASE FskPttOn
  BY <1>6 DEF FskPttOn, doPTT, PassedOn, text
<1>7. CASE FskSendOff
  BY <1>7 DEF FskSendOff, text, baudot, air
<1>8. CASE FskPttOff
  <2>1. PICK on \in PassedOn(FALSE) : doPTT(on, "button")
    BY <1>8 DEF FskPttOff
  <2>2. CASE on = PTT
    BY <1>8, <2>1, <2>2 DEF FskPttOff, doPTT
  <2>3. CASE on # PTT
    BY <1>8, <2>1, <2>3 DEF FskPttOff, doPTT, PassedOn
  <2>. QED  BY <2>2, <2>3
<1>9. CASE PickIdle
  BY <1>9 DEF PickIdle, text
<1>10. CASE PickChar
  BY <1>10 DEF PickChar, text, baudot, air
<1>11. CASE Encode
  BY <1>11 DEF Encode, text
<1>12. CASE IdleKeyed
  BY <1>12 DEF IdleKeyed, text, baudot
<1>13. CASE ShiftKeyed
  BY <1>13 DEF ShiftKeyed, Shift, text, baudot
<1>14. CASE EraseChar
  BY <1>14 DEF EraseChar, baudot
<1>15. CASE CharKeyed
  BY <1>15 DEF CharKeyed, text, baudot
<1>16. CASE FSK_add
  BY <1>16 DEF FSK_add, baudot, air
<1>17. CASE RunAwake
  BY <1>17 DEF RunAwake, text, baudot, air
<1>18. CASE SendKey
  BY <1>18 DEF SendKey, text, baudot, air
<1>19. CASE PauseKey
  BY <1>19 DEF PauseKey, text, baudot, air
<1>20. CASE FltkSend
  BY <1>20 DEF FltkSend, text, baudot, air
<1>21. CASE FltkPtt
  BY <1>21 DEF FltkPtt, doPTT, PassedOn, text, baudot
<1>22. CASE Clear
  BY <1>22 DEF Clear, baudot, air
<1>23. CASE Cleared
  BY <1>23 DEF Cleared, text, baudot, air
<1>24. CASE UNCHANGED vars
  BY <1>24 DEF vars, text, baudot, air
<1>. QED
  BY <1>1, <1>2, <1>3, <1>4, <1>5, <1>6, <1>7, <1>8, <1>9, <1>10, <1>11, <1>12,
     <1>13, <1>14, <1>15, <1>16, <1>17, <1>18, <1>19, <1>20, <1>21, <1>22, <1>23,
     <1>24 DEF Next

\* As long as idles are asked for, the listener hears LTRS before the first
\* character of every transmission that a "[" began.
THEOREM OpensInStepAlways == ASSUME fsk_idles > 0 PROVE Spec => OpensInStep
<1>1. Init => OnAirInv /\ OpenInv
  BY DEF Init, OnAirInv, OpenInv
<1>2. TypeOK /\ OnAirInv /\ OpenInv /\ [Next]_vars => (OnAirInv /\ OpenInv)'
  BY fsk_idles > 0, OnAirStep, OpenStep
<1>3. TypeOK /\ OnAirInv /\ OpenInv => (Heard /\ starter = "bracket" => rx # "unknown")
  BY DEF OnAirInv, OpenInv, Heard
<1>. QED  BY <1>1, <1>2, <1>3, TypeCorrect, PTL DEF Spec, OpensInStep

-----------------------------------------------------------------------------
(* PTT and FSK_process.                                                    *)

\* A thread alone in FSK_send_text passes on what it stored.
LEMMA FollowsStep == TypeOK /\ PttFollows /\ ~Overlap /\ [Next]_vars => PttFollows'
<1>. SUFFICES ASSUME TypeOK, PttFollows, ~Overlap, [Next]_vars PROVE PttFollows'
  OBVIOUS
<1>. USE DEF PttFollows, TypeOK
<1>1. CASE TakeText
  BY <1>1 DEF TakeText, baudot, air
<1>2. CASE OpeningBracket
  BY <1>2 DEF OpeningBracket, baudot, air
<1>3. CASE ClosingBracket
  BY <1>3 DEF ClosingBracket, baudot, air
<1>4. CASE AskButton
  BY <1>4 DEF AskButton, text, baudot, air
<1>5. CASE FskSendOn
  BY <1>5 DEF FskSendOn, Overlap, Sending, text, air
<1>6. CASE FskPttOn
  BY <1>6 DEF FskPttOn, Overlap, Sending, doPTT, PassedOn, text
<1>7. CASE FskSendOff
  BY <1>7 DEF FskSendOff, Overlap, Sending, text, baudot, air
<1>8. CASE FskPttOff
  BY <1>8 DEF FskPttOff, Overlap, Sending, doPTT, PassedOn, text, baudot
<1>9. CASE PickIdle
  BY <1>9 DEF PickIdle, text
<1>10. CASE PickChar
  BY <1>10 DEF PickChar, text, baudot, air
<1>11. CASE Encode
  BY <1>11 DEF Encode, text
<1>12. CASE IdleKeyed
  BY <1>12 DEF IdleKeyed, text, baudot
<1>13. CASE ShiftKeyed
  BY <1>13 DEF ShiftKeyed, Shift, text, baudot
<1>14. CASE EraseChar
  BY <1>14 DEF EraseChar, baudot
<1>15. CASE CharKeyed
  BY <1>15 DEF CharKeyed, text, baudot
<1>16. CASE FSK_add
  BY <1>16 DEF FSK_add, baudot, air
<1>17. CASE RunAwake
  BY <1>17 DEF RunAwake, text, baudot, air
<1>18. CASE SendKey
  BY <1>18 DEF SendKey, text, baudot, air
<1>19. CASE PauseKey
  BY <1>19 DEF PauseKey, text, baudot, air
<1>20. CASE FltkSend
  BY <1>20 DEF FltkSend, Overlap, Sending, text, baudot, air
<1>21. CASE FltkPtt
  BY <1>21 DEF FltkPtt, Overlap, Sending, doPTT, PassedOn, text, baudot
<1>22. CASE Clear
  BY <1>22 DEF Clear, baudot, air
<1>23. CASE Cleared
  BY <1>23 DEF Cleared, text, baudot, air
<1>24. CASE UNCHANGED vars
  BY <1>24 DEF vars, text, baudot, air
<1>. QED
  BY <1>1, <1>2, <1>3, <1>4, <1>5, <1>6, <1>7, <1>8, <1>9, <1>10, <1>11, <1>12,
     <1>13, <1>14, <1>15, <1>16, <1>17, <1>18, <1>19, <1>20, <1>21, <1>22, <1>23,
     <1>24 DEF Next

\* Whatever state PTT and FSK_process are in, only two threads in FSK_send_text
\* part them.
THEOREM PttPartsInOverlapAlways == Spec => PttPartsInOverlap
<1>1. TypeOK /\ [Next]_vars => [PttFollows /\ ~Overlap => PttFollows']_vars
  BY FollowsStep
<1>. QED  BY <1>1, TypeCorrect, PTL DEF Spec, PttPartsInOverlap

\* So where two threads never meet there the set transmits exactly when
\* FSK_process says so, but for the moment between the two.
THEOREM PttFollowsAlone == Spec /\ []~Overlap => []PttFollows
<1>1. Init => PttFollows
  BY DEF Init, PttFollows
<1>. QED  BY <1>1, FollowsStep, TypeCorrect, PTL DEF Spec
=============================================================================
