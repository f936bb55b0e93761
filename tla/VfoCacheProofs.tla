--------------------------- MODULE VfoCacheProofs ---------------------------
(***************************************************************************)
(* Proofs about VfoCache for every set of frequencies, modes, bandwidths   *)
(* and every combination of the capability flags.                          *)
(***************************************************************************)
EXTENDS VfoCache, TLAPS

-----------------------------------------------------------------------------
(* What the driver calls return.                                           *)

\* Other() names a VFO, and is its own inverse.
LEMMA OtherVfo ==
    ASSUME NEW v \in VFO
    PROVE  /\ Other(v) \in VFO
           /\ Other(v) # v
           /\ Other(Other(v)) = v
BY DEF VFO, Other

\* What the set holds, flrig can store.
LEMMA RegisterIsState == Register \subseteq State
BY RigAssumption DEF Register, State

\* Every driver call leaves a radio: a register never holds a frequency the set
\* does not take.
LEMMA LandingType ==
    ASSUME NEW r \in Radio, NEW v \in VFO
    PROVE  Landing(r, v) \in VFO
BY DEF Landing, Radio

LEMMA SelectType ==
    ASSUME NEW r \in Radio, NEW v \in VFO
    PROVE  Select(r, v) \in Radio
BY DEF Select, Radio

LEMMA SetFreqType ==
    ASSUME NEW r \in Radio, NEW v \in VFO, NEW f \in Freqs
    PROVE  SetFreq(r, v, f) \in Radio
BY LandingType DEF SetFreq, Radio, Register

LEMMA SetModeType ==
    ASSUME NEW r \in Radio, NEW v \in VFO, NEW m \in Modes
    PROVE  SetMode(r, v, m) \in Radio
BY LandingType DEF SetMode, Radio, Register

LEMMA SetBWType ==
    ASSUME NEW r \in Radio, NEW v \in VFO, NEW b \in BWs
    PROVE  SetBW(r, v, b) \in Radio
BY LandingType DEF SetBW, Radio, Register

LEMMA SetAllType ==
    ASSUME NEW r \in Radio, NEW v \in VFO, NEW s \in State
    PROVE  SetAll(r, v, s) \in Radio
<1>1. s.freq \in Freqs /\ s.imode \in Modes /\ s.iBW \in BWs
  BY DEF State
<1> QED
  BY <1>1, SetModeType, SetBWType, SetFreqType DEF SetAll

LEMMA SwapABType ==
    ASSUME NEW r \in Radio
    PROVE  SwapAB(r) \in Radio
BY OtherVfo DEF SwapAB, Radio

LEMMA EqualizeType ==
    ASSUME NEW r \in Radio
    PROVE  Equalize(r) \in Radio
<1>1. (IF EqualizeA THEN "A" ELSE r.inuse) \in VFO
  BY DEF Radio, VFO
<1> QED
  BY <1>1, OtherVfo DEF Equalize, Radio

LEMMA SetSplitType ==
    ASSUME NEW r \in Radio, NEW on \in BOOLEAN
    PROVE  SetSplit(r, on) \in Radio
BY DEF SetSplit, Radio

LEMMA ReachType ==
    ASSUME NEW r \in Radio, NEW v \in VFO
    PROVE  Reach(r, v) \in Radio
BY SelectType DEF Reach

LEMMA ReturnType ==
    ASSUME NEW r \in Radio, NEW before \in Radio
    PROVE  Return(r, before) \in Radio
<1>1. before.inuse \in VFO
  BY DEF Radio
<1> QED
  BY <1>1, SelectType DEF Return

-----------------------------------------------------------------------------
(* Type correctness.                                                       *)

\* The facts about the state that every step below uses.
LEMMA Basics ==
    ASSUME TypeOK
    PROVE  /\ Active \in VFO /\ Other(Active) \in VFO
           /\ radio.reg \in [VFO -> State]
           /\ \A v \in VFO : radio.reg[v] \in State /\ cache[v] \in State
           /\ \A v \in VFO : [radio EXCEPT !.reg[v] = radio.reg[v]] \in Radio
           /\ \A m \in Modes : DefBW[m] \in BWs
<1>1. Active \in VFO
  BY DEF TypeOK, Active, Radio
<1>2. radio.reg \in [VFO -> Register]
  BY DEF TypeOK, Radio
<1>3. radio.reg \in [VFO -> State]
  BY <1>2, RegisterIsState
<1>4. \A m \in Modes : DefBW[m] \in BWs
  BY RigAssumption
<1> QED
  BY <1>1, <1>2, <1>3, <1>4, OtherVfo DEF TypeOK, Radio

\* Refreshing fields of the cache by values of their sets leaves a cache.
LEMMA StateFields ==
    ASSUME NEW s \in State, NEW f \in Freqs, NEW m \in Modes, NEW b \in BWs
    PROVE  /\ [s EXCEPT !.freq = f] \in State
           /\ [s EXCEPT !.imode = m] \in State
           /\ [s EXCEPT !.iBW = b] \in State
           /\ [s EXCEPT !.imode = m, !.iBW = b] \in State
BY DEF State

\* Queueing a callback of the two keeps the queue's type.
LEMMA QueueType ==
    ASSUME TypeOK, NEW c \in {"updateUI", "set_Mode_BW_control"}, Queue(c)
    PROVE  awake' \subseteq {"updateUI", "set_Mode_BW_control"}
BY DEF TypeOK, Queue

\* The front panel and the poll thread keep the types.
LEMMA PollType ==
    ASSUME TypeOK, Poll \/ \E s \in Register : FrontPanel(s)
    PROVE  TypeOK'
<1> USE Basics
<1>1. ASSUME NEW s \in Register, FrontPanel(s)
      PROVE  TypeOK'
  <2>1. radio' \in Radio
    BY <1>1 DEF FrontPanel, TypeOK, Radio
  <2> QED
    BY <1>1, <2>1 DEF FrontPanel, TypeOK, panel
<1>2. CASE ReadVfoBegin
  <2>1. awake' \subseteq {"updateUI", "set_Mode_BW_control"}
    BY <1>2, QueueType DEF ReadVfoBegin, TypeOK
  <2> QED
    BY <1>2, <2>1 DEF ReadVfoBegin, TypeOK, panel
<1>3. CASE ReadVfoEnd
  <2>1. cache' \in [VFO -> State]
    BY <1>3, StateFields DEF ReadVfoEnd, TypeOK, State
  <2> QED
    BY <1>3, <2>1 DEF ReadVfoEnd, TypeOK, panel
<1>4. CASE ReadMode
  <2>1. awake' \subseteq {"updateUI", "set_Mode_BW_control"}
    BY <1>4, QueueType DEF ReadMode, TypeOK
  <2> DEFINE now == radio.reg[Active]
             seen == [v \in VFO |->
                        IF now.imode # opMODE /\ v \in {vfo, Active}
                        THEN [cache[v] EXCEPT !.imode = now.imode, !.iBW = now.iBW]
                        ELSE cache[v]]
             alt == radio.reg[Other(Active)].imode
  <2>2. now.imode \in Modes /\ now.iBW \in BWs /\ alt \in Modes
    BY DEF State
  <2>3. \A s \in State : [s EXCEPT !.imode = now.imode, !.iBW = now.iBW] \in State
    BY <2>2 DEF State
  <2>4. seen \in [VFO -> State]
    BY <2>3
  <2>5. [seen EXCEPT ![Other(Active)].imode = alt] \in [VFO -> State]
    BY <2>2, <2>4 DEF State
  <2>6. cache' = IF TwoVfos THEN [seen EXCEPT ![Other(Active)].imode = alt] ELSE seen
    BY <1>4 DEF ReadMode
  <2>7. cache' \in [VFO -> State]
    BY <2>4, <2>5, <2>6
  <2> QED
    BY <1>4, <2>1, <2>7 DEF ReadMode, TypeOK, panel
<1>5. CASE ReadBandwidth
  <2>1. cache' \in [VFO -> State]
    BY <1>5 DEF ReadBandwidth, TypeOK, State
  <2> QED
    BY <1>5, <2>1 DEF ReadBandwidth, TypeOK, panel
<1>6. CASE ReadSplit
  BY <1>6 DEF ReadSplit, TypeOK, panel, Radio
<1> QED
  BY <1>1, <1>2, <1>3, <1>4, <1>5, <1>6 DEF Poll

\* The FLTK callbacks keep the types.
LEMMA CallbackType ==
    ASSUME TypeOK, Callbacks
    PROVE  TypeOK'
<1>1. cache[vfo].imode \in Modes
  BY DEF TypeOK, State
<1> QED
  BY <1>1, Basics DEF Callbacks, RunModeControl, RunUpdateUI, TypeOK

\* A swap, however it is done, keeps the types.
LEMMA ExecuteSwapABType ==
    ASSUME TypeOK, ExecuteSwapAB
    PROVE  radio' \in Radio /\ cache' \in [VFO -> State] /\ vfo' \in VFO
<1> USE Basics, OtherVfo
<1>1. "A" \in VFO /\ SwapAB(radio) \in Radio /\ Exchanged \in [VFO -> State]
  BY SwapABType DEF TypeOK, VFO, Exchanged
<1>2. CASE SwapMainSub
  BY <1>1, <1>2, SelectType DEF SwapMainSub
<1>3. CASE SwapIcom
  BY <1>1, <1>3, SelectType DEF SwapIcom, TypeOK
<1>4. CASE SwapOther
  BY <1>1, <1>4, SelectType DEF SwapOther
<1>5. CASE SwapByHand
  <2> DEFINE first == SetAll(Select(radio, Other(Active)), Other(Active), cache[Active])
  <2>1. first \in Radio
    BY SelectType, SetAllType DEF TypeOK
  <2>2. SetAll(Select(first, Active), Active, cache[Other(Active)]) \in Radio
    BY <2>1, SelectType, SetAllType
  <2> QED
    BY <1>1, <1>5, <2>2 DEF SwapByHand
<1> QED
  BY <1>2, <1>3, <1>4, <1>5 DEF ExecuteSwapAB

\* So does a copy of one VFO to the other.
LEMMA ExecuteA2BType ==
    ASSUME TypeOK, ExecuteA2B
    PROVE  radio' \in Radio /\ cache' \in [VFO -> State] /\ vfo' \in VFO
<1> USE Basics, OtherVfo
<1> DEFINE r == IF ICOMmainsub THEN Select(radio, "A") ELSE radio
<1>1. CopyFrom \in VFO /\ Other(CopyFrom) \in VFO /\ "A" \in VFO
  BY DEF CopyFrom, VFO
<1>2. r \in Radio
  BY <1>1, SelectType DEF TypeOK
<1>3. Equalize(r) \in Radio /\ SetAll(r, Other(CopyFrom), cache[CopyFrom]) \in Radio
  BY <1>1, <1>2, EqualizeType, SetAllType
<1> QED
  BY <1>1, <1>3 DEF ExecuteA2B, TypeOK

\* And so do serviceA() and serviceB().
LEMMA ServiceType ==
    ASSUME TypeOK, NEW v \in VFO, NEW n \in State, Service(v, n)
    PROVE  radio' \in Radio /\ cache' \in [VFO -> State] /\ vfo' \in VFO
<1> USE Basics
<1>1. n.freq \in Freqs /\ n.imode \in Modes /\ n.iBW \in BWs
  BY DEF State
<1>2. SetAll(radio, v, n) \in Radio
  BY SetAllType DEF TypeOK
<1>3. [cache EXCEPT ![v].imode = n.imode] \in [VFO -> State]
  BY <1>1 DEF TypeOK, State
<1>4. [cache EXCEPT ![v] = n] \in [VFO -> State]
  BY DEF TypeOK
<1>5. CASE ServiceActive(v, n)
  BY <1>2, <1>3, <1>5 DEF ServiceActive
<1>6. CASE ServiceAlt(v, n)
  <2> DEFINE width == IF cache[v].iBW = n.iBW THEN radio ELSE SetBW(radio, v, n.iBW)
  <2>1. width \in Radio
    BY <1>1, SetBWType DEF TypeOK
  <2>2. SetFreq(width, v, n.freq) \in Radio
    BY <1>1, <2>1, SetFreqType
  <2> QED
    BY <1>2, <1>3, <1>4, <1>6, <2>1, <2>2 DEF ServiceAlt, TypeOK
<1> QED
  BY <1>5, <1>6 DEF Service

\* The four cases of serviceXCVR() keep the types of what they change.
LEMMA ServiceXCVRType ==
    ASSUME TypeOK,
           \/ \E v \in VFO : ServiceSelect(v)
           \/ ServiceSwap
           \/ ServiceA2B
           \/ \E on \in BOOLEAN, after \in BOOLEAN : ServiceSplit(on, after),
           ui' \in UIState
    PROVE  TypeOK'
<1> USE Basics
<1>1. ASSUME NEW v \in VFO, ServiceSelect(v)
      PROVE  TypeOK'
  <2>1. radio' \in Radio /\ awake' \subseteq {"updateUI", "set_Mode_BW_control"}
    BY <1>1, SelectType, QueueType DEF ServiceSelect, TypeOK
  <2> QED
    BY <1>1, <2>1 DEF ServiceSelect, ServiceXCVR, TypeOK
<1>2. CASE ServiceSwap
  <2>1. awake' \subseteq {"updateUI", "set_Mode_BW_control"}
    BY <1>2, QueueType DEF ServiceSwap
  <2> QED
    BY <1>2, <2>1, ExecuteSwapABType DEF ServiceSwap, ServiceXCVR, TypeOK
<1>3. CASE ServiceA2B
  <2>1. awake' \subseteq {"updateUI", "set_Mode_BW_control"}
    BY <1>3, QueueType DEF ServiceA2B
  <2> QED
    BY <1>3, <2>1, ExecuteA2BType DEF ServiceA2B, ServiceXCVR, TypeOK
<1>4. ASSUME NEW on \in BOOLEAN, NEW after \in BOOLEAN, ServiceSplit(on, after)
      PROVE  TypeOK'
  <2>1. awake' \subseteq {"updateUI", "set_Mode_BW_control"}
    BY <1>4, QueueType DEF ServiceSplit
  <2>2. SetSplit(radio, on) \in Radio /\ Select(SetSplit(radio, on), "A") \in Radio
    BY SetSplitType, SelectType DEF TypeOK, VFO
  <2> QED
    BY <1>4, <2>1, <2>2 DEF ServiceSplit, ServiceXCVR, TypeOK, VFO
<1> QED
  BY <1>1, <1>2, <1>3, <1>4

\* A mode stored for a VFO, and through the pointer, keeps the types.
LEMMA SetModeOnType ==
    ASSUME TypeOK, NEW v \in VFO, NEW m \in Modes, SetModeOn(v, m)
    PROVE  radio' \in Radio /\ cache' \in [VFO -> State]
<1>1. DefBW[m] \in BWs
  BY Basics
<1>2. radio' \in Radio
  BY <1>1, SetModeType, SetBWType DEF SetModeOn, TypeOK
<1>3. cache' \in [VFO -> State]
  BY <1>1 DEF SetModeOn, TypeOK, State
<1> QED
  BY <1>2, <1>3

\* The panel keeps the types.
LEMMA PanelType ==
    ASSUME TypeOK, Panel \/ PanelContinue
    PROVE  TypeOK'
<1> USE Basics
<1> DEFINE Aw == {"updateUI", "set_Mode_BW_control"}
<1>0. Idle \in UIState /\ [op |-> "setMode"] \in UIState
  BY DEF UIState
<1>1. ASSUME NEW v \in VFO, NEW f \in Freqs, MovFreq(v, f)
      PROVE  TypeOK'
  <2>1. radio' \in Radio
    BY <1>1, ReachType, SetFreqType, ReturnType DEF MovFreq, TypeOK
  <2>2. cache' \in [VFO -> State]
    BY <1>1 DEF MovFreq, TypeOK, State
  <2> QED
    BY <1>1, <2>1, <2>2 DEF MovFreq, TypeOK, panel
<1>2. ASSUME NEW s \in State, SelectFreq(s)
      PROVE  TypeOK'
  <2>1. radio' \in Radio /\ awake' \subseteq Aw
    BY <1>2, SetAllType, QueueType DEF SelectFreq, TypeOK
  <2>2. cache' \in [VFO -> State]
    BY <1>2 DEF SelectFreq, TypeOK, State
  <2> QED
    BY <1>2, <2>1, <2>2 DEF SelectFreq, TypeOK, panel
<1>3. ASSUME NEW m \in Modes, PickMode(m)
      PROVE  TypeOK'
  BY <1>0, <1>3 DEF PickMode, TypeOK
<1>4. ASSUME NEW b \in BWs, PanelSetBW(b)
      PROVE  TypeOK'
  <2>1. radio' \in Radio
    BY <1>4, SetBWType DEF PanelSetBW, TypeOK
  <2>2. cache' \in [VFO -> State]
    BY <1>4 DEF PanelSetBW, TypeOK, State
  <2> QED
    BY <1>4, <2>1, <2>2 DEF PanelSetBW, TypeOK, panel
<1>5. ASSUME NEW b \in BWs, PickDSP(b)
      PROVE  TypeOK'
  <2>1. [cache[vfo] EXCEPT !.iBW = b] \in State
    BY <1>5 DEF TypeOK, State
  <2>2. ui' \in UIState
    BY <1>5, <2>1 DEF PickDSP, UIState
  <2> QED
    BY <1>5, <2>2 DEF PickDSP, TypeOK
<1>6. ASSUME NEW v \in VFO, PanelSelect(v)
      PROVE  TypeOK'
  <2>1. ui' \in UIState
    BY <1>6 DEF PanelSelect, TypeOK
  <2> QED
    BY <1>6, <2>1, ServiceXCVRType DEF PanelSelect
<1>7. ASSUME NEW on \in BOOLEAN, PanelSplit(on)
      PROVE  TypeOK'
  <2>1. ui' \in UIState
    BY <1>7 DEF PanelSplit, TypeOK
  <2> QED
    BY <1>7, <2>1, ServiceXCVRType DEF PanelSplit
<1>8. ASSUME NEW click \in Clicks, ClickSwap(click)
      PROVE  TypeOK'
  <2>1. ui' \in UIState
    BY <1>8 DEF ClickSwap, UIState
  <2> QED
    BY <1>8, <2>1 DEF ClickSwap, TypeOK
<1>9. CASE PanelSetMode
  <2>1. radio' \in Radio /\ cache' \in [VFO -> State]
    BY <1>9, SetModeOnType DEF PanelSetMode, TypeOK
  <2>2. opMODE' \in Modes
    BY <1>9, <2>1 DEF PanelSetMode, TypeOK, State
  <2> QED
    BY <1>0, <1>9, <2>1, <2>2 DEF PanelSetMode, TypeOK
<1>10. CASE PanelSetDSP
  <2>1. ui.to \in VFO /\ ui.vals \in State
    BY <1>10 DEF PanelSetDSP, TypeOK, UIState, Idle
  <2>2. radio' \in Radio /\ cache' \in [VFO -> State] /\ vfo' \in VFO
    BY <1>10, <2>1, ServiceType DEF PanelSetDSP
  <2>3. ServiceAwakes(ui.to) \subseteq Aw
    BY <2>1, OtherVfo DEF ServiceAwakes
  <2>4. awake' \subseteq Aw
    BY <1>10, <2>3 DEF PanelSetDSP, TypeOK
  <2> QED
    BY <1>0, <1>10, <2>2, <2>4 DEF PanelSetDSP, ServiceXCVR, TypeOK
<1>11. CASE PanelSwap
  <2>1. ui' \in UIState
    BY <1>0, <1>11 DEF PanelSwap
  <2> QED
    BY <1>11, <2>1, ServiceXCVRType DEF PanelSwap, TypeOK
<1> QED
  BY <1>1, <1>2, <1>3, <1>4, <1>5, <1>6, <1>7, <1>8, <1>9, <1>10, <1>11
     DEF Panel, PanelContinue

\* The XML-RPC methods keep the types.
LEMMA ServerType ==
    ASSUME TypeOK, Server
    PROVE  TypeOK'
<1> USE Basics
<1> DEFINE Aw == {"updateUI", "set_Mode_BW_control"}
<1>0. "A" \in VFO /\ "B" \in VFO
  BY DEF VFO
<1>a. ASSUME NEW v \in VFO, NEW f \in Freqs
      PROVE  /\ [cache EXCEPT ![v].freq = f] \in [VFO -> State]
             /\ Return(SetFreq(Reach(radio, v), v, f), radio) \in Radio
             /\ SetFreq(radio, v, f) \in Radio
  <2>1. [cache EXCEPT ![v].freq = f] \in [VFO -> State]
    BY DEF TypeOK, State
  <2> QED
    BY <2>1, ReachType, SetFreqType, ReturnType DEF TypeOK
<1>1. ASSUME NEW v \in VFO, NEW f \in Freqs, XmlGetVfoV(v, f)
      PROVE  TypeOK'
  BY <1>1, <1>a DEF XmlGetVfoV, Xml, TypeOK, panel
<1>2. ASSUME NEW v \in VFO, XmlSetAB(v)
      PROVE  TypeOK'
  BY <1>2, SelectType DEF XmlSetAB, Xml, TypeOK, panel
<1>3. ASSUME NEW v \in VFO, NEW f \in Freqs, XmlSetVfoV(v, f)
      PROVE  TypeOK'
  BY <1>3, <1>a DEF XmlSetVfoV, Xml, TypeOK, panel
<1>4. ASSUME NEW v \in VFO, NEW f \in Freqs, XmlSetVerifyVfoV(v, f)
      PROVE  TypeOK'
  <2> DEFINE set == SetFreq(Reach(radio, v), v, f)
  <2>1. set \in Radio
    BY ReachType, SetFreqType DEF TypeOK
  <2>2. set.reg[Landing(set, v)].freq \in Freqs
    BY <2>1, LandingType, RigAssumption DEF Radio, Register
  <2>3. radio' \in Radio
    BY <1>4, <2>1, ReturnType DEF XmlSetVerifyVfoV, TypeOK
  <2>4. cache' = [cache EXCEPT ![v].freq = set.reg[Landing(set, v)].freq]
    BY <1>4 DEF XmlSetVerifyVfoV
  <2>5. cache' \in [VFO -> State]
    BY <1>a, <2>2, <2>4
  <2> QED
    BY <1>4, <2>3, <2>5 DEF XmlSetVerifyVfoV, Xml, TypeOK, panel
<1>5. ASSUME NEW d \in {-1, 1}, XmlModVfoA(d)
      PROVE  TypeOK'
  <2> DEFINE f == cache["A"].freq + d
  <2>1. f \in Freqs
    BY <1>5 DEF XmlModVfoA
  <2>2. cache' = [cache EXCEPT !["A"].freq = f]
    BY <1>5 DEF XmlModVfoA
  <2>3. cache'["A"].freq = f
    BY <1>0, <2>2 DEF TypeOK, State
  <2>4. radio' = Return(SetFreq(Reach(radio, "A"), "A", f), radio)
    BY <1>5, <2>3 DEF XmlModVfoA
  <2>5. radio' \in Radio /\ cache' \in [VFO -> State]
    BY <1>0, <1>a, <2>1, <2>2, <2>4
  <2> QED
    BY <1>5, <2>5 DEF XmlModVfoA, Xml, TypeOK, panel
<1>6. ASSUME NEW d \in {-1, 1}, XmlModVfoB(d)
      PROVE  TypeOK'
  <2> DEFINE f == cache["B"].freq + d
  <2>1. f \in Freqs /\ cache["B"].freq \in Freqs
    BY <1>0, <1>6 DEF XmlModVfoB, State
  <2>2. cache' = [cache EXCEPT !["B"].freq = f]
    BY <1>6 DEF XmlModVfoB
  <2>3. radio' \in Radio
    BY <1>0, <1>6, <1>a, <2>1 DEF XmlModVfoB
  <2>4. cache' \in [VFO -> State]
    BY <1>0, <1>a, <2>1, <2>2
  <2> QED
    BY <1>6, <2>3, <2>4 DEF XmlModVfoB, Xml, TypeOK, panel
<1>7. cache["A"].freq \in Freqs /\ cache["A"].imode \in Modes
  BY <1>0 DEF State
<1>8. CASE XmlVfoA2B
  <2>1. radio' \in Radio
    BY <1>0, <1>7, <1>8, SetFreqType, SetModeType DEF XmlVfoA2B, TypeOK
  <2>2. cache' \in [VFO -> State]
    BY <1>0, <1>7, <1>8 DEF XmlVfoA2B, TypeOK, State
  <2> QED
    BY <1>8, <2>1, <2>2 DEF XmlVfoA2B, Xml, TypeOK, panel
<1>9. CASE XmlFreqA2B
  BY <1>0, <1>7, <1>9, <1>a DEF XmlFreqA2B, Xml, TypeOK, panel
<1>10. CASE XmlModeA2B
  <2>1. cache' \in [VFO -> State]
    BY <1>0, <1>7, <1>10 DEF XmlModeA2B, TypeOK, State
  <2> QED
    BY <1>0, <1>7, <1>10, <2>1, SetModeType DEF XmlModeA2B, Xml, TypeOK, panel
<1>11. ASSUME NEW f \in Freqs, XmlSetVfo(f)
       PROVE  TypeOK'
  BY <1>11, <1>a DEF XmlSetVfo, Xml, TypeOK, panel
<1>12. ASSUME NEW f \in Freqs, XmlSetVerifyVfo(f)
       PROVE  TypeOK'
  <2>1. radio' \in Radio
    BY <1>12, <1>a DEF XmlSetVerifyVfo
  <2>2. radio'.reg[Active].freq \in Freqs
    BY <2>1, RigAssumption DEF Radio, Register
  <2>3. cache' \in [VFO -> State]
    BY <1>12, <1>a, <2>2 DEF XmlSetVerifyVfo
  <2> QED
    BY <1>12, <2>1, <2>3 DEF XmlSetVerifyVfo, Xml, TypeOK, panel
<1>13. ASSUME NEW m \in Modes, XmlSetMode(m)
       PROVE  TypeOK'
  <2>1. awake' \subseteq Aw
    BY <1>13, QueueType DEF XmlSetMode
  <2> QED
    BY <1>13, <2>1, SetModeOnType DEF XmlSetMode, Xml, TypeOK, panel
<1>14. ASSUME NEW v \in VFO, NEW m \in Modes, XmlSetModeV(v, m)
       PROVE  TypeOK'
  <2>1. awake' \subseteq Aw
    BY <1>14, QueueType DEF XmlSetModeV
  <2> QED
    BY <1>14, <2>1, SetModeOnType DEF XmlSetModeV, Xml, TypeOK, panel
<1>15. ASSUME NEW b \in BWs, XmlSetBandwidth(b)
       PROVE  TypeOK'
  <2>1. radio' \in Radio
    BY <1>15, SetBWType DEF XmlSetBandwidth, TypeOK
  <2>2. cache' \in [VFO -> State]
    BY <1>15 DEF XmlSetBandwidth, TypeOK, State
  <2> QED
    BY <1>15, <2>1, <2>2 DEF XmlSetBandwidth, Xml, TypeOK, panel
<1>16. ASSUME NEW b \in BWs, XmlSetBw(b)
       PROVE  TypeOK'
  <2>1. [cache[Active] EXCEPT !.iBW = b] \in State
    BY <1>16 DEF State
  <2>2. radio' \in Radio /\ cache' \in [VFO -> State] /\ vfo' \in VFO
    BY <1>16, <2>1, ServiceType DEF XmlSetBw
  <2>3. ServiceAwakes(Active) \subseteq Aw
    BY DEF ServiceAwakes
  <2>4. awake' \subseteq Aw
    BY <1>16, <2>3 DEF XmlSetBw, TypeOK
  <2> QED
    BY <1>16, <2>2, <2>4 DEF XmlSetBw, Xml, TypeOK, panel
<1>17. ASSUME XmlSwap \/ \E on \in BOOLEAN : XmlSplit(on)
       PROVE  TypeOK'
  <2>1. ui' \in UIState
    BY <1>17 DEF XmlSwap, XmlSplit, TypeOK
  <2>2. split \in BOOLEAN
    BY DEF TypeOK
  <2> QED
    BY <1>17, <2>1, <2>2, ServiceXCVRType DEF XmlSwap, XmlSplit
<1> QED
  BY <1>1, <1>2, <1>3, <1>4, <1>5, <1>6, <1>8, <1>9, <1>10, <1>11, <1>12,
     <1>13, <1>14, <1>15, <1>16, <1>17
     DEF Server

\* Every state of flrig is well typed; in particular the frequency of a register
\* of the set stays in band, whatever is asked of it, and every value flrig
\* stores can be sent.
THEOREM TypeCorrect == Spec => []TypeOK
<1>1. Init => TypeOK
  <2> SUFFICES ASSUME Init PROVE TypeOK
    OBVIOUS
  <2>1. radio \in Radio /\ radio.reg \in [VFO -> Register]
    BY DEF Init, Radio, VFO
  <2>2. cache \in [VFO -> State]
    BY <2>1, RegisterIsState DEF Init
  <2>3. opMODE \in Modes
    BY <2>2 DEF Init, VFO, State
  <2> QED
    BY <2>1, <2>2, <2>3 DEF Init, TypeOK, VFO, UIState
<1>2. TypeOK /\ [Next]_vars => TypeOK'
  <2> SUFFICES ASSUME TypeOK, [Next]_vars PROVE TypeOK'
    OBVIOUS
  <2>1. CASE UNCHANGED vars
    BY <2>1 DEF TypeOK, vars
  <2> QED
    BY <2>1, PollType, CallbackType, PanelType, ServerType DEF Next, Requests
<1> QED
  BY <1>1, <1>2, PTL DEF Spec

-----------------------------------------------------------------------------
(* A request for one VFO leaves the other.                                 *)

\* t is r with VFO v given new values.
Tunes(r, t, v) == \E s \in Register : t = [r EXCEPT !.reg[v] = s]

\* Two requests for the same VFO are one.
LEMMA TunesTwice ==
    ASSUME NEW r \in Radio, NEW t, NEW u, NEW v \in VFO,
           Tunes(r, t, v), Tunes(t, u, v)
    PROVE  Tunes(r, u, v)
BY DEF Tunes, Radio

\* A set command changes the VFO it lands on, and where the next one lands does
\* not change.
LEMMA SetTunes ==
    ASSUME NEW r \in Radio, NEW v \in VFO,
           NEW f \in Freqs, NEW m \in Modes, NEW b \in BWs
    PROVE  /\ Tunes(r, SetFreq(r, v, f), Landing(r, v))
           /\ Tunes(r, SetMode(r, v, m), Landing(r, v))
           /\ Tunes(r, SetBW(r, v, b), Landing(r, v))
           /\ Landing(SetFreq(r, v, f), v) = Landing(r, v)
           /\ Landing(SetMode(r, v, m), v) = Landing(r, v)
           /\ Landing(SetBW(r, v, b), v) = Landing(r, v)
<1> DEFINE l == Landing(r, v)
<1>1. l \in VFO /\ r.reg[l] \in Register
  BY LandingType DEF Radio
<1>2. /\ [r.reg[l] EXCEPT !.imode = m] \in Register
      /\ [r.reg[l] EXCEPT !.iBW = b] \in Register
      /\ f \in InBand => [r.reg[l] EXCEPT !.freq = f] \in Register
  BY <1>1 DEF Register
<1>3. r = [r EXCEPT !.reg[l] = r.reg[l]]
  BY <1>1 DEF Radio
<1>4. Tunes(r, SetFreq(r, v, f), l)
  <2>1. CASE f \in InBand
    BY <1>1, <1>2, <2>1 DEF SetFreq, Tunes, Radio
  <2>2. CASE f \notin InBand
    BY <1>1, <1>3, <2>2 DEF SetFreq, Tunes
  <2> QED
    BY <2>1, <2>2
<1>5. Tunes(r, SetMode(r, v, m), l) /\ Tunes(r, SetBW(r, v, b), l)
  BY <1>1, <1>2 DEF SetMode, SetBW, Tunes, Radio
<1>6. /\ SetFreq(r, v, f).inuse = r.inuse
      /\ SetMode(r, v, m).inuse = r.inuse
      /\ SetBW(r, v, b).inuse = r.inuse
  BY DEF SetFreq, SetMode, SetBW, Radio
<1>7. /\ Landing(SetFreq(r, v, f), v) = l
      /\ Landing(SetMode(r, v, m), v) = l
      /\ Landing(SetBW(r, v, b), v) = l
  BY <1>6 DEF Landing
<1> QED
  BY <1>4, <1>5, <1>7

\* So does a whole set of values.
LEMMA SetAllTunes ==
    ASSUME NEW r \in Radio, NEW v \in VFO, NEW s \in State
    PROVE  Tunes(r, SetAll(r, v, s), Landing(r, v))
<1>1. s.freq \in Freqs /\ s.imode \in Modes /\ s.iBW \in BWs
  BY DEF State
<1> DEFINE x == SetMode(r, v, s.imode)
           y == SetBW(x, v, s.iBW)
<1>2. x \in Radio /\ Tunes(r, x, Landing(r, v)) /\ Landing(x, v) = Landing(r, v)
  BY <1>1, SetModeType, SetTunes
<1>3. y \in Radio /\ Tunes(x, y, Landing(x, v)) /\ Landing(y, v) = Landing(x, v)
  BY <1>1, <1>2, SetBWType, SetTunes
<1>4. Tunes(y, SetFreq(y, v, s.freq), Landing(y, v))
  BY <1>1, <1>3, SetTunes
<1>5. Landing(r, v) \in VFO
  BY LandingType
<1>6. Tunes(r, y, Landing(r, v))
  BY <1>2, <1>3, <1>5, TunesTwice
<1>7. Tunes(r, SetFreq(y, v, s.freq), Landing(r, v))
  BY <1>2, <1>3, <1>4, <1>5, <1>6, TunesTwice
<1> QED
  BY <1>7 DEF SetAll

\* What a command does between the select of a VFO and the select back concerns
\* that VFO only, and the set ends on the VFO it was on.
LEMMA ThereAndBack ==
    ASSUME NEW r \in Radio, NEW v \in VFO, NEW t,
           Tunes(Reach(r, v), t, Landing(Reach(r, v), v))
    PROVE  Tunes(r, Return(t, r), v)
<1> DEFINE there == Reach(r, v)
<1>1. Landing(there, v) = v
  BY DEF Landing, Reach, Select, Radio
<1>2. PICK s \in Register : t = [there EXCEPT !.reg[v] = s]
  BY <1>1 DEF Tunes
<1>3. CASE there = r
  <2>1. t.inuse = r.inuse
    BY <1>2, <1>3 DEF Radio
  <2> QED
    BY <1>2, <1>3, <2>1 DEF Return, Tunes
<1>4. CASE there # r
  <2>1. there = [r EXCEPT !.inuse = v] /\ r.inuse # v
    BY <1>4 DEF Reach, Select
  <2>2. t.inuse = v
    BY <1>2, <2>1 DEF Radio
  <2>3. Return(t, r) = [t EXCEPT !.inuse = r.inuse]
    BY <2>1, <2>2 DEF Return, Select
  <2>4. Return(t, r) = [r EXCEPT !.reg[v] = s]
    BY <1>2, <2>1, <2>3 DEF Radio
  <2> QED
    BY <2>4 DEF Tunes
<1> QED
  BY <1>3, <1>4

\* A request for the frequency of one VFO is a change of that VFO.
LEMMA FrequencyRequestTunes ==
    ASSUME TypeOK, NEW v \in VFO, FrequencyRequest(v)
    PROVE  Tunes(radio, radio', v)
<1> DEFINE there == Reach(radio, v)
<1>1. there \in Radio
  BY ReachType DEF TypeOK
<1>2. \A f \in Freqs : Tunes(there, SetFreq(there, v, f), Landing(there, v))
  <2> TAKE f \in Freqs
  <2>1. PICK m \in Modes, b \in BWs : TRUE
    BY Basics DEF State
  <2> QED
    BY <1>1, <2>1, SetTunes
<1>3. \A f \in Freqs : Tunes(radio, Return(SetFreq(there, v, f), radio), v)
  BY <1>2, ThereAndBack DEF TypeOK
<1>4. \E f \in Freqs : radio' = Return(SetFreq(there, v, f), radio)
  <2>1. ASSUME NEW f \in Freqs,
               MovFreq(v, f) \/ XmlSetVfoV(v, f) \/ XmlSetVerifyVfoV(v, f)
        PROVE  radio' = Return(SetFreq(there, v, f), radio)
    BY <2>1 DEF MovFreq, XmlSetVfoV, XmlSetVerifyVfoV
  <2>2. ASSUME v = "A", NEW d \in {-1, 1}, XmlModVfoA(d)
        PROVE  \E f \in Freqs : radio' = Return(SetFreq(there, v, f), radio)
    <3>1. cache["A"].freq + d \in Freqs
      BY <2>2 DEF XmlModVfoA
    <3>2. cache'["A"].freq = cache["A"].freq + d
      BY <2>2 DEF XmlModVfoA, TypeOK, State, VFO
    <3> QED
      BY <2>2, <3>1, <3>2 DEF XmlModVfoA
  <2>3. ASSUME v = "B", NEW d \in {-1, 1}, XmlModVfoB(d)
        PROVE  \E f \in Freqs : radio' = Return(SetFreq(there, v, f), radio)
    <3>1. cache["B"].freq \in Freqs
      BY DEF TypeOK, State, VFO
    <3> QED
      BY <2>3, <3>1 DEF XmlModVfoB
  <2> QED
    BY <2>1, <2>2, <2>3 DEF FrequencyRequest
<1> QED
  BY <1>3, <1>4

\* A request for the frequency of one VFO leaves the other VFO of the set and the
\* choice of the VFO in use, for every set of frequencies and every transceiver.
THEOREM OtherVfoSafe == Spec => OtherVfoUntouched
<1>1. TypeOK => LeavesOther
  <2> SUFFICES ASSUME TypeOK, NEW v \in VFO, FrequencyRequest(v)
               PROVE  /\ radio'.reg[Other(v)] = radio.reg[Other(v)]
                      /\ radio'.inuse = radio.inuse
    BY DEF LeavesOther
  <2>1. PICK s \in Register : radio' = [radio EXCEPT !.reg[v] = s]
    BY FrequencyRequestTunes DEF Tunes
  <2> QED
    BY <2>1, OtherVfo DEF TypeOK, Radio
<1> QED
  BY <1>1, TypeCorrect, PTL DEF OtherVfoUntouched

-----------------------------------------------------------------------------
(* A swap exchanges the VFOs.                                              *)

\* r with the values s in VFO v.
Put(r, v, s) == [r EXCEPT !.reg[v] = s]

LEMMA PutFacts ==
    ASSUME NEW r \in Radio, NEW v \in VFO, NEW s \in Register, NEW t \in Register
    PROVE  /\ Put(r, v, s) \in Radio
           /\ Put(r, v, s).inuse = r.inuse
           /\ Put(r, v, s).reg[v] = s
           /\ Put(r, v, s).reg[Other(v)] = r.reg[Other(v)]
           /\ Put(Put(r, v, s), v, t) = Put(r, v, t)
BY OtherVfo DEF Put, Radio

LEMMA SelectFacts ==
    ASSUME NEW r \in Radio, NEW v \in VFO
    PROVE  /\ Select(r, v) \in Radio
           /\ Select(r, v).inuse = v
           /\ Select(r, v).reg = r.reg
BY DEF Select, Radio

\* Values that the set takes are what the VFO then holds.
LEMMA SetAllExact ==
    ASSUME NEW r \in Radio, NEW v \in VFO, NEW s \in Register,
           CanChangeAlt \/ r.inuse = v
    PROVE  SetAll(r, v, s) = Put(r, v, s)
<1> DEFINE X == [r.reg[v] EXCEPT !.imode = s.imode]
           Y == [X EXCEPT !.iBW = s.iBW]
           x == SetMode(r, v, s.imode)
           y == SetBW(x, v, s.iBW)
<1>1. /\ X \in Register /\ Y \in Register /\ [Y EXCEPT !.freq = s.freq] = s
      /\ s.freq \in InBand
  BY DEF Radio, Register
<1>2. \A q \in Radio : q.inuse = r.inuse => Landing(q, v) = v
  BY DEF Landing
<1>3. x = Put(r, v, X)
  BY <1>2 DEF SetMode, Put
<1> HIDE DEF X
<1>4. x \in Radio /\ x.inuse = r.inuse /\ x.reg[v] = X
  BY <1>1, <1>3, PutFacts
<1> HIDE DEF x
<1>5. y = Put(x, v, Y)
  BY <1>2, <1>4 DEF SetBW, Put
<1> HIDE DEF Y
<1>6. y = Put(r, v, Y) /\ y \in Radio /\ y.inuse = r.inuse /\ y.reg[v] = Y
  BY <1>1, <1>3, <1>5, PutFacts
<1>7. SetAll(r, v, s) = SetFreq(y, v, s.freq)
  BY DEF SetAll, x
<1> HIDE DEF y
<1>8. SetFreq(y, v, s.freq) = Put(y, v, s)
  BY <1>1, <1>2, <1>6 DEF SetFreq, Put
<1> QED
  BY <1>1, <1>6, <1>7, <1>8, PutFacts

\* However the set does it, a swap exchanges its VFOs, and the pointer names the
\* VFO then in use.
LEMMA SwapStep ==
    ASSUME TypeOK
    PROVE  ExchangeStep
<1> SUFFICES ASSUME ServiceSwap, CacheExact
             PROVE  /\ radio'.reg = [v \in VFO |-> radio.reg[Other(v)]]
                    /\ vfo' = radio'.inuse
  BY DEF ExchangeStep
<1> USE Basics, OtherVfo
<1>0. radio \in Radio /\ "A" \in VFO
  BY DEF TypeOK, VFO
<1>1. CASE SwapMainSub \/ SwapIcom \/ SwapOther
  BY <1>0, <1>1 DEF SwapMainSub, SwapIcom, SwapOther, SwapAB, Select, Radio
<1>2. CASE SwapByHand
  <2> DEFINE a == Active
             o == Other(Active)
             first == SetAll(Select(radio, o), o, cache[a])
             last == SetAll(Select(first, a), a, cache[o])
  <2>1. radio' = last /\ vfo' = a
    BY <1>2 DEF SwapByHand
  <2>2. /\ cache[a] = radio.reg[a] /\ cache[a] \in Register
        /\ cache[o] = radio.reg[o] /\ cache[o] \in Register
    BY <1>0 DEF CacheExact, Radio
  <2>3. first = Put(Select(radio, o), o, cache[a])
    BY <1>0, <2>2, SelectFacts, SetAllExact
  <2>4. first \in Radio /\ first.reg[o] = radio.reg[a]
    <3> DEFINE r == Select(radio, o)
    <3>1. r \in Radio /\ o \in VFO
      BY <1>0, SelectFacts
    <3>2. Put(r, o, cache[a]) \in Radio /\ Put(r, o, cache[a]).reg[o] = cache[a]
      BY <2>2, <3>1, PutFacts
    <3> QED
      BY <2>2, <2>3, <3>2
  <2> HIDE DEF first
  <2>5. last = Put(Select(first, a), a, cache[o])
    BY <2>2, <2>4, SelectFacts, SetAllExact
  <2>6. last \in Radio /\ last.inuse = a /\ last.reg[a] = radio.reg[o]
          /\ last.reg[o] = first.reg[o]
    <3> DEFINE r == Select(first, a)
               q == Put(r, a, cache[o])
    <3>1. r \in Radio /\ r.inuse = a /\ r.reg = first.reg /\ a \in VFO
      BY <2>4, SelectFacts
    <3> HIDE DEF r
    <3>2. q \in Radio /\ q.inuse = a /\ q.reg[a] = cache[o]
            /\ q.reg[Other(a)] = r.reg[Other(a)]
      BY <2>2, <3>1, PutFacts
    <3>3. last = q
      BY <2>5 DEF r
    <3> QED
      BY <2>2, <3>1, <3>2, <3>3
  <2> HIDE DEF last
  <2>7. last.reg[o] = radio.reg[a]
    BY <2>4, <2>6
  <2>8. \A v \in VFO : v = a \/ v = o
    BY DEF VFO, Other
  <2>9. \A v \in VFO : last.reg[v] = radio.reg[Other(v)]
    BY <2>6, <2>7, <2>8
  <2>10. last.reg = [v \in VFO |-> radio.reg[Other(v)]]
    BY <2>6, <2>9 DEF Radio
  <2> QED
    BY <2>1, <2>6, <2>10
<1> QED
  BY <1>1, <1>2 DEF ServiceSwap, ExecuteSwapAB

\* A swap ordered while flrig knows both VFOs exchanges them, for sets with and
\* without an exchange command, and the pointer names the VFO then in use.
THEOREM SwapSafe == Spec => SwapExchanges
<1>1. TypeOK => ExchangeStep
  BY SwapStep
<1> QED
  BY <1>1, TypeCorrect, PTL DEF SwapExchanges

-----------------------------------------------------------------------------
(* VfoCache implements TwoVfoRadio for sets that exchange their own VFOs.   *)

\* The abstract steps that concern the proofs, in the terms of VfoCache.
LEMMA AbstractSteps ==
    ASSUME TypeOK, NEW v \in VFO
    PROVE  /\ Tunes(radio, radio', v) => Promise!Next
           /\ radio' = Select(radio, v) => Promise!Next
           /\ radio' = Select(SwapAB(radio), v) => Promise!Next
           /\ \A on \in BOOLEAN :
                 radio' = Select(SetSplit(radio, on), v) => Promise!Next
<1>1. v \in Promise!VFO
  BY DEF VFO, Promise!VFO
<1>2. Tunes(radio, radio', v) => Promise!Next
  BY <1>1 DEF Tunes, Promise!Next, Promise!Tune
<1>3. radio' = Select(radio, v) => Promise!Next
  BY <1>1 DEF Select, Promise!Next, Promise!SelectVfo
<1>4. radio' = Select(SwapAB(radio), v) => Promise!Next
  <2> SUFFICES ASSUME radio' = Select(SwapAB(radio), v)
               PROVE  Promise!Exchange(v)
    BY <1>1 DEF Promise!Next
  <2>1. [w \in VFO |-> radio.reg[Other(w)]]
          = [w \in Promise!VFO |-> radio.reg[Promise!Other(w)]]
    BY DEF VFO, Promise!VFO, Other, Promise!Other
  <2> QED
    BY <2>1 DEF SwapAB, Select, Promise!Exchange, TypeOK, Radio
<1>5. ASSUME NEW on \in BOOLEAN, radio' = Select(SetSplit(radio, on), v)
      PROVE  Promise!Next
  BY <1>1, <1>5 DEF SetSplit, Select, Promise!Next, Promise!Split, TypeOK, Radio
<1> QED
  BY <1>2, <1>3, <1>4, <1>5

\* A string of set commands for one VFO is one abstract step.
LEMMA SetsAreSteps ==
    ASSUME TypeOK, NEW v \in VFO
    PROVE  /\ \A f \in Freqs : radio' = SetFreq(radio, v, f) => Promise!Next
           /\ \A m \in Modes : radio' = SetMode(radio, v, m) => Promise!Next
           /\ \A b \in BWs : radio' = SetBW(radio, v, b) => Promise!Next
           /\ \A s \in State : radio' = SetAll(radio, v, s) => Promise!Next
           /\ \A m \in Modes, b \in BWs :
                 radio' = SetBW(SetMode(radio, v, m), v, b) => Promise!Next
           /\ \A f \in Freqs, m \in Modes :
                 radio' = SetMode(SetFreq(radio, v, f), v, m) => Promise!Next
<1>1. radio \in Radio /\ Landing(radio, v) \in VFO
  BY LandingType DEF TypeOK
<1>2. \E f \in Freqs, m \in Modes, b \in BWs : TRUE
  BY Basics DEF State
<1>3. ASSUME NEW f \in Freqs
      PROVE  Tunes(radio, SetFreq(radio, v, f), Landing(radio, v))
  BY <1>1, <1>2, SetTunes
<1>4. ASSUME NEW m \in Modes
      PROVE  Tunes(radio, SetMode(radio, v, m), Landing(radio, v))
  BY <1>1, <1>2, SetTunes
<1>5. ASSUME NEW b \in BWs
      PROVE  Tunes(radio, SetBW(radio, v, b), Landing(radio, v))
  BY <1>1, <1>2, SetTunes
<1>6. ASSUME NEW m \in Modes, NEW b \in BWs
      PROVE  Tunes(radio, SetBW(SetMode(radio, v, m), v, b), Landing(radio, v))
  <2> DEFINE x == SetMode(radio, v, m)
  <2>1. x \in Radio /\ Landing(x, v) = Landing(radio, v)
    BY <1>1, <1>2, SetModeType, SetTunes
  <2>2. Tunes(x, SetBW(x, v, b), Landing(radio, v))
    BY <1>2, <2>1, SetTunes
  <2> QED
    BY <1>1, <1>4, <2>2, TunesTwice
<1>7. ASSUME NEW f \in Freqs, NEW m \in Modes
      PROVE  Tunes(radio, SetMode(SetFreq(radio, v, f), v, m), Landing(radio, v))
  <2> DEFINE x == SetFreq(radio, v, f)
  <2>1. x \in Radio /\ Landing(x, v) = Landing(radio, v)
    BY <1>1, <1>2, SetFreqType, SetTunes
  <2>2. Tunes(x, SetMode(x, v, m), Landing(radio, v))
    BY <1>2, <2>1, SetTunes
  <2> QED
    BY <1>1, <1>3, <2>2, TunesTwice
<1>8. ASSUME NEW s \in State
      PROVE  Tunes(radio, SetAll(radio, v, s), Landing(radio, v))
  BY <1>1, SetAllTunes
<1> QED
  BY <1>1, <1>3, <1>4, <1>5, <1>6, <1>7, <1>8, AbstractSteps

\* A copy of one VFO onto the other.
LEMMA CopyIsStep ==
    ASSUME TypeOK, ExecuteA2B
    PROVE  Promise!Next
<1> USE Basics, OtherVfo
<1> DEFINE r == IF ICOMmainsub THEN Select(radio, "A") ELSE radio
           from == IF EqualizeA THEN "A" ELSE r.inuse
<1>0. radio \in Radio /\ "A" \in VFO /\ CopyFrom \in VFO
  BY DEF TypeOK, VFO, CopyFrom
<1>1. CASE ~(ICOMmainsub \/ HasA2B)
  BY <1>0, <1>1, SetsAreSteps DEF ExecuteA2B
<1>2. CASE ICOMmainsub \/ HasA2B
  <2>1. r \in Radio /\ from \in VFO
    BY <1>0, SelectType DEF Radio
  <2>2. radio' = [r EXCEPT !.reg[Other(from)] = r.reg[from]] /\ r.reg = radio.reg
    BY <1>0, <1>2, <2>1 DEF ExecuteA2B, Equalize, Select, Radio
  <2>3. CASE r = radio
    <3>1. Tunes(radio, radio', Other(from))
      BY <1>0, <2>1, <2>2, <2>3 DEF Tunes, Radio
    <3> QED
      BY <2>1, <3>1, AbstractSteps
  <2>4. CASE r # radio
    <3>1. r = [radio EXCEPT !.inuse = "A"] /\ from = "A"
      BY <1>0, <2>4 DEF Select, Radio
    <3>2. radio' = [radio EXCEPT !.reg[Promise!Other("A")] = radio.reg["A"],
                                 !.inuse = "A"]
      BY <1>0, <2>2, <3>1 DEF Other, Promise!Other, Radio
    <3>3. "A" \in Promise!VFO
      BY DEF Promise!VFO
    <3> QED
      BY <3>2, <3>3 DEF Promise!Copy, Promise!Next
  <2> QED
    BY <2>3, <2>4
<1> QED
  BY <1>1, <1>2

\* serviceA() and serviceB().
LEMMA ServiceIsStep ==
    ASSUME TypeOK, NEW v \in VFO, NEW n \in State, Service(v, n)
    PROVE  Promise!Next
<1>0. radio \in Radio /\ n.freq \in Freqs /\ n.imode \in Modes /\ n.iBW \in BWs
  BY DEF TypeOK, State
<1>1. CASE ServiceActive(v, n)
  BY <1>1, SetsAreSteps DEF ServiceActive
<1>2. CASE ServiceAlt(v, n)
  <2> DEFINE width == IF cache[v].iBW = n.iBW THEN radio ELSE SetBW(radio, v, n.iBW)
  <2>1. \A r \in Radio : Landing(r, v) = v
    BY <1>2 DEF ServiceAlt, Landing
  <2>2. radio = [radio EXCEPT !.reg[v] = radio.reg[v]] /\ radio.reg[v] \in Register
    BY <1>0 DEF Radio
  <2>3. width \in Radio /\ Tunes(radio, width, v)
    BY <1>0, <2>1, <2>2, SetBWType, SetTunes DEF Tunes
  <2>4. Tunes(width, SetFreq(width, v, n.freq), v)
    BY <1>0, <2>1, <2>3, SetTunes
  <2>5. Tunes(radio, SetFreq(width, v, n.freq), v)
    BY <1>0, <2>3, <2>4, TunesTwice
  <2>6. Tunes(radio, SetAll(radio, v, n), v)
    BY <1>0, <2>1, SetAllTunes
  <2> QED
    BY <1>2, <2>3, <2>5, <2>6, AbstractSteps DEF ServiceAlt
<1> QED
  BY <1>1, <1>2 DEF Service

\* Whatever panel, clients, operator and poll thread do, a set that exchanges its
\* own VFOs only ever sees the steps of TwoVfoRadio.
THEOREM PromiseKept == CanSwap => (Spec => KeepsPromise)
<1> SUFFICES ASSUME CanSwap PROVE Spec => KeepsPromise
  OBVIOUS
<1>1. Init => Promise!Init
  BY DEF Init, Promise!Init, VFO, Promise!VFO
<1>2. TypeOK /\ [Next]_vars => [Promise!Next]_radio
  <2> SUFFICES ASSUME TypeOK, Next, radio' # radio PROVE Promise!Next
    BY DEF vars
  <2> USE Basics
  <2>0. "A" \in VFO /\ "B" \in VFO /\ radio \in Radio
    BY DEF VFO, TypeOK
  <2>1. ASSUME NEW s \in Register, FrontPanel(s)
        PROVE  Promise!Next
    <3>1. Tunes(radio, radio', Active)
      BY <2>1 DEF FrontPanel, Tunes
    <3> QED
      BY <3>1, AbstractSteps
  <2>2. CASE Poll \/ Callbacks
    BY <2>2 DEF Poll, ReadVfoBegin, ReadVfoEnd, ReadMode, ReadBandwidth,
                ReadSplit, Callbacks, RunModeControl, RunUpdateUI
  <2>3. ASSUME NEW v \in VFO, ServiceSelect(v)
        PROVE  Promise!Next
    BY <2>3, AbstractSteps DEF ServiceSelect
  <2>4. CASE ServiceSwap
    BY <2>0, <2>4, OtherVfo, AbstractSteps
       DEF ServiceSwap, ExecuteSwapAB, SwapMainSub, SwapIcom, SwapOther, SwapByHand
  <2>5. CASE ServiceA2B
    BY <2>5, CopyIsStep DEF ServiceA2B
  <2>6. ASSUME NEW on \in BOOLEAN, NEW after \in BOOLEAN, ServiceSplit(on, after)
        PROVE  Promise!Next
    <3>1. radio' = Select(SetSplit(radio, on), "A")
            \/ radio' = Select(SetSplit(radio, on), Active)
      BY <2>0, <2>6 DEF ServiceSplit, SetSplit, Select, Radio, Active
    <3> QED
      BY <2>0, <3>1, AbstractSteps
  <2>7. ASSUME NEW v \in VFO, NEW m \in Modes, SetModeOn(v, m)
        PROVE  Promise!Next
    BY <2>7, SetsAreSteps DEF SetModeOn
  <2>8. ASSUME NEW v \in VFO, FrequencyRequest(v)
        PROVE  Promise!Next
    BY <2>8, FrequencyRequestTunes, AbstractSteps
  <2>9. CASE Panel
    <3>1. ASSUME NEW v \in VFO, NEW f \in Freqs, MovFreq(v, f)
          PROVE  Promise!Next
      BY <2>8, <3>1 DEF FrequencyRequest
    <3>2. ASSUME NEW s \in State, SelectFreq(s)
          PROVE  Promise!Next
      BY <3>2, SetsAreSteps DEF SelectFreq
    <3>3. ASSUME NEW b \in BWs, PanelSetBW(b)
          PROVE  Promise!Next
      BY <3>3, SetsAreSteps DEF PanelSetBW
    <3>4. ASSUME NEW v \in VFO, PanelSelect(v)
          PROVE  Promise!Next
      BY <2>3, <3>4 DEF PanelSelect
    <3>5. ASSUME NEW on \in BOOLEAN, PanelSplit(on)
          PROVE  Promise!Next
      BY <2>6, <3>5 DEF PanelSplit
    <3> QED
      BY <2>9, <3>1, <3>2, <3>3, <3>4, <3>5 DEF Panel, PickMode, PickDSP, ClickSwap
  <2>10. CASE PanelContinue
    <3>1. CASE PanelSetMode
      BY <2>7, <3>1 DEF PanelSetMode, TypeOK
    <3>2. CASE PanelSetDSP
      BY <3>2, ServiceIsStep DEF PanelSetDSP, TypeOK, UIState, Idle
    <3>3. CASE PanelSwap
      BY <2>4, <2>5, <3>3 DEF PanelSwap
    <3> QED
      BY <2>10, <3>1, <3>2, <3>3 DEF PanelContinue
  <2>11. CASE Server
    <3>1. ASSUME NEW v \in VFO, NEW f \in Freqs, XmlGetVfoV(v, f)
          PROVE  Promise!Next
      BY <3>1 DEF XmlGetVfoV
    <3>2. ASSUME NEW v \in VFO, XmlSetAB(v)
          PROVE  Promise!Next
      BY <3>2, AbstractSteps DEF XmlSetAB
    <3>3. ASSUME NEW v \in VFO, NEW f \in Freqs,
                 XmlSetVfoV(v, f) \/ XmlSetVerifyVfoV(v, f)
          PROVE  Promise!Next
      BY <2>8, <3>3 DEF FrequencyRequest
    <3>4. ASSUME NEW d \in {-1, 1}, XmlModVfoA(d) \/ XmlModVfoB(d)
          PROVE  Promise!Next
      BY <2>0, <2>8, <3>4 DEF FrequencyRequest
    <3>5. cache["A"].freq \in Freqs /\ cache["A"].imode \in Modes
      BY <2>0 DEF State
    <3>6. CASE XmlVfoA2B
      BY <2>0, <3>5, <3>6, SetsAreSteps DEF XmlVfoA2B
    <3>7. CASE XmlFreqA2B
      BY <2>0, <3>5, <3>7, SetsAreSteps DEF XmlFreqA2B
    <3>8. CASE XmlModeA2B
      BY <2>0, <3>5, <3>8, SetsAreSteps DEF XmlModeA2B
    <3>9. ASSUME NEW f \in Freqs, XmlSetVfo(f) \/ XmlSetVerifyVfo(f)
          PROVE  Promise!Next
      BY <3>9, SetsAreSteps DEF XmlSetVfo, XmlSetVerifyVfo
    <3>10. ASSUME NEW m \in Modes, XmlSetMode(m) \/ \E v \in VFO : XmlSetModeV(v, m)
           PROVE  Promise!Next
      BY <2>7, <3>10 DEF XmlSetMode, XmlSetModeV
    <3>11. ASSUME NEW b \in BWs, XmlSetBandwidth(b)
           PROVE  Promise!Next
      BY <3>11, SetsAreSteps DEF XmlSetBandwidth
    <3>12. ASSUME NEW b \in BWs, XmlSetBw(b)
           PROVE  Promise!Next
      <4>1. [cache[Active] EXCEPT !.iBW = b] \in State
        BY <3>12 DEF State
      <4> QED
        BY <3>12, <4>1, ServiceIsStep DEF XmlSetBw
    <3>13. CASE XmlSwap
      BY <2>4, <3>13 DEF XmlSwap
    <3>14. ASSUME NEW on \in BOOLEAN, XmlSplit(on)
           PROVE  Promise!Next
      BY <2>6, <3>14 DEF XmlSplit, TypeOK
    <3> QED
      BY <2>11, <3>1, <3>2, <3>3, <3>4, <3>6, <3>7, <3>8, <3>9, <3>10, <3>11,
         <3>12, <3>13, <3>14 DEF Server
  <2> QED
    BY <2>1, <2>2, <2>9, <2>10, <2>11 DEF Next, Requests
<1> QED
  BY <1>1, <1>2, TypeCorrect, PTL DEF Spec, KeepsPromise, Promise!Spec

-----------------------------------------------------------------------------
(* What flrig knows it goes on knowing.                                    *)

\* flrig knows a set of which one VFO was changed, when it stored the change.
LEMMA PutKnown ==
    ASSUME TypeOK, Knows, NEW v \in VFO, NEW s \in Register,
           radio' = Put(radio, v, s), cache' = [cache EXCEPT ![v] = s], vfo' = vfo
    PROVE  Knows'
BY DEF TypeOK, Knows, CacheExact, Active, Put, Radio

\* A frequency the set takes reaches the VFO it is for, selected or not, and
\* a frequency it does not take leaves the set as it was.
LEMMA FreqReaches ==
    ASSUME NEW r \in Radio, NEW v \in VFO, NEW f \in Freqs
    PROVE  LET there == SetFreq(Reach(r, v), v, f)
               s == IF f \in InBand THEN [r.reg[v] EXCEPT !.freq = f] ELSE r.reg[v]
           IN  /\ s \in Register
               /\ Return(there, r) = Put(r, v, s)
               /\ there.reg[Landing(there, v)] = s
<1> DEFINE q == Reach(r, v)
           there == SetFreq(q, v, f)
           s == IF f \in InBand THEN [r.reg[v] EXCEPT !.freq = f] ELSE r.reg[v]
<1>1. /\ q \in Radio /\ q.reg = r.reg /\ Landing(q, v) = v
      /\ q = r \/ (q = [r EXCEPT !.inuse = v] /\ r.inuse # v)
  BY SelectFacts DEF Reach, Landing, Select, Radio
<1>2. s \in Register /\ s.freq \in InBand
  BY DEF Radio, Register
<1>3. there = Put(q, v, s)
  BY <1>1 DEF SetFreq, Put, Radio
<1> HIDE DEF q, s
<1>4. there.inuse = q.inuse /\ there.reg[v] = s
  BY <1>1, <1>2, <1>3, PutFacts
<1>5. Landing(there, v) = v
  BY <1>1, <1>4 DEF Landing
<1>6. Return(there, r) = Put(r, v, s)
  <2> HIDE DEF there
  <2>1. CASE q = r
    BY <1>3, <1>4, <2>1 DEF Return
  <2>2. CASE q = [r EXCEPT !.inuse = v] /\ r.inuse # v
    <3>1. Return(there, r) = [there EXCEPT !.inuse = r.inuse]
      BY <1>4, <2>2 DEF Return, Select, Radio
    <3> QED
      BY <1>3, <2>2, <3>1 DEF Put, Radio
  <2> QED
    BY <1>1, <2>1, <2>2
<1> QED
  BY <1>2, <1>4, <1>5, <1>6 DEF q, s

\* One field of what a VFO holds, changed.
WithFreq(s, f) == [s EXCEPT !.freq = f]
WithMode(s, m) == [s EXCEPT !.imode = m]
WithBW(s, b) == [s EXCEPT !.iBW = b]

LEMMA FieldsRegister ==
    ASSUME NEW s \in Register
    PROVE  /\ \A f \in InBand : WithFreq(s, f) \in Register
           /\ \A m \in Modes : WithMode(s, m) \in Register
           /\ \A b \in BWs : WithBW(s, b) \in Register
BY DEF WithFreq, WithMode, WithBW, Register

\* A set command that lands on the VFO it is for changes that field of it.
LEMMA SetsLand ==
    ASSUME NEW r \in Radio, NEW v \in VFO, CanChangeAlt \/ r.inuse = v
    PROVE  /\ \A f \in InBand : SetFreq(r, v, f) = Put(r, v, WithFreq(r.reg[v], f))
           /\ \A m \in Modes : SetMode(r, v, m) = Put(r, v, WithMode(r.reg[v], m))
           /\ \A b \in BWs : SetBW(r, v, b) = Put(r, v, WithBW(r.reg[v], b))
<1>1. Landing(r, v) = v
  BY DEF Landing
<1> QED
  BY <1>1 DEF SetFreq, SetMode, SetBW, Put, WithFreq, WithMode, WithBW

\* Two of them in a row.
LEMMA TwoSetsLand ==
    ASSUME NEW r \in Radio, NEW v \in VFO, CanChangeAlt \/ r.inuse = v,
           NEW m \in Modes
    PROVE  /\ \A b \in BWs : SetBW(SetMode(r, v, m), v, b)
                               = Put(r, v, WithBW(WithMode(r.reg[v], m), b))
           /\ \A f \in InBand : SetMode(SetFreq(r, v, f), v, m)
                               = Put(r, v, WithMode(WithFreq(r.reg[v], f), m))
<1>1. r.reg[v] \in Register
  BY DEF Radio
<1>2. ASSUME NEW b \in BWs
      PROVE  SetBW(SetMode(r, v, m), v, b)
               = Put(r, v, WithBW(WithMode(r.reg[v], m), b))
  <2> DEFINE X == WithMode(r.reg[v], m)
             x == Put(r, v, X)
  <2>1. X \in Register /\ WithBW(X, b) \in Register
    BY <1>1, FieldsRegister
  <2>2. x \in Radio /\ x.inuse = r.inuse /\ x.reg[v] = X
    BY <2>1, PutFacts
  <2>3. SetMode(r, v, m) = x
    BY SetsLand
  <2>4. SetBW(x, v, b) = Put(x, v, WithBW(X, b))
    <3> HIDE DEF x
    <3> QED
      BY <2>2, SetsLand
  <2>5. Put(x, v, WithBW(X, b)) = Put(r, v, WithBW(X, b))
    BY <2>1, PutFacts
  <2> QED
    BY <2>3, <2>4, <2>5
<1>3. ASSUME NEW f \in InBand
      PROVE  SetMode(SetFreq(r, v, f), v, m)
               = Put(r, v, WithMode(WithFreq(r.reg[v], f), m))
  <2> DEFINE X == WithFreq(r.reg[v], f)
             x == Put(r, v, X)
  <2>1. X \in Register /\ WithMode(X, m) \in Register
    BY <1>1, FieldsRegister
  <2>2. x \in Radio /\ x.inuse = r.inuse /\ x.reg[v] = X
    BY <2>1, PutFacts
  <2>3. SetFreq(r, v, f) = x
    BY SetsLand
  <2>4. SetMode(x, v, m) = Put(x, v, WithMode(X, m))
    <3> HIDE DEF x
    <3> QED
      BY <2>2, SetsLand
  <2>5. Put(x, v, WithMode(X, m)) = Put(r, v, WithMode(X, m))
    BY <2>1, PutFacts
  <2> QED
    BY <2>3, <2>4, <2>5
<1> QED
  BY <1>2, <1>3

\* The facts a state of knowledge gives, in the form the steps below use.
LEMMA KnownBasics ==
    ASSUME TypeOK, Knows
    PROVE  /\ radio \in Radio /\ Active \in VFO /\ radio.inuse = Active
           /\ vfo = Active /\ cache = radio.reg
           /\ \A v \in VFO : radio.reg[v] \in Register
BY DEF TypeOK, Knows, CacheExact, Active, Radio

\* A mode ordered for the VFO in use is stored where it was sent.
LEMMA SetModeKnown ==
    ASSUME TypeOK, Knows, NEW m \in Modes, SetModeOn(Active, m), vfo' = vfo
    PROVE  Knows'
<1> DEFINE s == WithBW(WithMode(radio.reg[Active], m), DefBW[m])
<1>1. DefBW[m] \in BWs
  BY RigAssumption
<1>2. s \in Register /\ radio' = Put(radio, Active, s)
  BY <1>1, KnownBasics, FieldsRegister, TwoSetsLand DEF SetModeOn
<1>3. cache' = [cache EXCEPT ![Active] = s]
  BY KnownBasics DEF SetModeOn, WithMode, WithBW, TypeOK
<1> QED
  BY <1>2, <1>3, KnownBasics, PutKnown

\* A poll reads what is known already.
LEMMA PollKnown ==
    ASSUME TypeOK, Knows, Poll \/ Callbacks
    PROVE  Knows'
<1> USE KnownBasics, OtherVfo
<1>1. cache \in [VFO -> State]
  BY DEF TypeOK
<1>2. CASE ReadVfoBegin \/ ReadSplit \/ Callbacks
  BY <1>2 DEF ReadVfoBegin, ReadSplit, Callbacks, RunModeControl, RunUpdateUI,
              Knows, CacheExact, Active
<1>3. CASE ReadVfoEnd
  <2>1. \A v \in VFO : [cache[v] EXCEPT !.freq = radio.reg[v].freq] = cache[v]
    BY <1>1 DEF State
  <2>2. cache' = cache
    BY <1>1, <1>3, <2>1 DEF ReadVfoEnd
  <2> QED
    BY <1>3, <2>2 DEF ReadVfoEnd, Knows, CacheExact, Active
<1>4. CASE ReadMode
  <2> DEFINE now == radio.reg[Active]
             seen == [v \in VFO |->
                        IF now.imode # opMODE /\ v \in {vfo, Active}
                        THEN [cache[v] EXCEPT !.imode = now.imode, !.iBW = now.iBW]
                        ELSE cache[v]]
  <2>1. [cache[Active] EXCEPT !.imode = now.imode, !.iBW = now.iBW] = cache[Active]
    BY <1>1 DEF State
  <2>2. seen = cache
    BY <1>1, <2>1
  <2>3. [cache EXCEPT ![Other(Active)].imode = radio.reg[Other(Active)].imode] = cache
    BY <1>1 DEF State
  <2>4. cache' = IF TwoVfos
                 THEN [seen EXCEPT ![Other(Active)].imode =
                                        radio.reg[Other(Active)].imode]
                 ELSE seen
    BY <1>4 DEF ReadMode
  <2>5. cache' = cache
    BY <2>2, <2>3, <2>4
  <2> QED
    BY <1>4, <2>5 DEF ReadMode, Knows, CacheExact, Active
<1>5. CASE ReadBandwidth
  <2>1. [cache[Active] EXCEPT !.iBW = radio.reg[Active].iBW] = cache[Active]
    BY <1>1 DEF State
  <2>2. cache' = cache
    BY <1>1, <1>5, <2>1 DEF ReadBandwidth
  <2> QED
    BY <1>5, <2>2 DEF ReadBandwidth, Knows, CacheExact, Active
<1> QED
  BY <1>2, <1>3, <1>4, <1>5 DEF Poll

\* The requests of serviceXCVR() that both panel and server give.
LEMMA ServiceXCVRKnown ==
    ASSUME TypeOK, Knows
    PROVE  /\ \A v \in VFO : ServiceSelect(v) => Knows'
           /\ \A on \in BOOLEAN, after \in BOOLEAN : ServiceSplit(on, after) => Knows'
           /\ ServiceSwap => Knows' \/ Misplaced
           /\ ServiceA2B => Knows' \/ Misplaced
<1> USE KnownBasics, OtherVfo
<1>0. "A" \in VFO /\ cache \in [VFO -> State]
  BY DEF VFO, TypeOK
<1>1. ASSUME NEW v \in VFO, ServiceSelect(v)
      PROVE  Knows'
  BY <1>1, SelectFacts DEF ServiceSelect, Knows, CacheExact, Active
<1>2. ASSUME NEW on \in BOOLEAN, NEW after \in BOOLEAN, ServiceSplit(on, after)
      PROVE  Knows'
  <2> DEFINE r == SetSplit(radio, on)
  <2>1. r \in Radio /\ r.reg = radio.reg /\ r.inuse = radio.inuse
    BY <1>2 DEF SetSplit, Radio
  <2>2. /\ Select(r, "A").reg = radio.reg /\ Select(r, "A").inuse = "A"
    BY <1>0, <2>1, SelectFacts
  <2> QED
    BY <1>2, <2>1, <2>2 DEF ServiceSplit, Knows, CacheExact, Active
<1>3. ASSUME ServiceSwap, ~Misplaced
      PROVE  Knows'
  <2>1. /\ radio'.reg = [v \in VFO |-> radio.reg[Other(v)]]
        /\ vfo' = radio'.inuse
    BY <1>3, SwapStep DEF ExchangeStep, Knows
  <2>2. ~SwapIcom
    BY <1>3 DEF Misplaced, SwapIcom
  <2>3. cache' = Exchanged
    <3>1. CASE SwapByHand
      BY <3>1 DEF SwapByHand
    <3>2. CASE SwapMainSub \/ SwapOther
      BY <3>2 DEF SwapMainSub, SwapOther
    <3> QED
      BY <1>3, <2>2, <3>1, <3>2 DEF ServiceSwap, ExecuteSwapAB
  <2> QED
    BY <2>1, <2>3 DEF Exchanged, Knows, CacheExact, Active
<1>4. ASSUME ServiceA2B, ~Misplaced
      PROVE  Knows'
  <2> DEFINE to == Other(CopyFrom)
             s == radio.reg[CopyFrom]
  <2>1. CopyFrom \in VFO /\ to \in VFO /\ s \in Register
    BY <1>0 DEF CopyFrom
  <2>2. cache' = [cache EXCEPT ![to] = s]
    BY <1>4 DEF ServiceA2B, ExecuteA2B
  <2>3. CASE ICOMmainsub
    <3>1. radio' = Equalize(Select(radio, "A")) /\ vfo' = "A" /\ CopyFrom = "A"
      BY <1>4, <2>3 DEF ServiceA2B, ExecuteA2B, CopyFrom
    <3>2. radio'.reg = [radio.reg EXCEPT ![to] = s] /\ radio'.inuse = "A"
      BY <3>1 DEF Equalize, Select, Radio
    <3> QED
      BY <2>2, <3>1, <3>2 DEF Knows, CacheExact, Active
  <2>4. CASE ~ICOMmainsub /\ HasA2B
    <3>1. radio' = Equalize(radio) /\ vfo' = vfo /\ CopyFrom = Active
      BY <1>4, <2>4 DEF ServiceA2B, ExecuteA2B, CopyFrom
    <3>2. EqualizeA => Active = "A"
      BY <1>4, <2>4 DEF Misplaced, VFO
    <3>3. radio' = Put(radio, to, s)
      BY <3>1, <3>2 DEF Equalize, Put
    <3> QED
      BY <2>1, <2>2, <3>1, <3>3, PutKnown
  <2>5. CASE ~ICOMmainsub /\ ~HasA2B
    <3>1. radio' = SetAll(radio, to, s) /\ vfo' = vfo
      BY <1>4, <2>5 DEF ServiceA2B, ExecuteA2B
    <3>2. CanChangeAlt
      BY <1>4, <2>5 DEF Misplaced
    <3>3. radio' = Put(radio, to, s)
      BY <2>1, <3>1, <3>2, SetAllExact
    <3> QED
      BY <2>1, <2>2, <3>1, <3>3, PutKnown
  <2> QED
    BY <2>3, <2>4, <2>5
<1> QED
  BY <1>1, <1>2, <1>3, <1>4

\* The panel orders what it stores.
LEMMA PanelKnown ==
    ASSUME TypeOK, Knows, Panel \/ PanelContinue
    PROVE  Knows' \/ Refused \/ Misplaced \/ Unstored
<1> USE KnownBasics
<1>0. cache \in [VFO -> State]
  BY DEF TypeOK
<1>1. ASSUME NEW v \in VFO, NEW f \in Freqs, MovFreq(v, f), ~Refused
      PROVE  Knows'
  <2> DEFINE s == [radio.reg[v] EXCEPT !.freq = f]
  <2>1. f \in InBand
    BY <1>1 DEF Refused
  <2>2. s \in Register /\ radio' = Put(radio, v, s)
    BY <1>1, <2>1, FreqReaches DEF MovFreq
  <2>3. cache' = [cache EXCEPT ![v] = s] /\ vfo' = vfo
    BY <1>1 DEF MovFreq
  <2> QED
    BY <2>2, <2>3, PutKnown
<1>2. ASSUME NEW s \in State, SelectFreq(s), ~Refused
      PROVE  Knows'
  <2>1. s \in Register
    <3>1. s.freq \in InBand
      BY <1>2 DEF Refused, State
    <3> QED
      BY <3>1 DEF State, Register
  <2>2. radio' = Put(radio, Active, s)
    BY <1>2, <2>1, SetAllExact DEF SelectFreq
  <2>3. cache' = [cache EXCEPT ![Active] = s] /\ vfo' = vfo
    BY <1>0, <1>2 DEF SelectFreq
  <2> QED
    BY <2>1, <2>2, <2>3, PutKnown
<1>3. ASSUME NEW b \in BWs, PanelSetBW(b)
      PROVE  Knows'
  <2> DEFINE s == WithBW(radio.reg[Active], b)
  <2>1. s \in Register /\ radio' = Put(radio, Active, s)
    BY <1>3, FieldsRegister, SetsLand DEF PanelSetBW
  <2>2. cache' = [cache EXCEPT ![Active] = s] /\ vfo' = vfo
    BY <1>0, <1>3 DEF PanelSetBW, WithBW
  <2> QED
    BY <2>1, <2>2, PutKnown
<1>4. ASSUME UNCHANGED <<radio, cache, vfo>>
      PROVE  Knows'
  BY <1>4 DEF Knows, CacheExact, Active
<1>5. CASE Panel
  <2>1. ASSUME \/ \E m \in Modes : PickMode(m)
               \/ \E b \in BWs : PickDSP(b)
               \/ \E click \in Clicks : ClickSwap(click)
        PROVE  Knows'
    BY <1>4, <2>1 DEF PickMode, PickDSP, ClickSwap
  <2> QED
    BY <1>1, <1>2, <1>3, <1>5, <2>1, ServiceXCVRKnown
       DEF Panel, PanelSelect, PanelSplit
<1>6. CASE PanelSetMode
  BY <1>6, SetModeKnown DEF PanelSetMode, TypeOK
<1>7. CASE PanelSwap
  BY <1>4, <1>7, ServiceXCVRKnown DEF PanelSwap
<1> QED
  BY <1>5, <1>6, <1>7 DEF PanelContinue, Unstored

\* Of the clients' requests for one VFO, the two that read the set store what it
\* holds, taken or not.
LEMMA FrequenciesKnown ==
    ASSUME TypeOK, Knows, NEW v \in VFO, NEW f \in Freqs,
           XmlGetVfoV(v, f) \/ XmlSetVfoV(v, f) \/ XmlSetVerifyVfoV(v, f)
    PROVE  Knows' \/ Refused \/ Unasked
<1> USE KnownBasics, OtherVfo
<1>0. cache \in [VFO -> State]
  BY DEF TypeOK
<1> DEFINE s == IF f \in InBand THEN [radio.reg[v] EXCEPT !.freq = f]
                ELSE radio.reg[v]
           there == SetFreq(Reach(radio, v), v, f)
<1>1. /\ s \in Register /\ Return(there, radio) = Put(radio, v, s)
      /\ there.reg[Landing(there, v)] = s
  BY FreqReaches
<1>2. [radio.reg[v] EXCEPT !.freq = s.freq] = s
  BY <1>1 DEF Register
<1>3. CASE XmlGetVfoV(v, f)
  <2>1. CASE CanChangeAlt \/ v = Active
    <3>1. f = radio.reg[v].freq
      BY <1>3, <2>1 DEF XmlGetVfoV
    <3>2. cache' = cache /\ UNCHANGED <<radio, vfo>>
      BY <1>0, <1>3, <3>1 DEF XmlGetVfoV, State
    <3> QED
      BY <3>2 DEF Knows, CacheExact, Active
  <2>2. CASE ~CanChangeAlt /\ v # Active
    <3>1. v = Other(Active)
      BY <2>2 DEF VFO, Other
    <3> QED
      BY <1>3, <2>2, <3>1 DEF Unasked
  <2> QED
    BY <2>1, <2>2
<1>4. CASE XmlSetVfoV(v, f)
  <2>1. CASE f \notin InBand
    BY <1>4, <2>1 DEF Refused
  <2>2. CASE f \in InBand
    <3>1. radio' = Put(radio, v, s) /\ vfo' = vfo
      BY <1>1, <1>4 DEF XmlSetVfoV
    <3>2. cache' = [cache EXCEPT ![v] = s]
      BY <1>0, <1>4, <2>2 DEF XmlSetVfoV
    <3> QED
      BY <1>1, <3>1, <3>2, PutKnown
  <2> QED
    BY <2>1, <2>2
<1>5. CASE XmlSetVerifyVfoV(v, f)
  <2>1. radio' = Put(radio, v, s) /\ vfo' = vfo
    BY <1>1, <1>5 DEF XmlSetVerifyVfoV
  <2>2. cache' = [cache EXCEPT ![v].freq = s.freq]
    BY <1>1, <1>5 DEF XmlSetVerifyVfoV
  <2>3. cache' = [cache EXCEPT ![v] = s]
    BY <1>2, <2>2
  <2> QED
    BY <1>1, <2>1, <2>3, PutKnown
<1> QED
  BY <1>3, <1>4, <1>5

\* rig.mod_vfoA sends what it has stored.
LEMMA ModKnown ==
    ASSUME TypeOK, Knows, NEW d \in {-1, 1}, XmlModVfoA(d), ~Refused
    PROVE  Knows'
<1> USE KnownBasics
<1> DEFINE f == cache["A"].freq + d
           s == [radio.reg["A"] EXCEPT !.freq = f]
<1>1. "A" \in VFO /\ f \in Freqs /\ cache \in [VFO -> State]
  BY DEF VFO, XmlModVfoA, TypeOK
<1>2. cache' = [cache EXCEPT !["A"] = s] /\ vfo' = vfo
  BY DEF XmlModVfoA
<1>3. cache'["A"].freq = f
  BY <1>1, <1>2 DEF State
<1>4. f \in InBand
  BY <1>3 DEF Refused
<1>5. radio' = Return(SetFreq(Reach(radio, "A"), "A", f), radio)
  BY <1>3 DEF XmlModVfoA
<1>6. s \in Register /\ radio' = Put(radio, "A", s)
  BY <1>1, <1>4, <1>5, FreqReaches
<1> QED
  BY <1>1, <1>2, <1>6, PutKnown

\* The copies from A to B are stored for B and sent to B, when the set can tell.
LEMMA CopiesKnown ==
    ASSUME TypeOK, Knows, XmlVfoA2B \/ XmlFreqA2B \/ XmlModeA2B, ~Misplaced
    PROVE  Knows'
<1> USE KnownBasics
<1> DEFINE from == radio.reg["A"]
           onto == radio.reg["B"]
<1>1. /\ "A" \in VFO /\ "B" \in VFO /\ cache \in [VFO -> State]
      /\ from \in Register /\ onto \in Register
      /\ from.freq \in InBand /\ from.imode \in Modes
  BY DEF VFO, TypeOK, Register
<1>2. CanChangeAlt \/ radio.inuse = "B"
  BY DEF Misplaced, VFO
<1>3. CASE XmlVfoA2B
  <2> DEFINE s == WithMode(WithFreq(onto, from.freq), from.imode)
  <2>1. s \in Register
    BY <1>1, FieldsRegister
  <2>2. radio' = Put(radio, "B", s) /\ vfo' = vfo
    BY <1>1, <1>2, <1>3, TwoSetsLand DEF XmlVfoA2B
  <2>3. cache' = [cache EXCEPT !["B"] = s]
    BY <1>1, <1>3 DEF XmlVfoA2B, WithMode, WithFreq
  <2> QED
    BY <1>1, <2>1, <2>2, <2>3, PutKnown
<1>4. CASE XmlFreqA2B
  <2> DEFINE s == WithFreq(onto, from.freq)
  <2>1. s \in Register
    BY <1>1, FieldsRegister
  <2>2. radio' = Put(radio, "B", s) /\ vfo' = vfo
    BY <1>1, <1>2, <1>4, SetsLand DEF XmlFreqA2B
  <2>3. cache' = [cache EXCEPT !["B"] = s]
    BY <1>1, <1>4 DEF XmlFreqA2B, WithFreq
  <2> QED
    BY <1>1, <2>1, <2>2, <2>3, PutKnown
<1>5. CASE XmlModeA2B
  <2> DEFINE s == WithMode(onto, from.imode)
  <2>1. s \in Register
    BY <1>1, FieldsRegister
  <2>2. radio' = Put(radio, "B", s) /\ vfo' = vfo
    BY <1>1, <1>2, <1>5, SetsLand DEF XmlModeA2B
  <2>3. cache' = [cache EXCEPT !["B"] = s]
    BY <1>1, <1>5 DEF XmlModeA2B, WithMode
  <2> QED
    BY <1>1, <2>1, <2>2, <2>3, PutKnown
<1> QED
  BY <1>3, <1>4, <1>5

\* A frequency for the VFO in use.
LEMMA SetVfoKnown ==
    ASSUME TypeOK, Knows, NEW f \in Freqs, XmlSetVfo(f) \/ XmlSetVerifyVfo(f),
           ~Refused
    PROVE  Knows'
<1> USE KnownBasics
<1> DEFINE s == WithFreq(radio.reg[Active], f)
<1>1. cache \in [VFO -> State] /\ cache[Active] \in State
  BY DEF TypeOK
<1>2. CASE f \in InBand
  <2>1. s \in Register /\ radio' = Put(radio, Active, s) /\ vfo' = vfo
    BY <1>2, FieldsRegister, SetsLand DEF XmlSetVfo, XmlSetVerifyVfo
  <2>2. radio'.reg[Active] = s /\ s.freq = f
    BY <1>1, <2>1, PutFacts DEF WithFreq, State
  <2>3. cache' = [cache EXCEPT ![Active].freq = f]
    BY <2>2 DEF XmlSetVfo, XmlSetVerifyVfo
  <2>4. cache' = [cache EXCEPT ![Active] = s]
    BY <2>3 DEF WithFreq
  <2> QED
    BY <2>1, <2>4, PutKnown
<1>3. CASE f \notin InBand
  <2>1. XmlSetVerifyVfo(f) /\ radio' = radio /\ vfo' = vfo
    BY <1>3 DEF Refused, SetFreq, XmlSetVerifyVfo
  <2>2. cache' = cache
    BY <1>1, <2>1 DEF XmlSetVerifyVfo, State
  <2> QED
    BY <2>1, <2>2 DEF Knows, CacheExact, Active
<1> QED
  BY <1>2, <1>3

\* So do the clients.
LEMMA ServerKnown ==
    ASSUME TypeOK, Knows, Server
    PROVE  \/ Knows' \/ Refused \/ Misplaced \/ Unstored \/ Unasked
           \/ \E v \in VFO : XmlSetAB(v)
<1> USE KnownBasics
<1>0. cache \in [VFO -> State]
  BY DEF TypeOK
<1>1. ASSUME NEW m \in Modes, XmlSetMode(m)
      PROVE  Knows'
  BY <1>1, SetModeKnown DEF XmlSetMode
<1>2. ASSUME NEW v \in VFO, NEW m \in Modes, XmlSetModeV(v, m)
      PROVE  Knows' \/ Misplaced
  <2>1. CASE v = Active
    BY <1>2, <2>1, SetModeKnown DEF XmlSetModeV
  <2>2. CASE v # Active
    BY <1>2, <2>2 DEF Misplaced
  <2> QED
    BY <2>1, <2>2
<1>3. ASSUME NEW b \in BWs, XmlSetBandwidth(b)
      PROVE  Knows'
  <2> DEFINE s == WithBW(radio.reg[Active], b)
  <2>1. s \in Register /\ radio' = Put(radio, Active, s)
    BY <1>3, FieldsRegister, SetsLand DEF XmlSetBandwidth
  <2>2. cache' = [cache EXCEPT ![Active] = s] /\ vfo' = vfo
    BY <1>0, <1>3 DEF XmlSetBandwidth, WithBW
  <2> QED
    BY <2>1, <2>2, PutKnown
<1>4. ASSUME XmlSwap \/ \E on \in BOOLEAN : XmlSplit(on)
      PROVE  Knows' \/ Misplaced
  BY <1>4, ServiceXCVRKnown DEF XmlSwap, XmlSplit, TypeOK
<1>5. ASSUME NEW d \in {-1, 1}, XmlModVfoA(d) \/ XmlModVfoB(d)
      PROVE  Knows' \/ Refused \/ Unstored
  BY <1>5, ModKnown DEF Unstored
<1>6. ASSUME NEW b \in BWs, XmlSetBw(b)
      PROVE  Unstored
  BY <1>6 DEF Unstored
<1> QED
  BY <1>1, <1>2, <1>3, <1>4, <1>5, <1>6, FrequenciesKnown, CopiesKnown,
     SetVfoKnown DEF Server

\* For every kind of set, every band and every set of modes and bandwidths: flrig
\* stops knowing its set only by what is turned at the set, by rig.set_AB and by
\* the handlers KnownUntil names.
THEOREM KnownUntilAlways == Spec => KnownUntil
<1> DEFINE Kept == \/ Knows'
                   \/ \E s \in Register : FrontPanel(s)
                   \/ \E v \in VFO : XmlSetAB(v)
                   \/ Refused \/ Misplaced \/ Unstored \/ Unasked
<1>1. TypeOK /\ [Next]_vars => (Knows => Kept \/ UNCHANGED vars)
  <2> SUFFICES ASSUME TypeOK, Knows, Next PROVE Kept
    OBVIOUS
  <2> QED
    BY PollKnown, PanelKnown, ServerKnown DEF Next, Requests
<1>2. TypeOK /\ [Next]_vars => [Knows => Kept]_vars
  BY <1>1
<1> QED
  BY <1>2, TypeCorrect, PTL DEF Spec, KnownUntil
=============================================================================
