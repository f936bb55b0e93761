--------------------------- MODULE MemoryListProofs ---------------------------
(* What TLAPS proves of the memory manager, for any sets, VFO contents, tags  *)
(* and length of the list: it is well typed, never holds a frequency and      *)
(* mode twice, shows the selected line's tag, and implements MemoryBank; and  *)
(* sortList, as it is written, sorts every list without twins.               *)
EXTENDS MemorySort, SequenceTheorems, FiniteSetTheorems, WellFoundedInduction, TLAPS

LEMMA Assumed ==
    /\ 0 \in Tags /\ LISTSIZE \in Nat
    /\ \A r \in Rigs : r # "none"
    /\ Torn \notin Seq(Memories) /\ Torn \notin SUBSET Memories
BY MemoryAssumption

\* A memory is a record of its four fields, and is told apart by two of them.
LEMMA MemoryFields ==
    /\ \A v \in VfoContents, t \in Tags :
        /\ B!Memory(v, t) \in Memories
        /\ B!Memory(v, t).freq = v.freq /\ B!Memory(v, t).imode = v.imode
    /\ \A v \in VfoContents : v \in [freq : Nat, imode : Nat, iBW : Nat]
BY MemoryAssumption DEF Memories, B!Memory

\* A memory that takes another bandwidth, or another tag, is a memory of the
\* same frequency and mode.
LEMMA Changed ==
    \A m \in Memories :
        /\ \A v \in VfoContents : Same(m, v) =>
            /\ [m EXCEPT !.iBW = v.iBW] \in Memories
            /\ [m EXCEPT !.iBW = v.iBW].freq = m.freq
            /\ [m EXCEPT !.iBW = v.iBW].imode = m.imode
        /\ \A t \in Tags :
            /\ [m EXCEPT !.tag = t] \in Memories
            /\ [m EXCEPT !.tag = t].freq = m.freq
            /\ [m EXCEPT !.tag = t].imode = m.imode
            /\ [m EXCEPT !.tag = t].tag = t
        /\ m.tag \in Tags
<1>. SUFFICES ASSUME NEW m \in Memories
              PROVE  /\ \A v \in VfoContents : Same(m, v) =>
                        /\ [m EXCEPT !.iBW = v.iBW] \in Memories
                        /\ [m EXCEPT !.iBW = v.iBW].freq = m.freq
                        /\ [m EXCEPT !.iBW = v.iBW].imode = m.imode
                     /\ \A t \in Tags :
                        /\ [m EXCEPT !.tag = t] \in Memories
                        /\ [m EXCEPT !.tag = t].freq = m.freq
                        /\ [m EXCEPT !.tag = t].imode = m.imode
                        /\ [m EXCEPT !.tag = t].tag = t
                     /\ m.tag \in Tags
  OBVIOUS
<1>0. PICK w \in VfoContents, u \in Tags : m = B!Memory(w, u)
  BY DEF Memories
<1>1. \A v \in VfoContents : Same(m, v) => [m EXCEPT !.iBW = v.iBW] = B!Memory(v, u)
  BY <1>0 DEF B!Memory, Same, B!Same
<1>2. \A t \in Tags : [m EXCEPT !.tag = t] = B!Memory(w, t)
  BY <1>0 DEF B!Memory
<1>3. \A v \in VfoContents, t \in Tags : B!Memory(v, t) \in Memories /\ B!Memory(v, t).tag = t
  BY DEF Memories, B!Memory
<1>4. \A v \in VfoContents, t \in Tags :
        B!Memory(v, t).freq = v.freq /\ B!Memory(v, t).imode = v.imode
  BY DEF B!Memory
<1>5. \A v \in VfoContents : Same(m, v) => m.freq = v.freq /\ m.imode = v.imode
  BY DEF Same, B!Same
<1>. QED  BY <1>0, <1>1, <1>2, <1>3, <1>4, <1>5

LEMMA SeqFacts ==
    ASSUME NEW list \in Seq(Memories)
    PROVE  /\ Len(list) \in Nat /\ DOMAIN list = 1..Len(list)
           /\ \A i \in DOMAIN list : list[i] \in Memories
BY LenProperties, ElementOfSeq

\* An arrangement keeps the length, the entries and their being distinct.
LEMMA Rearranged ==
    ASSUME NEW list \in Seq(Memories), NEW s \in Arrangements(list)
    PROVE  /\ s \in Seq(Memories) /\ Len(s) = Len(list) /\ DOMAIN s = DOMAIN list
           /\ Range(s) = Range(list)
           /\ Distinct(list) => Distinct(s)
<1>0. /\ Len(list) \in Nat /\ DOMAIN list = 1..Len(list)
      /\ \A i \in DOMAIN list : list[i] \in Memories
  BY LenProperties, ElementOfSeq
<1>1. PICK p \in Bijection(DOMAIN list, DOMAIN list) : s = [i \in DOMAIN list |-> list[p[i]]]
  BY DEF Arrangements
<1>2. /\ p \in [DOMAIN list -> DOMAIN list]
      /\ \A a, b \in DOMAIN list : p[a] = p[b] => a = b
      /\ \A t \in DOMAIN list : \E i \in DOMAIN list : p[i] = t
  BY <1>1 DEF Bijection, Injection, Surjection, IsInjective
<1>3. s \in [1..Len(list) -> Memories]
  BY <1>0, <1>1, <1>2
<1>4. s \in Seq(Memories) /\ Len(s) = Len(list)
  BY <1>0, <1>3
<1>5. Range(s) = Range(list)
  BY <1>1, <1>2 DEF Range
<1>6. Distinct(list) => Distinct(s)
  BY <1>1, <1>2 DEF Distinct
<1>. QED  BY <1>0, <1>3, <1>4, <1>5, <1>6

\* Sorting rearranges.
LEMMA Arranged ==
    ASSUME NEW key, NEW list \in Seq(Memories), NEW s \in Sorted(key, list)
    PROVE  /\ s \in Seq(Memories) /\ Len(s) = Len(list) /\ DOMAIN s = DOMAIN list
           /\ Range(s) = Range(list)
           /\ Distinct(list) => Distinct(s)
BY Rearranged DEF Sorted

\* A place of the list taken by another memory of the same frequency and mode.
LEMMA Replaced ==
    ASSUME NEW list \in Seq(Memories), Distinct(list), NEW n \in DOMAIN list,
           NEW m \in Memories, Same(m, list[n]),
           NEW new, new = [i \in DOMAIN list |-> IF i = n THEN m ELSE list[i]]
    PROVE  /\ new \in Seq(Memories) /\ Len(new) = Len(list) /\ Distinct(new)
           /\ Range(new) = (Range(list) \ {list[n]}) \cup {m}
<1>0. /\ Len(list) \in Nat /\ DOMAIN list = 1..Len(list)
      /\ \A i \in DOMAIN list : list[i] \in Memories
  BY LenProperties, ElementOfSeq
<1>1. new \in [1..Len(list) -> Memories]
  BY <1>0
<1>2. new \in Seq(Memories) /\ Len(new) = Len(list)
  BY <1>0, <1>1
<1>3. Distinct(new)
  BY DEF Distinct, Same, B!Same
<1>4. \A i \in DOMAIN list : i # n => list[i] # list[n]
  BY DEF Distinct, Same, B!Same
<1>5. Range(new) = (Range(list) \ {list[n]}) \cup {m}
  BY <1>4 DEF Range
<1>. QED  BY <1>2, <1>3, <1>5

LEMMA AddedProperties ==
    ASSUME NEW v \in VfoContents,
           oplist \in Seq(Memories), Len(oplist) <= LISTSIZE, Distinct(oplist)
    PROVE  /\ Added(v) \in Seq(Memories) /\ Len(Added(v)) <= LISTSIZE
           /\ Distinct(Added(v))
           /\ \/ \E m \in Range(oplist) :
                    /\ Same(m, v)
                    /\ Range(Added(v)) = (Range(oplist) \ {m}) \cup {[m EXCEPT !.iBW = v.iBW]}
              \/ /\ \A m \in Range(oplist) : ~Same(m, v)
                 /\ Len(oplist) < LISTSIZE
                 /\ Range(Added(v)) = Range(oplist) \cup {B!Memory(v, 0)}
              \/ Added(v) = oplist
<1>. DEFINE here == {i \in DOMAIN oplist : Same(oplist[i], v)}
            fresh == B!Memory(v, 0)
<1>0. /\ Len(oplist) \in Nat /\ DOMAIN oplist = 1..Len(oplist)
      /\ \A i \in DOMAIN oplist : oplist[i] \in Memories
      /\ LISTSIZE \in Nat
  BY LenProperties, ElementOfSeq, Assumed
<1>1. CASE here # {}
  <2>1. PICK n \in DOMAIN oplist : n \in here
    BY <1>1
  <2>2. \A i \in DOMAIN oplist : i \in here <=> i = n
    BY <2>1, <1>0 DEF Distinct, Same, B!Same
  <2>. DEFINE m == [oplist[n] EXCEPT !.iBW = v.iBW]
  <2>3. Same(oplist[n], v)
    BY <2>1
  <2>4. m \in Memories /\ Same(m, oplist[n])
    BY <2>3, <1>0, Changed DEF Same, B!Same
  <2>5. Added(v) = [i \in DOMAIN oplist |-> IF i = n THEN m ELSE oplist[i]]
    BY <1>1, <2>2 DEF Added
  <2>. HIDE DEF m
  <2>6. /\ Added(v) \in Seq(Memories) /\ Len(Added(v)) = Len(oplist) /\ Distinct(Added(v))
        /\ Range(Added(v)) = (Range(oplist) \ {oplist[n]}) \cup {m}
    BY <2>4, <2>5, Replaced
  <2>7. oplist[n] \in Range(oplist)
    BY DEF Range
  <2>. QED  BY <2>3, <2>6, <2>7 DEF m
<1>2. CASE here = {} /\ Len(oplist) < LISTSIZE
  <2>1. Added(v) = Append(oplist, fresh)
    BY <1>2 DEF Added
  <2>2. fresh \in Memories /\ fresh.freq = v.freq /\ fresh.imode = v.imode
    BY MemoryFields, Assumed
  <2>3. \A i \in DOMAIN oplist : ~Same(oplist[i], v)
    BY <1>2
  <2>. HIDE DEF fresh
  <2>4. /\ Added(v) \in Seq(Memories) /\ Len(Added(v)) = Len(oplist) + 1
        /\ DOMAIN Added(v) = 1..(Len(oplist) + 1)
        /\ \A i \in 1..Len(oplist) : Added(v)[i] = oplist[i]
        /\ Added(v)[Len(oplist) + 1] = fresh
    BY <2>1, <2>2, <1>0
  <2>5. Range(Added(v)) = Range(oplist) \cup {fresh}
    <3>1. Range(Added(v)) \subseteq Range(oplist) \cup {fresh}
      BY <2>4, <1>0 DEF Range
    <3>2. Range(oplist) \subseteq Range(Added(v))
      BY <2>4, <1>0 DEF Range
    <3>3. fresh \in Range(Added(v))
      BY <2>4, <1>0 DEF Range
    <3>. QED  BY <3>1, <3>2, <3>3
  <2>6. Distinct(Added(v))
    BY <2>2, <2>3, <2>4, <1>0 DEF Distinct, Same, B!Same
  <2>7. \A m \in Range(oplist) : ~Same(m, v)
    BY <2>3 DEF Range
  <2>. QED  BY <2>4, <2>5, <2>6, <2>7, <1>0, <1>2 DEF fresh
<1>3. CASE here = {} /\ ~(Len(oplist) < LISTSIZE)
  BY <1>3 DEF Added
<1>. QED  BY <1>1, <1>2, <1>3

\* Deleting line n takes the memory it shows, and no other.
LEMMA WithoutProperties ==
    ASSUME NEW list \in Seq(Memories), Distinct(list), NEW n \in DOMAIN list
    PROVE  /\ Without(list, n) \in Seq(Memories)
           /\ Len(Without(list, n)) = Len(list) - 1
           /\ Distinct(Without(list, n))
           /\ Range(Without(list, n)) = Range(list) \ {list[n]}
<1>. DEFINE W == Without(list, n)
<1>0. /\ Len(list) \in Nat /\ DOMAIN list = 1..Len(list)
      /\ \A i \in DOMAIN list : list[i] \in Memories
  BY LenProperties, ElementOfSeq
<1>1. W = [i \in 1..(Len(list) - 1) |-> IF i < n THEN list[i] ELSE list[i + 1]]
  BY DEF Without
<1>2. W \in [1..(Len(list) - 1) -> Memories]
  BY <1>0, <1>1
<1>3. Len(list) - 1 \in Nat
  BY <1>0
<1>4. W \in Seq(Memories) /\ Len(W) = Len(list) - 1 /\ DOMAIN W = 1..(Len(list) - 1)
  BY <1>2, <1>3
<1>5. Distinct(W)
  BY <1>0, <1>1 DEF Distinct
<1>6. Range(W) \subseteq Range(list) \ {list[n]}
  <2>. SUFFICES ASSUME NEW i \in 1..(Len(list) - 1)
                PROVE  W[i] \in Range(list) /\ W[i] # list[n]
    BY <1>4 DEF Range
  <2>1. CASE i < n
    BY <2>1, <1>0, <1>1 DEF Range, Distinct, Same, B!Same
  <2>2. CASE ~(i < n)
    BY <2>2, <1>0, <1>1 DEF Range, Distinct, Same, B!Same
  <2>. QED  BY <2>1, <2>2
<1>7. Range(list) \ {list[n]} \subseteq Range(W)
  <2>. SUFFICES ASSUME NEW i \in 1..Len(list), i # n
                PROVE  list[i] \in Range(W)
    BY <1>0 DEF Range
  <2>1. CASE i < n
    BY <2>1, <1>0, <1>1, <1>4 DEF Range
  <2>2. CASE i > n
    <3>1. i - 1 \in 1..(Len(list) - 1) /\ W[i - 1] = list[i]
      BY <2>2, <1>0, <1>1
    <3>. QED  BY <3>1, <1>4 DEF Range
  <2>. QED  BY <2>1, <2>2, <1>0
<1>. QED  BY <1>4, <1>5, <1>6, <1>7

\* A tag typed for line n changes the tag of the memory it shows.
LEMMA RetaggedProperties ==
    ASSUME NEW list \in Seq(Memories), Distinct(list), NEW n \in DOMAIN list,
           NEW t \in Tags
    PROVE  LET new == [list EXCEPT ![n].tag = t] IN
           /\ new \in Seq(Memories) /\ Len(new) = Len(list) /\ Distinct(new)
           /\ Range(new) = (Range(list) \ {list[n]}) \cup {[list[n] EXCEPT !.tag = t]}
<1>. DEFINE m == [list[n] EXCEPT !.tag = t]
            new == [list EXCEPT ![n].tag = t]
<1>1. list[n] \in Memories
  BY LenProperties, ElementOfSeq
<1>2. m \in Memories /\ Same(m, list[n])
  BY <1>1, Changed DEF Same, B!Same
<1>3. new = [i \in DOMAIN list |-> IF i = n THEN m ELSE list[i]]
  OBVIOUS
<1>. HIDE DEF m, new
<1>4. /\ new \in Seq(Memories) /\ Len(new) = Len(list) /\ Distinct(new)
      /\ Range(new) = (Range(list) \ {list[n]}) \cup {m}
  BY <1>2, <1>3, Replaced
<1>. QED  BY <1>4 DEF m, new

-----------------------------------------------------------------------------
\* The inductive invariant: the list and every readable file are lists of
\* distinct memories, and a file being written holds the first lines of the list.
ListOK(list) == list \in Seq(Memories) /\ Len(list) <= LISTSIZE /\ Distinct(list)

ScreenOK ==
    /\ ListOK(oplist)
    /\ value \in 0..Len(oplist) /\ inAlphaTag \in Tags
    /\ FieldShowsSelected

PlaceOK ==
    /\ at \in {"up", "saving", "writing", "hung", "down"}
    /\ rig \in Rigs /\ defFileName \in Rigs \cup {"none"}
    /\ mem_sortby \in SortKeys

FilesOK ==
    /\ file \in [Rigs -> Seq(Memories) \cup {Torn}]
    /\ \A r \in Rigs : file[r] # Torn => ListOK(file[r])

SaveOK ==
    /\ at \in {"saving", "writing"} => defFileName \in Rigs /\ oplist # <<>>
    /\ at = "writing" => /\ file[defFileName] # Torn
                         /\ Len(file[defFileName]) <= Len(oplist)
                         /\ \A i \in DOMAIN file[defFileName] :
                                file[defFileName][i] = oplist[i]

MemoryInv == ScreenOK /\ PlaceOK /\ FilesOK /\ SaveOK

\* An empty list is one to sort, to save and to show.
LEMMA EmptyOK ==
    /\ ListOK(<<>>) /\ Len(<<>>) = 0 /\ DOMAIN <<>> = {} /\ Range(<<>>) = {}
BY Assumed DEF ListOK, Distinct, Range

LEMMA ListFacts ==
    ASSUME NEW list, ListOK(list)
    PROVE  /\ Len(list) \in Nat /\ DOMAIN list = 1..Len(list)
           /\ \A i \in DOMAIN list : list[i] \in Memories
BY SeqFacts DEF ListOK

LEMMA SortedOK ==
    ASSUME NEW key, NEW list, ListOK(list), NEW s \in Sorted(key, list)
    PROVE  ListOK(s) /\ Len(s) = Len(list) /\ DOMAIN s = DOMAIN list /\ Range(s) = Range(list)
BY Arranged DEF ListOK

LEMMA Updated ==
    ASSUME NEW key, NEW list, ListOK(list), inAlphaTag \in Tags, updateSelect(key, list)
    PROVE  ScreenOK' /\ Range(oplist') = Range(list)
<1>1. ListOK(oplist') /\ Range(oplist') = Range(list)
  BY SortedOK DEF updateSelect
<1>2. value' = 0 /\ inAlphaTag' \in Tags
  BY Assumed DEF updateSelect
<1>. QED  BY <1>1, <1>2, ListFacts DEF ScreenOK, FieldShowsSelected

LEMMA Selected ==
    ASSUME NEW list, ListOK(list), NEW n \in Nat, updateAndSelect(list, n)
    PROVE  ScreenOK' /\ Range(oplist') = Range(list)
<1>1. /\ ListOK(oplist') /\ Range(oplist') = Range(list)
      /\ DOMAIN oplist' = DOMAIN list
  BY SortedOK DEF updateAndSelect
<1>2. Len(oplist') \in Nat /\ DOMAIN oplist' = 1..Len(oplist')
  BY <1>1, ListFacts
<1>3. CASE n \in DOMAIN list
  <2>1. value' = n /\ inAlphaTag' = oplist'[n].tag
    BY <1>3 DEF updateAndSelect
  <2>2. oplist'[n] \in Memories
    BY <1>1, <1>3, ListFacts
  <2>3. inAlphaTag' \in Tags
    BY <2>1, <2>2, Changed
  <2>. QED  BY <1>1, <1>2, <1>3, <2>1, <2>3 DEF ScreenOK, FieldShowsSelected
<1>4. CASE n \notin DOMAIN list
  <2>1. value' = 0 /\ inAlphaTag' = 0
    BY <1>4 DEF updateAndSelect
  <2>. QED  BY <1>1, <1>2, <2>1, Assumed DEF ScreenOK, FieldShowsSelected
<1>. QED  BY <1>3, <1>4

LEMMA Cleared ==
    ASSUME inAlphaTag \in Tags, clearList
    PROVE  ScreenOK' /\ oplist' = <<>> /\ Range(oplist') = {}
BY EmptyOK, Assumed DEF clearList, ScreenOK, FieldShowsSelected

LEMMA Gone ==
    ASSUME Ended
    PROVE  ScreenOK' /\ oplist' = <<>> /\ Range(oplist') = {}
BY EmptyOK, Assumed DEF Ended, ScreenOK, FieldShowsSelected

\* What buildlist leaves, whether it could read the file or not.
LEMMA Built ==
    ASSUME MemoryInv, NEW r \in Rigs, buildlist(r)
    PROVE  /\ ScreenOK' /\ at' \in {"up", "hung"} /\ defFileName' = r
           /\ IF file[r] = Torn THEN Range(oplist') = {}
                                ELSE Range(oplist') = Range(file[r])
<1>1. CASE file[r] = Torn
  BY <1>1, Cleared DEF buildlist, MemoryInv, ScreenOK
<1>2. CASE file[r] # Torn
  <2>1. ListOK(file[r])
    BY <1>2 DEF MemoryInv, FilesOK
  <2>2. oplist' \in Sorted(mem_sortby', file[r]) /\ value' = 0 /\ inAlphaTag' \in Tags
    BY <1>2, Assumed DEF buildlist, MemoryInv, ScreenOK
  <2>3. ListOK(oplist') /\ Range(oplist') = Range(file[r])
    BY <2>1, <2>2, SortedOK
  <2>4. ScreenOK'
    BY <2>2, <2>3, ListFacts DEF ScreenOK, FieldShowsSelected
  <2>. QED  BY <1>2, <2>3, <2>4 DEF buildlist
<1>. QED  BY <1>1, <1>2

\* Actions that leave the place and the files alone need only the screen right.
LEMMA ScreenOnly ==
    ASSUME MemoryInv, at = "up", ScreenOK', mem_sortby' \in SortKeys,
           UNCHANGED <<place, file>>
    PROVE  MemoryInv'
BY DEF MemoryInv, PlaceOK, FilesOK, SaveOK, place

LEMMA InitOK == Init => MemoryInv
<1>. SUFFICES ASSUME Init PROVE MemoryInv
  OBVIOUS
<1>1. ScreenOK
  BY EmptyOK, Assumed DEF Init, ScreenOK, FieldShowsSelected
<1>2. FilesOK
  BY EmptyOK DEF Init, FilesOK, ListOK
<1>3. PlaceOK /\ SaveOK
  BY DEF Init, PlaceOK, SaveOK
<1>. QED  BY <1>1, <1>2, <1>3 DEF MemoryInv

\* What each operation makes of the bank: the operations of MemoryBank.
Bank == Range(oplist)
Store == [r \in Rigs |-> IF file[r] = Torn THEN Torn ELSE Range(file[r])]

\* Every step keeps the invariant and is a step of MemoryBank, or none.
LEMMA NextOK ==
    ASSUME MemoryInv, [Next]_vars
    PROVE  MemoryInv' /\ [B!BankNext]_<<Bank, Store>>
<1>. USE DEF Bank
<1>0. /\ ListOK(oplist) /\ inAlphaTag \in Tags /\ value \in 0..Len(oplist)
      /\ Len(oplist) \in Nat /\ DOMAIN oplist = 1..Len(oplist) /\ value \in Nat
      /\ mem_sortby \in SortKeys
  <2>1. /\ ListOK(oplist) /\ inAlphaTag \in Tags /\ value \in 0..Len(oplist)
        /\ mem_sortby \in SortKeys
    BY DEF MemoryInv, ScreenOK, PlaceOK
  <2>. QED  BY <2>1, ListFacts
<1>a. ASSUME UNCHANGED file PROVE UNCHANGED Store
  BY <1>a DEF Store
<1>b. ASSUME NEW v \in VfoContents, UNCHANGED file, Range(oplist') = Range(Added(v))
      PROVE  [B!BankNext]_<<Bank, Store>>
  <2>1. CASE \E m \in Range(oplist) :
                /\ Same(m, v)
                /\ Range(Added(v)) = (Range(oplist) \ {m}) \cup {[m EXCEPT !.iBW = v.iBW]}
    BY <2>1, <1>a, <1>b DEF B!BankNext, B!Enter, Store, Same
  <2>2. CASE /\ \A m \in Range(oplist) : ~Same(m, v)
             /\ Len(oplist) < LISTSIZE
             /\ Range(Added(v)) = Range(oplist) \cup {B!Memory(v, 0)}
    <3>1. oplist \in [1..Len(oplist) -> Range(oplist)]
      BY <1>0, LenProperties DEF ListOK, Range
    <3>2. oplist \in Surjection(1..Len(oplist), Range(oplist))
      BY <3>1, <1>0 DEF Surjection, Range
    <3>3. IsFiniteSet(1..Len(oplist)) /\ Cardinality(1..Len(oplist)) \in Nat
          /\ Cardinality(1..Len(oplist)) = Len(oplist)
      <4>1. 1 \in Int /\ Len(oplist) \in Int
        BY <1>0
      <4>2. IsFiniteSet(1..Len(oplist))
        BY <4>1, FS_Interval
      <4>3. Cardinality(1..Len(oplist)) = IF 1 > Len(oplist) THEN 0 ELSE Len(oplist) - 1 + 1
        BY <4>1, FS_Interval
      <4>. QED  BY <4>2, <4>3, <1>0
    <3>4. /\ Cardinality(Range(oplist)) <= Len(oplist)
          /\ IsFiniteSet(Range(oplist))
      BY <3>2, <3>3, FS_Surjection
    <3>6. Cardinality(Range(oplist)) < LISTSIZE
      BY <3>4, <2>2, <1>0, Assumed, FS_CardinalityType
    <3>5. B!Cardinality(Range(oplist)) < LISTSIZE
      BY <3>6 DEF Cardinality, B!Cardinality
    <3>. QED  BY <3>5, <2>2, <1>a, <1>b DEF B!BankNext, B!Enter, Store, Same
  <2>3. CASE Added(v) = oplist
    BY <2>3, <1>a, <1>b
  <2>. QED  BY <1>0, <2>1, <2>2, <2>3, AddedProperties DEF ListOK
<1>c. ASSUME UNCHANGED file, Range(oplist') = {} PROVE [B!BankNext]_<<Bank, Store>>
  BY <1>a, <1>c DEF B!BankNext, B!Empty, Store
<1>d. ASSUME NEW m \in Range(oplist), UNCHANGED file, Range(oplist') = Range(oplist) \ {m}
      PROVE  [B!BankNext]_<<Bank, Store>>
  BY <1>a, <1>d DEF B!BankNext, B!Forget, Store
<1>e. ASSUME NEW r \in Rigs, buildlist(r), UNCHANGED file
      PROVE  [B!BankNext]_<<Bank, Store>>
  <2>1. CASE file[r] = Torn
    BY <2>1, <1>c, <1>e, Built
  <2>2. CASE file[r] # Torn
    <3>1. Range(oplist') = Range(file[r])
      BY <2>2, <1>e, Built
    <3>2. file[r] \in Seq(Memories)
      BY <2>2 DEF MemoryInv, FilesOK, ListOK
    <3>3. Range(file[r]) \in SUBSET Memories
      BY <3>2, LenProperties, ElementOfSeq DEF Range
    <3>4. Store[r] = Range(file[r]) /\ Store[r] # Torn
      BY <2>2, <3>3, Assumed DEF Store
    <3>. QED  BY <3>1, <3>4, <1>a, <1>e DEF B!BankNext, B!Fill, Store
  <2>. QED  BY <2>1, <2>2
<1>1. CASE Add
  <2>1. PICK v \in VfoContents : updateSelect(mem_sortby, Added(v))
    BY <1>1 DEF Add
  <2>2. ListOK(Added(v))
    BY <1>0, AddedProperties DEF ListOK
  <2>3. ScreenOK' /\ Range(oplist') = Range(Added(v))
    BY <2>1, <2>2, <1>0, Updated
  <2>. QED  BY <1>1, <1>0, <1>b, <2>3, ScreenOnly DEF Add
<1>2. CASE AddKey
  <2>1. PICK v \in VfoContents : updateAndSelect(Added(v), 1)
    BY <1>2 DEF AddKey
  <2>2. ListOK(Added(v))
    BY <1>0, AddedProperties DEF ListOK
  <2>3. ScreenOK' /\ Range(oplist') = Range(Added(v))
    BY <2>1, <2>2, Selected
  <2>. QED  BY <1>2, <1>0, <1>b, <2>3, ScreenOnly DEF AddKey
<1>3. ASSUME value > 0
      PROVE  /\ ListOK(Without(oplist, value)) /\ oplist[value] \in Range(oplist)
             /\ Range(Without(oplist, value)) = Range(oplist) \ {oplist[value]}
  <2>1. value \in DOMAIN oplist /\ LISTSIZE \in Nat
    BY <1>0, <1>3, Assumed
  <2>2. /\ Without(oplist, value) \in Seq(Memories) /\ Distinct(Without(oplist, value))
        /\ Len(Without(oplist, value)) = Len(oplist) - 1
        /\ Range(Without(oplist, value)) = Range(oplist) \ {oplist[value]}
    BY <2>1, <1>0, WithoutProperties DEF ListOK
  <2>3. oplist[value] \in Range(oplist)
    BY <2>1 DEF Range
  <2>. QED  BY <2>1, <2>2, <2>3, <1>0 DEF ListOK
<1>4. CASE delFreq
  <2>1. ScreenOK' /\ Range(oplist') = Range(Without(oplist, value))
    BY <1>4, <1>3, <1>0, Updated DEF delFreq
  <2>. QED  BY <1>4, <1>3, <1>0, <1>d, <2>1, ScreenOnly DEF delFreq
<1>5. CASE DelKey
  <2>1. ScreenOK' /\ Range(oplist') = Range(Without(oplist, value))
    BY <1>5, <1>3, <1>0, Selected DEF DelKey
  <2>. QED  BY <1>5, <1>3, <1>0, <1>d, <2>1, ScreenOnly DEF DelKey
<1>6. CASE Clr
  <2>1. ScreenOK' /\ Range(oplist') = {}
    BY <1>6, <1>0, Cleared DEF Clr
  <2>. QED  BY <1>6, <1>0, <1>c, <2>1, ScreenOnly DEF Clr
<1>7. CASE cb_header
  <2>1. ScreenOK' /\ Range(oplist') = Range(oplist)
    BY <1>7, <1>0, Updated DEF cb_header
  <2>. QED  BY <1>7, <1>a, <2>1, ScreenOnly DEF cb_header
<1>8. CASE Select
  <2>1. value' \in DOMAIN oplist /\ inAlphaTag' = oplist[value'].tag /\ oplist' = oplist
    BY <1>8 DEF Select
  <2>2. inAlphaTag' \in Tags
    BY <2>1, <1>0, ListFacts, Changed
  <2>3. ScreenOK'
    BY <2>1, <2>2, <1>0 DEF ScreenOK, FieldShowsSelected
  <2>. QED  BY <1>8, <1>0, <1>a, <2>1, <2>3, ScreenOnly DEF Select
<1>9. CASE editAlphaTag
  <2>1. CASE value = 0
    <3>1. inAlphaTag' = 0 /\ oplist' = oplist /\ value' = 0
      BY <1>9, <2>1 DEF editAlphaTag
    <3>2. ScreenOK'
      BY <3>1, <1>0, Assumed DEF ScreenOK, FieldShowsSelected
    <3>. QED  BY <1>9, <1>0, <1>a, <3>1, <3>2, ScreenOnly DEF editAlphaTag
  <2>2. CASE value # 0
    <3>1. PICK t \in Tags : updateAndSelect([oplist EXCEPT ![value].tag = t], value)
      BY <1>9, <2>2 DEF editAlphaTag
    <3>. DEFINE new == [oplist EXCEPT ![value].tag = t]
    <3>2. value \in DOMAIN oplist /\ oplist[value] \in Range(oplist)
      BY <2>2, <1>0 DEF Range
    <3>3. /\ ListOK(new)
          /\ Range(new) = (Range(oplist) \ {oplist[value]}) \cup {[oplist[value] EXCEPT !.tag = t]}
      BY <3>2, <1>0, RetaggedProperties DEF ListOK
    <3>. HIDE DEF new
    <3>4. ScreenOK' /\ Range(oplist') = Range(new)
      BY <3>1, <3>3, <1>0, Selected DEF new
    <3>5. MemoryInv'
      BY <1>9, <1>0, <3>4, ScreenOnly DEF editAlphaTag
    <3>6. B!Retag(oplist[value], t)
      BY <1>9, <1>a, <3>3, <3>4 DEF editAlphaTag, B!Retag, Store
    <3>. QED  BY <3>2, <3>5, <3>6 DEF B!BankNext
  <2>. QED  BY <2>1, <2>2
<1>10. ASSUME NEW r \in Rigs, buildlist(r), rig' = r, mem_sortby' \in SortKeys, UNCHANGED file
       PROVE  MemoryInv'
  BY <1>10, Built DEF MemoryInv, PlaceOK, FilesOK, SaveOK
<1>11. ASSUME NEW answers \in BOOLEAN, Start(answers)
       PROVE  MemoryInv' /\ [B!BankNext]_<<Bank, Store>>
  <2>1. CASE answers
    <3>1. rig' \in Rigs /\ buildlist(rig') /\ mem_sortby' \in SortKeys /\ UNCHANGED file
      BY <1>11, <2>1 DEF Start
    <3>. QED  BY <3>1, <1>10, <1>e
  <2>2. CASE ~answers
    <3>1. /\ at' = "up" /\ defFileName' = "none" /\ rig' \in Rigs
          /\ mem_sortby' \in SortKeys /\ UNCHANGED <<screen, file>>
      BY <1>11, <2>2 DEF Start
    <3>. QED  BY <3>1, <1>a DEF MemoryInv, ScreenOK, FieldShowsSelected, PlaceOK, FilesOK, SaveOK, screen
  <2>. QED  BY <2>1, <2>2
<1>12. ASSUME NEW r \in Rigs, NEW answers \in BOOLEAN, PressInit(r, answers)
       PROVE  MemoryInv' /\ [B!BankNext]_<<Bank, Store>>
  <2>1. CASE answers
    BY <1>12, <2>1, <1>0, <1>10, <1>e DEF PressInit
  <2>2. CASE ~answers
    <3>1. ScreenOK' /\ Range(oplist') = {}
      BY <1>12, <2>2, <1>0, Cleared DEF PressInit
    <3>. QED
      BY <1>12, <2>2, <1>c, <3>1 DEF PressInit, MemoryInv, PlaceOK, FilesOK, SaveOK
  <2>. QED  BY <2>1, <2>2
<1>13. CASE Reconnect
  <2>1. rig \in Rigs
    BY DEF MemoryInv, PlaceOK
  <2>. QED  BY <1>13, <2>1, <1>0, <1>10, <1>e DEF Reconnect
<1>14. ASSUME Ended, UNCHANGED file
       PROVE  MemoryInv' /\ [B!BankNext]_<<Bank, Store>>
  <2>1. ScreenOK' /\ Range(oplist') = {}
    BY <1>14, Gone
  <2>. QED  BY <1>14, <1>c, <2>1 DEF Ended, MemoryInv, PlaceOK, FilesOK, SaveOK
<1>15. CASE ExitUnsaved \/ Close \/ Crash
  BY <1>15, <1>14 DEF ExitUnsaved, Close, Crash
<1>16. ASSUME NEW r \in Rigs, NEW s, s = Torn \/ s \in Seq(Memories),
              file' = [file EXCEPT ![r] = s], UNCHANGED oplist, oplist # <<>>,
              s # Torn => Range(s) \subseteq Range(oplist)
       PROVE  [B!BankNext]_<<Bank, Store>>
  <2>0. Len(oplist) # 0
    BY <1>16, <1>0, EmptySeq DEF ListOK
  <2>1. Range(oplist) # {}
    <3>1. oplist[1] \in Range(oplist)
      BY <2>0, <1>0 DEF Range
    <3>. QED  BY <3>1
  <2>. DEFINE part == IF s = Torn THEN Torn ELSE Range(s)
  <2>2. part \in {Torn} \cup SUBSET Range(oplist)
    <3>1. CASE s = Torn
      <4>1. part = Torn
        BY <3>1
      <4>. HIDE DEF part
      <4>. QED  BY <4>1
    <3>2. CASE s # Torn
      <4>1. part = Range(s)
        BY <3>2
      <4>2. Range(s) \subseteq Range(oplist)
        BY <3>2, <1>16
      <4>. HIDE DEF part
      <4>. QED  BY <4>1, <4>2
    <3>. QED  BY <3>1, <3>2
  <2>3. Store' = [Store EXCEPT ![r] = part]
    BY <1>16 DEF Store, MemoryInv, FilesOK
  <2>4. B!Put(r)
    BY <2>1, <2>2, <2>3, <1>16 DEF B!Put, Store
  <2>. QED  BY <2>4 DEF B!BankNext
<1>17. CASE rotate_log
  <2>1. defFileName \in Rigs
    BY <1>17 DEF rotate_log, MemoryInv, PlaceOK
  <2>2. MemoryInv'
    BY <1>17, <2>1 DEF rotate_log, MemoryInv, ScreenOK, FieldShowsSelected, PlaceOK, FilesOK, SaveOK, screen
  <2>3. [B!BankNext]_<<Bank, Store>>
    BY <1>17, <2>1, <1>16 DEF rotate_log, screen
  <2>. QED  BY <2>2, <2>3
<1>18. CASE Open
  <2>1. defFileName \in Rigs /\ oplist # <<>>
    BY <1>18 DEF Open, MemoryInv, SaveOK
  <2>2. <<>> \in Seq(Memories) /\ <<>> # Torn /\ Range(<<>>) \subseteq Range(oplist)
    BY EmptyOK, Assumed DEF ListOK
  <2>3. MemoryInv'
    BY <1>18, <2>1, <2>2, <1>0, EmptyOK
       DEF Open, MemoryInv, ScreenOK, FieldShowsSelected, PlaceOK, FilesOK, SaveOK, screen
  <2>4. [B!BankNext]_<<Bank, Store>>
    BY <1>18, <2>1, <2>2, <1>16 DEF Open, screen
  <2>. QED  BY <2>3, <2>4
<1>19. CASE WriteLine
  <2>. DEFINE f == file[defFileName]
              s == Append(f, oplist[Len(f) + 1])
  <2>1. /\ defFileName \in Rigs /\ oplist # <<>> /\ ListOK(f) /\ f # Torn
        /\ Len(f) < Len(oplist)
        /\ \A i \in DOMAIN f : f[i] = oplist[i]
    BY <1>19 DEF WriteLine, Written, MemoryInv, SaveOK, FilesOK
  <2>2. f \in Seq(Memories) /\ Len(f) \in Nat /\ DOMAIN f = 1..Len(f)
    BY <2>1, ListFacts DEF ListOK
  <2>3. oplist[Len(f) + 1] \in Memories
    BY <2>1, <2>2, <1>0, ListFacts
  <2>4. /\ s \in Seq(Memories) /\ Len(s) = Len(f) + 1 /\ DOMAIN s = 1..(Len(f) + 1)
        /\ \A i \in 1..(Len(f) + 1) : s[i] = oplist[i]
    BY <2>1, <2>2, <2>3
  <2>5. Len(s) <= Len(oplist) /\ Len(s) <= LISTSIZE
    BY <2>1, <2>2, <2>4, <1>0, Assumed DEF ListOK
  <2>6. \A i \in DOMAIN s : i \in DOMAIN oplist /\ s[i] = oplist[i]
    BY <2>1, <2>2, <2>4, <1>0
  <2>7. ListOK(s) /\ Range(s) \subseteq Range(oplist) /\ s # Torn
    BY <2>4, <2>5, <2>6, <1>0, Assumed DEF ListOK, Distinct, Range
  <2>8. file' = [file EXCEPT ![defFileName] = s] /\ UNCHANGED <<place, mem_sortby, screen>>
    BY <1>19 DEF WriteLine, Written
  <2>. HIDE DEF s, f
  <2>9. FilesOK'
    BY <2>1, <2>7, <2>8, <2>4 DEF MemoryInv, FilesOK
  <2>10. file'[defFileName'] = s
    BY <2>1, <2>8 DEF MemoryInv, FilesOK, place
  <2>11. SaveOK'
    BY <2>1, <2>5, <2>6, <2>7, <2>8, <2>10 DEF SaveOK, place, screen
  <2>12. MemoryInv'
    BY <2>8, <2>9, <2>11
       DEF MemoryInv, ScreenOK, FieldShowsSelected, PlaceOK, place, screen
  <2>13. [B!BankNext]_<<Bank, Store>>
    BY <2>1, <2>4, <2>7, <2>8, <1>16 DEF screen
  <2>. QED  BY <2>12, <2>13
<1>20. CASE UNCHANGED vars
  BY <1>20, <1>a DEF vars, place, screen, MemoryInv, ScreenOK, FieldShowsSelected, PlaceOK, FilesOK, SaveOK
<1>. QED
  BY <1>1, <1>2, <1>4, <1>5, <1>6, <1>7, <1>8, <1>9, <1>11, <1>12, <1>13, <1>15,
     <1>17, <1>18, <1>19, <1>20 DEF Next

\* Every state is well typed: whatever is typed, deleted, saved by halves or read
\* back, the list fits in oplist and the selection in the list.
THEOREM TypeCorrect == Spec => []TypeOK
<1>1. MemoryInv => TypeOK
  BY DEF MemoryInv, ScreenOK, ListOK, PlaceOK, FilesOK, TypeOK
<1>2. MemoryInv /\ [Next]_vars => MemoryInv'
  BY NextOK
<1>. QED  BY InitOK, <1>1, <1>2, PTL DEF Spec

\* Neither the list nor a readable file ever holds a frequency and mode twice.
THEOREM NoTwinsAlways == Spec => []NoTwins
<1>1. MemoryInv => NoTwins
  BY DEF MemoryInv, ScreenOK, ListOK, FilesOK, NoTwins
<1>2. MemoryInv /\ [Next]_vars => MemoryInv'
  BY NextOK
<1>. QED  BY InitOK, <1>1, <1>2, PTL DEF Spec

\* The tag field is the selected line's, however the list has been sorted.
THEOREM FieldShowsSelectedAlways == Spec => []FieldShowsSelected
<1>1. MemoryInv => FieldShowsSelected
  BY DEF MemoryInv, ScreenOK
<1>2. MemoryInv /\ [Next]_vars => MemoryInv'
  BY NextOK
<1>. QED  BY InitOK, <1>1, <1>2, PTL DEF Spec

\* MemoryList implements MemoryBank.
THEOREM Implements == Spec => BankKept
<1>1. Init => B!BankInit
  <2>. SUFFICES ASSUME Init PROVE B!BankInit
    OBVIOUS
  <2>1. Range(oplist) = {}
    BY EmptyOK DEF Init
  <2>2. \A r \in Rigs : file[r] = <<>> /\ file[r] # Torn /\ Range(file[r]) = {}
    BY EmptyOK, Assumed DEF Init, ListOK
  <2>. QED  BY <2>1, <2>2 DEF B!BankInit
<1>2. MemoryInv /\ [Next]_vars => MemoryInv'
  BY NextOK
<1>3. MemoryInv /\ [Next]_vars => [B!BankNext]_<<Bank, Store>>
  BY NextOK
<1>. QED  BY InitOK, <1>1, <1>2, <1>3, PTL DEF Spec, BankKept, B!BankSpec, Bank, Store

-----------------------------------------------------------------------------
(* sortList.  What follows needs induction over the rounds of a loop, which   *)
(* NatSet gives for a set instead of a formula.                             *)

\* Induction over the natural numbers, for a set.
LEMMA NatSet ==
    ASSUME NEW S, 0 \in S, \A n \in Nat : n \in S => n + 1 \in S
    PROVE  Nat \subseteq S
<1>. DEFINE R == {ss \in Nat \X Nat : ss[1] < ss[2]}
            T == Nat \ S
<1>1. IsWellFoundedOn(R, Nat)
  BY NatLessThanWellFounded, Zenon DEF OpToRel
<1>2. ASSUME T # {} PROVE FALSE
  <2>1. PICK x \in T : \A y \in T : ~(<<y, x>> \in R)
    <3>. HIDE DEF R
    <3>. QED  BY <1>1, <1>2, WFMin, Zenon
  <2>2. x \in Nat /\ x # 0 /\ x \notin S
    OBVIOUS
  <2>3. x - 1 \in Nat /\ <<x - 1, x>> \in R
    BY <2>2
  <2>4. x - 1 \in S
    BY <2>1, <2>3
  <2>5. (x - 1) + 1 = x
    BY <2>2
  <2>. QED  BY <2>2, <2>3, <2>4, <2>5
<1>. QED  BY <1>2

\* A set that holds lo, and the successor of what it holds up to hi, holds lo..hi.
LEMMA Interval ==
    ASSUME NEW lo \in Int, NEW hi \in Int, NEW S, lo \in S,
           \A k \in lo..(hi - 1) : k \in S => k + 1 \in S
    PROVE  lo..hi \subseteq S
<1>. DEFINE U == {n \in Nat : lo + n <= hi => lo + n \in S}
<1>1. 0 \in U
  OBVIOUS
<1>2. ASSUME NEW n \in Nat, n \in U PROVE n + 1 \in U
  <2>. SUFFICES ASSUME lo + (n + 1) <= hi PROVE lo + (n + 1) \in S
    OBVIOUS
  <2>1. lo + n \in lo..(hi - 1) /\ lo + n \in S
    BY <1>2
  <2>2. (lo + n) + 1 = lo + (n + 1)
    OBVIOUS
  <2>. QED  BY <2>1, <2>2
<1>3. Nat \subseteq U
  <2>. HIDE DEF U
  <2>. QED  BY <1>1, <1>2, NatSet
<1>4. ASSUME NEW k \in lo..hi PROVE k \in S
  <2>1. k - lo \in Nat /\ lo + (k - lo) = k
    OBVIOUS
  <2>. QED  BY <2>1, <1>3
<1>. QED  BY <1>4

\* The values g of a loop's state, from one round to the next.
IsRun(g, lo, hi, start, step) ==
    g[lo] = start /\ \A k \in (lo + 1)..hi : g[k] = step[k][g[k - 1]]

\* A loop that takes members of T to members of T has a course from every
\* start: what makes the definition of a loop by recursion on its counter mean
\* what it says.
LEMMA Course ==
    ASSUME NEW lo \in Int, NEW hi \in Int, lo <= hi, NEW T, NEW start \in T,
           NEW step \in [(lo + 1)..hi -> [T -> T]]
    PROVE  \E g \in [lo..hi -> T] : IsRun(g, lo, hi, start, step)
<1>. DEFINE S == {n \in Int : \E g \in [lo..n -> T] : IsRun(g, lo, n, start, step)}
<1>1. lo \in S
  <2>. DEFINE g == [k \in lo..lo |-> start]
  <2>1. g \in [lo..lo -> T] /\ IsRun(g, lo, lo, start, step)
    BY DEF IsRun
  <2>. QED  BY <2>1
<1>2. ASSUME NEW n \in lo..(hi - 1), n \in S PROVE n + 1 \in S
  <2>1. PICK g \in [lo..n -> T] : IsRun(g, lo, n, start, step)
    BY <1>2
  <2>. DEFINE h == [k \in lo..(n + 1) |-> IF k <= n THEN g[k] ELSE step[n + 1][g[n]]]
  <2>2. g[n] \in T /\ n + 1 \in (lo + 1)..hi
    OBVIOUS
  <2>3. step[n + 1][g[n]] \in T
    BY <2>2
  <2>4. h \in [lo..(n + 1) -> T]
    BY <2>3
  <2>5. h[lo] = start
    BY <2>1 DEF IsRun
  <2>6. ASSUME NEW k \in (lo + 1)..(n + 1) PROVE h[k] = step[k][h[k - 1]]
    <3>1. CASE k <= n
      <4>1. k \in (lo + 1)..n /\ h[k] = g[k] /\ h[k - 1] = g[k - 1]
        BY <3>1
      <4>. QED  BY <4>1, <2>1 DEF IsRun
    <3>2. CASE k = n + 1
      <4>1. h[n + 1] = step[n + 1][g[n]] /\ h[n] = g[n] /\ (n + 1) - 1 = n
        OBVIOUS
      <4>. QED  BY <4>1, <3>2
    <3>. QED  BY <3>1, <3>2
  <2>. HIDE DEF h
  <2>7. IsRun(h, lo, n + 1, start, step)
    BY <2>5, <2>6 DEF IsRun
  <2>. QED  BY <2>4, <2>7
<1>3. lo..hi \subseteq S
  <2>. HIDE DEF S
  <2>. QED  BY <1>1, <1>2, Interval
<1>. QED  BY <1>3

\* The orders the header line offers.
Keys == {"FREQ", "BW", "MODE", "COMMENT"}

\* The places of a tuple up to each of its first four.
LEMMA Places ==
    /\ 1..(1 - 1) = {} /\ 1..(2 - 1) = {1} /\ 1..(3 - 1) = {1, 2} /\ 1..(4 - 1) = {1, 2, 3}
    /\ 1..3 = {1, 2, 3} /\ 1..4 = {1, 2, 3, 4}
OBVIOUS

\* Tuples of three, and of four, are compared place by place.
LEMMA AfterThree ==
    ASSUME NEW a, NEW b, DOMAIN a = 1..3
    PROVE  After(a, b) <=> \/ a[1] > b[1]
                           \/ a[1] = b[1] /\ a[2] > b[2]
                           \/ a[1] = b[1] /\ a[2] = b[2] /\ a[3] > b[3]
<1>. DEFINE P(i) == a[i] > b[i] /\ \A j \in 1..(i - 1) : a[j] = b[j]
<1>1. After(a, b) <=> P(1) \/ P(2) \/ P(3)
  <2>1. After(a, b) <=> \E i \in {1, 2, 3} : P(i)
    BY Places, Zenon DEF After
  <2>. HIDE DEF P
  <2>. QED  BY <2>1, Zenon
<1>2. P(1) <=> a[1] > b[1]
  BY Places, Zenon
<1>3. P(2) <=> a[2] > b[2] /\ a[1] = b[1]
  BY Places, Zenon
<1>4. P(3) <=> a[3] > b[3] /\ a[1] = b[1] /\ a[2] = b[2]
  BY Places, Zenon
<1>. HIDE DEF P
<1>. QED  BY <1>1, <1>2, <1>3, <1>4, Zenon

LEMMA AfterFour ==
    ASSUME NEW a, NEW b, DOMAIN a = 1..4
    PROVE  After(a, b) <=> \/ a[1] > b[1]
                           \/ a[1] = b[1] /\ a[2] > b[2]
                           \/ a[1] = b[1] /\ a[2] = b[2] /\ a[3] > b[3]
                           \/ a[1] = b[1] /\ a[2] = b[2] /\ a[3] = b[3] /\ a[4] > b[4]
<1>. DEFINE P(i) == a[i] > b[i] /\ \A j \in 1..(i - 1) : a[j] = b[j]
<1>1. After(a, b) <=> P(1) \/ P(2) \/ P(3) \/ P(4)
  <2>1. After(a, b) <=> \E i \in {1, 2, 3, 4} : P(i)
    BY Places, Zenon DEF After
  <2>. HIDE DEF P
  <2>. QED  BY <2>1, Zenon
<1>2. P(1) <=> a[1] > b[1]
  BY Places, Zenon
<1>3. P(2) <=> a[2] > b[2] /\ a[1] = b[1]
  BY Places, Zenon
<1>4. P(3) <=> a[3] > b[3] /\ a[1] = b[1] /\ a[2] = b[2]
  BY Places, Zenon
<1>5. P(4) <=> a[4] > b[4] /\ a[1] = b[1] /\ a[2] = b[2] /\ a[3] = b[3]
  BY Places, Zenon
<1>. HIDE DEF P
<1>. QED  BY <1>1, <1>2, <1>3, <1>4, <1>5, Zenon

\* Among memories no two of which agree in frequency and mode, sortList's test
\* never asks for a swap and for its undoing, and what need not be swapped with
\* its neighbour need not be swapped with the neighbour's neighbour.
LEMMA SwappedOrders ==
    ASSUME NEW key \in Keys, NEW x \in Memories, NEW y \in Memories
    PROVE  /\ ~Same(x, y) /\ Swapped(key, x, y) => ~Swapped(key, y, x)
           /\ \A z \in Memories :
                /\ ~Same(x, y) /\ ~Same(y, z) /\ ~Same(x, z)
                /\ ~Swapped(key, x, y) /\ ~Swapped(key, y, z)
                => ~Swapped(key, x, z)
<1>1. \A m \in Memories : m.freq \in Nat /\ m.imode \in Nat /\ m.iBW \in Nat /\ m.tag \in Nat
  BY MemoryAssumption DEF Memories, B!Memory
<1>2. \A a, b \in Memories : ~Same(a, b) =>
        /\ Swapped("FREQ", a, b) <=>
            \/ a.freq > b.freq
            \/ a.freq = b.freq /\ a.imode > b.imode
            \/ a.freq = b.freq /\ a.imode = b.imode /\ a.iBW > b.iBW
        /\ Swapped("BW", a, b) <=>
            \/ a.iBW > b.iBW
            \/ a.iBW = b.iBW /\ a.freq > b.freq
            \/ a.iBW = b.iBW /\ a.freq = b.freq /\ a.imode > b.imode
            \/ a.iBW = b.iBW /\ a.freq = b.freq /\ a.imode = b.imode /\ a.tag > b.tag
        /\ Swapped("MODE", a, b) <=>
            \/ a.imode > b.imode
            \/ a.imode = b.imode /\ a.freq > b.freq
            \/ a.imode = b.imode /\ a.freq = b.freq /\ a.iBW > b.iBW
            \/ a.imode = b.imode /\ a.freq = b.freq /\ a.iBW = b.iBW /\ a.tag > b.tag
        /\ Swapped("COMMENT", a, b) <=>
            \/ a.tag > b.tag
            \/ a.tag = b.tag /\ a.freq > b.freq
            \/ a.tag = b.tag /\ a.freq = b.freq /\ a.imode > b.imode
  BY AfterThree, AfterFour DEF Swapped
<1>3. \A a, b \in Memories : Same(a, b) <=> a.freq = b.freq /\ a.imode = b.imode
  BY DEF Same, B!Same
<1>4. CASE key = "FREQ"
  BY <1>1, <1>2, <1>3, <1>4
<1>5. CASE key = "BW"
  BY <1>1, <1>2, <1>3, <1>5
<1>6. CASE key = "MODE"
  BY <1>1, <1>2, <1>3, <1>6
<1>7. CASE key = "COMMENT"
  BY <1>1, <1>2, <1>3, <1>7
<1>. QED  BY <1>4, <1>5, <1>6, <1>7 DEF Keys

\* A list is one of its own arrangements.
LEMMA Unmoved == ASSUME NEW list \in Seq(Memories) PROVE list \in Arrangements(list)
<1>. DEFINE p == [i \in DOMAIN list |-> i]
<1>1. p \in Bijection(DOMAIN list, DOMAIN list)
  BY DEF Bijection, Injection, Surjection, IsInjective
<1>2. list = [i \in DOMAIN list |-> list[p[i]]]
  BY SeqFacts
<1>. QED  BY <1>1, <1>2 DEF Arrangements

\* Exchanging two entries of an arrangement makes another.
LEMMA Exchanged ==
    ASSUME NEW list \in Seq(Memories), NEW s \in Arrangements(list),
           NEW i \in DOMAIN list, NEW j \in DOMAIN list
    PROVE  Exchange(s, i, j) \in Arrangements(list)
<1>. DEFINE D == DOMAIN list
<1>1. PICK p \in Bijection(D, D) : s = [k \in D |-> list[p[k]]]
  BY DEF Arrangements
<1>. DEFINE q == [p EXCEPT ![i] = p[j], ![j] = p[i]]
<1>2. /\ p \in [D -> D]
      /\ \A a, b \in D : p[a] = p[b] => a = b
      /\ \A t \in D : \E a \in D : p[a] = t
  BY <1>1 DEF Bijection, Injection, Surjection, IsInjective
<1>3. /\ q \in [D -> D]
      /\ q[i] = p[j] /\ q[j] = p[i] /\ \A a \in D : a # i /\ a # j => q[a] = p[a]
  BY <1>2
<1>. HIDE DEF q, D
<1>4. \A a, b \in D : q[a] = q[b] => a = b
  BY <1>2, <1>3 DEF D
<1>5. \A t \in D : \E a \in D : q[a] = t
  <2>. SUFFICES ASSUME NEW t \in D PROVE \E a \in D : q[a] = t
    OBVIOUS
  <2>1. PICK a \in D : p[a] = t
    BY <1>2
  <2>2. CASE a = i
    BY <2>1, <2>2, <1>3 DEF D
  <2>3. CASE a = j
    BY <2>1, <2>3, <1>3 DEF D
  <2>. QED  BY <2>1, <2>2, <2>3, <1>3
<1>6. q \in Bijection(D, D)
  BY <1>3, <1>4, <1>5 DEF Bijection, Injection, Surjection, IsInjective
<1>7. Exchange(s, i, j) = [k \in D |-> list[q[k]]]
  <2>1. s \in [D -> Memories] /\ \A k \in D : s[k] = list[p[k]]
    <3>1. \A k \in D : list[k] \in Memories
      BY SeqFacts DEF D
    <3>. QED  BY <1>1, <1>2, <3>1
  <2>2. i \in D /\ j \in D
    BY DEF D
  <2>3. \A k \in D : Exchange(s, i, j)[k] = IF k = j THEN s[i] ELSE IF k = i THEN s[j] ELSE s[k]
    BY <2>1, <2>2 DEF Exchange
  <2>4. \A k \in D : Exchange(s, i, j)[k] = list[q[k]]
    BY <2>1, <2>2, <2>3, <1>3
  <2>5. Exchange(s, i, j) \in [D -> Memories]
    BY <2>1, <2>2 DEF Exchange
  <2>. QED  BY <2>4, <2>5
<1>. QED  BY <1>6, <1>7 DEF Arrangements, D

\* So does a round of the inner loop.
LEMMA ComparedKeeps ==
    ASSUME NEW key, NEW list \in Seq(Memories), NEW s \in Arrangements(list),
           NEW i \in DOMAIN list, NEW j \in DOMAIN list
    PROVE  Compared(key, s, i, j) \in Arrangements(list)
BY Exchanged DEF Compared

\* What the definition of the inner loop by recursion amounts to.
LEMMA InnerRounds ==
    ASSUME NEW key, NEW list \in Seq(Memories), NEW s \in Arrangements(list),
           NEW i \in DOMAIN list
    PROVE  LET run == InnerLoop(key, s, i) IN
           /\ run \in [i..Len(list) -> Arrangements(list)]
           /\ run[i] = s
           /\ \A j \in (i + 1)..Len(list) : run[j] = Compared(key, run[j - 1], i, j)
<1>. DEFINE n == Len(list)
            run == InnerLoop(key, s, i)
            step == [j \in (i + 1)..n |-> [t \in Arrangements(list) |-> Compared(key, t, i, j)]]
<1>0. n \in Nat /\ DOMAIN list = 1..n /\ i \in Int /\ Len(s) = n
  BY SeqFacts, Rearranged
<1>1. step \in [(i + 1)..n -> [Arrangements(list) -> Arrangements(list)]]
  BY <1>0, ComparedKeeps
<1>2. \A j \in (i + 1)..n, t \in Arrangements(list) : step[j][t] = Compared(key, t, i, j)
  OBVIOUS
<1>. HIDE DEF step
<1>3a. n \in Int /\ i \in Int /\ i <= n /\ s \in Arrangements(list)
  BY <1>0
<1>3. PICK g \in [i..n -> Arrangements(list)] : IsRun(g, i, n, s, step)
  BY <1>1, <1>3a, Course, Zenon
<1>4. \A j \in i..n : j # i => g[j - 1] \in Arrangements(list) /\ j \in (i + 1)..n
  BY <1>0
<1>5. g = [j \in i..n |-> IF j = i THEN s ELSE Compared(key, g[j - 1], i, j)]
  BY <1>0, <1>2, <1>3, <1>4 DEF IsRun
<1>6. run = [j \in i..n |-> IF j = i THEN s ELSE Compared(key, run[j - 1], i, j)]
  BY <1>0, <1>5, Zenon DEF InnerLoop
<1>. HIDE DEF run
<1>7. run[i] = s /\ \A j \in (i + 1)..n : run[j] = Compared(key, run[j - 1], i, j)
  <2>1. i \in i..n /\ \A j \in (i + 1)..n : j \in i..n /\ j # i
    BY <1>0
  <2>. QED  BY <1>6, <2>1, Zenon
<1>8. \A j \in i..n : run[j] \in Arrangements(list)
  <2>. DEFINE S == {j \in i..n : run[j] \in Arrangements(list)}
  <2>1. i \in S
    BY <1>0, <1>3a, <1>7
  <2>2. ASSUME NEW k \in i..(n - 1), k \in S PROVE k + 1 \in S
    <3>1. k + 1 \in (i + 1)..n /\ (k + 1) - 1 = k /\ k + 1 \in DOMAIN list /\ k + 1 \in i..n
      BY <1>0
    <3>2. run[k] \in Arrangements(list)
      BY <2>2
    <3>3. Compared(key, run[k], i, k + 1) \in Arrangements(list)
      BY <3>1, <3>2, ComparedKeeps
    <3>. QED  BY <3>1, <3>3, <1>7
  <2>. HIDE DEF S
  <2>3. i..n \subseteq S
    BY <1>3a, <2>1, <2>2, Interval
  <2>. QED  BY <2>3 DEF S
<1>9. run \in [i..n -> Arrangements(list)]
  BY <1>6, <1>8
<1>. QED  BY <1>7, <1>9 DEF run

\* Places 1 to i hold what no later entry is to be swapped with.
Settled(key, s, i) ==
    \A a \in 1..i, b \in DOMAIN s : a < b => ~Swapped(key, s[a], s[b])

\* Place i holds what none of the entries up to place j is to be swapped with.
Least(key, s, i, j) == \A b \in (i + 1)..j : ~Swapped(key, s[i], s[b])

\* One round of the inner loop: the places before i stay settled, and place i
\* takes the entry at j into account.
LEMMA RoundSettles ==
    ASSUME NEW key \in Keys, NEW list \in Seq(Memories), Distinct(list),
           NEW s \in Arrangements(list),
           NEW i \in DOMAIN list, NEW j \in DOMAIN list, i < j,
           Settled(key, s, i - 1), Least(key, s, i, j - 1)
    PROVE  LET t == Compared(key, s, i, j)
           IN  Settled(key, t, i - 1) /\ Least(key, t, i, j)
<1>. DEFINE t == Compared(key, s, i, j)
            n == Len(list)
<1>0. /\ n \in Nat /\ DOMAIN s = 1..n /\ i \in 1..n /\ j \in 1..n
      /\ \A a \in 1..n : s[a] \in Memories
      /\ \A a, b \in 1..n : a # b => ~Same(s[a], s[b])
  BY SeqFacts, Rearranged DEF Distinct
<1>1. \A a, b \in 1..n : a # b /\ Swapped(key, s[a], s[b]) => ~Swapped(key, s[b], s[a])
  BY <1>0, SwappedOrders
<1>2. \A a, b, c \in 1..n :
        a # b /\ b # c /\ a # c /\ ~Swapped(key, s[a], s[b]) /\ ~Swapped(key, s[b], s[c])
        => ~Swapped(key, s[a], s[c])
  BY <1>0, SwappedOrders
<1>3. CASE ~Swapped(key, s[i], s[j])
  <2>1. t = s
    BY <1>3 DEF Compared
  <2>2. \A b \in (i + 1)..j : b \in (i + 1)..(j - 1) \/ b = j
    BY <1>0
  <2>. QED  BY <1>3, <2>1, <2>2 DEF Least
<1>4. CASE Swapped(key, s[i], s[j])
  <2>1. /\ DOMAIN t = 1..n /\ t[i] = s[j] /\ t[j] = s[i]
        /\ \A a \in 1..n : a # i /\ a # j => t[a] = s[a]
    BY <1>0, <1>4 DEF Compared, Exchange
  <2>. HIDE DEF t
  <2>2. \A a \in 1..(i - 1), b \in 1..n : a < b => ~Swapped(key, s[a], s[b])
    BY <1>0 DEF Settled
  <2>3. Settled(key, t, i - 1)
    <3>. SUFFICES ASSUME NEW a \in 1..(i - 1), NEW b \in 1..n, a < b
                  PROVE  ~Swapped(key, t[a], t[b])
      BY <2>1 DEF Settled
    <3>1. t[a] = s[a]
      BY <1>0, <2>1
    <3>2. \E c \in 1..n : a < c /\ t[b] = s[c]
      BY <1>0, <2>1
    <3>. QED  BY <3>1, <3>2, <2>2
  <2>4. Least(key, t, i, j)
    <3>. SUFFICES ASSUME NEW b \in (i + 1)..j PROVE ~Swapped(key, t[i], t[b])
      BY DEF Least
    <3>1. ~Swapped(key, s[j], s[i])
      BY <1>0, <1>1, <1>4
    <3>2. CASE b = j
      BY <2>1, <3>1, <3>2
    <3>3. CASE b # j
      <4>1. b \in (i + 1)..(j - 1) /\ b \in 1..n /\ b # i /\ b # j /\ i # j
        BY <1>0, <3>3
      <4>2. ~Swapped(key, s[i], s[b])
        BY <4>1 DEF Least
      <4>3. ~Swapped(key, s[j], s[b])
        BY <1>0, <1>2, <3>1, <4>1, <4>2
      <4>. QED  BY <2>1, <4>1, <4>3
    <3>. QED  BY <3>2, <3>3
  <2>. QED  BY <2>3, <2>4 DEF t
<1>. QED  BY <1>3, <1>4

\* The inner loop settles place i.
LEMMA InnerLoopSettles ==
    ASSUME NEW key \in Keys, NEW list \in Seq(Memories), Distinct(list),
           NEW s \in Arrangements(list), NEW i \in DOMAIN list,
           Settled(key, s, i - 1)
    PROVE  LET t == InnerLoop(key, s, i)[Len(list)]
           IN  t \in Arrangements(list) /\ Settled(key, t, i)
<1>. DEFINE n == Len(list)
            run == InnerLoop(key, s, i)
            S == {j \in i..n : Settled(key, run[j], i - 1) /\ Least(key, run[j], i, j)}
<1>0. /\ n \in Nat /\ DOMAIN list = 1..n /\ i \in 1..n
      /\ run \in [i..n -> Arrangements(list)]
      /\ run[i] = s
      /\ \A j \in (i + 1)..n : run[j] = Compared(key, run[j - 1], i, j)
  BY SeqFacts, InnerRounds
<1>. HIDE DEF run
<1>1. i \in S
  BY <1>0 DEF Least
<1>2. ASSUME NEW k \in i..(n - 1), k \in S PROVE k + 1 \in S
  <2>1. k + 1 \in (i + 1)..n /\ k + 1 \in DOMAIN list /\ i < k + 1 /\ (k + 1) - 1 = k
    BY <1>0
  <2>2. run[k] \in Arrangements(list) /\ run[k + 1] = Compared(key, run[k], i, k + 1)
    BY <1>0, <2>1
  <2>3. Settled(key, run[k], i - 1) /\ Least(key, run[k], i, (k + 1) - 1)
    BY <1>2, <2>1
  <2>4. Settled(key, run[k + 1], i - 1) /\ Least(key, run[k + 1], i, k + 1)
    BY <2>1, <2>2, <2>3, RoundSettles
  <2>. QED  BY <1>0, <2>1, <2>4
<1>3. n \in S
  <2>. HIDE DEF S
  <2>0. i \in Int /\ n \in Int
    BY <1>0
  <2>1. i..n \subseteq S
    BY <2>0, <1>1, <1>2, Interval
  <2>. QED  BY <1>0, <2>1
<1>4. run[n] \in Arrangements(list) /\ DOMAIN run[n] = 1..n
  BY <1>0, Rearranged
<1>5. Settled(key, run[n], i)
  <2>. SUFFICES ASSUME NEW a \in 1..i, NEW b \in 1..n, a < b
                PROVE  ~Swapped(key, run[n][a], run[n][b])
    BY <1>4 DEF Settled
  <2>1. CASE a = i
    BY <1>0, <1>3, <2>1 DEF Least
  <2>2. CASE a # i
    BY <1>0, <1>3, <1>4, <2>2 DEF Settled
  <2>. QED  BY <2>1, <2>2
<1>. QED  BY <1>4, <1>5 DEF run

\* What the definition of the outer loop amounts to.
LEMMA OuterRounds ==
    ASSUME NEW key \in Keys, NEW list \in Seq(Memories), Len(list) >= 2
    PROVE  LET run == OuterLoop(key, list) IN
           /\ run[0] = list
           /\ \A i \in 1..(Len(list) - 1) :
                run[i] = InnerLoop(key, run[i - 1], i)[Len(list)]
<1>. DEFINE n == Len(list)
            run == OuterLoop(key, list)
            step == [i \in (0 + 1)..(n - 1) |->
                        [t \in Arrangements(list) |-> InnerLoop(key, t, i)[n]]]
<1>0. n \in Nat /\ n >= 2 /\ DOMAIN list = 1..n /\ n - 1 \in Int /\ 0 \in Int /\ 0 <= n - 1
      /\ list \in Arrangements(list)
  BY SeqFacts, Unmoved
<1>1. step \in [(0 + 1)..(n - 1) -> [Arrangements(list) -> Arrangements(list)]]
  <2>. SUFFICES ASSUME NEW i \in (0 + 1)..(n - 1), NEW t \in Arrangements(list)
                PROVE  InnerLoop(key, t, i)[n] \in Arrangements(list)
    OBVIOUS
  <2>1. i \in DOMAIN list /\ n \in i..n
    BY <1>0
  <2>2. InnerLoop(key, t, i) \in [i..n -> Arrangements(list)]
    BY <2>1, InnerRounds, Zenon
  <2>. QED  BY <2>1, <2>2
<1>2. \A i \in (0 + 1)..(n - 1), t \in Arrangements(list) : step[i][t] = InnerLoop(key, t, i)[n]
  OBVIOUS
<1>. HIDE DEF step
<1>3. PICK g \in [0..(n - 1) -> Arrangements(list)] : IsRun(g, 0, n - 1, list, step)
  BY <1>0, <1>1, Course, Zenon
<1>4. \A i \in 0..(n - 1) : i # 0 => g[i - 1] \in Arrangements(list) /\ i \in (0 + 1)..(n - 1)
  BY <1>0
<1>5. g = [i \in 0..(n - 1) |-> IF i = 0 THEN list ELSE InnerLoop(key, g[i - 1], i)[n]]
  BY <1>0, <1>2, <1>3, <1>4 DEF IsRun
<1>6. run = [i \in 0..(n - 1) |-> IF i = 0 THEN list ELSE InnerLoop(key, run[i - 1], i)[n]]
  BY <1>5, Zenon DEF OuterLoop
<1>. HIDE DEF run
<1>7. 0 \in 0..(n - 1) /\ \A i \in 1..(n - 1) : i \in 0..(n - 1) /\ i # 0
  BY <1>0
<1>8. run[0] = list /\ \A i \in 1..(n - 1) : run[i] = InnerLoop(key, run[i - 1], i)[n]
  BY <1>6, <1>7, Zenon
<1>. QED  BY <1>8 DEF run

\* sortList, as it is written, makes of a list without twins what MemoryList
\* takes it to make: an arrangement in order, for every list and every key.
THEOREM SortListCorrect ==
    ASSUME NEW key \in Keys, NEW list \in Seq(Memories), Distinct(list)
    PROVE  sortList(key, list) \in Sorted(key, list)
<1>. DEFINE n == Len(list)
            run == OuterLoop(key, list)
            S == {i \in 0..(n - 1) : run[i] \in Arrangements(list) /\ Settled(key, run[i], i)}
<1>0. n \in Nat /\ DOMAIN list = 1..n /\ list \in Arrangements(list)
  BY SeqFacts, Unmoved
<1>1. CASE n < 2
  BY <1>0, <1>1 DEF sortList, Sorted, InOrder
<1>2. CASE n >= 2
  <2>0. /\ run[0] = list
        /\ \A i \in 1..(n - 1) : run[i] = InnerLoop(key, run[i - 1], i)[n]
    BY <1>2, OuterRounds
  <2>. HIDE DEF run
  <2>1. 0 \in S
    BY <1>0, <1>2, <2>0 DEF Settled
  <2>2. ASSUME NEW k \in 0..((n - 1) - 1), k \in S PROVE k + 1 \in S
    <3>1. k + 1 \in 1..(n - 1) /\ k + 1 \in DOMAIN list /\ (k + 1) - 1 = k /\ k + 1 \in 0..(n - 1)
      BY <1>0
    <3>2. run[k + 1] = InnerLoop(key, run[k], k + 1)[n]
      BY <2>0, <3>1
    <3>3. run[k] \in Arrangements(list) /\ Settled(key, run[k], (k + 1) - 1)
      BY <2>2, <3>1
    <3>4. run[k + 1] \in Arrangements(list) /\ Settled(key, run[k + 1], k + 1)
      BY <3>1, <3>2, <3>3, InnerLoopSettles
    <3>. QED  BY <3>1, <3>4
  <2>3. n - 1 \in S
    <3>. HIDE DEF S
    <3>1. 0 \in Int /\ n - 1 \in Int /\ n - 1 \in 0..(n - 1)
      BY <1>0, <1>2
    <3>2. 0..(n - 1) \subseteq S
      BY <2>1, <2>2, <3>1, Interval
    <3>. QED  BY <3>1, <3>2
  <2>4. run[n - 1] \in Arrangements(list) /\ DOMAIN run[n - 1] = 1..n
    BY <1>0, <2>3, Rearranged
  <2>5. InOrder(key, run[n - 1])
    <3>. SUFFICES ASSUME NEW a \in 1..n, NEW b \in 1..n, a < b
                  PROVE  ~Swapped(key, run[n - 1][a], run[n - 1][b])
      BY <2>4 DEF InOrder
    <3>1. a \in 1..(n - 1)
      BY <1>0
    <3>. QED  BY <2>3, <2>4, <3>1 DEF Settled
  <2>6. sortList(key, list) = run[n - 1]
    BY <1>0, <1>2 DEF sortList, run
  <2>. QED  BY <2>4, <2>5, <2>6 DEF Sorted
<1>. QED  BY <1>0, <1>1, <1>2

\* Whatever the list and the entry that came to it, the loops of sortList put
\* it in order by every key and lose and double nothing.
THEOREM SortListSortsAlways == Spec => []SortListSorts
<1>1. MemoryInv => SortListSorts
  <2>. SUFFICES ASSUME MemoryInv, NEW m \in Memories, NEW key \in Keys,
                       Distinct(Append(oplist, m))
                PROVE  LET sorted == sortList(key, Append(oplist, m))
                       IN  InOrder(key, sorted) /\ Range(sorted) = Range(Append(oplist, m))
    BY Zenon DEF SortListSorts, Keys
  <2>1. Append(oplist, m) \in Seq(Memories)
    BY DEF MemoryInv, ScreenOK, ListOK
  <2>2. sortList(key, Append(oplist, m)) \in Sorted(key, Append(oplist, m))
    BY <2>1, SortListCorrect
  <2>. QED  BY <2>1, <2>2, Arranged, Zenon DEF Sorted
<1>2. MemoryInv /\ [Next]_vars => MemoryInv'
  BY NextOK
<1>. QED  BY InitOK, <1>1, <1>2, PTL DEF Spec
=============================================================================
