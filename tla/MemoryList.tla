------------------------------ MODULE MemoryList ------------------------------
(***************************************************************************)
(* The memory manager: oplist, the browser FreqSelect that shows it in the  *)
(* order asked for, the tag field under it, and the .mat file of each set,  *)
(* written when flrig ends and read when a set is initialised.              *)
(*                                                                         *)
(* All of it runs on the FLTK thread, so a handler is one step; a save is   *)
(* split where a crash can leave the file half done.  The lines of the      *)
(* browser are oplist's entries, always rebuilt with it.  Old .arv files,   *)
(* the rotated copies .mat.1 to .mat.5, which nothing reads, and a file     *)
(* edited by hand are left out.  Preferences are not modelled: flrig may    *)
(* start with any set and any order.                                       *)
(***************************************************************************)
EXTENDS Integers, Sequences, FiniteSets, Functions

CONSTANTS
    Rigs, VfoContents, Tags, LISTSIZE,      \* as in MemoryBank
    Torn,           \* a .mat file that holds only rotate_log's first line
    SortKeys        \* the orders the header line offers

VARIABLES
    at,             \* what flrig is doing
    rig,            \* selrig
    defFileName,    \* the set whose .mat file is in use
    mem_sortby,     \* progStatus.mem_sortby
    oplist,         \* the memories, numinlist of them
    value,          \* FreqSelect->value(): the selected line, 0 for none
    inAlphaTag,     \* the tag field
    file            \* per set, its .mat file

screen == <<oplist, value, inAlphaTag>>
place == <<at, rig, defFileName>>
vars == <<place, mem_sortby, screen, file>>

B == INSTANCE MemoryBank WITH bank <- Range(oplist), store <- [r \in Rigs |->
        IF file[r] = Torn THEN Torn ELSE Range(file[r])]

Memories == {B!Memory(v, t) : v \in VfoContents, t \in Tags}
Same(a, b) == B!Same(a, b)

ASSUME MemoryAssumption ==
    /\ \A v \in VfoContents : /\ v \in [freq : Nat, imode : Nat, iBW : Nat]
                              /\ v.freq # 0
    /\ Tags \subseteq Nat /\ 0 \in Tags
    /\ LISTSIZE \in Nat
    /\ SortKeys \subseteq {"FREQ", "BW", "MODE", "COMMENT"}
    /\ "none" \notin Rigs
    /\ Torn \notin Seq(Memories) /\ \A S \in SUBSET Memories : S # Torn

\* A set without a file has an empty list, as buildlist takes it.
TypeOK ==
    /\ at \in {"up", "saving", "writing", "hung", "down"}
    /\ rig \in Rigs
    /\ defFileName \in Rigs \cup {"none"}
    /\ mem_sortby \in SortKeys
    /\ oplist \in Seq(Memories) /\ Len(oplist) <= LISTSIZE
    /\ value \in 0..Len(oplist)
    /\ inAlphaTag \in Tags
    /\ file \in [Rigs -> Seq(Memories) \cup {Torn}]

Init ==
    /\ at = "down"
    /\ rig \in Rigs /\ defFileName = "none" /\ mem_sortby \in SortKeys
    /\ oplist = <<>> /\ value = 0 /\ inAlphaTag = 0
    /\ file = [r \in Rigs |-> <<>>]

-----------------------------------------------------------------------------
\* Tuple a comes after tuple b of the same length.
After(a, b) == \E i \in DOMAIN a : a[i] > b[i] /\ \A j \in 1..(i - 1) : a[j] = b[j]

\* sortList's test: the earlier entry x and the later entry y are swapped.
\* Its tests of the tag under FREQ and of the bandwidth under COMMENT are odd
\* where frequency and mode agree.
Swapped(key, x, y) ==
    CASE key = "FREQ" ->
            \/ After(<<x.freq, x.imode, x.iBW>>, <<y.freq, y.imode, y.iBW>>)
            \/ Same(x, y) /\ x.tag > y.tag
      [] key = "BW" -> After(<<x.iBW, x.freq, x.imode, x.tag>>,
                             <<y.iBW, y.freq, y.imode, y.tag>>)
      [] key = "MODE" -> After(<<x.imode, x.freq, x.iBW, x.tag>>,
                               <<y.imode, y.freq, y.iBW, y.tag>>)
      [] OTHER ->
            \/ After(<<x.tag, x.freq, x.imode>>, <<y.tag, y.freq, y.imode>>)
            \/ Same(x, y) /\ x.tag = y.tag /\ x.iBW > y.imode

InOrder(key, list) ==
    \A i, j \in DOMAIN list : i < j => ~Swapped(key, list[i], list[j])

Arrangements(list) ==
    {[i \in DOMAIN list |-> list[p[i]]] : p \in Bijection(DOMAIN list, DOMAIN list)}

\* What sortList makes of a list; MemorySort has its loops.
Sorted(key, list) == {s \in Arrangements(list) : InOrder(key, s)}

\* updateSelect: the list is sorted, the selection is gone; the tag field is
\* cleared unless the list is empty.
updateSelect(key, list) ==
    /\ oplist' \in Sorted(key, list)
    /\ value' = 0
    /\ inAlphaTag' = IF list = <<>> THEN inAlphaTag ELSE 0

\* The same, and then line n, if there is one, is selected and its tag shown.
updateAndSelect(list, n) ==
    /\ oplist' \in Sorted(mem_sortby, list)
    /\ IF n \in DOMAIN list THEN value' = n /\ inAlphaTag' = oplist'[n].tag
                            ELSE value' = 0 /\ inAlphaTag' = 0

\* clearList does nothing to a list that is empty.
clearList ==
    /\ oplist' = <<>> /\ value' = 0
    /\ inAlphaTag' = IF oplist = <<>> THEN inAlphaTag ELSE 0

-----------------------------------------------------------------------------
\* Mutant of Added: an entry of the same frequency is not looked for.
AddedAgain(v) ==
    IF Len(oplist) < LISTSIZE THEN Append(oplist, B!Memory(v, 0)) ELSE oplist

\* Mutant of Added: a memory entered again loses its tag.
AddedUntagged(v) ==
    IF \E i \in DOMAIN oplist : Same(oplist[i], v)
    THEN [i \in DOMAIN oplist |-> IF Same(oplist[i], v) THEN B!Memory(v, 0) ELSE oplist[i]]
    ELSE IF Len(oplist) < LISTSIZE THEN Append(oplist, B!Memory(v, 0)) ELSE oplist

\* Mutant of Added: addtoList does not look at LISTSIZE.
AddedPastEnd(v) ==
    IF \E i \in DOMAIN oplist : Same(oplist[i], v) THEN oplist
                                                  ELSE Append(oplist, B!Memory(v, 0))

\* addFreq: the entry of that frequency and mode, NoTwins has at most one,
\* takes the bandwidth; without one the contents are appended, and silently
\* dropped when the list is full.
Added(v) ==
    LET here == {i \in DOMAIN oplist : Same(oplist[i], v)}
    IN  IF here # {}
        THEN [i \in DOMAIN oplist |->
                IF i \in here THEN [oplist[i] EXCEPT !.iBW = v.iBW] ELSE oplist[i]]
        ELSE IF Len(oplist) < LISTSIZE THEN Append(oplist, B!Memory(v, 0)) ELSE oplist

\* The Add button, Memory/Save, or a right click on the VFO in use.
Add ==
    /\ at = "up"
    /\ \E v \in VfoContents : updateSelect(mem_sortby, Added(v))
    /\ UNCHANGED <<place, mem_sortby, file>>

\* The right arrow in the browser.
AddKey ==
    /\ at = "up" /\ value > 0
    /\ \E v \in VfoContents : updateAndSelect(Added(v), 1)
    /\ UNCHANGED <<place, mem_sortby, file>>

Without(list, n) ==
    [i \in 1..(Len(list) - 1) |-> IF i < n THEN list[i] ELSE list[i + 1]]

delFreq ==
    /\ at = "up" /\ value > 0
    /\ updateSelect(mem_sortby, Without(oplist, value))
    /\ UNCHANGED <<place, mem_sortby, file>>

\* The delete key selects the line that moved up; there may be none.
DelKey ==
    /\ at = "up" /\ value > 0
    /\ updateAndSelect(Without(oplist, value), value)
    /\ UNCHANGED <<place, mem_sortby, file>>

Clr ==
    /\ at = "up"
    /\ clearList
    /\ UNCHANGED <<place, mem_sortby, file>>

\* A click on the header, or another font for the browser.
cb_header ==
    /\ at = "up"
    /\ mem_sortby' \in SortKeys
    /\ updateSelect(mem_sortby', oplist)
    /\ UNCHANGED <<place, file>>

\* A click, an arrow key, or a pick by double click: the line's tag is shown.
\* What a pick sends to the set is in VfoCache.
Select ==
    /\ at = "up"
    /\ value' \in DOMAIN oplist
    /\ inAlphaTag' = oplist[value'].tag
    /\ UNCHANGED <<place, mem_sortby, oplist, file>>

\* Mutant of editAlphaTag: the field keeps what was typed.
editAlphaTagKept ==
    /\ at = "up" /\ value > 0
    /\ \E t \in Tags :
        /\ oplist' \in Sorted(mem_sortby, [oplist EXCEPT ![value].tag = t])
        /\ inAlphaTag' = t
    /\ UNCHANGED <<place, mem_sortby, value, file>>

\* Enter in the tag field.  The same line is selected again, whichever entry
\* the sort has put there.
editAlphaTag ==
    /\ at = "up"
    /\ IF value = 0
       THEN inAlphaTag' = 0 /\ UNCHANGED <<oplist, value>>
       ELSE \E t \in Tags : updateAndSelect([oplist EXCEPT ![value].tag = t], value)
    /\ UNCHANGED <<place, mem_sortby, file>>

-----------------------------------------------------------------------------
\* buildlist for set r.  readTagFile's loop ends at the end of the file, which
\* a word where a number belongs keeps it from reaching.
buildlist(r) ==
    /\ defFileName' = r
    /\ IF file[r] = Torn
       THEN at' = "hung" /\ clearList
       ELSE /\ at' = "up" /\ value' = 0
            /\ oplist' \in Sorted(mem_sortby', file[r])
            /\ inAlphaTag' = IF oplist = <<>> /\ file[r] = <<>> THEN inAlphaTag ELSE 0

\* The Init button, for set r, which answers or not.  saveFreqList comes after
\* clearList: it has nothing to save.
PressInit(r, answers) ==
    /\ at = "up"
    /\ rig' = r /\ UNCHANGED <<mem_sortby, file>>
    /\ IF answers THEN buildlist(r) ELSE clearList /\ UNCHANGED <<at, defFileName>>

\* Use of a remote set is switched on, or Init is pressed for a TCI set:
\* initRig alone.
Reconnect ==
    /\ at = "up"
    /\ UNCHANGED <<rig, mem_sortby, file>>
    /\ buildlist(rig)

\* flrig starts; the list is read once the set has answered.
Start(answers) ==
    /\ at = "down"
    /\ rig' \in Rigs /\ mem_sortby' \in SortKeys
    /\ IF answers THEN buildlist(rig')
                  ELSE at' = "up" /\ defFileName' = "none" /\ UNCHANGED screen
    /\ UNCHANGED file

\* The process is gone, and its memory with it.
Ended ==
    /\ at' = "down" /\ oplist' = <<>> /\ value' = 0 /\ inAlphaTag' = 0
    /\ UNCHANGED <<rig, defFileName, mem_sortby>>

\* cbExit: an empty list is not saved; a list without a file name cannot be.
ExitUnsaved ==
    /\ at = "up"
    /\ oplist = <<>> \/ defFileName = "none"
    /\ Ended
    /\ UNCHANGED file

\* rotate_log renames the file and starts a new one with its own first line.
rotate_log ==
    /\ at = "up" /\ oplist # <<>> /\ defFileName # "none"
    /\ at' = "saving"
    /\ file' = [file EXCEPT ![defFileName] = Torn]
    /\ UNCHANGED <<rig, defFileName, mem_sortby, screen>>

\* saveFreqList opens the file, which empties it, and writes a line at a time.
Open ==
    /\ at = "saving" /\ at' = "writing"
    /\ file' = [file EXCEPT ![defFileName] = <<>>]
    /\ UNCHANGED <<rig, defFileName, mem_sortby, screen>>

Written == Len(file[defFileName])

WriteLine ==
    /\ at = "writing" /\ Written < Len(oplist)
    /\ file' = [file EXCEPT ![defFileName] = Append(@, oplist[Written + 1])]
    /\ UNCHANGED <<place, mem_sortby, screen>>

Close ==
    /\ at = "writing" /\ Written = Len(oplist)
    /\ Ended
    /\ UNCHANGED file

\* flrig is killed, or the computer is switched off.
Crash == at # "down" /\ Ended /\ UNCHANGED file

-----------------------------------------------------------------------------
Next ==
    \/ Add \/ AddKey \/ delFreq \/ DelKey \/ Clr
    \/ cb_header \/ Select \/ editAlphaTag
    \/ \E answers \in BOOLEAN : Start(answers) \/ \E r \in Rigs : PressInit(r, answers)
    \/ Reconnect
    \/ ExitUnsaved \/ rotate_log \/ Open \/ WriteLine \/ Close
    \/ Crash

Spec == Init /\ [][Next]_vars

-----------------------------------------------------------------------------
Distinct(list) == \A i, j \in DOMAIN list : Same(list[i], list[j]) => i = j

\* No frequency and mode is held twice, in the list or in a file, whatever was
\* added, edited, cut short or read back: sortList orders only such lists.
NoTwins ==
    /\ Distinct(oplist)
    /\ \A r \in Rigs : file[r] # Torn => Distinct(file[r])

\* The tag field shows the tag of the selected line after any sort, so that
\* Enter, which writes the field into that line, cannot copy another's tag.
FieldShowsSelected == value > 0 => inAlphaTag = oplist[value].tag

\* The memory manager keeps MemoryBank's promise: sorting, deleting, saving
\* and reading back neither lose a memory nor make one up.
BankKept == B!BankSpec

\* The manual, memory_dialog.txt:4-5: values saved with Memory/Save are in the
\* memory file.  Here: Init for the same set, which answers, loses none.
SavedForLater ==
    [][PressInit(rig, TRUE) => \A m \in Range(oplist) : m \in Range(oplist')]_vars
=============================================================================
