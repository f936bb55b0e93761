------------------------------ MODULE MemorySort ------------------------------
(* sortList as it is written, two loops that swap, beside what MemoryList     *)
(* takes it to do.  A loop is the function from each value of its counter to  *)
(* the list after that round.                                               *)
EXTENDS MemoryList

Exchange(s, i, j) == [s EXCEPT ![i] = s[j], ![j] = s[i]]

\* One round of the inner loop.
Compared(key, s, i, j) ==
    IF Swapped(key, s[i], s[j]) THEN Exchange(s, i, j) ELSE s

\* Mutant of InnerLoop: the entry next to place i is not looked at.
InnerLoopLate(key, s, i) ==
    LET after[j \in i..Len(s)] ==
            IF j <= i + 1 THEN s ELSE Compared(key, after[j - 1], i, j)
    IN  after

\* for (j = i + 1; j < numinlist; j++)
InnerLoop(key, s, i) ==
    LET after[j \in i..Len(s)] ==
            IF j = i THEN s ELSE Compared(key, after[j - 1], i, j)
    IN  after

\* for (i = 0; i < numinlist - 1; i++)
OuterLoop(key, list) ==
    LET after[i \in 0..(Len(list) - 1)] ==
            IF i = 0 THEN list ELSE InnerLoop(key, after[i - 1], i)[Len(list)]
    IN  after

sortList(key, list) ==
    IF Len(list) < 2 THEN list ELSE OuterLoop(key, list)[Len(list) - 1]

\* The loops put the list in order after any one entry came or changed, by
\* every key: one pass of swaps is enough, and no entry is lost or doubled.
SortListSorts ==
    value = 0 => \A m \in Memories :
        LET list == Append(oplist, m)
        IN  Distinct(list) =>
            \A key \in {"FREQ", "BW", "MODE", "COMMENT"} :
                LET sorted == sortList(key, list)
                IN  InOrder(key, sorted) /\ Range(sorted) = Range(list)
=============================================================================
