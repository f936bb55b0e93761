------------------------------ MODULE MemoryBank ------------------------------
(***************************************************************************)
(* What the memory manager promises: a bank of at most LISTSIZE memories,   *)
(* no two of the same frequency and mode, each changed by one operation of  *)
(* the operator and by nothing else; and a store per set, from which the    *)
(* bank is filled and into which it is put.  Putting takes time and may be  *)
(* cut short: the store is then unreadable, or holds a part of the bank.    *)
(***************************************************************************)
EXTENDS Naturals, FiniteSets

CONSTANTS
    Rigs,           \* the sets flrig can be asked to control
    VfoContents,    \* what the VFO in use may show: [freq, imode, iBW]
    Tags,           \* the comments, in alphabetical order; 0 is the empty one
    LISTSIZE,       \* how many memories the bank takes
    Torn            \* what an unreadable store holds

VARIABLES
    bank,           \* the memories on offer
    store           \* per set, the memories kept, or Torn

\* The memory of VFO contents v with comment t.
Memory(v, t) == [freq |-> v.freq, imode |-> v.imode, iBW |-> v.iBW, tag |-> t]

\* Memories are told apart by frequency and mode.
Same(a, b) == a.freq = b.freq /\ a.imode = b.imode

BankInit ==
    /\ bank = {}
    /\ store \in [Rigs -> SUBSET {Memory(v, t) : v \in VfoContents, t \in Tags}]

\* The VFO is entered: a memory of its frequency and mode takes the
\* bandwidth and keeps its comment.
Enter(v) ==
    /\ \/ \E m \in bank :
            /\ Same(m, v)
            /\ bank' = (bank \ {m}) \cup {[m EXCEPT !.iBW = v.iBW]}
       \/ /\ \A m \in bank : ~Same(m, v)
          /\ Cardinality(bank) < LISTSIZE
          /\ bank' = bank \cup {Memory(v, 0)}
    /\ UNCHANGED store

Forget(m) == bank' = bank \ {m} /\ UNCHANGED store

Retag(m, t) ==
    /\ bank' = (bank \ {m}) \cup {[m EXCEPT !.tag = t]}
    /\ UNCHANGED store

\* The bank is emptied: by the operator, or because the program ends or
\* turns to another set.
Empty == bank' = {} /\ UNCHANGED store

Fill(r) ==
    /\ store[r] # Torn
    /\ bank' = store[r]
    /\ UNCHANGED store

\* A save in progress.
Put(r) ==
    /\ bank # {}
    /\ \E s \in {Torn} \cup SUBSET bank : store' = [store EXCEPT ![r] = s]
    /\ UNCHANGED bank

BankNext ==
    \/ \E v \in VfoContents : Enter(v)
    \/ \E m \in bank : Forget(m) \/ \E t \in Tags : Retag(m, t)
    \/ Empty
    \/ \E r \in Rigs : Fill(r) \/ Put(r)

BankSpec == BankInit /\ [][BankNext]_<<bank, store>>
=============================================================================
