---------------------------- MODULE MCMemoryList ----------------------------
(* A small instance of MemoryList: three memories, one frequency and one mode *)
(* shared by two of them, and one memory with two bandwidths.                *)
EXTENDS MemorySort

MCContents ==
    {[freq |-> 1, imode |-> 2, iBW |-> 1], [freq |-> 2, imode |-> 1, iBW |-> 2],
     [freq |-> 2, imode |-> 1, iBW |-> 1], [freq |-> 2, imode |-> 2, iBW |-> 0]}
=============================================================================
