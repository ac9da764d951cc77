--------------------------- MODULE MCHeapClients ---------------------------
(* The shell's commands over the heap, for TLC. *)
EXTENDS HeapClients

TwoClasses == <<8, 16>>

\* Pages with the header: tables 4, buf64k 3, buf1m and tbig 5, tbuf8 2.
ScaledSizes ==
    [s64 |-> 4, s128 |-> 5, s256 |-> 7, s512 |-> 8, s1024 |-> 15,
     table |-> 60, sample |-> 16, argv |-> 7,
     buf64k |-> 40, buf1m |-> 70, tbuf |-> 16, tbuf8 |-> 20, tbig |-> 70]
AllSizes == {ScaledSizes[n] : n \in DOMAIN ScaledSizes} \cup {20, 50}
=============================================================================
