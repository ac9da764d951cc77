------------------------------- MODULE MCHeap -------------------------------
(* The heap for TLC. *)
EXTENDS HeapRefinesLifo

TwoClasses == <<8, 16>>
OneClass   == <<16>>
=============================================================================
