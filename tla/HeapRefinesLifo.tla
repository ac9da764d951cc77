-------------------------- MODULE HeapRefinesLifo --------------------------
(***************************************************************************)
(* The size classes of HeapDomains implement LifoHeap.  The stack of a     *)
(* class is read out of memory: the addresses met by following the links   *)
(* from next_free_block through the kernel's page tables.                  *)
(***************************************************************************)
EXTENDS HeapDomains

\* The free list of a class as a sequence.
FreeList(d) ==
    LET n == Cardinality(Carved(d)) + 1
        c == Chain(d, n)
        k == Cardinality({i \in 0 .. n : c[i] # NULL})
    IN  [i \in 1 .. k |-> c[i - 1]]

\* The stack, the held blocks and the next page of a class, also before the
\* class is set up.
Stack(d)      == IF d \in Started THEN FreeList(d) ELSE <<>>
HeldBlocks(d) == {a.ptr : a \in Held(d)}
NextPage(d)   == IF d \in Started THEN cursor[d] ELSE Base(d)

Lifo == INSTANCE LifoHeap WITH
    free <- [d \in Domains |-> Stack(d)],
    held <- [d \in Domains |-> HeldBlocks(d)],
    next <- [d \in Domains |-> NextPage(d)]

\* "This is a LIFO free list. The most recently freed block is the next to be
\* allocated": every step of the heap, page tables, frames, large domain and
\* all, is a step of the stack of blocks or leaves it alone.
LifoPromise == Lifo!LifoSpec
=============================================================================
