------------------------------ MODULE LifoHeap ------------------------------
(***************************************************************************)
(* What the size classes of the heap promise their callers: per class, a   *)
(* stack of free blocks and a set of blocks that are held.  kmalloc takes  *)
(* the top of the stack; only an empty stack grows, by the blocks of the   *)
(* next page of the class's region, lowest first; kfree puts its block on  *)
(* top.  There are no page tables, frames or links here.                   *)
(***************************************************************************)
EXTENDS Integers, Sequences

CONSTANTS
    ClassSize,    \* block sizes, one per class
    PageWords,    \* words of a page
    RegionPages   \* pages of a region; class d starts at d * RegionPages

Classes == 1 .. Len(ClassSize)

VARIABLES
    free,    \* the stack of each class, top first
    held,    \* the blocks of each class that callers hold
    next     \* the address of the next page of each class

lifoVars == <<free, held, next>>

\* The blocks of the page at an address, lowest first.
PageBlocks(d, virt) ==
    [i \in 1 .. PageWords \div ClassSize[d] |-> virt + (i - 1) * ClassSize[d]]

LifoInit ==
    /\ free = [d \in Classes |-> <<>>]
    /\ held = [d \in Classes |-> {}]
    /\ next = [d \in Classes |-> d * RegionPages * PageWords]

\* A page added at boot goes on top of the pages before it.
Premap(d) ==
    /\ free' = [free EXCEPT ![d] = PageBlocks(d, next[d]) \o @]
    /\ next' = [next EXCEPT ![d] = @ + PageWords]
    /\ UNCHANGED held

Pop(d) ==
    /\ free[d] # <<>>
    /\ free' = [free EXCEPT ![d] = Tail(@)]
    /\ held' = [held EXCEPT ![d] = @ \cup {Head(free[d])}]
    /\ UNCHANGED next

Grow(d) ==
    /\ free[d] = <<>>
    /\ free' = [free EXCEPT ![d] = Tail(PageBlocks(d, next[d]))]
    /\ held' = [held EXCEPT ![d] = @ \cup {next[d]}]
    /\ next' = [next EXCEPT ![d] = @ + PageWords]

Push(d, b) ==
    /\ b \in held[d]
    /\ free' = [free EXCEPT ![d] = <<b>> \o @]
    /\ held' = [held EXCEPT ![d] = @ \ {b}]
    /\ UNCHANGED next

LifoNext ==
    \E d \in Classes :
        \/ Premap(d) \/ Pop(d) \/ Grow(d)
        \/ \E b \in held[d] : Push(d, b)

LifoSpec == LifoInit /\ [][LifoNext]_lifoVars
=============================================================================
