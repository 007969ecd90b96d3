---------------------------- MODULE AbstractHeap ----------------------------
(***************************************************************************)
(* What an allocator promises its callers: the regions they hold lie in    *)
(* the heap and never overlap, and only a caller's own call changes what   *)
(* it holds.                                                               *)
(***************************************************************************)
EXTENDS Integers

CONSTANTS HeapSize, Sizes, Callers

VARIABLE region     \* the region each caller holds, with size 0 if none

Bytes(r) == r.addr .. (r.addr + r.size - 1)

NoRegion == [addr |-> 0, size |-> 0]

Init == region = [c \in Callers |-> NoRegion]

\* A new region overlaps none that is held.
Allocate(c) ==
    /\ region[c] = NoRegion
    /\ region'[c].addr \in Nat /\ region'[c].size \in Sizes
    /\ region'[c].addr + region'[c].size <= HeapSize
    /\ \A d \in Callers : Bytes(region[d]) \cap Bytes(region'[c]) = {}
    /\ region' = [region EXCEPT ![c] = region'[c]]

Free(c) == region' = [region EXCEPT ![c] = NoRegion]

Next == \E c \in Callers : Allocate(c) \/ Free(c)

Spec == Init /\ [][Next]_region
=============================================================================
