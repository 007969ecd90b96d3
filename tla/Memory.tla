------------------------------- MODULE Memory -------------------------------
(***************************************************************************)
(* The memory manager of src/src/memory/scalable.rs over the global        *)
(* allocator (module Heap): GlobalMemoryManager, the per-CPU allocators    *)
(* with their local lists, and the initialisation of the manager.  Other   *)
(* kernel code uses the global allocator directly.                         *)
(*                                                                         *)
(* The local list is locked while it is searched; the calls of different   *)
(* CPUs interleave.  compare_exchange_weak does not fail spuriously on     *)
(* x86_64, the only target, so a region found free is always taken.        *)
(***************************************************************************)
EXTENDS Heap

CONSTANTS
    Cpus,           \* the CPUs with a PerCpuAllocator (MAX_CPUS in the code)
    SmallMax,       \* SMALL_ALLOC_THRESHOLD (4096 in the code)
    FreeAlign,      \* the alignment GlobalMemoryManager::free assumes (8)
    Callers         \* bound: holders of at most one region each

\* free assumes the size of the smallest block as the alignment.
ASSUME MemoryAssumption ==
    /\ SmallMax \in Nat
    /\ FreeAlign \in Nat
    /\ \A i \in DOMAIN BlockSizes : FreeAlign <= BlockSizes[i]

VARIABLES
    manager,            \* "absent", "flagged" (MEMORY_MANAGER_INIT set) or "ready"
    small_free_list,    \* PerCpuAllocator::small_free_list of every CPU
    held                \* the region a caller holds, and the interface it came by

memoryVars == <<list_heads, fallback, live, manager, small_free_list, held>>

Region(addr, size) == [addr |-> addr, size |-> size]

Nothing == [addr |-> 0, size |-> 0, align |-> 0, via |-> "none"]

Held(addr, layout, by) ==
    [addr |-> addr, size |-> layout.size, align |-> layout.align, via |-> by]

-----------------------------------------------------------------------------
MemoryInit ==
    /\ HeapInit
    /\ manager = "absent"
    /\ small_free_list = [c \in Cpus |-> <<>>]
    /\ held = [x \in Callers |-> Nothing]

\* init wins the exchange on MEMORY_MANAGER_INIT; a second call returns.
InitFlag ==
    /\ manager = "absent"
    /\ manager' = "flagged"
    /\ UNCHANGED <<heapVars, small_free_list, held>>

\* It then builds the manager with its per-CPU allocators and publishes it.
InitManager ==
    /\ manager = "flagged"
    /\ manager' = "ready"
    /\ UNCHANGED <<heapVars, small_free_list, held>>

-----------------------------------------------------------------------------
(* The global allocator, used directly *)

DirectAlloc(x, layout) ==
    \E addr \in 0..(HeapSize - 1) :
        /\ Alloc(addr, layout)
        /\ held' = [held EXCEPT ![x] = Held(addr, layout, "heap")]
        /\ UNCHANGED <<manager, small_free_list>>

DirectDealloc(x) ==
    /\ held[x].via = "heap"
    /\ Dealloc(Block(held[x].addr, held[x]),
               [size |-> held[x].size, align |-> held[x].align])
    /\ held' = [held EXCEPT ![x] = Nothing]
    /\ UNCHANGED <<manager, small_free_list>>

-----------------------------------------------------------------------------
(* GlobalMemoryManager *)

\* GlobalMemoryManager::allocate; the fallback of scalable::allocate, taken
\* until the manager is ready, makes the same call.
ManagerAllocate(x, layout) ==
    \E addr \in 0..(HeapSize - 1) :
        /\ Alloc(addr, layout)
        /\ held' = [held EXCEPT ![x] = Held(addr, layout, "manager")]
        /\ UNCHANGED <<manager, small_free_list>>

\* The block a pointer into the heap belongs to.
BlockAt(addr) == CHOOSE b \in live : b.addr = addr

\* GlobalMemoryManager::free, and the fallback of scalable::free: the layout is
\* rebuilt from the size, with one alignment for all.
GlobalFree(r) == Dealloc(BlockAt(r.addr), [size |-> r.size, align |-> FreeAlign])

ManagerFree(x) ==
    /\ held[x].via = "manager"
    /\ GlobalFree(held[x])
    /\ held' = [held EXCEPT ![x] = Nothing]
    /\ UNCHANGED <<manager, small_free_list>>

-----------------------------------------------------------------------------
(* PerCpuAllocator *)

SwapRemove(s, k) == [i \in 1..(Len(s) - 1) |-> IF i = k THEN s[Len(s)] ELSE s[i]]

\* The positions try_local_allocate accepts; it takes the first.
Suitable(c, size) ==
    {k \in DOMAIN small_free_list[c] : small_free_list[c][k].size >= size}

\* Variant: the region found is used but not taken off the list.
CpuAllocateLocalKeep(c, x, layout) ==
    \E k \in Suitable(c, layout.size) :
        /\ manager = "ready" /\ layout.size <= SmallMax
        /\ held' = [held EXCEPT ![x] = Held(small_free_list[c][k].addr, layout, "cpu")]
        /\ UNCHANGED <<heapVars, manager, small_free_list>>

\* allocate, with a region of the local list.  The requested alignment is not
\* looked at.
CpuAllocateLocal(c, x, layout) ==
    \E k \in Suitable(c, layout.size) :
        /\ manager = "ready" /\ layout.size <= SmallMax
        /\ \A j \in Suitable(c, layout.size) : k <= j
        /\ small_free_list' = [small_free_list EXCEPT ![c] = SwapRemove(@, k)]
        /\ held' = [held EXCEPT ![x] = Held(small_free_list[c][k].addr, layout, "cpu")]
        /\ UNCHANGED <<heapVars, manager>>

\* allocate, from the manager.
CpuAllocateGlobal(c, x, layout) ==
    /\ manager = "ready"
    /\ layout.size > SmallMax \/ Suitable(c, layout.size) = {}
    /\ \E addr \in 0..(HeapSize - 1) :
         /\ Alloc(addr, layout)
         /\ held' = [held EXCEPT ![x] = Held(addr, layout, "cpu")]
    /\ UNCHANGED <<manager, small_free_list>>

\* Variant: a small region goes to the local list and back to the heap.
CpuFreeTwice(c, x) ==
    /\ held[x].via = "cpu"
    /\ small_free_list' =
         IF held[x].size <= SmallMax
         THEN [small_free_list EXCEPT ![c] = Append(@, Region(held[x].addr, held[x].size))]
         ELSE small_free_list
    /\ GlobalFree(held[x])
    /\ held' = [held EXCEPT ![x] = Nothing]
    /\ UNCHANGED manager

\* free, on whatever CPU the caller runs: a small region goes to that CPU's
\* list with the size it was asked for, a large one back to the manager.
CpuFree(c, x) ==
    /\ held[x].via = "cpu"
    /\ \/ /\ held[x].size <= SmallMax
          /\ small_free_list' =
               [small_free_list EXCEPT ![c] = Append(@, Region(held[x].addr, held[x].size))]
          /\ UNCHANGED heapVars
       \/ /\ held[x].size > SmallMax
          /\ GlobalFree(held[x])
          /\ UNCHANGED small_free_list
    /\ held' = [held EXCEPT ![x] = Nothing]
    /\ UNCHANGED manager

-----------------------------------------------------------------------------
CallerAllocates(x) ==
    /\ held[x] = Nothing
    /\ \E layout \in Layout :
         \/ DirectAlloc(x, layout)
         \/ ManagerAllocate(x, layout)
         \/ \E c \in Cpus : CpuAllocateLocal(c, x, layout) \/ CpuAllocateGlobal(c, x, layout)

CallerFrees(x) ==
    DirectDealloc(x) \/ ManagerFree(x) \/ \E c \in Cpus : CpuFree(c, x)

MemoryNext ==
    \/ InitFlag \/ InitManager
    \/ \E x \in Callers : CallerAllocates(x) \/ CallerFrees(x)

MemorySpec == MemoryInit /\ [][MemoryNext]_memoryVars

-----------------------------------------------------------------------------
(* Properties *)

\* Type invariant: every list holds regions of the heap, every held region is one.
MemoryTypeOK ==
    /\ HeapTypeOK
    /\ manager \in {"absent", "flagged", "ready"}
    /\ small_free_list \in [Cpus -> Seq([addr : 0..(HeapSize - 1), size : Sizes])]
    /\ held \in [Callers -> {Nothing} \cup
                 [addr : 0..(HeapSize - 1), size : Sizes, align : Aligns,
                  via : {"heap", "manager", "cpu"}]]

Used(r) == Run(r.addr, r.size)

\* Every region a caller holds, and every region on a local list, lies inside a
\* block the heap has handed out and not got back, although free rebuilds the
\* layout of a block and local lists cut blocks down to the size last asked for.
Backed ==
    /\ \A x \in Callers : \/ held[x] = Nothing
                          \/ \E b \in live : Used(held[x]) \subseteq Extent(b)
    /\ \A c \in Cpus : \A k \in DOMAIN small_free_list[c] :
         \E b \in live : Used(small_free_list[c][k]) \subseteq Extent(b)

\* All interfaces together implement the abstract heap: the regions of two callers
\* never overlap, whichever allocator, manager or CPU each was taken from and
\* whichever CPU earlier ones were given back to.
AbstractMemory == INSTANCE AbstractHeap WITH
    region <- [x \in Callers |-> Region(held[x].addr, held[x].size)]

ImplementsMemory == AbstractMemory!Spec
=============================================================================
