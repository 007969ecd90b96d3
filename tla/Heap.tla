-------------------------------- MODULE Heap --------------------------------
(***************************************************************************)
(* The global allocator: FixedSizeBlockAllocator of                        *)
(* src/src/allocator/fixed_size_block.rs over the fallback allocator of    *)
(* the linked_list_allocator crate, which is external: it hands out any    *)
(* aligned run of bytes it has and takes back what it is given.            *)
(*                                                                         *)
(* alloc and dealloc hold the allocator's lock for their whole body.  An   *)
(* alloc that returns null is no step.  Addresses count from the start of  *)
(* the heap, which is aligned for every block size.                        *)
(***************************************************************************)
EXTENDS Integers, Sequences, FiniteSets

CONSTANTS
    HeapSize,       \* HEAP_SIZE (100 KiB in the code)
    BlockSizes,     \* BLOCK_SIZES, increasing powers of two (8 to 2048)
    Sizes,          \* sizes callers ask for
    Aligns          \* alignments callers ask for

ASSUME HeapAssumption ==
    /\ HeapSize \in Nat
    /\ BlockSizes \in Seq(Nat \ {0})
    /\ \A i, j \in DOMAIN BlockSizes : i < j => BlockSizes[i] < BlockSizes[j]
    /\ Sizes \subseteq Nat \ {0}
    /\ Aligns \subseteq Nat \ {0}

\* Block sizes and alignments are powers of two, so the smaller divides the larger.
ASSUME PowersOfTwo ==
    \A i \in DOMAIN BlockSizes :
        /\ \A j \in DOMAIN BlockSizes : i < j => BlockSizes[j] % BlockSizes[i] = 0
        /\ \A a \in Aligns : a <= BlockSizes[i] => BlockSizes[i] % a = 0

VARIABLES
    list_heads,     \* the free list of every block size, as addresses, head first
    fallback,       \* the bytes fallback_allocator has
    live            \* blocks handed out, with the layout they were asked for

heapVars == <<list_heads, fallback, live>>

\* An alignment above all block sizes comes with a size above them: the size of a
\* Rust type is a multiple of its alignment, and those who pass sizes and
\* alignments of their own keep to it.
Layout ==
    {l \in [size : Sizes, align : Aligns] :
        \/ \E i \in DOMAIN BlockSizes : l.align <= BlockSizes[i]
        \/ \A i \in DOMAIN BlockSizes : l.size > BlockSizes[i]}

Run(addr, size) == addr .. (addr + size - 1)

-----------------------------------------------------------------------------
Required(layout) == IF layout.size >= layout.align THEN layout.size ELSE layout.align

Fitting(layout) == {i \in DOMAIN BlockSizes : BlockSizes[i] >= Required(layout)}

\* list_index, as the set of the one index it returns, or the empty set.
ListIndex(layout) ==
    LET fitting == Fitting(layout) IN {i \in fitting : \A j \in fitting : i <= j}

\* What the allocator sets aside for a layout.
Capacity(layout) ==
    IF ListIndex(layout) = {} THEN layout.size
    ELSE BlockSizes[CHOOSE i \in ListIndex(layout) : TRUE]

\* allocate_first_fit: some aligned run of free bytes.
FallbackRuns(size, align) ==
    {addr \in 0..(HeapSize - 1) : addr % align = 0 /\ Run(addr, size) \subseteq fallback}

Block(addr, layout) == [addr |-> addr, size |-> layout.size, align |-> layout.align]

-----------------------------------------------------------------------------
HeapInit ==
    /\ list_heads = [i \in DOMAIN BlockSizes |-> <<>>]
    /\ fallback = 0..(HeapSize - 1)
    /\ live = {}

\* Variant: the block is handed out but stays on its list.
AllocFromListKeep(addr, layout) ==
    \E i \in ListIndex(layout) :
        /\ list_heads[i] # <<>>
        /\ addr = Head(list_heads[i])
        /\ live' = live \cup {Block(addr, layout)}
        /\ UNCHANGED <<list_heads, fallback>>

\* alloc, the list of the size has a block.
AllocFromList(addr, layout) ==
    \E i \in ListIndex(layout) :
        /\ list_heads[i] # <<>>
        /\ addr = Head(list_heads[i])
        /\ list_heads' = [list_heads EXCEPT ![i] = Tail(@)]
        /\ live' = live \cup {Block(addr, layout)}
        /\ UNCHANGED fallback

\* alloc, the list is empty: a new block of the full block size, aligned to it.
AllocNewBlock(addr, layout) ==
    \E i \in ListIndex(layout) :
        /\ list_heads[i] = <<>>
        /\ addr \in FallbackRuns(BlockSizes[i], BlockSizes[i])
        /\ fallback' = fallback \ Run(addr, BlockSizes[i])
        /\ live' = live \cup {Block(addr, layout)}
        /\ UNCHANGED list_heads

\* alloc, the layout fits no block.
AllocFallback(addr, layout) ==
    /\ ListIndex(layout) = {}
    /\ addr \in FallbackRuns(layout.size, layout.align)
    /\ fallback' = fallback \ Run(addr, layout.size)
    /\ live' = live \cup {Block(addr, layout)}
    /\ UNCHANGED list_heads

Alloc(addr, layout) ==
    AllocFromList(addr, layout) \/ AllocNewBlock(addr, layout) \/ AllocFallback(addr, layout)

\* Variant: one byte too many goes back to the fallback allocator.
DeallocOneMore(b, layout) ==
    /\ live' = live \ {b}
    /\ IF ListIndex(layout) = {}
       THEN /\ fallback' = fallback \cup Run(b.addr, layout.size + 1)
            /\ UNCHANGED list_heads
       ELSE /\ list_heads' = [i \in DOMAIN BlockSizes |->
                                IF i \in ListIndex(layout)
                                THEN <<b.addr>> \o list_heads[i] ELSE list_heads[i]]
            /\ UNCHANGED fallback

\* dealloc of block b under the layout the caller passes: the block becomes the
\* head of the list of that layout, or goes back to the fallback allocator.
Dealloc(b, layout) ==
    /\ live' = live \ {b}
    /\ IF ListIndex(layout) = {}
       THEN /\ fallback' = fallback \cup Run(b.addr, layout.size)
            /\ UNCHANGED list_heads
       ELSE /\ list_heads' = [i \in DOMAIN BlockSizes |->
                                IF i \in ListIndex(layout)
                                THEN <<b.addr>> \o list_heads[i] ELSE list_heads[i]]
            /\ UNCHANGED fallback

-----------------------------------------------------------------------------
(* Properties *)

\* Type invariant: lists of heap addresses, a set of heap bytes, a set of blocks.
HeapTypeOK ==
    /\ list_heads \in [DOMAIN BlockSizes -> Seq(0..(HeapSize - 1))]
    /\ fallback \subseteq 0..(HeapSize - 1)
    /\ live \subseteq [addr : 0..(HeapSize - 1), size : Sizes, align : Aligns]

\* What the allocator has set aside for block b.
Extent(b) == Run(b.addr, Capacity([size |-> b.size, align |-> b.align]))

\* The blocks set aside for callers, the blocks on the lists and the fallback
\* allocator's memory have no byte in common.
BlocksDisjoint ==
    /\ \A b \in live :
         /\ Extent(b) \cap fallback = {}
         /\ \A c \in live : b # c => Extent(b) \cap Extent(c) = {}
    /\ \A i \in DOMAIN BlockSizes : \A k \in DOMAIN list_heads[i] :
         LET block == Run(list_heads[i][k], BlockSizes[i])
         IN  /\ block \cap fallback = {}
             /\ \A b \in live : block \cap Extent(b) = {}
             /\ \A j \in DOMAIN BlockSizes : \A m \in DOMAIN list_heads[j] :
                  <<i, k>> # <<j, m>> => block \cap Run(list_heads[j][m], BlockSizes[j]) = {}

\* A block reused from a list was cut for a class at least as large as the
\* alignment asked for, and classes are powers of two.
LiveAligned == \A b \in live : b.addr % b.align = 0

\* Every byte of the heap has one owner and every block is aligned as its caller
\* asked, whatever classes a block moves through between alloc and dealloc.
HeapSound == BlocksDisjoint /\ LiveAligned
=============================================================================
