--------------------------- MODULE Memory_proofs ----------------------------
(***************************************************************************)
(* Proofs about Memory, for every heap, every set of callers and CPUs and  *)
(* every layout: the heap stays sound under all interfaces together, and   *)
(* they implement the abstract heap.                                       *)
(***************************************************************************)
EXTENDS Memory, Heap_proofs

(* The layouts blocks come back under *)

\* dealloc with the layout of alloc.
LEMMA OwnLayout == ASSUME HeapOK, NEW b \in live PROVE Returnable(b, LayoutOf(b))
<1>1. ASSUME NEW i \in ListIndex(LayoutOf(b)) PROVE i <= i
  BY ListIndexFacts, ClassFacts
<1>2. LayoutOf(b).size = b.size
  BY DEF LayoutOf
<1> QED
  BY <1>1, <1>2 DEF Returnable

\* free rebuilds the layout with an alignment no class is below: the class can
\* only get smaller, and what fitted no class by its size still fits none.
LEMMA RebuiltLayout ==
    ASSUME HeapOK, NEW b \in live
    PROVE  Returnable(b, [size |-> b.size, align |-> FreeAlign])
<1> DEFINE l == LayoutOf(b)
           m == [size |-> b.size, align |-> FreeAlign]
<1>1. l \in Layout /\ l.size = b.size /\ m.size = b.size /\ m.align = FreeAlign
  BY DEF HeapOK, Placed, LayoutOf
<1> HIDE DEF l, m
<1>2. /\ l.size \in Nat /\ FreeAlign \in Nat
      /\ Required(l) \in Nat /\ l.size <= Required(l)
      /\ \A i \in DOMAIN BlockSizes : FreeAlign <= BlockSizes[i]
  BY <1>1, LayoutFacts, MemoryAssumption
<1>3. Required(m) \in {b.size, FreeAlign} /\ b.size <= Required(m)
  BY <1>1, <1>2 DEF Required
<1>4. CASE ListIndex(l) = {}
  <2>1. \A i \in DOMAIN BlockSizes : BlockSizes[i] \in Nat /\ l.size > BlockSizes[i]
    BY <1>1, <1>4, CapacityCovers, ClassFacts
  <2>2. \A i \in DOMAIN BlockSizes : ~(BlockSizes[i] >= Required(m))
    BY <1>1, <1>2, <1>3, <2>1
  <2>3. ListIndex(m) = {}
    BY <2>2, ListIndexFacts DEF Fitting
  <2> QED
    BY <1>1, <1>4, <2>3 DEF Returnable, l, m
<1>5. ASSUME NEW i \in ListIndex(l) PROVE \E j \in ListIndex(m) : j <= i
  <2>1. i \in DOMAIN BlockSizes /\ BlockSizes[i] >= Required(l) /\ BlockSizes[i] \in Nat
    BY ListIndexFacts, ClassFacts DEF Fitting
  <2>2. i \in Fitting(m)
    BY <1>1, <1>2, <1>3, <2>1 DEF Fitting
  <2> QED
    BY <2>2, ListIndexFacts
<1> QED
  BY <1>4, <1>5 DEF Returnable, l, m

-----------------------------------------------------------------------------
(* The inductive invariant *)

Owned(r, b) == b.addr = r.addr /\ r.size <= b.size

\* The block behind the region caller x holds.  One that goes back to the heap must
\* have kept its size, and for dealloc its alignment too.
HeldBlock(x, b) ==
    /\ Owned(held[x], b)
    /\ held[x].via = "heap" => b = Block(held[x].addr, held[x])
    /\ held[x].via = "manager" \/ held[x].size > SmallMax => b.size = held[x].size

\* Every region held or on a local list has a live block at its address, and no two
\* of them share it.
RegionsOwned ==
    /\ \A x \in Callers : held[x] # Nothing => \E b \in live : HeldBlock(x, b)
    /\ \A x, y \in Callers :
         x # y /\ held[x] # Nothing /\ held[y] # Nothing => held[x].addr # held[y].addr
    /\ \A c \in Cpus : \A k \in DOMAIN small_free_list[c] :
         \E b \in live : Owned(small_free_list[c][k], b)
    /\ \A c \in Cpus : \A k \in DOMAIN small_free_list[c] : \A x \in Callers :
         held[x] # Nothing => small_free_list[c][k].addr # held[x].addr
    /\ \A c \in Cpus : \A k \in DOMAIN small_free_list[c] :
       \A d \in Cpus : \A m \in DOMAIN small_free_list[d] :
         <<c, k>> # <<d, m>> => small_free_list[c][k].addr # small_free_list[d][m].addr

IInv == MemoryTypeOK /\ HeapOK /\ RegionsOwned

\* What a held region looks like.
LEMMA HeldFacts ==
    ASSUME MemoryTypeOK, NEW x \in Callers
    PROVE  /\ held[x] # Nothing <=> held[x].via # "none"
           /\ held[x] # Nothing =>
                /\ held[x] \in [addr : 0..(HeapSize - 1), size : Sizes, align : Aligns,
                                via : {"heap", "manager", "cpu"}]
                /\ held[x].addr \in Nat /\ held[x].size \in Nat /\ held[x].size # 0
<1>1. held[x] \in {Nothing} \cup [addr : 0..(HeapSize - 1), size : Sizes, align : Aligns,
                                  via : {"heap", "manager", "cpu"}]
  BY DEF MemoryTypeOK
<1>2. Nothing.via = "none"
  BY DEF Nothing
<1>3. ASSUME held[x] \in [addr : 0..(HeapSize - 1), size : Sizes, align : Aligns,
                          via : {"heap", "manager", "cpu"}]
      PROVE  /\ held[x].via # "none" /\ held[x].addr \in Nat
             /\ held[x].size \in Nat /\ held[x].size # 0
  <2>1. held[x].via \in {"heap", "manager", "cpu"}
    BY <1>3
  <2>2. held[x].addr \in 0..(HeapSize - 1) /\ held[x].size \in Sizes
    BY <1>3
  <2>3. held[x].via # "none"
    BY <2>1
  <2>4. held[x].addr \in Nat
    BY <2>2
  <2>5. held[x].size \in Nat /\ held[x].size # 0
    BY <2>2, HeapAssumption
  <2> QED
    BY <2>3, <2>4, <2>5
<1> QED
  BY <1>1, <1>2, <1>3

\* A region inside its block lies in the bytes set aside for the block.
LEMMA OwnedInside ==
    ASSUME HeapOK, NEW r, r.size \in Nat, NEW b \in live, Owned(r, b)
    PROVE  Used(r) \subseteq Extent(b)
<1>1. r.addr = b.addr /\ r.size <= b.size
  BY DEF Owned
<1>2. b.addr \in Nat /\ b.size \in Nat \ {0} /\ Run(b.addr, b.size) \subseteq Extent(b)
  BY LiveFacts
<1>3. Run(b.addr, r.size) \subseteq Run(b.addr, b.size)
  BY <1>1, <1>2, RunFacts
<1> QED
  BY <1>1, <1>2, <1>3 DEF Used

\* The regions of callers lie in the heap, and two share no byte: they lie in
\* different live blocks.
RegionsApart ==
    \A x \in Callers : held[x] # Nothing =>
        /\ held[x].addr \in Nat /\ held[x].size \in Sizes /\ held[x].size \in Nat
        /\ Used(held[x]) # {} /\ Used(held[x]) \subseteq 0..(HeapSize - 1)
        /\ \A y \in Callers : y # x /\ held[y] # Nothing =>
              Used(held[x]) \cap Used(held[y]) = {}

\* The invariant says so.
LEMMA IInvApart == IInv => RegionsApart
<1> SUFFICES ASSUME IInv PROVE RegionsApart
  OBVIOUS
<1>1. ASSUME NEW x \in Callers, held[x] # Nothing
      PROVE  /\ held[x].addr \in Nat /\ held[x].size \in Sizes
             /\ held[x].size \in Nat /\ held[x].size # 0
  BY <1>1, HeldFacts DEF IInv
<1>2. ASSUME NEW x \in Callers, held[x] # Nothing
      PROVE  \E b \in live : Owned(held[x], b) /\ Used(held[x]) \subseteq Extent(b)
  BY <1>1, <1>2, OwnedInside DEF IInv, RegionsOwned, HeldBlock
<1>3. ASSUME NEW x \in Callers, held[x] # Nothing
      PROVE  Used(held[x]) # {} /\ Used(held[x]) \subseteq 0..(HeapSize - 1)
  <2>1. held[x].addr \in Used(held[x])
    BY <1>1, <1>3 DEF Used, Run
  <2>2. \A b \in live : Extent(b) \subseteq 0..(HeapSize - 1)
    BY DEF IInv, HeapOK, Placed
  <2> QED
    BY <1>2, <1>3, <2>1, <2>2
<1>4. ASSUME NEW x \in Callers, NEW y \in Callers, x # y,
             held[x] # Nothing, held[y] # Nothing
      PROVE  Used(held[x]) \cap Used(held[y]) = {}
  <2>1. PICK b \in live : Owned(held[x], b) /\ Used(held[x]) \subseteq Extent(b)
    BY <1>2, <1>4
  <2>2. PICK c \in live : Owned(held[y], c) /\ Used(held[y]) \subseteq Extent(c)
    BY <1>2, <1>4
  <2>3. b # c
    BY <1>4, <2>1, <2>2 DEF IInv, RegionsOwned, Owned
  <2>4. Extent(b) \cap Extent(c) = {}
    BY <2>3, DisjointCases DEF IInv, HeapOK
  <2> QED
    BY <2>1, <2>2, <2>4
<1> QED
  BY <1>1, <1>3, <1>4 DEF RegionsApart

-----------------------------------------------------------------------------
(* The operations *)

\* Every interface that takes a new block from the heap.
LEMMA TakeBlock ==
    ASSUME IInv, NEW x \in Callers, held[x] = Nothing, NEW layout \in Layout,
           NEW addr \in 0..(HeapSize - 1), NEW by \in {"heap", "manager", "cpu"},
           Alloc(addr, layout), held' = [held EXCEPT ![x] = Held(addr, layout, by)],
           UNCHANGED <<manager, small_free_list>>
    PROVE  IInv'
<1> DEFINE n == Block(addr, layout)
           r == Held(addr, layout, by)
<1>1. HeapOK' /\ live' = live \cup {n} /\ Fresh(n)
  BY AllocOK DEF IInv, Allocated
<1>2. /\ r \in [addr : 0..(HeapSize - 1), size : Sizes, align : Aligns,
                via : {"heap", "manager", "cpu"}]
      /\ r.addr = addr /\ r.size = layout.size /\ r.via = by
      /\ n.addr = addr /\ n.size = layout.size /\ n = Block(r.addr, r)
  BY LayoutFacts DEF Held, Block
<1>3. addr \in Extent(n)
  <2>1. Capacity(layout) \in Nat \ {0}
    BY LayoutFacts, CapacityCovers
  <2>2. addr \in Nat /\ 0 \in Nat /\ 0 <= Capacity(layout)
    BY <2>1
  <2>3. addr \in Run(addr, Capacity(layout))
    BY <2>1, <2>2, RunFacts
  <2> QED
    BY <2>3, NewExtent
<1>4. \A b \in live : b.addr # addr
  <2> SUFFICES ASSUME NEW b \in live, b.addr = addr PROVE FALSE
    OBVIOUS
  <2>1. b.addr \in Extent(b)
    BY LiveFacts DEF IInv
  <2> QED
    BY <1>1, <1>3, <2>1 DEF Fresh
<1> HIDE DEF n, r
<1>5. /\ held'[x] = r /\ \A y \in Callers : y # x => held'[y] = held[y]
      /\ held' \in [Callers -> {Nothing} \cup
                     [addr : 0..(HeapSize - 1), size : Sizes, align : Aligns,
                      via : {"heap", "manager", "cpu"}]]
  BY <1>2 DEF IInv, MemoryTypeOK, r
<1>6. MemoryTypeOK'
  BY <1>1, <1>5 DEF IInv, MemoryTypeOK, HeapOK
<1>7. ASSUME NEW y \in Callers, held'[y] # Nothing
      PROVE  \E b \in live' : HeldBlock(y, b)'
  <2>1. CASE y = x
    <3>1. n.size \in Nat
      BY <1>2, LayoutFacts
    <3>2. HeldBlock(y, n)'
      BY <1>2, <1>5, <2>1, <3>1 DEF HeldBlock, Owned
    <3> QED
      BY <1>1, <3>2
  <2>2. CASE y # x
    <3>1. held'[y] = held[y]
      BY <1>5, <2>2
    <3>2. PICK b \in live : HeldBlock(y, b)
      BY <1>7, <3>1 DEF IInv, RegionsOwned
    <3>3. HeldBlock(y, b)'
      BY <3>1, <3>2 DEF HeldBlock
    <3> QED
      BY <1>1, <3>2, <3>3
  <2> QED
    BY <2>1, <2>2
<1>8. \A y \in Callers : y # x /\ held[y] # Nothing => held[y].addr # addr
  BY <1>4 DEF IInv, RegionsOwned, HeldBlock, Owned
<1>9. \A c \in Cpus : \A k \in DOMAIN small_free_list[c] : small_free_list[c][k].addr # addr
  BY <1>4 DEF IInv, RegionsOwned, Owned
<1>10. RegionsOwned'
  <2>1. \A y, z \in Callers :
           y # z /\ held'[y] # Nothing /\ held'[z] # Nothing => held'[y].addr # held'[z].addr
    BY <1>2, <1>5, <1>8 DEF IInv, RegionsOwned
  <2>2. \A c \in Cpus : \A k \in DOMAIN small_free_list[c] :
           \E b \in live' : Owned(small_free_list[c][k], b)
    BY <1>1 DEF IInv, RegionsOwned
  <2>3. \A c \in Cpus : \A k \in DOMAIN small_free_list[c] : \A y \in Callers :
           held'[y] # Nothing => small_free_list[c][k].addr # held'[y].addr
    BY <1>2, <1>5, <1>9 DEF IInv, RegionsOwned
  <2> QED
    BY <1>7, <2>1, <2>2, <2>3 DEF IInv, RegionsOwned
<1> QED
  BY <1>1, <1>6, <1>10 DEF IInv

\* Every interface that gives the block of caller x back to the heap.
LEMMA ReturnBlock ==
    ASSUME IInv, NEW x \in Callers, held[x] # Nothing, NEW b \in live,
           b.addr = held[x].addr, NEW layout, Returnable(b, layout), Dealloc(b, layout),
           held' = [held EXCEPT ![x] = Nothing], UNCHANGED <<manager, small_free_list>>
    PROVE  IInv'
<1>1. HeapOK' /\ live' = live \ {b}
  BY DeallocOK DEF IInv
<1>2. /\ held'[x] = Nothing /\ \A y \in Callers : y # x => held'[y] = held[y]
      /\ held' \in [Callers -> {Nothing} \cup
                     [addr : 0..(HeapSize - 1), size : Sizes, align : Aligns,
                      via : {"heap", "manager", "cpu"}]]
  BY DEF IInv, MemoryTypeOK
<1>3. MemoryTypeOK'
  BY <1>1, <1>2 DEF IInv, MemoryTypeOK, HeapOK
<1>4. ASSUME NEW y \in Callers, held'[y] # Nothing
      PROVE  \E d \in live' : HeldBlock(y, d)'
  <2>1. y # x /\ held'[y] = held[y]
    BY <1>2, <1>4
  <2>2. PICK d \in live : HeldBlock(y, d)
    BY <1>4, <2>1 DEF IInv, RegionsOwned
  <2>3. d # b
    BY <1>4, <2>1, <2>2 DEF IInv, RegionsOwned, HeldBlock, Owned
  <2>4. HeldBlock(y, d)'
    BY <2>1, <2>2 DEF HeldBlock
  <2> QED
    BY <1>1, <2>2, <2>3, <2>4
<1>5. ASSUME NEW c \in Cpus, NEW k \in DOMAIN small_free_list[c]
      PROVE  \E d \in live' : Owned(small_free_list[c][k], d)
  <2>1. PICK d \in live : Owned(small_free_list[c][k], d)
    BY DEF IInv, RegionsOwned
  <2>2. d # b
    BY <2>1 DEF IInv, RegionsOwned, Owned
  <2> QED
    BY <1>1, <2>1, <2>2
<1>6. RegionsOwned'
  BY <1>2, <1>4, <1>5 DEF IInv, RegionsOwned
<1> QED
  BY <1>1, <1>3, <1>6 DEF IInv

\* swap_remove fills the gap with the last element: what is left are the other
\* elements, each once.
SwapPosition(s, k, i) == IF i = k THEN Len(s) ELSE i

\* The positions that swap_remove leaves, and what they hold.
LEMMA SwapRemoveFacts ==
    ASSUME NEW S, NEW s \in Seq(S), NEW k \in DOMAIN s
    PROVE  /\ SwapRemove(s, k) \in Seq(S)
           /\ \A i \in DOMAIN SwapRemove(s, k) :
                /\ SwapPosition(s, k, i) \in DOMAIN s /\ SwapPosition(s, k, i) # k
                /\ SwapRemove(s, k)[i] = s[SwapPosition(s, k, i)]
                /\ \A j \in DOMAIN SwapRemove(s, k) :
                     SwapPosition(s, k, i) = SwapPosition(s, k, j) => i = j
<1> DEFINE t == SwapRemove(s, k)
           n == Len(s) - 1
<1>1. Len(s) \in Nat /\ DOMAIN s = 1..Len(s) /\ \A i \in 1..Len(s) : s[i] \in S
  BY LenProperties, ElementOfSeq
<1>2. n \in Nat /\ k \in 1..Len(s)
  BY <1>1
<1>3. t = [i \in 1..n |-> IF i = k THEN s[Len(s)] ELSE s[i]]
  BY DEF SwapRemove
<1>4. t \in [1..n -> S]
  BY <1>1, <1>2, <1>3
<1>5. t \in Seq(S) /\ DOMAIN t = 1..n
  BY <1>2, <1>4, IsASeq, LenProperties
<1>6. ASSUME NEW i \in 1..n
      PROVE  /\ SwapPosition(s, k, i) \in 1..Len(s) /\ SwapPosition(s, k, i) # k
             /\ t[i] = s[SwapPosition(s, k, i)]
             /\ \A j \in 1..n : SwapPosition(s, k, i) = SwapPosition(s, k, j) => i = j
  BY <1>1, <1>2, <1>3 DEF SwapPosition
<1> QED
  BY <1>1, <1>5, <1>6

\* allocate with a region of the local list: the region changes its owner.
LEMMA TakeLocal ==
    ASSUME IInv, NEW x \in Callers, held[x] = Nothing, NEW layout \in Layout,
           NEW c \in Cpus, CpuAllocateLocal(c, x, layout)
    PROVE  IInv'
<1>1. PICK k \in Suitable(c, layout.size) :
        /\ manager = "ready" /\ layout.size <= SmallMax
        /\ small_free_list' = [small_free_list EXCEPT ![c] = SwapRemove(@, k)]
        /\ held' = [held EXCEPT ![x] = Held(small_free_list[c][k].addr, layout, "cpu")]
        /\ UNCHANGED <<heapVars, manager>>
  BY DEF CpuAllocateLocal
<1> DEFINE R == [addr : 0..(HeapSize - 1), size : Sizes]
           s == small_free_list[c]
           g == s[k]
           r == Held(g.addr, layout, "cpu")
           p(d, i) == IF d = c THEN SwapPosition(s, k, i) ELSE i
<1>2. /\ s \in Seq(R) /\ k \in DOMAIN s /\ g.size >= layout.size
      /\ small_free_list \in [Cpus -> Seq(R)]
  BY DEF IInv, MemoryTypeOK, Suitable
<1>3. /\ g \in R /\ g.addr \in 0..(HeapSize - 1) /\ g.size \in Nat
  <2>1. k \in 1..Len(s)
    BY <1>2, LenProperties
  <2>2. g \in R
    BY <1>2, <2>1, ElementOfSeq
  <2>3. g.addr \in 0..(HeapSize - 1) /\ g.size \in Sizes
    BY <2>2
  <2> QED
    BY <2>2, <2>3, HeapAssumption
<1>4. /\ r \in [addr : 0..(HeapSize - 1), size : Sizes, align : Aligns,
                via : {"heap", "manager", "cpu"}]
      /\ r.addr = g.addr /\ r.size = layout.size /\ r.via = "cpu"
  BY <1>3, LayoutFacts DEF Held
<1>5. /\ small_free_list' \in [Cpus -> Seq(R)]
      /\ \A d \in Cpus : \A i \in DOMAIN small_free_list'[d] :
           /\ p(d, i) \in DOMAIN small_free_list[d]
           /\ <<d, p(d, i)>> # <<c, k>>
           /\ small_free_list'[d][i] = small_free_list[d][p(d, i)]
           /\ \A m \in DOMAIN small_free_list'[d] : p(d, i) = p(d, m) => i = m
  <2>1. small_free_list'[c] = SwapRemove(s, k)
        /\ \A d \in Cpus : d # c => small_free_list'[d] = small_free_list[d]
    BY <1>1, <1>2
  <2>2. small_free_list' \in [Cpus -> Seq(R)]
    BY <1>1, <1>2, SwapRemoveFacts
  <2>3. ASSUME NEW d \in Cpus, NEW i \in DOMAIN small_free_list'[d]
        PROVE  /\ p(d, i) \in DOMAIN small_free_list[d]
               /\ <<d, p(d, i)>> # <<c, k>>
               /\ small_free_list'[d][i] = small_free_list[d][p(d, i)]
               /\ \A m \in DOMAIN small_free_list'[d] : p(d, i) = p(d, m) => i = m
    <3>1. CASE d = c
      BY <1>2, <2>1, <3>1, SwapRemoveFacts
    <3>2. CASE d # c
      BY <2>1, <3>2
    <3> QED
      BY <3>1, <3>2
  <2> QED
    BY <2>2, <2>3
<1> HIDE DEF r, s, g, p
<1>6. g = small_free_list[c][k] /\ k \in DOMAIN small_free_list[c]
  BY <1>2 DEF g, s
<1>7. /\ held'[x] = r /\ \A y \in Callers : y # x => held'[y] = held[y]
      /\ held' \in [Callers -> {Nothing} \cup
                     [addr : 0..(HeapSize - 1), size : Sizes, align : Aligns,
                      via : {"heap", "manager", "cpu"}]]
  BY <1>1, <1>4 DEF IInv, MemoryTypeOK, r, g, s
<1>8. HeapTypeOK' /\ HeapOK' /\ live' = live /\ manager' = manager
  BY <1>1 DEF IInv, HeapOK, HeapTypeOK, BlocksDisjoint, Placed, OnList, heapVars
<1>9. MemoryTypeOK'
  BY <1>5, <1>7, <1>8 DEF IInv, MemoryTypeOK
<1>10. ASSUME NEW y \in Callers, held'[y] # Nothing
       PROVE  \E b \in live' : HeldBlock(y, b)'
  <2>1. CASE y = x
    <3>1. PICK b \in live : Owned(g, b)
      BY <1>6 DEF IInv, RegionsOwned
    <3>2. layout.size \in Nat /\ b.size \in Nat /\ SmallMax \in Nat
      BY LayoutFacts, LiveFacts, MemoryAssumption DEF IInv
    <3>3. layout.size <= b.size /\ ~(layout.size > SmallMax) /\ b.addr = g.addr
      BY <1>1, <1>2, <1>3, <3>1, <3>2 DEF Owned, g, s
    <3>4. HeldBlock(y, b)'
      BY <1>4, <1>7, <2>1, <3>3 DEF HeldBlock, Owned
    <3> QED
      BY <1>8, <3>1, <3>4
  <2>2. CASE y # x
    BY <1>7, <1>8, <1>10, <2>2 DEF IInv, RegionsOwned, HeldBlock
  <2> QED
    BY <2>1, <2>2
<1>11. \A y, z \in Callers :
          y # z /\ held'[y] # Nothing /\ held'[z] # Nothing => held'[y].addr # held'[z].addr
  <2>1. \A y \in Callers : held[y] # Nothing => held[y].addr # g.addr
    BY <1>6 DEF IInv, RegionsOwned
  <2> QED
    BY <1>4, <1>7, <2>1 DEF IInv, RegionsOwned
<1>12. ASSUME NEW d \in Cpus, NEW i \in DOMAIN small_free_list'[d]
       PROVE  /\ \E b \in live' : Owned(small_free_list'[d][i], b)
              /\ \A y \in Callers : held'[y] # Nothing =>
                   small_free_list'[d][i].addr # held'[y].addr
              /\ \A e \in Cpus : \A m \in DOMAIN small_free_list'[e] :
                   <<d, i>> # <<e, m>> =>
                      small_free_list'[d][i].addr # small_free_list'[e][m].addr
  <2> DEFINE q == p(d, i)
  <2>1. /\ q \in DOMAIN small_free_list[d] /\ <<d, q>> # <<c, k>>
        /\ small_free_list'[d][i] = small_free_list[d][q]
    BY <1>5
  <2> HIDE DEF q
  <2>2. \E b \in live' : Owned(small_free_list'[d][i], b)
    BY <1>8, <2>1 DEF IInv, RegionsOwned
  <2>3. small_free_list[d][q].addr # g.addr
    BY <1>6, <2>1 DEF IInv, RegionsOwned
  <2>4. \A y \in Callers : held'[y] # Nothing => small_free_list'[d][i].addr # held'[y].addr
    BY <1>4, <1>7, <2>1, <2>3 DEF IInv, RegionsOwned
  <2>5. ASSUME NEW e \in Cpus, NEW m \in DOMAIN small_free_list'[e], <<d, i>> # <<e, m>>
        PROVE  small_free_list'[d][i].addr # small_free_list'[e][m].addr
    <3>1. <<d, q>> # <<e, p(e, m)>>
      BY <1>5, <2>5 DEF q
    <3> QED
      BY <1>5, <2>1, <3>1 DEF IInv, RegionsOwned
  <2> QED
    BY <2>2, <2>4, <2>5
<1>13. RegionsOwned'
  BY <1>10, <1>11, <1>12 DEF RegionsOwned
<1> QED
  BY <1>8, <1>9, <1>13 DEF IInv

\* free of a small region: it goes to the list of the CPU, its block stays live.
LEMMA GiveLocal ==
    ASSUME IInv, NEW x \in Callers, held[x] # Nothing, NEW c \in Cpus,
           small_free_list' =
             [small_free_list EXCEPT ![c] = Append(@, Region(held[x].addr, held[x].size))],
           held' = [held EXCEPT ![x] = Nothing], UNCHANGED <<heapVars, manager>>
    PROVE  IInv'
<1> DEFINE R == [addr : 0..(HeapSize - 1), size : Sizes]
           s == small_free_list[c]
           g == Region(held[x].addr, held[x].size)
           n == Len(s) + 1
<1>1. g \in R /\ g.addr = held[x].addr /\ g.size = held[x].size
  BY HeldFacts DEF IInv, Region
<1>2. s \in Seq(R) /\ small_free_list \in [Cpus -> Seq(R)]
  BY DEF IInv, MemoryTypeOK
<1> HIDE DEF g
<1>3. /\ Append(s, g) \in Seq(R) /\ DOMAIN Append(s, g) = DOMAIN s \cup {n}
      /\ n \notin DOMAIN s
      /\ Append(s, g)[n] = g /\ \A i \in DOMAIN s : Append(s, g)[i] = s[i]
  <2>1. Len(s) \in Nat /\ DOMAIN s = 1..Len(s)
    BY <1>2, LenProperties
  <2>2. /\ Append(s, g) \in Seq(R) /\ Len(Append(s, g)) = Len(s) + 1
        /\ Append(s, g)[Len(s) + 1] = g
        /\ \A i \in 1..Len(s) : Append(s, g)[i] = s[i]
    BY <1>1, <1>2, AppendProperties
  <2>3. DOMAIN Append(s, g) = 1..(Len(s) + 1)
    BY <2>2, LenProperties
  <2> QED
    BY <2>1, <2>2, <2>3
<1> HIDE DEF n
<1>4. /\ small_free_list' \in [Cpus -> Seq(R)]
      /\ small_free_list'[c] = Append(s, g)
      /\ \A d \in Cpus : d # c => small_free_list'[d] = small_free_list[d]
  BY <1>2, <1>3 DEF g
<1>5. ASSUME NEW d \in Cpus, NEW i \in DOMAIN small_free_list'[d], <<d, i>> # <<c, n>>
      PROVE  i \in DOMAIN small_free_list[d] /\ small_free_list'[d][i] = small_free_list[d][i]
  BY <1>3, <1>4, <1>5
<1>6. small_free_list'[c][n] = g
  BY <1>3, <1>4
<1>7. /\ held'[x] = Nothing /\ \A y \in Callers : y # x => held'[y] = held[y]
      /\ held' \in [Callers -> {Nothing} \cup
                     [addr : 0..(HeapSize - 1), size : Sizes, align : Aligns,
                      via : {"heap", "manager", "cpu"}]]
  BY DEF IInv, MemoryTypeOK
<1> HIDE DEF s
<1>8. HeapTypeOK' /\ HeapOK' /\ live' = live /\ manager' = manager
  BY DEF IInv, HeapOK, HeapTypeOK, BlocksDisjoint, Placed, OnList, heapVars
<1>9. MemoryTypeOK'
  BY <1>4, <1>7, <1>8 DEF IInv, MemoryTypeOK
<1>10. \A y \in Callers : held'[y] # Nothing => \E b \in live' : HeldBlock(y, b)'
  BY <1>7, <1>8 DEF IInv, RegionsOwned, HeldBlock
<1>11. \A y, z \in Callers :
          y # z /\ held'[y] # Nothing /\ held'[z] # Nothing => held'[y].addr # held'[z].addr
  BY <1>7 DEF IInv, RegionsOwned
<1>12. ASSUME NEW d \in Cpus, NEW i \in DOMAIN small_free_list'[d]
       PROVE  /\ \E b \in live' : Owned(small_free_list'[d][i], b)
              /\ \A y \in Callers : held'[y] # Nothing =>
                   small_free_list'[d][i].addr # held'[y].addr
  <2>1. CASE <<d, i>> = <<c, n>>
    <3>1. PICK b \in live : Owned(held[x], b)
      BY DEF IInv, RegionsOwned, HeldBlock
    <3>2. Owned(g, b)
      BY <1>1, <3>1 DEF Owned
    <3>3. \A y \in Callers : held'[y] # Nothing => g.addr # held'[y].addr
      BY <1>1, <1>7 DEF IInv, RegionsOwned
    <3> QED
      BY <1>6, <1>8, <2>1, <3>1, <3>2, <3>3
  <2>2. CASE <<d, i>> # <<c, n>>
    <3>1. i \in DOMAIN small_free_list[d] /\ small_free_list'[d][i] = small_free_list[d][i]
      BY <1>5, <2>2
    <3>2. /\ \E b \in live : Owned(small_free_list[d][i], b)
          /\ \A y \in Callers : held[y] # Nothing => small_free_list[d][i].addr # held[y].addr
      BY <3>1 DEF IInv, RegionsOwned
    <3> QED
      BY <1>7, <1>8, <3>1, <3>2
  <2> QED
    BY <2>1, <2>2
<1>13. ASSUME NEW d \in Cpus, NEW i \in DOMAIN small_free_list'[d],
              NEW e \in Cpus, NEW m \in DOMAIN small_free_list'[e], <<d, i>> # <<e, m>>
       PROVE  small_free_list'[d][i].addr # small_free_list'[e][m].addr
  <2>a. \A p \in Cpus : \A k \in DOMAIN small_free_list'[p] : <<p, k>> # <<c, n>> =>
          small_free_list'[p][k].addr # g.addr
    <3> TAKE p \in Cpus
    <3> TAKE k \in DOMAIN small_free_list'[p]
    <3> HAVE <<p, k>> # <<c, n>>
    <3>1. k \in DOMAIN small_free_list[p] /\ small_free_list'[p][k] = small_free_list[p][k]
      BY <1>5
    <3>2. small_free_list[p][k].addr # held[x].addr
      BY <3>1 DEF IInv, RegionsOwned
    <3> QED
      BY <1>1, <3>1, <3>2
  <2>1. CASE <<d, i>> = <<c, n>>
    <3>1. <<e, m>> # <<c, n>> /\ small_free_list'[d][i] = g
      BY <1>6, <1>13, <2>1
    <3> QED
      BY <2>a, <3>1
  <2>2. CASE <<e, m>> = <<c, n>>
    <3>1. <<d, i>> # <<c, n>> /\ small_free_list'[e][m] = g
      BY <1>6, <1>13, <2>2
    <3> QED
      BY <2>a, <3>1
  <2>3. CASE <<d, i>> # <<c, n>> /\ <<e, m>> # <<c, n>>
    <3>1. /\ i \in DOMAIN small_free_list[d] /\ small_free_list'[d][i] = small_free_list[d][i]
          /\ m \in DOMAIN small_free_list[e] /\ small_free_list'[e][m] = small_free_list[e][m]
      BY <1>5, <2>3
    <3> QED
      BY <1>13, <3>1 DEF IInv, RegionsOwned
  <2> QED
    BY <2>1, <2>2, <2>3
<1>14. RegionsOwned'
  BY <1>10, <1>11, <1>12, <1>13 DEF RegionsOwned
<1> QED
  BY <1>8, <1>9, <1>14 DEF IInv

\* GlobalMemoryManager::free of a region whose block has kept its size.
LEMMA GlobalFreeBlock ==
    ASSUME IInv, NEW x \in Callers, held[x] # Nothing,
           held[x].via = "manager" \/ held[x].size > SmallMax, GlobalFree(held[x]),
           held' = [held EXCEPT ![x] = Nothing], UNCHANGED <<manager, small_free_list>>
    PROVE  IInv'
<1> DEFINE b == BlockAt(held[x].addr)
<1>1. PICK d \in live : HeldBlock(x, d)
  BY DEF IInv, RegionsOwned
<1>2. d.addr = held[x].addr /\ d.size = held[x].size
  BY <1>1 DEF HeldBlock, Owned
<1>3. b \in live /\ b.addr = held[x].addr
  BY <1>2 DEF BlockAt
<1>4. b = d
  BY <1>2, <1>3, OneBlockAt DEF IInv
<1>5. Dealloc(d, [size |-> d.size, align |-> FreeAlign])
  BY <1>2, <1>4 DEF GlobalFree
<1>6. Returnable(d, [size |-> d.size, align |-> FreeAlign])
  BY RebuiltLayout DEF IInv
<1> QED
  BY <1>2, <1>5, <1>6, ReturnBlock

\* Every operation keeps the inductive invariant.
LEMMA AllocateIInv == ASSUME IInv, NEW x \in Callers, CallerAllocates(x) PROVE IInv'
<1>1. PICK layout \in Layout :
        \/ DirectAlloc(x, layout)
        \/ ManagerAllocate(x, layout)
        \/ \E c \in Cpus : CpuAllocateLocal(c, x, layout) \/ CpuAllocateGlobal(c, x, layout)
  BY DEF CallerAllocates
<1>2. held[x] = Nothing
  BY DEF CallerAllocates
<1>3. CASE DirectAlloc(x, layout)
  BY <1>2, <1>3, TakeBlock DEF DirectAlloc
<1>4. CASE ManagerAllocate(x, layout)
  BY <1>2, <1>4, TakeBlock DEF ManagerAllocate
<1>5. ASSUME NEW c \in Cpus, CpuAllocateLocal(c, x, layout) PROVE IInv'
  BY <1>2, <1>5, TakeLocal
<1>6. ASSUME NEW c \in Cpus, CpuAllocateGlobal(c, x, layout) PROVE IInv'
  BY <1>2, <1>6, TakeBlock DEF CpuAllocateGlobal
<1> QED
  BY <1>1, <1>3, <1>4, <1>5, <1>6

\* And every way a caller gives one back.
LEMMA FreeIInv == ASSUME IInv, NEW x \in Callers, CallerFrees(x) PROVE IInv'
<1>0. held[x].via \in {"heap", "manager", "cpu"} => held[x] # Nothing
  BY DEF Nothing
<1>1. CASE DirectDealloc(x)
  <2>1. held[x] # Nothing /\ held[x].via = "heap"
    BY <1>0, <1>1 DEF DirectDealloc
  <2>2. PICK b \in live : HeldBlock(x, b)
    BY <2>1 DEF IInv, RegionsOwned
  <2>3. b = Block(held[x].addr, held[x])
    BY <2>1, <2>2 DEF HeldBlock
  <2>4. /\ b.addr = held[x].addr
        /\ LayoutOf(b) = [size |-> held[x].size, align |-> held[x].align]
    BY <2>3 DEF Block, LayoutOf
  <2>5. Dealloc(b, LayoutOf(b)) /\ held' = [held EXCEPT ![x] = Nothing]
        /\ UNCHANGED <<manager, small_free_list>>
    BY <1>1, <2>3, <2>4 DEF DirectDealloc
  <2>6. Returnable(b, LayoutOf(b))
    BY OwnLayout DEF IInv
  <2> QED
    BY <2>1, <2>4, <2>5, <2>6, ReturnBlock
<1>2. CASE ManagerFree(x)
  BY <1>0, <1>2, GlobalFreeBlock DEF ManagerFree
<1>3. ASSUME NEW c \in Cpus, CpuFree(c, x) PROVE IInv'
  <2>1. held[x] # Nothing /\ held' = [held EXCEPT ![x] = Nothing] /\ UNCHANGED manager
    BY <1>0, <1>3 DEF CpuFree
  <2>2. CASE held[x].size <= SmallMax /\ UNCHANGED heapVars
             /\ small_free_list' =
                  [small_free_list EXCEPT ![c] = Append(@, Region(held[x].addr, held[x].size))]
    BY <2>1, <2>2, GiveLocal
  <2>3. CASE held[x].size > SmallMax /\ GlobalFree(held[x]) /\ UNCHANGED small_free_list
    BY <2>1, <2>3, GlobalFreeBlock
  <2> QED
    BY <1>3, <2>2, <2>3 DEF CpuFree
<1> QED
  BY <1>1, <1>2, <1>3 DEF CallerFrees

\* Every step keeps the invariant.
LEMMA NextIInv == ASSUME IInv, [MemoryNext]_memoryVars PROVE IInv'
<1>1. CASE UNCHANGED heapVars /\ UNCHANGED <<small_free_list, held>>
           /\ manager' \in {"absent", "flagged", "ready"}
  <2>1. HeapTypeOK' /\ HeapOK'
    BY <1>1 DEF IInv, HeapOK, HeapTypeOK, BlocksDisjoint, Placed, OnList, heapVars
  <2>2. MemoryTypeOK'
    BY <1>1, <2>1 DEF IInv, MemoryTypeOK
  <2>3. RegionsOwned'
    BY <1>1 DEF IInv, RegionsOwned, HeldBlock, heapVars
  <2> QED
    BY <2>1, <2>2, <2>3 DEF IInv
<1>2. CASE InitFlag \/ InitManager
  BY <1>1, <1>2 DEF InitFlag, InitManager
<1>3. CASE UNCHANGED memoryVars
  BY <1>1, <1>3 DEF memoryVars, heapVars, IInv, MemoryTypeOK
<1>4. ASSUME NEW x \in Callers, CallerAllocates(x) \/ CallerFrees(x) PROVE IInv'
  BY <1>4, AllocateIInv, FreeIInv
<1> QED
  BY <1>2, <1>3, <1>4 DEF MemoryNext

-----------------------------------------------------------------------------
(* The invariants *)

\* It holds at boot: the whole heap belongs to the fallback allocator.
LEMMA InitIInv == MemoryInit => IInv
<1> SUFFICES ASSUME MemoryInit PROVE IInv
  OBVIOUS
<1>1. /\ list_heads = [i \in DOMAIN BlockSizes |-> <<>>] /\ live = {}
      /\ fallback = 0..(HeapSize - 1)
      /\ small_free_list = [c \in Cpus |-> <<>>] /\ held = [x \in Callers |-> Nothing]
      /\ manager = "absent"
  BY DEF MemoryInit, HeapInit
<1>2. \A i \in DOMAIN BlockSizes : list_heads[i] = <<>> /\ DOMAIN list_heads[i] = {}
  BY <1>1
<1>3. HeapTypeOK
  BY <1>1 DEF HeapTypeOK
<1>4. BlocksDisjoint /\ Placed
  BY <1>1, <1>2 DEF BlocksDisjoint, Placed
<1>5. MemoryTypeOK
  BY <1>1, <1>3 DEF MemoryTypeOK
<1>6. RegionsOwned
  BY <1>1 DEF RegionsOwned, HeldBlock
<1> QED
  BY <1>3, <1>4, <1>5, <1>6 DEF IInv, HeapOK

\* The inductive invariant holds under every interleaving of the interfaces.
THEOREM Invariance == MemorySpec => []IInv
  BY InitIInv, NextIInv, PTL DEF MemorySpec

\* Lists, blocks and held regions always have the values of their types.
THEOREM TypeCorrect == MemorySpec => []MemoryTypeOK
<1>1. IInv => MemoryTypeOK
  BY DEF IInv
<1> QED
  BY <1>1, Invariance, PTL

\* Every byte of the heap has one owner and every block is aligned as asked, for
\* every heap, all block sizes and all layouts, through every sequence of alloc,
\* dealloc, and free with a rebuilt layout.
THEOREM HeapStaysSound == MemorySpec => []HeapSound
<1>1. IInv => HeapSound
  BY PlacedAligned DEF IInv, HeapOK, HeapSound
<1> QED
  BY <1>1, Invariance, PTL

\* No region a caller holds or a local list offers outlives its block.
THEOREM RegionsBacked == MemorySpec => []Backed
<1>1. ASSUME IInv, NEW x \in Callers, held[x] # Nothing
      PROVE  \E b \in live : Used(held[x]) \subseteq Extent(b)
  <2>1. held[x].size \in Nat
    BY <1>1, HeldFacts DEF IInv
  <2> QED
    BY <1>1, <2>1, OwnedInside DEF IInv, RegionsOwned, HeldBlock
<1>2. ASSUME IInv, NEW c \in Cpus, NEW k \in DOMAIN small_free_list[c]
      PROVE  \E b \in live : Used(small_free_list[c][k]) \subseteq Extent(b)
  <2>1. small_free_list[c][k].size \in Nat
    <3>1. small_free_list[c] \in Seq([addr : 0..(HeapSize - 1), size : Sizes])
      BY <1>2 DEF IInv, MemoryTypeOK
    <3>2. small_free_list[c][k] \in [addr : 0..(HeapSize - 1), size : Sizes]
      BY <3>1, ElementOfSeq, LenProperties
    <3> QED
      BY <3>2, HeapAssumption
  <2> QED
    BY <1>2, <2>1, OwnedInside DEF IInv, RegionsOwned
<1>3. IInv => Backed
  BY <1>1, <1>2 DEF Backed
<1> QED
  BY <1>3, Invariance, PTL

-----------------------------------------------------------------------------
(* Refinement: the step of the abstract heap every operation is *)

Regions == [x \in Callers |-> Region(held[x].addr, held[x].size)]

\* Whatever gives caller x a region is an allocation of the abstract heap.
LEMMA StepAllocates ==
    ASSUME IInv, IInv', NEW x \in Callers, held[x] = Nothing, held'[x] # Nothing,
           \A y \in Callers : y # x => held'[y] = held[y]
    PROVE  AbstractMemory!Allocate(x)
<1> DEFINE r == Region(held'[x].addr, held'[x].size)
<1>1. RegionsApart'
  BY IInvApart, PTL
<1>2. /\ r.addr \in Nat /\ r.size \in Sizes /\ r.size \in Nat
      /\ Used(r) # {} /\ Used(r) \subseteq 0..(HeapSize - 1)
      /\ \A y \in Callers : y # x /\ held[y] # Nothing => Used(held[y]) \cap Used(r) = {}
  BY <1>1 DEF RegionsApart, Region, Used
<1>3. r.addr + r.size <= HeapSize
  <2> HIDE DEF r
  <2>1. r.size \in Nat \ {0}
    BY <1>2, HeapAssumption
  <2>2. r.size <= r.size
    BY <1>2
  <2>3. (r.addr + r.size - 1) \in Used(r)
    BY <1>2, <2>1, <2>2, RunFacts DEF Used
  <2> QED
    BY <1>2, <2>1, <2>3, HeapAssumption
<1>4. Regions' = [Regions EXCEPT ![x] = r] /\ Regions'[x] = r
      /\ Regions[x] = AbstractMemory!NoRegion
  <2>1. \A y \in Callers : Regions'[y] = IF y = x THEN r ELSE Regions[y]
    BY DEF Regions
  <2>2. Regions' = [y \in Callers |-> Regions'[y]] /\ Regions = [y \in Callers |-> Regions[y]]
    BY DEF Regions
  <2>3. Regions[x] = AbstractMemory!NoRegion
    BY DEF Regions, Region, Nothing, AbstractMemory!NoRegion
  <2> HIDE DEF r
  <2> QED
    BY <2>1, <2>2, <2>3
<1>5. ASSUME NEW y \in Callers
      PROVE  AbstractMemory!Bytes(Regions[y]) \cap AbstractMemory!Bytes(r) = {}
  <2>1. CASE held[y] = Nothing
    BY <2>1 DEF AbstractMemory!Bytes, Regions, Region, Nothing
  <2>2. CASE held[y] # Nothing
    <3>1. Used(held[y]) \cap Used(r) = {}
      BY <1>2, <2>2
    <3> QED
      BY <3>1 DEF AbstractMemory!Bytes, Regions, Region, Used, Run
  <2> QED
    BY <2>1, <2>2
<1> QED
  BY <1>2, <1>3, <1>4, <1>5 DEF AbstractMemory!Allocate, Regions

\* Whatever takes its region away is a free.
LEMMA StepFrees ==
    ASSUME NEW x \in Callers, held' = [held EXCEPT ![x] = Nothing],
           held \in [Callers -> {Nothing} \cup
                     [addr : 0..(HeapSize - 1), size : Sizes, align : Aligns,
                      via : {"heap", "manager", "cpu"}]]
    PROVE  AbstractMemory!Free(x)
  BY DEF AbstractMemory!Free, AbstractMemory!NoRegion, Region, Nothing

\* Every step of the memory manager is one of the abstract heap, or leaves all
\* regions alone.
LEMMA AbstractStep ==
    ASSUME IInv, IInv', [MemoryNext]_memoryVars
    PROVE  [AbstractMemory!Next]_Regions
<1>1. held \in [Callers -> {Nothing} \cup
                [addr : 0..(HeapSize - 1), size : Sizes, align : Aligns,
                 via : {"heap", "manager", "cpu"}]]
  BY DEF IInv, MemoryTypeOK
<1>2. CASE InitFlag \/ InitManager \/ UNCHANGED memoryVars
  BY <1>2 DEF InitFlag, InitManager, memoryVars, Regions
<1>3. ASSUME NEW x \in Callers, CallerAllocates(x)
      PROVE  AbstractMemory!Allocate(x)
  <2>1. PICK a, l, by : /\ held' = [held EXCEPT ![x] = Held(a, l, by)]
                        /\ by \in {"heap", "manager", "cpu"} /\ held[x] = Nothing
    BY <1>3 DEF CallerAllocates, DirectAlloc, ManagerAllocate, CpuAllocateLocal,
                CpuAllocateGlobal
  <2>2. held'[x].via = by /\ held'[x] # Nothing
    BY <1>1, <2>1 DEF Held, Nothing
  <2> QED
    BY <1>1, <2>1, <2>2, StepAllocates
<1>4. ASSUME NEW x \in Callers, CallerFrees(x)
      PROVE  AbstractMemory!Free(x)
  <2>1. held' = [held EXCEPT ![x] = Nothing]
    BY <1>4 DEF CallerFrees, DirectDealloc, ManagerFree, CpuFree
  <2> QED
    BY <1>1, <2>1, StepFrees
<1> QED
  BY <1>2, <1>3, <1>4 DEF MemoryNext, AbstractMemory!Next

\* All interfaces together implement the abstract heap: no two callers ever share
\* a byte, whichever allocator, manager or CPU their regions come from.
THEOREM MemoryImplementsHeap == MemorySpec => ImplementsMemory
<1>1. MemoryInit => AbstractMemory!Init
  BY DEF MemoryInit, AbstractMemory!Init, AbstractMemory!NoRegion, Region, Nothing
<1>2. IInv /\ IInv' /\ [MemoryNext]_memoryVars => [AbstractMemory!Next]_Regions
  BY AbstractStep
<1> QED
  BY <1>1, <1>2, Invariance, PTL DEF MemorySpec, ImplementsMemory, AbstractMemory!Spec, Regions
=============================================================================
