---------------------------- MODULE Heap_proofs -----------------------------
(***************************************************************************)
(* Proofs about Heap, for every heap size, every sequence of block sizes   *)
(* and every set of layouts: what alloc and dealloc keep.  Heap has no     *)
(* specification of its own; Memory_proofs uses these lemmas for the       *)
(* allocator together with its callers.                                    *)
(***************************************************************************)
EXTENDS Heap, SequenceTheorems, WellFoundedInduction, TLAPS

(* Numbers *)

\* Every non-empty set of naturals has a least element.
LEMMA LeastElement ==
    ASSUME NEW T \in SUBSET Nat, T # {}
    PROVE  \E x \in T : \A y \in T : x <= y
<1> DEFINE R == OpToRel(<, Nat)
<1>1. IsWellFoundedOn(R, Nat)
  BY NatLessThanWellFounded
<1>2. \A x, y \in Nat : x < y => <<x, y>> \in R
  BY DEF OpToRel
<1> HIDE DEF R
<1>3. PICK x \in T : \A y \in T : ~ (<<y, x>> \in R)
  BY <1>1, WFMin
<1>4. ASSUME NEW y \in T PROVE x <= y
  <2>1. x \in Nat /\ y \in Nat /\ ~(y < x)
    BY <1>2, <1>3
  <2> QED
    BY <2>1
<1> QED
  BY <1>4

\* Divisibility is transitive.
LEMMA DivTrans ==
    ASSUME NEW x \in Nat, NEW a \in Nat \ {0}, NEW b \in Nat \ {0},
           x % b = 0, b % a = 0
    PROVE  x % a = 0
<1>1. PICK q \in Nat : x = b * q
  OBVIOUS
<1>2. PICK p \in Nat : b = a * p
  OBVIOUS
<1>3. x = a * (p * q) /\ p * q \in Nat
  BY <1>1, <1>2
<1>4. \A n \in Nat : (a * n) % a = 0
  OBVIOUS
<1> QED
  BY <1>3, <1>4

\* Runs of bytes: a run holds its first and its last byte, and a shorter run at the
\* same address.
LEMMA RunFacts ==
    ASSUME NEW addr \in Nat, NEW size \in Nat \ {0}, NEW less \in Nat, less <= size
    PROVE  /\ addr \in Run(addr, size)
           /\ (addr + size - 1) \in Run(addr, size)
           /\ Run(addr, less) \subseteq Run(addr, size)
  BY DEF Run

-----------------------------------------------------------------------------
(* list_index *)

\* The block sizes are a sequence of positive numbers.
LEMMA ClassFacts ==
    /\ Len(BlockSizes) \in Nat
    /\ DOMAIN BlockSizes = 1..Len(BlockSizes)
    /\ \A i \in DOMAIN BlockSizes : i \in Nat /\ BlockSizes[i] \in Nat /\ BlockSizes[i] # 0
<1>1. BlockSizes \in Seq(Nat \ {0})
  BY HeapAssumption
<1>2. Len(BlockSizes) \in Nat /\ DOMAIN BlockSizes = 1..Len(BlockSizes)
  BY <1>1, LenProperties
<1>3. \A i \in 1..Len(BlockSizes) : BlockSizes[i] \in Nat \ {0}
  BY <1>1, ElementOfSeq
<1> QED
  BY <1>2, <1>3

\* list_index finds one class, if any block is large enough.
LEMMA ListIndexFacts ==
    ASSUME NEW layout
    PROVE  /\ ListIndex(layout) \subseteq Fitting(layout)
           /\ Fitting(layout) \subseteq DOMAIN BlockSizes
           /\ \A i, j \in ListIndex(layout) : i = j
           /\ ListIndex(layout) = {} => Fitting(layout) = {}
           /\ \A i \in ListIndex(layout), j \in Fitting(layout) : i <= j
<1>1. ListIndex(layout) \subseteq Fitting(layout)
      /\ Fitting(layout) \subseteq DOMAIN BlockSizes
      /\ \A i \in ListIndex(layout), j \in Fitting(layout) : i <= j
  BY DEF ListIndex, Fitting
<1>2. \A i, j \in ListIndex(layout) : i = j
  BY <1>1, ClassFacts
<1>3. ASSUME Fitting(layout) # {} PROVE ListIndex(layout) # {}
  <2>1. Fitting(layout) \in SUBSET Nat
    BY <1>1, ClassFacts
  <2>2. PICK i \in Fitting(layout) : \A j \in Fitting(layout) : i <= j
    BY <1>3, <2>1, LeastElement
  <2> QED
    BY <2>2 DEF ListIndex
<1> QED
  BY <1>1, <1>2, <1>3

\* The capacity of a layout with a class is the block size of the class, otherwise
\* its size.
LEMMA CapacityFacts ==
    ASSUME NEW layout
    PROVE  /\ ListIndex(layout) = {} => Capacity(layout) = layout.size
           /\ \A i \in ListIndex(layout) : Capacity(layout) = BlockSizes[i]
<1>1. ASSUME NEW i \in ListIndex(layout) PROVE Capacity(layout) = BlockSizes[i]
  <2>1. (CHOOSE j \in ListIndex(layout) : TRUE) = i
    BY ListIndexFacts
  <2> QED
    BY <2>1 DEF Capacity
<1> QED
  BY <1>1 DEF Capacity

\* The layouts callers ask for.
LEMMA LayoutFacts ==
    ASSUME NEW layout \in Layout
    PROVE  /\ layout.size \in Nat /\ layout.size # 0 /\ layout.size \in Sizes
           /\ layout.align \in Nat /\ layout.align # 0 /\ layout.align \in Aligns
           /\ Required(layout) \in Nat
           /\ layout.size <= Required(layout) /\ layout.align <= Required(layout)
           /\ layout = [size |-> layout.size, align |-> layout.align]
<1>1. layout \in [size : Sizes, align : Aligns]
  BY DEF Layout
<1>2. layout.size \in Sizes /\ layout.align \in Aligns
      /\ layout = [size |-> layout.size, align |-> layout.align]
  BY <1>1
<1>3. layout.size \in Nat /\ layout.size # 0 /\ layout.align \in Nat /\ layout.align # 0
  BY <1>2, HeapAssumption
<1>4. Required(layout) \in Nat
      /\ layout.size <= Required(layout) /\ layout.align <= Required(layout)
  BY <1>3 DEF Required
<1> QED
  BY <1>2, <1>3, <1>4

\* What is set aside for a layout is at least its size; a class is also at least
\* its alignment; and no class means that the size itself is above all classes.
LEMMA CapacityCovers ==
    ASSUME NEW layout \in Layout
    PROVE  /\ Capacity(layout) \in Nat /\ layout.size <= Capacity(layout)
           /\ \A i \in ListIndex(layout) : layout.align <= BlockSizes[i]
           /\ ListIndex(layout) = {} => \A i \in DOMAIN BlockSizes : layout.size > BlockSizes[i]
<1>1. ASSUME NEW i \in ListIndex(layout)
      PROVE  /\ BlockSizes[i] \in Nat /\ Capacity(layout) = BlockSizes[i]
             /\ layout.size <= BlockSizes[i] /\ layout.align <= BlockSizes[i]
  <2>1. i \in DOMAIN BlockSizes /\ BlockSizes[i] >= Required(layout)
    BY ListIndexFacts DEF Fitting
  <2>2. BlockSizes[i] \in Nat /\ Capacity(layout) = BlockSizes[i]
    BY <2>1, ClassFacts, CapacityFacts
  <2> QED
    BY <2>1, <2>2, LayoutFacts
<1>2. ASSUME ListIndex(layout) = {}, NEW i \in DOMAIN BlockSizes
      PROVE  layout.size > BlockSizes[i]
  <2>1. \A j \in DOMAIN BlockSizes : BlockSizes[j] \in Nat /\ ~(BlockSizes[j] >= Required(layout))
    BY <1>2, ListIndexFacts, ClassFacts DEF Fitting
  <2>2. \A j \in DOMAIN BlockSizes : BlockSizes[j] < Required(layout)
    BY <2>1, LayoutFacts
  <2>3. CASE \A j \in DOMAIN BlockSizes : layout.size > BlockSizes[j]
    BY <2>3
  <2>4. CASE \E j \in DOMAIN BlockSizes : layout.align <= BlockSizes[j]
    <3>1. PICK j \in DOMAIN BlockSizes : layout.align <= BlockSizes[j]
      BY <2>4
    <3>2. layout.align < Required(layout)
      BY <2>1, <2>2, <3>1, LayoutFacts
    <3>3. Required(layout) = layout.size
      BY <3>2, LayoutFacts DEF Required
    <3> QED
      BY <2>2, <3>3, <2>1, LayoutFacts
  <2> QED
    BY <2>3, <2>4 DEF Layout
<1>3. ListIndex(layout) = {} => Capacity(layout) = layout.size
  BY CapacityFacts
<1> QED
  BY <1>1, <1>2, <1>3, LayoutFacts
-----------------------------------------------------------------------------
(* The invariant of the heap *)

LayoutOf(b) == [size |-> b.size, align |-> b.align]

\* The bytes of the block at position k of list i.
OnList(i, k) == Run(list_heads[i][k], BlockSizes[i])

\* A block of a class is aligned to its size, one of the fallback allocator as asked.
AlignedFor(addr, layout) ==
    IF ListIndex(layout) = {} THEN addr % layout.align = 0
    ELSE \A i \in ListIndex(layout) : addr % BlockSizes[i] = 0

\* Every live block came from a layout callers use, and all blocks lie in the heap,
\* aligned for the class they are in.
Placed ==
    /\ \A b \in live : /\ LayoutOf(b) \in Layout
                       /\ Extent(b) \subseteq 0..(HeapSize - 1)
                       /\ AlignedFor(b.addr, LayoutOf(b))
    /\ \A i \in DOMAIN BlockSizes : \A k \in DOMAIN list_heads[i] :
         /\ OnList(i, k) \subseteq 0..(HeapSize - 1)
         /\ list_heads[i][k] % BlockSizes[i] = 0

HeapOK == HeapTypeOK /\ BlocksDisjoint /\ Placed

\* BlocksDisjoint, case by case.
LEMMA DisjointCases ==
    BlocksDisjoint <=>
      /\ \A b \in live : Extent(b) \cap fallback = {}
      /\ \A b, c \in live : b # c => Extent(b) \cap Extent(c) = {}
      /\ \A i \in DOMAIN BlockSizes : \A k \in DOMAIN list_heads[i] :
            OnList(i, k) \cap fallback = {}
      /\ \A i \in DOMAIN BlockSizes : \A k \in DOMAIN list_heads[i] : \A b \in live :
            OnList(i, k) \cap Extent(b) = {}
      /\ \A i \in DOMAIN BlockSizes : \A k \in DOMAIN list_heads[i] :
         \A j \in DOMAIN BlockSizes : \A m \in DOMAIN list_heads[j] :
            <<i, k>> # <<j, m>> => OnList(i, k) \cap OnList(j, m) = {}
  BY Zenon DEF BlocksDisjoint, OnList

\* Blocks are aligned as asked.
LEMMA PlacedAligned == ASSUME HeapTypeOK, Placed PROVE LiveAligned
<1> SUFFICES ASSUME NEW b \in live PROVE b.addr % b.align = 0
  BY DEF LiveAligned
<1> DEFINE l == LayoutOf(b)
<1>1. l \in Layout /\ AlignedFor(b.addr, l)
  BY DEF Placed
<1>2. l.align = b.align
  BY DEF LayoutOf
<1> HIDE DEF l
<1>3. b.addr \in Nat
  BY DEF HeapTypeOK
<1>4. CASE ListIndex(l) = {}
  BY <1>1, <1>2, <1>4 DEF AlignedFor
<1>5. ASSUME NEW i \in ListIndex(l) PROVE b.addr % b.align = 0
  <2>1. b.addr % BlockSizes[i] = 0
    BY <1>1 DEF AlignedFor
  <2>2. i \in DOMAIN BlockSizes /\ l.align <= BlockSizes[i] /\ l.align \in Aligns
    BY <1>1, ListIndexFacts, CapacityCovers, LayoutFacts
  <2>3. BlockSizes[i] % l.align = 0
    BY <2>2, PowersOfTwo
  <2>4. BlockSizes[i] \in Nat \ {0} /\ l.align \in Nat \ {0}
    BY <1>1, <2>2, ClassFacts, LayoutFacts
  <2> QED
    BY <1>2, <1>3, <2>1, <2>3, <2>4, DivTrans
<1> QED
  BY <1>4, <1>5

\* The extent of a live block holds its address and its size.
LEMMA LiveFacts ==
    ASSUME HeapOK, NEW b \in live
    PROVE  /\ b.addr \in Nat /\ b.size \in Nat /\ b.size # 0
           /\ b.addr \in Extent(b)
           /\ Run(b.addr, b.size) \subseteq Extent(b)
           /\ Extent(b) = Run(b.addr, Capacity(LayoutOf(b)))
<1> DEFINE l == LayoutOf(b)
<1>1. l \in Layout /\ b.addr \in Nat
  BY DEF HeapOK, HeapTypeOK, Placed
<1>2. l.size = b.size /\ Extent(b) = Run(b.addr, Capacity(l))
  BY DEF LayoutOf, Extent
<1> HIDE DEF l
<1>3. /\ Capacity(l) \in Nat /\ l.size \in Nat /\ l.size # 0 /\ l.size <= Capacity(l)
  BY <1>1, LayoutFacts, CapacityCovers
<1>4. Capacity(l) \in Nat \ {0}
  BY <1>3
<1>5. b.addr \in Run(b.addr, Capacity(l)) /\ Run(b.addr, l.size) \subseteq Run(b.addr, Capacity(l))
  BY <1>1, <1>3, <1>4, RunFacts
<1> QED
  BY <1>1, <1>2, <1>3, <1>5 DEF l

\* So two live blocks at one address are the same: the pointer a caller passes to
\* free names one block.
LEMMA OneBlockAt ==
    ASSUME HeapOK, NEW b \in live, NEW c \in live, b.addr = c.addr
    PROVE  b = c
<1>1. b.addr \in Extent(b) /\ b.addr \in Extent(c)
  BY LiveFacts
<1>2. b # c => Extent(b) \cap Extent(c) = {}
  BY DisjointCases DEF HeapOK
<1> QED
  BY <1>1, <1>2

-----------------------------------------------------------------------------
(* alloc *)

\* The new block is set apart from everything that was handed out before.
Fresh(n) == \A b \in live : Extent(b) \cap Extent(n) = {}

\* Every block left on a list was on it before, at the position f gives, and is apart
\* from the new block n.
Remains(f, n) ==
    \A j \in DOMAIN BlockSizes : \A k \in DOMAIN list_heads'[j] :
       /\ f[j][k] \in DOMAIN list_heads[j]
       /\ list_heads'[j][k] = list_heads[j][f[j][k]]
       /\ \A m \in DOMAIN list_heads'[j] : f[j][k] = f[j][m] => k = m
       /\ OnList(j, f[j][k]) \cap Extent(n) = {}

\* A block joins the live ones while free memory shrinks.
LEMMA AddBlock ==
    ASSUME HeapOK, NEW layout \in Layout, NEW addr \in 0..(HeapSize - 1), NEW n, NEW f,
           n = Block(addr, layout), live' = live \cup {n}, Fresh(n),
           Extent(n) \subseteq 0..(HeapSize - 1), AlignedFor(addr, layout),
           fallback' \subseteq fallback, Extent(n) \cap fallback' = {},
           list_heads' \in [DOMAIN BlockSizes -> Seq(0..(HeapSize - 1))],
           Remains(f, n)
    PROVE  HeapOK'
<1> DEFINE Old(j, k) == OnList(j, f[j][k])
           New(j, k) == Run(list_heads'[j][k], BlockSizes[j])
<1>0. layout.size \in Sizes /\ layout.align \in Aligns
      /\ layout = [size |-> layout.size, align |-> layout.align]
  BY LayoutFacts
<1>1. n.addr = addr /\ LayoutOf(n) = layout
      /\ n \in [addr : 0..(HeapSize - 1), size : Sizes, align : Aligns]
  BY <1>0 DEF Block, LayoutOf
<1>2. HeapTypeOK'
  BY <1>1 DEF HeapOK, HeapTypeOK
<1>3. \A j \in DOMAIN BlockSizes : \A k \in DOMAIN list_heads'[j] :
         New(j, k) = Old(j, k) /\ f[j][k] \in DOMAIN list_heads[j]
  BY DEF OnList, Remains
<1>4. BlocksDisjoint
  BY DEF HeapOK
<1>a. \A b \in live : Extent(b) \cap fallback = {}
  BY <1>4, DisjointCases
<1>b. \A b, c \in live : b # c => Extent(b) \cap Extent(c) = {}
  BY <1>4, DisjointCases
<1>c. \A i \in DOMAIN BlockSizes : \A k \in DOMAIN list_heads[i] :
         OnList(i, k) \cap fallback = {}
  BY <1>4, DisjointCases
<1>d. \A i \in DOMAIN BlockSizes : \A k \in DOMAIN list_heads[i] : \A b \in live :
         OnList(i, k) \cap Extent(b) = {}
  BY <1>4, DisjointCases
<1>e. \A i \in DOMAIN BlockSizes : \A k \in DOMAIN list_heads[i] :
      \A j \in DOMAIN BlockSizes : \A m \in DOMAIN list_heads[j] :
         <<i, k>> # <<j, m>> => OnList(i, k) \cap OnList(j, m) = {}
  BY <1>4, DisjointCases
<1>5. \A b \in live' : Extent(b) \cap fallback' = {}
  BY <1>a
<1>6. \A b, c \in live' : b # c => Extent(b) \cap Extent(c) = {}
  BY <1>b DEF Fresh
<1>7. \A i \in DOMAIN BlockSizes : \A k \in DOMAIN list_heads'[i] :
         New(i, k) \cap fallback' = {}
  BY <1>3, <1>c
<1>8. \A i \in DOMAIN BlockSizes : \A k \in DOMAIN list_heads'[i] : \A b \in live' :
         New(i, k) \cap Extent(b) = {}
  BY <1>3, <1>d DEF Remains
<1>9. ASSUME NEW i \in DOMAIN BlockSizes, NEW k \in DOMAIN list_heads'[i],
             NEW j \in DOMAIN BlockSizes, NEW m \in DOMAIN list_heads'[j],
             <<i, k>> # <<j, m>>
      PROVE  New(i, k) \cap New(j, m) = {}
  <2>1. <<i, f[i][k]>> # <<j, f[j][m]>>
    BY <1>9 DEF Remains
  <2>2. Old(i, k) \cap Old(j, m) = {}
    BY <1>3, <1>e, <2>1
  <2> QED
    BY <1>3, <2>2
<1>10. BlocksDisjoint'
  BY <1>5, <1>6, <1>7, <1>8, <1>9, Zenon DEF BlocksDisjoint
<1>11. Placed'
  <2>1. ASSUME NEW b \in live'
        PROVE  /\ LayoutOf(b) \in Layout
               /\ Extent(b) \subseteq 0..(HeapSize - 1)
               /\ AlignedFor(b.addr, LayoutOf(b))
    BY <1>1 DEF HeapOK, Placed
  <2>2. ASSUME NEW i \in DOMAIN BlockSizes, NEW k \in DOMAIN list_heads'[i]
        PROVE  /\ New(i, k) \subseteq 0..(HeapSize - 1)
               /\ list_heads'[i][k] % BlockSizes[i] = 0
    BY <1>3 DEF HeapOK, Placed, Remains
  <2> QED
    BY <2>1, <2>2 DEF Placed, OnList
<1> QED
  BY <1>2, <1>10, <1>11 DEF HeapOK

\* What every path of alloc does.
Allocated(addr, layout) ==
    /\ live' = live \cup {Block(addr, layout)}
    /\ Fresh(Block(addr, layout))
    /\ Extent(Block(addr, layout)) \subseteq 0..(HeapSize - 1)

\* The extent of a new block.
LEMMA NewExtent ==
    ASSUME NEW layout \in Layout, NEW addr
    PROVE  /\ Block(addr, layout).addr = addr
           /\ Block(addr, layout).size = layout.size
           /\ Extent(Block(addr, layout)) = Run(addr, Capacity(layout))
<1>1. layout = [size |-> layout.size, align |-> layout.align]
  BY LayoutFacts
<1> QED
  BY <1>1 DEF Block, Extent

\* alloc, the list of the size has a block: the head of the list becomes live, the
\* others move up by one position.
LEMMA FromListOK ==
    ASSUME HeapOK, NEW layout \in Layout, NEW addr \in 0..(HeapSize - 1),
           AllocFromList(addr, layout)
    PROVE  HeapOK' /\ Allocated(addr, layout)
<1>1. PICK i \in ListIndex(layout) :
        /\ list_heads[i] # <<>>
        /\ addr = Head(list_heads[i])
        /\ list_heads' = [list_heads EXCEPT ![i] = Tail(@)]
        /\ live' = live \cup {Block(addr, layout)}
        /\ UNCHANGED fallback
  BY DEF AllocFromList
<1> DEFINE n == Block(addr, layout)
           s == list_heads[i]
           f == [j \in DOMAIN BlockSizes |->
                   [k \in DOMAIN list_heads'[j] |-> IF j = i THEN k + 1 ELSE k]]
<1>2. i \in DOMAIN BlockSizes
      /\ list_heads \in [DOMAIN BlockSizes -> Seq(0..(HeapSize - 1))]
      /\ s \in Seq(0..(HeapSize - 1))
  BY ListIndexFacts DEF HeapOK, HeapTypeOK
<1>3. /\ Len(s) \in Nat /\ Len(s) > 0 /\ 1 \in DOMAIN s /\ DOMAIN s = 1..Len(s)
      /\ addr = s[1]
      /\ Tail(s) \in Seq(0..(HeapSize - 1)) /\ DOMAIN Tail(s) = 1..(Len(s) - 1)
      /\ \A k \in DOMAIN Tail(s) : Tail(s)[k] = s[k+1]
  BY <1>1, <1>2, EmptySeq, LenProperties, HeadTailProperties
<1>4. Extent(n) = OnList(i, 1)
  BY <1>1, <1>3, NewExtent, CapacityFacts DEF OnList
<1>5. /\ OnList(i, 1) \subseteq 0..(HeapSize - 1) /\ addr % BlockSizes[i] = 0
      /\ OnList(i, 1) \cap fallback = {}
      /\ \A b \in live : OnList(i, 1) \cap Extent(b) = {}
  BY <1>2, <1>3, DisjointCases DEF HeapOK, Placed
<1>6. AlignedFor(addr, layout)
  BY <1>5, ListIndexFacts DEF AlignedFor
<1>7. Fresh(n)
  BY <1>4, <1>5 DEF Fresh
<1>8. list_heads' \in [DOMAIN BlockSizes -> Seq(0..(HeapSize - 1))]
      /\ list_heads'[i] = Tail(s)
      /\ \A j \in DOMAIN BlockSizes : j # i => list_heads'[j] = list_heads[j]
  BY <1>1, <1>2, <1>3
<1>9. ASSUME NEW j \in DOMAIN BlockSizes, NEW k \in DOMAIN list_heads'[j]
      PROVE  /\ f[j][k] \in DOMAIN list_heads[j]
             /\ list_heads'[j][k] = list_heads[j][f[j][k]]
             /\ \A m \in DOMAIN list_heads'[j] : f[j][k] = f[j][m] => k = m
             /\ OnList(j, f[j][k]) \cap Extent(n) = {}
  <2>0. \A m \in DOMAIN list_heads'[j] : f[j][m] = IF j = i THEN m + 1 ELSE m
    OBVIOUS
  <2> HIDE DEF f, n
  <2>1. CASE j = i
    <3>1. DOMAIN list_heads'[j] = 1..(Len(s) - 1)
      BY <1>3, <1>8, <2>1
    <3>2. f[j][k] = k + 1 /\ k + 1 \in DOMAIN s /\ k + 1 # 1
          /\ \A m \in DOMAIN list_heads'[j] : f[j][k] = f[j][m] => k = m
      BY <1>3, <2>0, <2>1, <3>1
    <3>3. list_heads'[j][k] = s[k + 1]
      BY <1>3, <1>8, <2>1
    <3>4. OnList(i, k + 1) \cap OnList(i, 1) = {}
      BY <1>2, <1>3, <3>2, DisjointCases DEF HeapOK
    <3> QED
      BY <1>4, <2>1, <3>2, <3>3, <3>4
  <2>2. CASE j # i
    <3>1. list_heads'[j] = list_heads[j] /\ f[j][k] = k
          /\ \A m \in DOMAIN list_heads'[j] : f[j][k] = f[j][m] => k = m
      BY <1>8, <2>0, <2>2
    <3>2. OnList(j, k) \cap OnList(i, 1) = {}
      BY <1>2, <1>3, <2>2, <3>1, DisjointCases DEF HeapOK
    <3> QED
      BY <1>4, <3>1, <3>2
  <2> QED
    BY <2>1, <2>2
<1> HIDE DEF f, n, s
<1>10. n = Block(addr, layout)
  BY DEF n
<1>11. HeapOK'
  <2>1. Remains(f, n)
    BY <1>9 DEF Remains
  <2>2. Extent(n) \subseteq 0..(HeapSize - 1)
        /\ fallback' \subseteq fallback /\ Extent(n) \cap fallback' = {}
    BY <1>1, <1>4, <1>5
  <2> QED
    BY <1>1, <1>6, <1>7, <1>8, <1>10, <2>1, <2>2, AddBlock
<1> QED
  BY <1>1, <1>4, <1>5, <1>7, <1>10, <1>11 DEF Allocated

\* alloc from the fallback allocator, for a new block of a class or for a layout that
\* fits none.
LEMMA FromFallbackOK ==
    ASSUME HeapOK, NEW layout \in Layout, NEW addr \in 0..(HeapSize - 1),
           Run(addr, Capacity(layout)) \subseteq fallback, AlignedFor(addr, layout),
           fallback' = fallback \ Run(addr, Capacity(layout)),
           live' = live \cup {Block(addr, layout)}, list_heads' = list_heads
    PROVE  HeapOK' /\ Allocated(addr, layout)
<1> DEFINE n == Block(addr, layout)
           f == [j \in DOMAIN BlockSizes |-> [k \in DOMAIN list_heads'[j] |-> k]]
<1>1. Extent(n) = Run(addr, Capacity(layout))
  BY NewExtent
<1>2. Fresh(n)
  <2>1. \A b \in live : Extent(b) \cap fallback = {}
    BY DisjointCases DEF HeapOK
  <2> QED
    BY <1>1, <2>1 DEF Fresh
<1>3. Extent(n) \subseteq 0..(HeapSize - 1)
  <2>1. fallback \subseteq 0..(HeapSize - 1)
    BY DEF HeapOK, HeapTypeOK
  <2> QED
    BY <1>1, <2>1
<1>4. ASSUME NEW j \in DOMAIN BlockSizes, NEW k \in DOMAIN list_heads'[j]
      PROVE  /\ f[j][k] \in DOMAIN list_heads[j]
             /\ list_heads'[j][k] = list_heads[j][f[j][k]]
             /\ \A m \in DOMAIN list_heads'[j] : f[j][k] = f[j][m] => k = m
             /\ OnList(j, f[j][k]) \cap Extent(n) = {}
  <2>1. \A m \in DOMAIN list_heads'[j] : f[j][m] = m
    OBVIOUS
  <2> HIDE DEF f, n
  <2>2. OnList(j, k) \cap fallback = {}
    BY DisjointCases DEF HeapOK
  <2> QED
    BY <1>1, <2>1, <2>2
<1> HIDE DEF f, n
<1>5. n = Block(addr, layout)
  BY DEF n
<1>6. list_heads' \in [DOMAIN BlockSizes -> Seq(0..(HeapSize - 1))]
      /\ fallback' \subseteq fallback /\ Extent(n) \cap fallback' = {}
  BY <1>1 DEF HeapOK, HeapTypeOK
<1>7. HeapOK'
  <2>1. Remains(f, n)
    BY <1>4 DEF Remains
  <2> QED
    BY <1>2, <1>3, <1>5, <1>6, <2>1, AddBlock
<1> QED
  BY <1>2, <1>3, <1>5, <1>7 DEF Allocated

\* alloc keeps the invariant, and what it hands out overlaps nothing handed out.
LEMMA AllocOK ==
    ASSUME HeapOK, NEW layout \in Layout, NEW addr \in 0..(HeapSize - 1),
           Alloc(addr, layout)
    PROVE  HeapOK' /\ Allocated(addr, layout)
<1>1. CASE AllocFromList(addr, layout)
  BY <1>1, FromListOK
<1>2. CASE AllocNewBlock(addr, layout)
  <2>1. PICK i \in ListIndex(layout) :
          /\ addr \in FallbackRuns(BlockSizes[i], BlockSizes[i])
          /\ fallback' = fallback \ Run(addr, BlockSizes[i])
          /\ live' = live \cup {Block(addr, layout)}
          /\ UNCHANGED list_heads
    BY <1>2 DEF AllocNewBlock
  <2>2. Capacity(layout) = BlockSizes[i]
    BY CapacityFacts
  <2>3. AlignedFor(addr, layout)
    BY <2>1, ListIndexFacts DEF AlignedFor, FallbackRuns
  <2>4. Run(addr, Capacity(layout)) \subseteq fallback
        /\ fallback' = fallback \ Run(addr, Capacity(layout)) /\ list_heads' = list_heads
    BY <2>1, <2>2 DEF FallbackRuns
  <2> QED
    BY <2>1, <2>3, <2>4, FromFallbackOK
<1>3. CASE AllocFallback(addr, layout)
  <2>1. Capacity(layout) = layout.size
    BY <1>3, CapacityFacts DEF AllocFallback
  <2>2. AlignedFor(addr, layout)
    BY <1>3 DEF AllocFallback, AlignedFor, FallbackRuns
  <2> QED
    BY <1>3, <2>1, <2>2, FromFallbackOK DEF AllocFallback, FallbackRuns
<1> QED
  BY <1>1, <1>2, <1>3 DEF Alloc

-----------------------------------------------------------------------------
(* dealloc *)

\* The layout a block comes back under may name a smaller class than the one it was
\* taken under, never a larger one or one where there was none.
Returnable(b, layout) ==
    \/ ListIndex(layout) = {} /\ ListIndex(LayoutOf(b)) = {} /\ layout.size = b.size
    \/ \E i \in ListIndex(layout), j \in ListIndex(LayoutOf(b)) : i <= j

\* The block becomes the head of list i, no larger than its own class.
LEMMA ToListOK ==
    ASSUME HeapOK, NEW b \in live, NEW layout, Dealloc(b, layout),
           NEW i \in ListIndex(layout), NEW c \in ListIndex(LayoutOf(b)), i <= c
    PROVE  HeapOK'
<1> DEFINE s == list_heads[i]
           block == Run(b.addr, BlockSizes[i])
           New(j, k) == Run(list_heads'[j][k], BlockSizes[j])
           f == [j \in DOMAIN BlockSizes |->
                   [k \in DOMAIN list_heads'[j] |-> IF j = i THEN k - 1 ELSE k]]
<1>1. /\ live' = live \ {b} /\ fallback' = fallback
      /\ list_heads' = [j \in DOMAIN BlockSizes |->
                          IF j \in ListIndex(layout)
                          THEN <<b.addr>> \o list_heads[j] ELSE list_heads[j]]
  BY DEF Dealloc
<1>2. /\ i \in DOMAIN BlockSizes /\ c \in DOMAIN BlockSizes
      /\ list_heads \in [DOMAIN BlockSizes -> Seq(0..(HeapSize - 1))]
      /\ \A j \in DOMAIN BlockSizes : list_heads[j] \in Seq(0..(HeapSize - 1))
      /\ b.addr \in 0..(HeapSize - 1) /\ b.addr \in Nat
  BY ListIndexFacts DEF HeapOK, HeapTypeOK
<1>3. /\ list_heads'[i] = <<b.addr>> \o s
      /\ \A j \in DOMAIN BlockSizes : j # i => list_heads'[j] = list_heads[j]
  BY <1>1, <1>2, ListIndexFacts
<1>4. /\ Len(s) \in Nat /\ DOMAIN s = 1..Len(s)
      /\ <<b.addr>> \o s \in Seq(0..(HeapSize - 1))
      /\ DOMAIN (<<b.addr>> \o s) = 1..(Len(s) + 1)
      /\ (<<b.addr>> \o s)[1] = b.addr
      /\ \A k \in 1..(Len(s) + 1) : k # 1 => (<<b.addr>> \o s)[k] = s[k - 1]
  <2>1. s \in Seq(0..(HeapSize - 1)) /\ <<b.addr>> \in Seq(0..(HeapSize - 1))
    BY <1>2
  <2>2. Len(<<b.addr>>) = 1 /\ <<b.addr>>[1] = b.addr
    OBVIOUS
  <2>3. Len(s) \in Nat /\ DOMAIN s = 1..Len(s)
    BY <2>1, LenProperties
  <2>4. /\ <<b.addr>> \o s \in Seq(0..(HeapSize - 1))
        /\ Len(<<b.addr>> \o s) = 1 + Len(s)
        /\ \A k \in 1..(1 + Len(s)) : (<<b.addr>> \o s)[k] =
              IF k <= 1 THEN <<b.addr>>[k] ELSE s[k - 1]
    BY <2>1, <2>2, ConcatProperties
  <2>5. DOMAIN (<<b.addr>> \o s) = 1..(Len(s) + 1)
    BY <2>3, <2>4, LenProperties
  <2> QED
    BY <2>2, <2>3, <2>4, <2>5
<1>5. list_heads' \in [DOMAIN BlockSizes -> Seq(0..(HeapSize - 1))]
  BY <1>1, <1>2, <1>3, <1>4
<1>6. New(i, 1) = block /\ 1 \in DOMAIN list_heads'[i]
  BY <1>3, <1>4
<1>7. ASSUME NEW j \in DOMAIN BlockSizes, NEW k \in DOMAIN list_heads'[j],
             <<j, k>> # <<i, 1>>
      PROVE  /\ f[j][k] \in DOMAIN list_heads[j]
             /\ New(j, k) = OnList(j, f[j][k])
             /\ list_heads'[j][k] = list_heads[j][f[j][k]]
             /\ f[j][k] = IF j = i THEN k - 1 ELSE k
             /\ j = i => k \in Nat
  <2>0. f[j][k] = IF j = i THEN k - 1 ELSE k
    OBVIOUS
  <2> HIDE DEF f
  <2>1. CASE j = i
    <3>1. k \in 1..(Len(s) + 1) /\ k # 1
      BY <1>3, <1>4, <1>7, <2>1
    <3>2. f[j][k] = k - 1 /\ k - 1 \in DOMAIN s /\ list_heads'[j][k] = s[k - 1]
      BY <1>3, <1>4, <2>0, <2>1, <3>1
    <3> QED
      BY <2>1, <3>1, <3>2 DEF OnList
  <2>2. CASE j # i
    BY <1>3, <2>0, <2>2 DEF OnList
  <2> QED
    BY <2>1, <2>2
<1> HIDE DEF f, s
<1>8. block \subseteq Extent(b) /\ b.addr % BlockSizes[i] = 0
  <2>1. BlockSizes[i] \in Nat \ {0} /\ BlockSizes[c] \in Nat \ {0} /\ i \in Nat /\ c \in Nat
    BY <1>2, ClassFacts
  <2>2. BlockSizes[i] <= BlockSizes[c] /\ BlockSizes[c] % BlockSizes[i] = 0
    <3>1. CASE i = c
      BY <2>1, <3>1
    <3>2. CASE i < c
      BY <1>2, <2>1, <3>2, HeapAssumption, PowersOfTwo
    <3> QED
      BY <2>1, <3>1, <3>2
  <2>3. Extent(b) = Run(b.addr, BlockSizes[c])
    BY LiveFacts, CapacityFacts
  <2>4. b.addr % BlockSizes[c] = 0
    BY DEF HeapOK, Placed, AlignedFor
  <2>5. block \subseteq Extent(b)
    <3>1. BlockSizes[i] \in Nat /\ BlockSizes[i] <= BlockSizes[c]
      BY <2>1, <2>2
    <3>2. Run(b.addr, BlockSizes[i]) \subseteq Run(b.addr, BlockSizes[c])
      BY <1>2, <2>1, <3>1, RunFacts
    <3> QED
      BY <2>3, <3>2
  <2> QED
    BY <1>2, <2>1, <2>2, <2>4, <2>5, DivTrans
<1>9. /\ block \cap fallback = {} /\ block \subseteq 0..(HeapSize - 1)
      /\ \A d \in live : d # b => block \cap Extent(d) = {}
      /\ \A j \in DOMAIN BlockSizes : \A k \in DOMAIN list_heads[j] :
            OnList(j, k) \cap block = {}
  <2>1. /\ Extent(b) \cap fallback = {}
        /\ \A d \in live : d # b => Extent(b) \cap Extent(d) = {}
        /\ \A j \in DOMAIN BlockSizes : \A k \in DOMAIN list_heads[j] :
              OnList(j, k) \cap Extent(b) = {}
    BY DisjointCases DEF HeapOK
  <2>2. Extent(b) \subseteq 0..(HeapSize - 1)
    BY DEF HeapOK, Placed
  <2>3. block \subseteq Extent(b)
    BY <1>8
  <2> HIDE DEF block
  <2>4. block \cap fallback = {} /\ block \subseteq 0..(HeapSize - 1)
    BY <2>1, <2>2, <2>3
  <2>5. \A d \in live : d # b => block \cap Extent(d) = {}
    BY <2>1, <2>3
  <2>6. \A j \in DOMAIN BlockSizes : \A k \in DOMAIN list_heads[j] :
            OnList(j, k) \cap block = {}
    BY <2>1, <2>3
  <2> QED
    BY <2>4, <2>5, <2>6
<1>10. ASSUME NEW j \in DOMAIN BlockSizes, NEW k \in DOMAIN list_heads'[j],
              NEW h \in DOMAIN BlockSizes, NEW m \in DOMAIN list_heads'[h],
              <<j, k>> # <<h, m>>
       PROVE  New(j, k) \cap New(h, m) = {}
  <2>1. CASE <<j, k>> = <<i, 1>>
    BY <1>6, <1>7, <1>9, <1>10, <2>1
  <2>2. CASE <<h, m>> = <<i, 1>>
    BY <1>6, <1>7, <1>9, <1>10, <2>2
  <2>3. CASE <<j, k>> # <<i, 1>> /\ <<h, m>> # <<i, 1>>
    <3>1. <<j, f[j][k]>> # <<h, f[h][m]>>
      BY <1>7, <1>10, <2>3
    <3>2. OnList(j, f[j][k]) \cap OnList(h, f[h][m]) = {}
      BY <1>7, <2>3, <3>1, DisjointCases DEF HeapOK
    <3> QED
      BY <1>7, <2>3, <3>2
  <2> QED
    BY <2>1, <2>2, <2>3
<1>11. ASSUME NEW j \in DOMAIN BlockSizes, NEW k \in DOMAIN list_heads'[j]
       PROVE  /\ New(j, k) \cap fallback' = {}
              /\ \A d \in live' : New(j, k) \cap Extent(d) = {}
              /\ New(j, k) \subseteq 0..(HeapSize - 1)
              /\ list_heads'[j][k] % BlockSizes[j] = 0
  <2>1. CASE <<j, k>> = <<i, 1>>
    BY <1>1, <1>3, <1>4, <1>6, <1>8, <1>9, <2>1
  <2>2. CASE <<j, k>> # <<i, 1>>
    <3>1. /\ OnList(j, f[j][k]) \cap fallback = {}
          /\ \A d \in live : OnList(j, f[j][k]) \cap Extent(d) = {}
      BY <1>7, <2>2, DisjointCases DEF HeapOK
    <3>2. /\ OnList(j, f[j][k]) \subseteq 0..(HeapSize - 1)
          /\ list_heads'[j][k] % BlockSizes[j] = 0
      BY <1>7, <2>2 DEF HeapOK, Placed
    <3> QED
      BY <1>1, <1>7, <2>2, <3>1, <3>2
  <2> QED
    BY <2>1, <2>2
<1>12. /\ \A d \in live' : Extent(d) \cap fallback' = {}
       /\ \A d, e \in live' : d # e => Extent(d) \cap Extent(e) = {}
  BY <1>1, DisjointCases DEF HeapOK
<1>13. BlocksDisjoint'
  BY <1>10, <1>11, <1>12, Zenon DEF BlocksDisjoint
<1>14. Placed'
  BY <1>1, <1>11 DEF HeapOK, Placed, OnList
<1>15. HeapTypeOK'
  BY <1>1, <1>5 DEF HeapOK, HeapTypeOK
<1> QED
  BY <1>13, <1>14, <1>15 DEF HeapOK

\* The block goes back to the fallback allocator, which gave it.
LEMMA ToFallbackOK ==
    ASSUME HeapOK, NEW b \in live, NEW layout, Dealloc(b, layout),
           ListIndex(layout) = {}, ListIndex(LayoutOf(b)) = {}, layout.size = b.size
    PROVE  HeapOK'
<1>1. /\ live' = live \ {b} /\ list_heads' = list_heads
      /\ fallback' = fallback \cup Run(b.addr, b.size)
  BY DEF Dealloc
<1>2. Extent(b) = Run(b.addr, b.size)
  <2>1. Capacity(LayoutOf(b)) = LayoutOf(b).size /\ LayoutOf(b).size = b.size
    BY CapacityFacts DEF LayoutOf
  <2> QED
    BY <2>1, LiveFacts
<1>3. Extent(b) \subseteq 0..(HeapSize - 1)
  BY DEF HeapOK, Placed
<1>4. HeapTypeOK'
  BY <1>1, <1>2, <1>3 DEF HeapOK, HeapTypeOK
<1>5. Placed'
  BY <1>1 DEF HeapOK, Placed, OnList
<1>6. \A d \in live' : Extent(d) \cap fallback' = {}
  <2>1. \A d \in live : Extent(d) \cap fallback = {} /\ (d # b => Extent(d) \cap Extent(b) = {})
    BY DisjointCases DEF HeapOK
  <2> QED
    BY <1>1, <1>2, <2>1
<1>7. \A i \in DOMAIN BlockSizes : \A k \in DOMAIN list_heads[i] :
         /\ OnList(i, k) \cap fallback' = {}
         /\ \A d \in live' : OnList(i, k) \cap Extent(d) = {}
         /\ \A j \in DOMAIN BlockSizes : \A m \in DOMAIN list_heads[j] :
              <<i, k>> # <<j, m>> => OnList(i, k) \cap OnList(j, m) = {}
  <2> TAKE i \in DOMAIN BlockSizes
  <2> TAKE k \in DOMAIN list_heads[i]
  <2>1. /\ OnList(i, k) \cap fallback = {}
        /\ \A d \in live : OnList(i, k) \cap Extent(d) = {}
        /\ \A j \in DOMAIN BlockSizes : \A m \in DOMAIN list_heads[j] :
              <<i, k>> # <<j, m>> => OnList(i, k) \cap OnList(j, m) = {}
    BY DisjointCases DEF HeapOK
  <2> QED
    BY <1>1, <1>2, <2>1
<1>8. \A d, e \in live' : d # e => Extent(d) \cap Extent(e) = {}
  BY <1>1, DisjointCases DEF HeapOK
<1>9. BlocksDisjoint'
  <2>1. \A d \in live' : /\ Extent(d) \cap fallback' = {}
                         /\ \A e \in live' : d # e => Extent(d) \cap Extent(e) = {}
    BY <1>6, <1>8
  <2>2. list_heads' = list_heads
    BY <1>1
  <2>3. \A i \in DOMAIN BlockSizes : \A k \in DOMAIN list_heads'[i] :
         LET block == Run(list_heads'[i][k], BlockSizes[i])
         IN  /\ block \cap fallback' = {}
             /\ \A d \in live' : block \cap Extent(d) = {}
             /\ \A j \in DOMAIN BlockSizes : \A m \in DOMAIN list_heads'[j] :
                  <<i, k>> # <<j, m>> => block \cap Run(list_heads'[j][m], BlockSizes[j]) = {}
    BY <1>7, <2>2, Zenon DEF OnList
  <2> QED
    BY <2>1, <2>3, Zenon DEF BlocksDisjoint, Extent
<1> QED
  BY <1>4, <1>5, <1>9 DEF HeapOK

\* dealloc keeps the invariant whenever the layout does not make the block larger
\* than it was.
LEMMA DeallocOK ==
    ASSUME HeapOK, NEW b \in live, NEW layout, Dealloc(b, layout), Returnable(b, layout)
    PROVE  HeapOK' /\ live' = live \ {b}
<1>1. live' = live \ {b}
  BY DEF Dealloc
<1> QED
  BY <1>1, ToListOK, ToFallbackOK DEF Returnable
=============================================================================
