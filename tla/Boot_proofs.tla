----------------------------- MODULE Boot_proofs -----------------------------
(***************************************************************************)
(* Proofs about Boot, for every memory map, every number of heap pages and *)
(* processes, and every place of the pages: no frame is used twice, every  *)
(* address space is complete, only user pages are open to user mode, and   *)
(* the set-up fails for lack of frames only.                               *)
(***************************************************************************)
EXTENDS Boot, FiniteSetTheorems, TLAPS

(* The frame allocator *)

\* Every non-empty set of natural numbers has a least element.
LEMMA LeastElement ==
    ASSUME NEW S \in SUBSET Nat, S # {}
    PROVE  \E n \in S : \A m \in S : n <= m
<1>1. PICK n \in S : \A m \in S : ~(<<m, n>> \in OpToRel(<, Nat))
  BY WFMin, NatLessThanWellFounded, Zenon
<1>2. \A m \in S : ~(m < n)
  BY <1>1, Zenon DEF OpToRel
<1> QED
  BY <1>2

\* The frames handed out by the first n calls of allocate_frame, and those the
\* bootloader used.
Given(n) == KernelFrames \cup {f \in usable_frames : \E k \in 0..(n - 1) : IsNth(f, k)}

\* There are finitely many usable frames, none of them in use at the start.
LEMMA UsableFrames ==
    ASSUME memory_map \in MemoryMaps
    PROVE  /\ usable_frames \in SUBSET Nat
           /\ IsFiniteSet(usable_frames)
           /\ \A f \in usable_frames : f \notin KernelFrames
<1> DEFINE D == {j \in DOMAIN memory_map : memory_map[j].usable}
           R == {memory_map[i].first .. memory_map[i].last : i \in D}
<1>1. memory_map \in Seq([usable : BOOLEAN, first : Nat, last : Nat])
  BY BootAssumption, Zenon
<1>2. DOMAIN memory_map = 1..Len(memory_map) /\ Len(memory_map) \in Nat
  BY <1>1
<1>3. \A i \in DOMAIN memory_map : memory_map[i].first \in Nat /\ memory_map[i].last \in Nat
  <2> SUFFICES ASSUME NEW i \in DOMAIN memory_map
               PROVE  memory_map[i].first \in Nat /\ memory_map[i].last \in Nat
    BY Zenon
  <2> DEFINE Region == [usable : BOOLEAN, first : Nat, last : Nat]
  <2>1. memory_map \in Seq(Region)
    BY <1>1, Zenon
  <2> HIDE DEF Region
  <2>2. memory_map[i] \in Region
    BY <2>1
  <2> QED
    BY <2>2, Zenon DEF Region
<1>4. \A i \in D : memory_map[i].first > 4
  BY BootAssumption, Zenon
<1>5. usable_frames \in SUBSET Nat /\ \A f \in usable_frames : f > 4
  <2> SUFFICES ASSUME NEW f \in usable_frames
               PROVE  f \in Nat /\ f > 4
    BY Zenon
  <2>1. PICK i \in D : f \in memory_map[i].first .. memory_map[i].last
    BY Zenon DEF usable_frames
  <2> QED
    BY <1>3, <1>4, <2>1
<1>6. IsFiniteSet(D)
  <2>1. IsFiniteSet(1..Len(memory_map))
    BY <1>2, FS_Interval
  <2>2. D \in SUBSET (1..Len(memory_map))
    BY <1>2, Zenon
  <2> QED
    BY <2>1, <2>2, FS_Subset, Zenon
<1>7. IsFiniteSet(R)
  <2> DEFINE region == [i \in D |-> memory_map[i].first .. memory_map[i].last]
  <2>1. region \in Surjection(D, R)
    BY Zenon DEF Surjection
  <2> QED
    BY <1>6, <2>1, FS_Surjection, Zenon
<1>8. \A T \in R : IsFiniteSet(T)
  <2> SUFFICES ASSUME NEW i \in D
               PROVE  IsFiniteSet(memory_map[i].first .. memory_map[i].last)
    BY Zenon
  <2>1. memory_map[i].first \in Int /\ memory_map[i].last \in Int
    BY <1>3
  <2> QED
    BY <2>1, FS_Interval, Zenon
<1>9. IsFiniteSet(usable_frames)
  BY <1>7, <1>8, FS_UNION, Zenon DEF usable_frames
<1> QED
  BY <1>5, <1>9 DEF KernelFrames

\* The nth frame is one frame.
LEMMA NthFrame ==
    ASSUME memory_map \in MemoryMaps, NEW n \in Nat, Frame(n) # NoFrame
    PROVE  IsNth(Frame(n), n)
  BY Zenon DEF Frame

\* What is handed out stays handed out.
LEMMA GivenGrows ==
    ASSUME NEW n \in Nat, NEW m \in Nat, n <= m
    PROVE  Given(n) \subseteq Given(m)
  BY DEF Given

\* allocate_frame returns a frame it has not returned before.
LEMMA FreshFrame ==
    ASSUME memory_map \in MemoryMaps, NEW n \in Nat, Frame(n) # NoFrame
    PROVE  /\ Frame(n) \in Nat
           /\ Frame(n) \notin Given(n)
           /\ Frame(n) \in Given(n + 1)
<1>1. IsNth(Frame(n), n)
  BY NthFrame, Zenon
<1> QED
  BY <1>1, UsableFrames DEF Given, IsNth

\* Without a gap: it returns nothing only when every usable frame is handed out.
LEMMA Exhausted ==
    ASSUME memory_map \in MemoryMaps, NEW n \in Nat, Frame(n) = NoFrame
    PROVE  n >= Cardinality(usable_frames)
<1> DEFINE U == usable_frames
           Before(f) == {g \in U : g < f}
           Missing == {m \in Nat : m < Cardinality(U) /\ ~\E f \in U : IsNth(f, m)}
<1>1. U \in SUBSET Nat /\ IsFiniteSet(U) /\ Cardinality(U) \in Nat
  BY UsableFrames, FS_CardinalityType, Zenon
<1>a. \A f \in U : f \in Nat
  BY <1>1, Zenon
<1>2. \A f \in U : ~IsNth(f, n)
  <2> SUFFICES ASSUME NEW f \in U, IsNth(f, n)
               PROVE  FALSE
    BY Zenon
  <2>1. Frame(n) \in U
    BY Zenon DEF Frame
  <2> QED
    BY <1>1, <2>1, BootAssumption, Zenon
<1>3. \A f \in U : IsFiniteSet(Before(f)) /\ Cardinality(Before(f)) \in Nat
  BY <1>1, FS_Subset, FS_CardinalityType, Zenon
<1>4. ASSUME NEW m \in Missing, \A k \in Missing : m <= k
      PROVE  FALSE
  <2>1. CASE m = 0
    <3>1. U # {}
      BY <1>1, <2>1, FS_EmptySet
    <3>2. PICK x \in U : \A y \in U : x <= y
      BY <1>1, <3>1, LeastElement, Zenon
    <3>3. Before(x) = {}
      <4> HIDE DEF U
      <4> QED
        BY <1>a, <3>2
    <3>4. IsNth(x, 0)
      BY <3>3, FS_EmptySet, Zenon DEF IsNth
    <3> QED
      BY <2>1, <3>4, Zenon
  <2>2. CASE m # 0
    <3>1. m - 1 \in Nat /\ m - 1 < Cardinality(U) /\ m - 1 \notin Missing
      BY <1>1, <1>4, <2>2
    <3>2. PICK v \in U : IsNth(v, m - 1)
      BY <3>1, Zenon
    <3> DEFINE Above == {g \in U : v < g}
    <3>3. U = (Before(v) \cup {v}) \cup Above /\ v \notin Before(v)
      <4> HIDE DEF U
      <4> QED
        BY <1>a
    <3>4. IsFiniteSet(Before(v) \cup {v}) /\ Cardinality(Before(v) \cup {v}) = m
      <4>1. Cardinality(Before(v)) = m - 1
        BY <3>2, Zenon DEF IsNth
      <4> QED
        BY <1>3, <3>3, <4>1, FS_AddElement
    <3>5. Above # {}
      BY <3>3, <3>4
    <3>6. PICK w \in Above : \A y \in Above : w <= y
      BY <1>1, <3>5, LeastElement, Zenon
    <3>7. Before(w) = Before(v) \cup {v}
      <4> HIDE DEF U
      <4> QED
        BY <1>a, <3>6
    <3>8. IsNth(w, m)
      BY <3>4, <3>7, Zenon DEF IsNth
    <3> QED
      BY <3>8, Zenon
  <2> QED
    BY <2>1, <2>2, Zenon
<1>5. Missing = {}
  <2> HIDE DEF Missing
  <2>1. Missing \in SUBSET Nat
    BY Zenon DEF Missing
  <2> QED
    BY <1>4, <2>1, LeastElement, Zenon
<1> QED
  BY <1>1, <1>2, <1>5
-----------------------------------------------------------------------------
(* Page tables *)

\* An entry is unused or leads to a frame.
EntryType == {Unused} \cup [frame : Nat, user : BOOLEAN]

Tables(T) ==
    /\ Level4 \in DOMAIN T
    /\ DOMAIN T \subseteq Nat
    /\ T \in [DOMAIN T -> [Indexes -> EntryType]]

\* The tables form a tree of four levels: an entry of a level 1 table leads to a
\* page, every other to a table one level below, and no two to the same frame.
Tree(T, lev) ==
    /\ lev \in [DOMAIN T -> 1..4]
    /\ lev[Level4] = 4
    /\ \A t \in DOMAIN T, i \in Indexes : T[t][i] # Unused =>
         IF lev[t] = 1 THEN T[t][i].frame \notin DOMAIN T
         ELSE T[t][i].frame \in DOMAIN T /\ lev[T[t][i].frame] = lev[t] - 1
    /\ \A t, u \in DOMAIN T, i, j \in Indexes :
         T[t][i] # Unused /\ T[t][i].frame = T[u][j].frame => t = u /\ i = j

Sound(T, lev) == Tables(T) /\ Tree(T, lev)

\* A frame in use, as a table or behind an entry.
InUse(T, f) == f \in DOMAIN T \/ \E t \in DOMAIN T, i \in Indexes : T[t][i].frame = f

\* What is in use has been handed out.
Within(T, n) == \A f \in Nat : InUse(T, f) => f \in Given(n)

\* Entry i of table t leads to u.
Link(T, t, i, u) == t \in DOMAIN T /\ T[t][i] # Unused /\ T[t][i].frame = u

\* The tables of levels 3, 2 and 1 on the way to a page.
Trail(T, page, a, b, c) ==
    Link(T, Level4, page[1], a) /\ Link(T, a, page[2], b) /\ Link(T, b, page[3], c)

PageIndexes == [1..4 -> Indexes]

Maps(T, page, f) == \E a, b, c : Trail(T, page, a, b, c) /\ Link(T, c, page[4], f)

\* What every step of map_to leaves alone: S has the entries of T, maps no other
\* page, and differs on no level 1 table of T.
Keeps(T, lev, S, levS) ==
    /\ DOMAIN T \subseteq DOMAIN S
    /\ \A t \in DOMAIN T : levS[t] = lev[t]
    /\ \A t \in DOMAIN T, i \in Indexes : T[t][i] # Unused =>
         /\ S[t][i] # Unused
         /\ S[t][i].frame = T[t][i].frame
         /\ T[t][i].user => S[t][i].user
    /\ \A t \in DOMAIN T, i \in Indexes : lev[t] = 1 => S[t][i] = T[t][i]
    /\ \A page \in PageIndexes : \A f : Maps(S, page, f) => Maps(T, page, f)

\* An entry that is used leads to a frame.
LEMMA EntryUsed ==
    ASSUME NEW e \in EntryType
    PROVE  /\ e # Unused <=> e.frame \in Nat
           /\ e # Unused <=> e.frame # NoFrame
           /\ e # Unused => e.user \in BOOLEAN
<1>1. CASE e = Unused
  BY <1>1, BootAssumption, Zenon DEF Unused, Entry
<1>2. CASE e \in [frame : Nat, user : BOOLEAN]
  <2>1. e.frame \in Nat /\ e.user \in BOOLEAN
    BY <1>2, Zenon
  <2>2. e # Unused
    BY <2>1, BootAssumption DEF Unused, Entry
  <2> QED
    BY <2>1, <2>2, BootAssumption, Zenon
<1> QED
  BY <1>1, <1>2, Zenon DEF EntryType

\* The same of the entries of the tables.
LEMMA Entries ==
    ASSUME NEW T, Tables(T), NEW t \in DOMAIN T, NEW i \in Indexes
    PROVE  /\ T[t][i] \in EntryType
           /\ T[t][i] # Unused <=> T[t][i].frame \in Nat
           /\ T[t][i] # Unused <=> T[t][i].frame # NoFrame
           /\ T[t][i] # Unused => T[t][i].user \in BOOLEAN
<1>1. T[t][i] \in EntryType
  BY Zenon DEF Tables
<1> QED
  BY <1>1, EntryUsed, Zenon

\* The levels of the tables on a trail.
LEMMA TrailLevels ==
    ASSUME NEW T, NEW lev, Sound(T, lev), NEW page \in PageIndexes, NEW a, NEW b, NEW c,
           Trail(T, page, a, b, c)
    PROVE  /\ a \in DOMAIN T /\ lev[a] = 3
           /\ b \in DOMAIN T /\ lev[b] = 2
           /\ c \in DOMAIN T /\ lev[c] = 1
<1>1. page[1] \in Indexes /\ page[2] \in Indexes /\ page[3] \in Indexes
  BY DEF PageIndexes
<1>2. a \in DOMAIN T /\ lev[a] = 3
  BY <1>1 DEF Sound, Tree, Trail, Link
<1>3. b \in DOMAIN T /\ lev[b] = 2
  BY <1>1, <1>2 DEF Sound, Tree, Trail, Link
<1>4. c \in DOMAIN T /\ lev[c] = 1
  BY <1>1, <1>3 DEF Sound, Tree, Trail, Link
<1> QED
  BY <1>2, <1>3, <1>4, Zenon

\* Two trails that end in one table are those of pages that differ in the last
\* index only.
LEMMA TrailUnique ==
    ASSUME NEW T, NEW lev, Sound(T, lev), NEW p \in PageIndexes, NEW q \in PageIndexes,
           NEW a, NEW b, NEW c, NEW d, NEW e,
           Trail(T, p, a, b, c), Trail(T, q, d, e, c)
    PROVE  p[1] = q[1] /\ p[2] = q[2] /\ p[3] = q[3]
<1>1. \A k \in 1..4 : p[k] \in Indexes /\ q[k] \in Indexes
  BY Zenon DEF PageIndexes
<1>2. /\ a \in DOMAIN T /\ b \in DOMAIN T /\ d \in DOMAIN T /\ e \in DOMAIN T
      /\ Level4 \in DOMAIN T
  BY TrailLevels, Zenon DEF Sound, Tables
<1>3. b = e /\ p[3] = q[3]
  BY <1>1, <1>2 DEF Sound, Tree, Trail, Link
<1>4. a = d /\ p[2] = q[2]
  BY <1>1, <1>2, <1>3 DEF Sound, Tree, Trail, Link
<1>5. p[1] = q[1]
  BY <1>1, <1>2, <1>4 DEF Sound, Tree, Trail, Link
<1> QED
  BY <1>3, <1>4, <1>5, Zenon

\* Nothing changes.
LEMMA KeepsSame ==
    ASSUME NEW T, NEW lev
    PROVE  Keeps(T, lev, T, lev)
  BY Zenon DEF Keeps

\* One step after another.
LEMMA KeepsThen ==
    ASSUME NEW T, NEW lev, NEW S, NEW levS, NEW R, NEW levR,
           Keeps(T, lev, S, levS), Keeps(S, levS, R, levR)
    PROVE  Keeps(T, lev, R, levR)
<1>1. \A t \in DOMAIN T : t \in DOMAIN S /\ levS[t] = lev[t]
  BY Zenon DEF Keeps
<1>2. DOMAIN T \subseteq DOMAIN R /\ \A t \in DOMAIN T : levR[t] = lev[t]
  BY <1>1, Zenon DEF Keeps
<1>3. \A t \in DOMAIN T, i \in Indexes : T[t][i] # Unused =>
         /\ R[t][i] # Unused
         /\ R[t][i].frame = T[t][i].frame
         /\ T[t][i].user => R[t][i].user
  BY <1>1 DEF Keeps
<1>4. \A t \in DOMAIN T, i \in Indexes : lev[t] = 1 => R[t][i] = T[t][i]
  BY <1>1 DEF Keeps
<1>5. \A page \in PageIndexes : \A f : Maps(R, page, f) => Maps(T, page, f)
  BY Zenon DEF Keeps
<1> QED
  BY <1>2, <1>3, <1>4, <1>5, Zenon DEF Keeps

\* A flag that is set stays set.
LEMMA KeepsUser ==
    ASSUME NEW T, NEW lev, NEW S, NEW levS, Keeps(T, lev, S, levS),
           NEW t, NEW i \in Indexes, NEW u, Link(T, t, i, u), T[t][i].user
    PROVE  S[t][i].user
  BY Zenon DEF Keeps, Link

\* A trail survives.
LEMMA KeepsTrail ==
    ASSUME NEW T, NEW lev, NEW S, NEW levS, Keeps(T, lev, S, levS),
           NEW t, NEW i \in Indexes, NEW u, Link(T, t, i, u)
    PROVE  Link(S, t, i, u)
  BY Zenon DEF Keeps, Link

\* S is T but for flags above level 1, which may have been set.
Opened(T, lev, S) ==
    /\ DOMAIN S = DOMAIN T
    /\ S \in [DOMAIN T -> [Indexes -> EntryType]]
    /\ \A u \in DOMAIN T, j \in Indexes : S[u][j].frame = T[u][j].frame
    /\ \A u \in DOMAIN T, j \in Indexes : S[u][j] = Unused <=> T[u][j] = Unused
    /\ \A u \in DOMAIN T, j \in Indexes : T[u][j].user => S[u][j].user
    /\ \A u \in DOMAIN T, j \in Indexes : lev[u] = 1 => S[u][j] = T[u][j]

\* Opening entries above level 1 keeps the tree, its pages and the frames in use.
LEMMA OpenedKeeps ==
    ASSUME NEW T, NEW lev, Sound(T, lev), NEW S, Opened(T, lev, S)
    PROVE  /\ Sound(S, lev) /\ Keeps(T, lev, S, lev)
           /\ \A f \in Nat : InUse(S, f) <=> InUse(T, f)
<1>1. Sound(S, lev)
  <2>1. Tables(S)
    BY Zenon DEF Sound, Tables, Opened
  <2>2. Tree(S, lev)
    <3>1. Tree(T, lev) /\ DOMAIN S = DOMAIN T
      BY Zenon DEF Sound, Opened
    <3>2. ASSUME NEW t \in DOMAIN S, NEW i \in Indexes
          PROVE  /\ t \in DOMAIN T /\ S[t][i].frame = T[t][i].frame
                 /\ S[t][i] # Unused => T[t][i] # Unused
      BY <3>1, Zenon DEF Opened
    <3>3. ASSUME NEW t \in DOMAIN S, NEW i \in Indexes, S[t][i] # Unused
          PROVE  IF lev[t] = 1 THEN S[t][i].frame \notin DOMAIN S
                 ELSE S[t][i].frame \in DOMAIN S /\ lev[S[t][i].frame] = lev[t] - 1
      <4>1. /\ t \in DOMAIN T /\ S[t][i].frame = T[t][i].frame
            /\ T[t][i] # Unused
        BY <3>2, <3>3, Zenon
      <4>2. IF lev[t] = 1 THEN T[t][i].frame \notin DOMAIN T
            ELSE T[t][i].frame \in DOMAIN T /\ lev[T[t][i].frame] = lev[t] - 1
        BY <3>1, <4>1, Zenon DEF Tree
      <4> QED
        BY <3>1, <4>1, <4>2, Zenon
    <3>4. ASSUME NEW t \in DOMAIN S, NEW u \in DOMAIN S, NEW i \in Indexes, NEW j \in Indexes,
                 S[t][i] # Unused, S[t][i].frame = S[u][j].frame
          PROVE  t = u /\ i = j
      <4>1. /\ t \in DOMAIN T /\ u \in DOMAIN T /\ T[t][i] # Unused
            /\ T[t][i].frame = T[u][j].frame
        <5>1. t \in DOMAIN T /\ S[t][i].frame = T[t][i].frame /\ T[t][i] # Unused
          BY <3>2, <3>4, Zenon
        <5>2. u \in DOMAIN T /\ S[u][j].frame = T[u][j].frame
          BY <3>2, Zenon
        <5> QED
          BY <3>4, <5>1, <5>2, Zenon
      <4> QED
        BY <3>1, <4>1 DEF Tree
    <3> QED
      BY <3>1, <3>3, <3>4 DEF Tree
  <2> QED
    BY <2>1, <2>2, Zenon DEF Sound
<1>2. ASSUME NEW u, NEW j \in Indexes, NEW v
      PROVE  Link(S, u, j, v) <=> Link(T, u, j, v)
  BY Zenon DEF Link, Opened
<1>3. \A page \in PageIndexes : \A f : Maps(S, page, f) => Maps(T, page, f)
  BY <1>2 DEF Maps, Trail, PageIndexes
<1>4. Keeps(T, lev, S, lev)
  BY <1>3, Zenon DEF Keeps, Opened
<1>5. \A f \in Nat : InUse(S, f) <=> InUse(T, f)
  BY DEF InUse, Opened
<1> QED
  BY <1>1, <1>4, <1>5, Zenon

\* Changing the flag of a used entry above level 1.
Opens(T, lev, t, i, e, S) ==
    /\ Sound(T, lev) /\ t \in DOMAIN T /\ i \in Indexes /\ lev[t] # 1 /\ T[t][i] # Unused
    /\ e \in EntryType /\ e.frame = T[t][i].frame /\ (T[t][i].user => e.user)
    /\ S = [T EXCEPT ![t][i] = e]

\* One entry written over with more rights is such an opening.
LEMMA OpenKeeps ==
    ASSUME NEW T, NEW lev, NEW t, NEW i, NEW e, NEW S, Opens(T, lev, t, i, e, S)
    PROVE  /\ Opened(T, lev, S)
           /\ S[t][i] = e
<1> USE DEF Opens
<1>1. T \in [DOMAIN T -> [Indexes -> EntryType]]
  BY Zenon DEF Sound, Tables
<1>2. S \in [DOMAIN T -> [Indexes -> EntryType]] /\ DOMAIN S = DOMAIN T
  BY <1>1, Zenon
<1>3. /\ S[t][i] = e
      /\ \A u \in DOMAIN T, j \in Indexes : <<u, j>> # <<t, i>> => S[u][j] = T[u][j]
  BY <1>1, Zenon
<1>4. e # Unused
  BY EntryUsed, Entries, Zenon DEF Sound
<1>5. Opened(T, lev, S)
  <2>1. ASSUME NEW u \in DOMAIN T, NEW j \in Indexes
        PROVE  /\ S[u][j].frame = T[u][j].frame
               /\ S[u][j] = Unused <=> T[u][j] = Unused
               /\ T[u][j].user => S[u][j].user
               /\ lev[u] = 1 => S[u][j] = T[u][j]
    BY <1>3, <1>4
  <2> QED
    BY <1>2, <2>1, Zenon DEF Opened
<1> QED
  BY <1>3, <1>5, Zenon

\* A new empty table f behind an entry that was unused.
Grown(T, lev, S, levS, t, i, f, e) ==
    /\ t \in DOMAIN T /\ i \in Indexes /\ lev[t] # 1 /\ T[t][i] = Unused
    /\ f \in Nat /\ ~InUse(T, f) /\ e \in EntryType /\ e.frame = f
    /\ DOMAIN S = DOMAIN T \cup {f}
    /\ S \in [DOMAIN S -> [Indexes -> EntryType]]
    /\ \A u \in DOMAIN T, j \in Indexes : <<u, j>> # <<t, i>> => S[u][j] = T[u][j]
    /\ S[t][i] = e
    /\ \A j \in Indexes : S[f][j] = Unused
    /\ levS \in [DOMAIN S -> 1..4]
    /\ \A u \in DOMAIN T : levS[u] = lev[u]
    /\ levS[f] = lev[t] - 1

\* A new empty table under an unused entry keeps the tree and its pages, and uses
\* one frame more.
LEMMA GrownKeeps ==
    ASSUME NEW T, NEW lev, Sound(T, lev), NEW S, NEW levS, NEW t, NEW i, NEW f, NEW e,
           Grown(T, lev, S, levS, t, i, f, e)
    PROVE  /\ Sound(S, levS) /\ Keeps(T, lev, S, levS)
           /\ \A g \in Nat : InUse(S, g) <=> (InUse(T, g) \/ g = f)
           /\ Link(S, t, i, f)
<1>1. /\ f \notin DOMAIN T /\ e # Unused
      /\ \A u \in DOMAIN T, j \in Indexes : T[u][j].frame # f
  BY EntryUsed, Zenon DEF Grown, InUse
<1>2. /\ \A u \in DOMAIN T, j \in Indexes : (u = t /\ j = i) \/ S[u][j] = T[u][j]
      /\ DOMAIN S = DOMAIN T \cup {f}
  BY Zenon DEF Grown
<1>3. \A u \in DOMAIN S, j \in Indexes : S[u][j] # Unused =>
         /\ u \in DOMAIN T
         /\ (u = t /\ j = i) \/ (T[u][j] # Unused /\ S[u][j] = T[u][j])
  BY <1>1, <1>2 DEF Grown
<1>4. Sound(S, levS)
  <2>1. Tables(S)
    BY Zenon DEF Sound, Tables, Grown
  <2>2. levS[Level4] = 4
    BY Zenon DEF Sound, Tables, Tree, Grown
  <2>3. ASSUME NEW u \in DOMAIN S, NEW j \in Indexes, S[u][j] # Unused
        PROVE  IF levS[u] = 1 THEN S[u][j].frame \notin DOMAIN S
               ELSE S[u][j].frame \in DOMAIN S /\ levS[S[u][j].frame] = levS[u] - 1
    <3>1. CASE u = t /\ j = i
      BY <3>1, Zenon DEF Grown
    <3>2. CASE u \in DOMAIN T /\ T[u][j] # Unused /\ S[u][j] = T[u][j]
      <4>1. levS[u] = lev[u] /\ T[u][j].frame # f
        BY <1>1, <3>2, Zenon DEF Grown
      <4> QED
        BY <1>2, <3>2, <4>1 DEF Sound, Tree, Grown
    <3> QED
      BY <1>3, <2>3, <3>1, <3>2, Zenon
  <2>4. ASSUME NEW u \in DOMAIN S, NEW v \in DOMAIN S, NEW j \in Indexes, NEW k \in Indexes,
               S[u][j] # Unused, S[u][j].frame = S[v][k].frame
        PROVE  u = v /\ j = k
    <3>1. S[v][k] # Unused
      BY <2>1, <2>4, Entries, Zenon
    <3>2. u \in DOMAIN T /\ v \in DOMAIN T
      BY <1>3, <2>4, <3>1, Zenon
    <3>3. CASE u = t /\ j = i
      BY <1>1, <1>2, <2>4, <3>2, <3>3 DEF Grown
    <3>4. CASE v = t /\ k = i
      BY <1>1, <1>2, <2>4, <3>2, <3>4 DEF Grown
    <3>5. CASE ~(u = t /\ j = i) /\ ~(v = t /\ k = i)
      BY <1>2, <2>4, <3>2, <3>5 DEF Sound, Tree
    <3> QED
      BY <3>3, <3>4, <3>5, Zenon
  <2>5. Tree(S, levS)
    BY <2>2, <2>3, <2>4 DEF Tree, Grown
  <2> QED
    BY <2>1, <2>5, Zenon DEF Sound
<1>5. ASSUME NEW page \in PageIndexes, NEW g, Maps(S, page, g)
      PROVE  Maps(T, page, g)
  <2>1. PICK a, b, c : Trail(S, page, a, b, c) /\ Link(S, c, page[4], g)
    BY <1>5, Zenon DEF Maps
  <2>2. \A k \in 1..4 : page[k] \in Indexes
    BY Zenon DEF PageIndexes
  <2>3. ASSUME NEW u, NEW j \in Indexes, NEW v, Link(S, u, j, v), v # f
        PROVE  Link(T, u, j, v)
    BY <1>3, <2>3 DEF Link, Grown
  <2>4. ASSUME NEW j \in Indexes, NEW v, Link(S, f, j, v)
        PROVE  FALSE
    BY <2>4, Zenon DEF Link, Grown
  <2>5. a # f /\ b # f /\ c # f
    BY <2>1, <2>2, <2>4 DEF Trail
  <2>6. levS[c] = 1 /\ c # t
    BY <1>4, <2>1, TrailLevels DEF Grown
  <2>7. Link(T, c, page[4], g)
    BY <1>3, <2>1, <2>2, <2>6 DEF Link
  <2>8. Trail(T, page, a, b, c)
    BY <2>1, <2>2, <2>3, <2>5 DEF Trail
  <2> QED
    BY <2>7, <2>8, Zenon DEF Maps
<1>6. Keeps(T, lev, S, levS)
  <2>1. ASSUME NEW u \in DOMAIN T, NEW j \in Indexes, T[u][j] # Unused
        PROVE  S[u][j] = T[u][j]
    BY <1>2, <2>1, Zenon DEF Grown
  <2>2. \A u \in DOMAIN T, j \in Indexes : lev[u] = 1 => S[u][j] = T[u][j]
    BY <1>2, Zenon DEF Grown
  <2>3. DOMAIN T \subseteq DOMAIN S /\ \A u \in DOMAIN T : levS[u] = lev[u]
    BY <1>2, Zenon DEF Grown
  <2> QED
    BY <1>5, <2>1, <2>2, <2>3, Zenon DEF Keeps
<1>7. ASSUME NEW g \in Nat
      PROVE  InUse(S, g) <=> (InUse(T, g) \/ g = f)
  <2>1. ASSUME InUse(T, g) PROVE InUse(S, g)
    <3>1. CASE g \in DOMAIN T
      BY <1>2, <3>1, Zenon DEF InUse
    <3>2. ASSUME NEW u \in DOMAIN T, NEW j \in Indexes, T[u][j].frame = g
          PROVE  InUse(S, g)
      <4>1. T[u][j] # Unused
        BY <3>2, Entries, Zenon DEF Sound
      <4> QED
        BY <1>2, <3>2, <4>1 DEF InUse, Grown
    <3> QED
      BY <2>1, <3>1, <3>2, Zenon DEF InUse
  <2>2. InUse(S, f)
    BY <1>2, Zenon DEF InUse
  <2>3. ASSUME InUse(S, g), g # f PROVE InUse(T, g)
    <3>1. CASE g \in DOMAIN S
      BY <1>2, <2>3, <3>1, Zenon DEF InUse
    <3>2. ASSUME NEW u \in DOMAIN S, NEW j \in Indexes, S[u][j].frame = g
          PROVE  InUse(T, g)
      <4>1. S[u][j] # Unused
        BY <1>4, <3>2, Entries, Zenon DEF Sound
      <4>2. u \in DOMAIN T /\ S[u][j] = T[u][j]
        BY <1>3, <2>3, <3>2, <4>1, Zenon DEF Grown
      <4> QED
        BY <3>2, <4>2, Zenon DEF InUse
    <3> QED
      BY <2>3, <3>1, <3>2, Zenon DEF InUse
  <2> QED
    BY <2>1, <2>2, <2>3, Zenon
<1>8. Link(S, t, i, f)
  BY <1>1, <1>2, Zenon DEF Link, Grown
<1> QED
  BY <1>4, <1>6, <1>7, <1>8, Zenon

\* What create_next_table does: the entry, and the table behind it.
LEMMA GrowKeeps ==
    ASSUME NEW T, NEW lev, Sound(T, lev), NEW t \in DOMAIN T, NEW i \in Indexes,
           lev[t] # 1, T[t][i] = Unused, NEW f \in Nat, ~InUse(T, f),
           NEW user \in BOOLEAN,
           NEW S, S = Put([T EXCEPT ![t][i] = Entry(f, user)], f, EmptyTable)
    PROVE  Grown(T, lev, S, Put(lev, f, lev[t] - 1), t, i, f, Entry(f, user))
<1> DEFINE e == Entry(f, user)
           M == [T EXCEPT ![t][i] = e]
           levS == Put(lev, f, lev[t] - 1)
<1>1. T \in [DOMAIN T -> [Indexes -> EntryType]] /\ lev \in [DOMAIN T -> 1..4]
  BY Zenon DEF Sound, Tables, Tree
<1>2. e \in EntryType /\ e.frame = f
  BY Zenon DEF Entry, EntryType
<1>3. f \notin DOMAIN T
  BY Zenon DEF InUse
<1> HIDE DEF e
<1>4. /\ M \in [DOMAIN T -> [Indexes -> EntryType]]
      /\ M[t][i] = e
      /\ \A u \in DOMAIN T, j \in Indexes : <<u, j>> # <<t, i>> => M[u][j] = T[u][j]
  BY <1>1, <1>2, Zenon
<1> HIDE DEF M
<1>5. S = Put(M, f, EmptyTable)
  BY Zenon DEF M, e
<1>6. EmptyTable \in [Indexes -> EntryType] /\ \A j \in Indexes : EmptyTable[j] = Unused
  BY Zenon DEF EmptyTable, EntryType
<1>7. DOMAIN S = DOMAIN T \cup {f} /\ S[f] = EmptyTable /\ \A u \in DOMAIN T : S[u] = M[u]
  BY <1>3, <1>4, <1>5, Zenon DEF Put
<1>8. S \in [DOMAIN S -> [Indexes -> EntryType]]
  BY <1>4, <1>5, <1>6, Zenon DEF Put
<1>9. /\ levS \in [DOMAIN S -> 1..4] /\ levS[f] = lev[t] - 1
      /\ \A u \in DOMAIN T : levS[u] = lev[u]
  <2>1. lev[t] - 1 \in 1..4
    BY <1>1
  <2> QED
    BY <1>1, <1>3, <1>7, <2>1, Zenon DEF Put
<1>10. Grown(T, lev, S, levS, t, i, f, e)
  <2>1. /\ S[t][i] = e /\ \A j \in Indexes : S[f][j] = Unused
        /\ \A u \in DOMAIN T, j \in Indexes : <<u, j>> # <<t, i>> => S[u][j] = T[u][j]
    BY <1>4, <1>6, <1>7, Zenon
  <2> HIDE DEF levS
  <2> QED
    BY <1>2, <1>7, <1>8, <1>9, <2>1, Zenon DEF Grown
<1> QED
  BY <1>10, Zenon DEF e

\* A page behind an unused entry of a level 1 table.
Leafed(T, S, c, i, f, e) ==
    /\ c \in DOMAIN T /\ i \in Indexes /\ T[c][i] = Unused
    /\ f \in Nat /\ ~InUse(T, f) /\ e \in EntryType /\ e.frame = f
    /\ DOMAIN S = DOMAIN T
    /\ S \in [DOMAIN S -> [Indexes -> EntryType]]
    /\ \A u \in DOMAIN T, j \in Indexes : <<u, j>> # <<c, i>> => S[u][j] = T[u][j]
    /\ S[c][i] = e

\* A page entered in a level 1 table keeps the tree and every entry there was.
LEMMA LeafedSound ==
    ASSUME NEW T, NEW lev, Sound(T, lev), NEW S, NEW c, NEW i, NEW f, NEW e,
           Leafed(T, S, c, i, f, e), lev[c] = 1
    PROVE  /\ Sound(S, lev)
           /\ \A g \in Nat : InUse(S, g) <=> (InUse(T, g) \/ g = f)
           /\ \A u \in DOMAIN T, j \in Indexes : T[u][j] # Unused => S[u][j] = T[u][j]
           /\ Link(S, c, i, f)
<1>1. /\ f \notin DOMAIN T /\ e # Unused
      /\ \A u \in DOMAIN T, j \in Indexes : T[u][j].frame # f
  BY EntryUsed, Zenon DEF Leafed, InUse
<1>2. \A u \in DOMAIN T, j \in Indexes : (u = c /\ j = i) \/ S[u][j] = T[u][j]
  BY Zenon DEF Leafed
<1>3. \A u \in DOMAIN T, j \in Indexes : T[u][j] # Unused => S[u][j] = T[u][j]
  BY <1>2, Zenon DEF Leafed
<1>4. Tables(S)
  BY Zenon DEF Sound, Tables, Leafed
<1>5. Tree(S, lev)
  <2>1. ASSUME NEW u \in DOMAIN S, NEW j \in Indexes, S[u][j] # Unused
        PROVE  IF lev[u] = 1 THEN S[u][j].frame \notin DOMAIN S
               ELSE S[u][j].frame \in DOMAIN S /\ lev[S[u][j].frame] = lev[u] - 1
    <3>1. CASE u = c /\ j = i
      BY <1>1, <3>1, Zenon DEF Leafed
    <3>2. CASE S[u][j] = T[u][j]
      BY <2>1, <3>2 DEF Sound, Tree, Leafed
    <3> QED
      BY <1>2, <3>1, <3>2, Zenon DEF Leafed
  <2>2. ASSUME NEW u \in DOMAIN S, NEW v \in DOMAIN S, NEW j \in Indexes, NEW k \in Indexes,
               S[u][j] # Unused, S[u][j].frame = S[v][k].frame
        PROVE  u = v /\ j = k
    <3>1. u \in DOMAIN T /\ v \in DOMAIN T
      BY Zenon DEF Leafed
    <3>3. CASE u = c /\ j = i
      BY <1>1, <1>2, <2>2, <3>1, <3>3 DEF Leafed
    <3>4. CASE v = c /\ k = i
      BY <1>1, <1>2, <2>2, <3>1, <3>4 DEF Leafed
    <3>5. CASE ~(u = c /\ j = i) /\ ~(v = c /\ k = i)
      BY <1>2, <2>2, <3>1, <3>5 DEF Sound, Tree
    <3> QED
      BY <3>3, <3>4, <3>5, Zenon
  <2>3. lev \in [DOMAIN S -> 1..4] /\ lev[Level4] = 4
    BY Zenon DEF Sound, Tree, Leafed
  <2> QED
    BY <2>1, <2>2, <2>3 DEF Tree
<1>6. ASSUME NEW g \in Nat
      PROVE  InUse(S, g) <=> (InUse(T, g) \/ g = f)
  <2>1. ASSUME InUse(T, g) PROVE InUse(S, g)
    <3>1. CASE g \in DOMAIN T
      BY <3>1, Zenon DEF InUse, Leafed
    <3>2. ASSUME NEW u \in DOMAIN T, NEW j \in Indexes, T[u][j].frame = g
          PROVE  InUse(S, g)
      <4>1. T[u][j] # Unused
        BY <3>2, Entries, Zenon DEF Sound
      <4> QED
        BY <1>3, <3>2, <4>1, Zenon DEF InUse, Leafed
    <3> QED
      BY <2>1, <3>1, <3>2, Zenon DEF InUse
  <2>2. InUse(S, f)
    BY Zenon DEF InUse, Leafed
  <2>3. ASSUME InUse(S, g), g # f PROVE InUse(T, g)
    BY <1>2, <2>3 DEF InUse, Leafed
  <2> QED
    BY <2>1, <2>2, <2>3, Zenon
<1>7. Link(S, c, i, f)
  BY <1>1, Zenon DEF Link, Leafed
<1> QED
  BY <1>3, <1>4, <1>5, <1>6, <1>7, Zenon DEF Sound

\* The page is the only one that is mapped now and was not before.
LeafedPage(T, lev, S, page, a, b, c, f, e) ==
    /\ Sound(T, lev) /\ page \in PageIndexes
    /\ Trail(T, page, a, b, c) /\ Leafed(T, S, c, page[4], f, e)

\* It maps that page and no other.
LEMMA LeafedMaps ==
    ASSUME NEW T, NEW lev, NEW S, NEW page, NEW a, NEW b, NEW c, NEW f, NEW e,
           LeafedPage(T, lev, S, page, a, b, c, f, e)
    PROVE  /\ Trail(S, page, a, b, c)
           /\ \A pg \in PageIndexes : \A g : Maps(S, pg, g) => Maps(T, pg, g) \/ pg = page
<1> USE DEF LeafedPage
<1>1. lev[c] = 1 /\ c \in DOMAIN T
  BY TrailLevels
<1>2. /\ Sound(S, lev)
      /\ \A u \in DOMAIN T, j \in Indexes : T[u][j] # Unused => S[u][j] = T[u][j]
  BY <1>1, LeafedSound
<1>3. \A k \in 1..4 : page[k] \in Indexes
  BY Zenon DEF PageIndexes
<1>4. Trail(S, page, a, b, c)
  BY <1>2, <1>3 DEF Trail, Link, Leafed
<1>5. ASSUME NEW pg \in PageIndexes, NEW g, Maps(S, pg, g), pg # page
      PROVE  Maps(T, pg, g)
  <2>1. PICK x, y, z : Trail(S, pg, x, y, z) /\ Link(S, z, pg[4], g)
    BY <1>5, Zenon DEF Maps
  <2>2. \A k \in 1..4 : pg[k] \in Indexes
    BY Zenon DEF PageIndexes
  <2>3. ~(z = c /\ pg[4] = page[4])
    <3>1. SUFFICES ASSUME z = c, pg[4] = page[4] PROVE FALSE
      BY Zenon
    <3>2. pg[1] = page[1] /\ pg[2] = page[2] /\ pg[3] = page[3]
      BY <1>2, <1>4, <2>1, <3>1, TrailUnique, Zenon
    <3> QED
      BY <1>5, <3>1, <3>2 DEF PageIndexes
  <2>4. /\ x \in DOMAIN S /\ lev[x] = 3
        /\ y \in DOMAIN S /\ lev[y] = 2
        /\ z \in DOMAIN S /\ lev[z] = 1
    BY <1>2, <2>1, TrailLevels
  <2>5. lev[Level4] = 4
    BY Zenon DEF Sound, Tree
  <2>6. ASSUME NEW u, NEW j \in Indexes, NEW v, Link(S, u, j, v), ~(u = c /\ j = page[4])
        PROVE  Link(T, u, j, v)
    BY <2>6, Zenon DEF Link, Leafed
  <2>7. Level4 # c /\ x # c /\ y # c
    BY <1>1, <2>4, <2>5
  <2>8. Trail(T, pg, x, y, z) /\ Link(T, z, pg[4], g)
    BY <2>1, <2>2, <2>3, <2>6, <2>7 DEF Trail
  <2> QED
    BY <2>8, Zenon DEF Maps
<1> QED
  BY <1>4, <1>5, Zenon
-----------------------------------------------------------------------------
(* Mapper::map_to *)

\* Tables built with n calls of allocate_frame, the frame `spare` not yet used.
Ready(T, lev, n, spare) ==
    /\ Sound(T, lev)
    /\ n \in Nat /\ Within(T, n)
    /\ spare \in Nat /\ spare \in Given(n) /\ ~InUse(T, spare)

\* A step of the descent, from `at` to the table `to` behind its entry `index`.
Moved(T, lev, n, at, index, S, levS, m, to, spare) ==
    /\ m >= n /\ Ready(S, levS, m, spare)
    /\ Keeps(T, lev, S, levS)
    /\ Link(S, at, index, to) /\ to \in DOMAIN S /\ levS[to] = lev[at] - 1

At(n, T, t) == [ok |-> TRUE, next |-> n, at |-> t, tables |-> T]
Stuck(n, T, t) == [ok |-> FALSE, next |-> n, at |-> t, tables |-> T]

\* The two changes it makes.
ReflagEntry(e, user) == Entry(e.frame, e.user \/ (user /\ opens_parents))
Reflag(T, t, i, user) == [T EXCEPT ![t][i] = ReflagEntry(T[t][i], user)]
AddTable(T, t, i, f, user) == Put([T EXCEPT ![t][i] = Entry(f, user)], f, EmptyTable)

\* The record Descend returns, case by case.
LEMMA DescendCases ==
    ASSUME NEW n, NEW T, NEW t, NEW i, NEW user
    PROVE  /\ T[t][i] # Unused =>
                Descend(At(n, T, t), i, user) = At(n, Reflag(T, t, i, user), T[t][i].frame)
           /\ T[t][i] = Unused /\ Frame(n) # NoFrame =>
                Descend(At(n, T, t), i, user) =
                    At(n + 1, AddTable(T, t, i, Frame(n), user), Frame(n))
           /\ T[t][i] = Unused /\ Frame(n) = NoFrame =>
                Descend(At(n, T, t), i, user) = Stuck(n + 1, T, t)
<1>1. PICK st : st = At(n, T, t)
  BY Zenon
<1>2. st.ok = TRUE /\ st.next = n /\ st.tables = T /\ st.at = t
  BY <1>1, Zenon DEF At
<1>3. Enter(st, i, user) = At(n, Reflag(T, t, i, user), T[t][i].frame)
  BY <1>2, Zenon DEF Enter, At, Reflag, ReflagEntry
<1>4. Create(st, i, user) = At(n + 1, AddTable(T, t, i, Frame(n), user), Frame(n))
  BY <1>2, Zenon DEF Create, At, AddTable, AfterAllocate
<1>5. /\ T[t][i] # Unused => Descend(st, i, user) = Enter(st, i, user)
      /\ T[t][i] = Unused /\ Frame(n) # NoFrame => Descend(st, i, user) = Create(st, i, user)
      /\ T[t][i] = Unused /\ Frame(n) = NoFrame => Descend(st, i, user) = Stuck(n + 1, T, t)
  BY <1>2, Zenon DEF Descend, Stuck, AfterAllocate
<1> QED
  BY <1>1, <1>3, <1>4, <1>5, Zenon

\* A failure is passed on.
LEMMA DescendStuck ==
    ASSUME NEW n, NEW T, NEW t, NEW i, NEW user
    PROVE  Descend(Stuck(n, T, t), i, user) = Stuck(n, T, t)
<1>1. Stuck(n, T, t).ok = FALSE
  BY Zenon DEF Stuck
<1> QED
  BY <1>1, Zenon DEF Descend

\* create_next_table: an existing table, or a new one from the allocator.
LEMMA DescendStep ==
    ASSUME memory_map \in MemoryMaps, opens_parents \in BOOLEAN,
           NEW T, NEW lev, NEW n, NEW spare, Ready(T, lev, n, spare),
           NEW at \in DOMAIN T, lev[at] # 1, NEW i \in Indexes, NEW user \in BOOLEAN
    PROVE  \/ /\ Descend(At(n, T, at), i, user) = Stuck(n + 1, T, at)
              /\ n >= Cardinality(usable_frames)
           \/ \E S, levS, m, to :
                /\ Descend(At(n, T, at), i, user) = At(m, S, to)
                /\ Moved(T, lev, n, at, i, S, levS, m, to, spare)
<1>1. Sound(T, lev) /\ Tables(T) /\ n \in Nat
  BY Zenon DEF Ready, Sound
<1>2. CASE T[at][i] # Unused
  <2> DEFINE e == ReflagEntry(T[at][i], user)
             S == Reflag(T, at, i, user)
             to == T[at][i].frame
  <2>1. T[at][i] \in [frame : Nat, user : BOOLEAN]
    BY <1>1, <1>2, Entries, Zenon DEF EntryType
  <2>2. e \in EntryType /\ e.frame = to /\ (T[at][i].user => e.user)
    BY <2>1, Zenon DEF EntryType, ReflagEntry, Entry
  <2> HIDE DEF e
  <2>3. Opened(T, lev, S)
    <3>1. Opens(T, lev, at, i, e, S)
      BY <1>1, <1>2, <2>2, Zenon DEF Reflag, e, Opens
    <3> QED
      BY <3>1, OpenKeeps, Zenon
  <2>4. Descend(At(n, T, at), i, user) = At(n, S, to)
    BY <1>2, DescendCases
  <2> HIDE DEF S
  <2>5. /\ Sound(S, lev) /\ Keeps(T, lev, S, lev)
        /\ \A f \in Nat : InUse(S, f) <=> InUse(T, f)
    BY <1>1, <2>3, OpenedKeeps, Zenon
  <2>6. Ready(S, lev, n, spare)
    BY <2>5, Zenon DEF Ready, Within
  <2>7. Link(S, at, i, to)
    BY <1>2, <2>3, Zenon DEF Link, Opened
  <2>8. to \in DOMAIN S /\ lev[to] = lev[at] - 1
    BY <1>1, <1>2, <2>3, Zenon DEF Sound, Tree, Opened
  <2>9. Moved(T, lev, n, at, i, S, lev, n, to, spare)
    BY <1>1, <2>5, <2>6, <2>7, <2>8 DEF Moved
  <2> QED
    BY <2>4, <2>9, Zenon
<1>3. CASE T[at][i] = Unused /\ Frame(n) # NoFrame
  <2> DEFINE f == Frame(n)
             S == AddTable(T, at, i, f, user)
             levS == Put(lev, f, lev[at] - 1)
  <2>1. f \in Nat /\ f \notin Given(n) /\ f \in Given(n + 1)
    BY <1>1, <1>3, FreshFrame, Zenon
  <2>2. Descend(At(n, T, at), i, user) = At(n + 1, S, f)
    BY <1>3, DescendCases
  <2> HIDE DEF f
  <2>3. ~InUse(T, f) /\ f # spare
    BY <2>1, Zenon DEF Ready, Within
  <2>4. Grown(T, lev, S, levS, at, i, f, Entry(f, user))
    BY <1>1, <1>3, <2>1, <2>3, GrowKeeps, Zenon DEF AddTable
  <2> HIDE DEF S, levS
  <2>5. /\ Sound(S, levS) /\ Keeps(T, lev, S, levS)
        /\ \A g \in Nat : InUse(S, g) <=> (InUse(T, g) \/ g = f)
        /\ Link(S, at, i, f)
    BY <1>1, <2>4, GrownKeeps, Zenon
  <2>6. Ready(S, levS, n + 1, spare)
    <3>1. Given(n) \subseteq Given(n + 1) /\ n + 1 \in Nat
      BY <1>1, GivenGrows
    <3> QED
      BY <2>1, <2>3, <2>5, <3>1, Zenon DEF Ready, Within
  <2>7. f \in DOMAIN S /\ levS[f] = lev[at] - 1
    BY <2>4, Zenon DEF Grown
  <2>8. Moved(T, lev, n, at, i, S, levS, n + 1, f, spare)
    BY <1>1, <2>5, <2>6, <2>7 DEF Moved
  <2> QED
    BY <2>2, <2>8, Zenon
<1>4. CASE T[at][i] = Unused /\ Frame(n) = NoFrame
  BY <1>1, <1>4, DescendCases, Exhausted
<1> QED
  BY <1>2, <1>3, <1>4, Zenon

\* The descent ran out of frames, over tables that are still sound.
RanOut(r, T, lev, n) ==
    \E S, levS, m, t :
        /\ r = Stuck(m, S, t)
        /\ m \in Nat /\ m >= n /\ m > Cardinality(usable_frames)
        /\ Sound(S, levS) /\ Within(S, m) /\ Keeps(T, lev, S, levS)

\* map_to does nothing more once a table could not be allocated.
LEMMA RanOutStays ==
    ASSUME NEW r, NEW T, NEW lev, NEW n, RanOut(r, T, lev, n), NEW i, NEW user
    PROVE  RanOut(Descend(r, i, user), T, lev, n)
  BY DescendStuck, Zenon DEF RanOut

\* The descent reached the table t with the tables S.
Reached(r, T, lev, n, spare, S, levS, t) ==
    \E m : /\ r = At(m, S, t) /\ m >= n
           /\ Ready(S, levS, m, spare) /\ Keeps(T, lev, S, levS)

\* One level further.
LEMMA ReachedNext ==
    ASSUME memory_map \in MemoryMaps, opens_parents \in BOOLEAN,
           NEW r, NEW T, NEW lev, NEW n \in Nat, NEW spare, NEW S, NEW levS, NEW t \in DOMAIN S,
           Reached(r, T, lev, n, spare, S, levS, t), levS[t] # 1,
           NEW i \in Indexes, NEW user \in BOOLEAN
    PROVE  \/ RanOut(Descend(r, i, user), T, lev, n)
           \/ \E R, levR, to :
                /\ Reached(Descend(r, i, user), T, lev, n, spare, R, levR, to)
                /\ Keeps(S, levS, R, levR)
                /\ Link(R, t, i, to) /\ to \in DOMAIN R /\ levR[to] = levS[t] - 1
<1>1. PICK m : /\ r = At(m, S, t) /\ m >= n
               /\ Ready(S, levS, m, spare) /\ Keeps(T, lev, S, levS)
  BY Zenon DEF Reached
<1>2. m \in Nat /\ Sound(S, levS) /\ Within(S, m)
  BY <1>1, Zenon DEF Ready
<1>3. CASE Descend(r, i, user) = Stuck(m + 1, S, t) /\ m >= Cardinality(usable_frames)
  <2>1. m + 1 \in Nat /\ m + 1 >= n /\ m + 1 > Cardinality(usable_frames)
    BY <1>1, <1>2, <1>3, UsableFrames, FS_CardinalityType
  <2>2. Within(S, m + 1)
    <3>1. Given(m) \subseteq Given(m + 1)
      BY <1>2, <2>1, GivenGrows
    <3> QED
      BY <1>2, <3>1, Zenon DEF Within
  <2>3. RanOut(Descend(r, i, user), T, lev, n)
    BY <1>1, <1>2, <1>3, <2>1, <2>2, Zenon DEF RanOut
  <2> QED
    BY <2>3, Zenon
<1>4. ASSUME NEW R, NEW levR, NEW k, NEW to, Descend(r, i, user) = At(k, R, to),
             Moved(S, levS, m, t, i, R, levR, k, to, spare)
      PROVE  /\ Reached(Descend(r, i, user), T, lev, n, spare, R, levR, to)
             /\ Keeps(S, levS, R, levR)
             /\ Link(R, t, i, to) /\ to \in DOMAIN R /\ levR[to] = levS[t] - 1
  <2>1. /\ k >= m /\ Ready(R, levR, k, spare) /\ Keeps(S, levS, R, levR)
        /\ Link(R, t, i, to) /\ to \in DOMAIN R /\ levR[to] = levS[t] - 1
    BY <1>4, Zenon DEF Moved
  <2>2. k >= n
    BY <1>1, <1>2, <2>1 DEF Ready
  <2>3. Keeps(T, lev, R, levR)
    BY <1>1, <2>1, KeepsThen, Zenon
  <2> QED
    BY <1>4, <2>1, <2>2, <2>3, Zenon DEF Reached
<1>5. \/ Descend(r, i, user) = Stuck(m + 1, S, t) /\ m >= Cardinality(usable_frames)
      \/ \E R, levR, k, to : /\ Descend(r, i, user) = At(k, R, to)
                             /\ Moved(S, levS, m, t, i, R, levR, k, to, spare)
  BY <1>1, DescendStep, Zenon
<1> QED
  BY <1>3, <1>4, <1>5

\* The same, with the hypotheses and the conclusion as one fact each.
Going(r, T, lev, n, spare, S, levS, t, i, user) ==
    /\ memory_map \in MemoryMaps /\ opens_parents \in BOOLEAN /\ n \in Nat
    /\ t \in DOMAIN S /\ levS[t] # 1 /\ i \in Indexes /\ user \in BOOLEAN
    /\ Reached(r, T, lev, n, spare, S, levS, t)

Gone(r, T, lev, n, spare, S, levS, t, i) ==
    \/ RanOut(r, T, lev, n)
    \/ \E R, levR, to : /\ Reached(r, T, lev, n, spare, R, levR, to)
                        /\ Keeps(S, levS, R, levR)
                        /\ Link(R, t, i, to) /\ to \in DOMAIN R /\ levR[to] = levS[t] - 1

\* A level of the descent, from a table above level 1.
LEMMA GoesOn ==
    ASSUME NEW r, NEW T, NEW lev, NEW n, NEW spare, NEW S, NEW levS, NEW t, NEW i, NEW user,
           Going(r, T, lev, n, spare, S, levS, t, i, user)
    PROVE  Gone(Descend(r, i, user), T, lev, n, spare, S, levS, t, i)
<1>1. /\ memory_map \in MemoryMaps /\ opens_parents \in BOOLEAN /\ n \in Nat
      /\ t \in DOMAIN S /\ levS[t] # 1 /\ i \in Indexes /\ user \in BOOLEAN
      /\ Reached(r, T, lev, n, spare, S, levS, t)
  BY Zenon DEF Going
<1>2. \/ RanOut(Descend(r, i, user), T, lev, n)
      \/ \E R, levR, to :
           /\ Reached(Descend(r, i, user), T, lev, n, spare, R, levR, to)
           /\ Keeps(S, levS, R, levR)
           /\ Link(R, t, i, to) /\ to \in DOMAIN R /\ levR[to] = levS[t] - 1
  BY <1>1, ReachedNext
<1> QED
  BY <1>2, Zenon DEF Gone

\* The three levels of map_to's descent.
Descent(page, user, n, T) ==
    Descend(Descend(Descend(At(n, T, Level4), page[1], user), page[2], user), page[3], user)

\* map_to's descent runs out of frames, or reaches the page's level 1 table.
LEMMA DescentEnds ==
    ASSUME memory_map \in MemoryMaps, opens_parents \in BOOLEAN,
           NEW T, NEW lev, NEW n, NEW spare, Ready(T, lev, n, spare),
           NEW page \in PageIndexes, NEW user \in BOOLEAN
    PROVE  \/ RanOut(Descent(page, user, n, T), T, lev, n)
           \/ \E S, levS, a, b, c :
                /\ Reached(Descent(page, user, n, T), T, lev, n, spare, S, levS, c)
                /\ Trail(S, page, a, b, c)
<1> DEFINE d0 == At(n, T, Level4)
           d1 == Descend(d0, page[1], user)
           d2 == Descend(d1, page[2], user)
           d3 == Descend(d2, page[3], user)
<1>1. /\ n \in Nat /\ Level4 \in DOMAIN T /\ lev[Level4] = 4
      /\ page[1] \in Indexes /\ page[2] \in Indexes /\ page[3] \in Indexes
  BY DEF Ready, Sound, Tables, Tree, PageIndexes
<1>2. Reached(d0, T, lev, n, spare, T, lev, Level4)
  BY <1>1, KeepsSame DEF Reached
<1> HIDE DEF d0
<1>3. CASE RanOut(d1, T, lev, n)
  BY <1>3, RanOutStays, Zenon DEF Descent, d0
<1>4. ASSUME NEW A, NEW levA, NEW a,
             Reached(d1, T, lev, n, spare, A, levA, a),
             Link(A, Level4, page[1], a), a \in DOMAIN A, levA[a] = 3
      PROVE  \/ RanOut(d3, T, lev, n)
             \/ \E S, levS, b, c : /\ Reached(d3, T, lev, n, spare, S, levS, c)
                                   /\ Trail(S, page, a, b, c)
  <2> HIDE DEF d1
  <2>1. CASE RanOut(d2, T, lev, n)
    BY <2>1, RanOutStays, Zenon
  <2>2. ASSUME NEW B, NEW levB, NEW b,
               Reached(d2, T, lev, n, spare, B, levB, b), Keeps(A, levA, B, levB),
               Link(B, a, page[2], b), b \in DOMAIN B, levB[b] = 2
        PROVE  \/ RanOut(d3, T, lev, n)
               \/ \E S, levS, c : /\ Reached(d3, T, lev, n, spare, S, levS, c)
                                  /\ Trail(S, page, a, b, c)
    <3> HIDE DEF d2
    <3>1. CASE RanOut(d3, T, lev, n)
      BY <3>1, Zenon
    <3>2. ASSUME NEW C, NEW levC, NEW c,
                 Reached(d3, T, lev, n, spare, C, levC, c), Keeps(B, levB, C, levC),
                 Link(C, b, page[3], c)
          PROVE  Trail(C, page, a, b, c)
      <4>1. Link(C, a, page[2], b)
        BY <1>1, <2>2, <3>2, KeepsTrail, Zenon
      <4>2. Link(B, Level4, page[1], a)
        BY <1>1, <1>4, <2>2, KeepsTrail, Zenon
      <4>3. Link(C, Level4, page[1], a)
        BY <1>1, <3>2, <4>2, KeepsTrail, Zenon
      <4> QED
        BY <3>2, <4>1, <4>3, Zenon DEF Trail
    <3>3. levB[b] # 1
      BY <2>2
    <3>4. \/ RanOut(d3, T, lev, n)
          \/ \E C, levC, c : /\ Reached(d3, T, lev, n, spare, C, levC, c)
                             /\ Keeps(B, levB, C, levC) /\ Link(C, b, page[3], c)
      <4>1. Going(d2, T, lev, n, spare, B, levB, b, page[3], user)
        BY <1>1, <2>2, <3>3, Zenon DEF Going
      <4>2. Gone(d3, T, lev, n, spare, B, levB, b, page[3])
        BY <4>1, GoesOn, Zenon
      <4> QED
        BY <4>2, Zenon DEF Gone
    <3> QED
      BY <3>1, <3>2, <3>4, Zenon
  <2>3. levA[a] # 1 /\ levA[a] - 1 = 2
    BY <1>4
  <2>4. \/ RanOut(d2, T, lev, n)
        \/ \E B, levB, b : /\ Reached(d2, T, lev, n, spare, B, levB, b)
                           /\ Keeps(A, levA, B, levB)
                           /\ Link(B, a, page[2], b) /\ b \in DOMAIN B /\ levB[b] = levA[a] - 1
    <3>1. Going(d1, T, lev, n, spare, A, levA, a, page[2], user)
      BY <1>1, <1>4, <2>3, Zenon DEF Going
    <3>2. Gone(d2, T, lev, n, spare, A, levA, a, page[2])
      BY <3>1, GoesOn, Zenon
    <3> QED
      BY <3>2, Zenon DEF Gone
  <2> QED
    BY <2>1, <2>2, <2>3, <2>4, Zenon
<1>5. lev[Level4] # 1 /\ lev[Level4] - 1 = 3
  BY <1>1
<1>6. \/ RanOut(d1, T, lev, n)
      \/ \E A, levA, a : /\ Reached(d1, T, lev, n, spare, A, levA, a)
                         /\ Link(A, Level4, page[1], a) /\ a \in DOMAIN A
                         /\ levA[a] = lev[Level4] - 1
  <2>1. Going(d0, T, lev, n, spare, T, lev, Level4, page[1], user)
    BY <1>1, <1>2, <1>5, Zenon DEF Going
  <2>2. Gone(d1, T, lev, n, spare, T, lev, Level4, page[1])
    BY <2>1, GoesOn, Zenon
  <2> QED
    BY <2>2, Zenon DEF Gone
<1>7. Descent(page, user, n, T) = d3
  BY Zenon DEF Descent, d0
<1> QED
  BY <1>3, <1>4, <1>5, <1>6, <1>7, Zenon

\* A page as kernel_main maps it: its trail, its frame, its own flag, and the
\* flags above it where user mode must pass.
PageOK(T, page, f) ==
    \E a, b, c :
        /\ Trail(T, page, a, b, c) /\ Link(T, c, page[4], f)
        /\ T[c][page[4]].user = (page \in UserPages)
        /\ page \in UserPages =>
             T[Level4][page[1]].user /\ T[a][page[2]].user /\ T[b][page[3]].user

\* What mapping another page may do to the used entries.
Carries(T, lev, S) ==
    /\ DOMAIN T \subseteq DOMAIN S
    /\ \A t \in DOMAIN T, i \in Indexes : T[t][i] # Unused =>
         /\ S[t][i] # Unused
         /\ S[t][i].frame = T[t][i].frame
         /\ T[t][i].user => S[t][i].user
         /\ lev[t] = 1 => S[t][i] = T[t][i]

\* A change that keeps the tree carries its pages over.
LEMMA KeepsCarries ==
    ASSUME NEW T, NEW lev, NEW S, NEW levS, Keeps(T, lev, S, levS)
    PROVE  Carries(T, lev, S)
  BY Zenon DEF Keeps, Carries

\* A page that is right stays right.
LEMMA CarriesPage ==
    ASSUME NEW T, NEW lev, Sound(T, lev), NEW S, Carries(T, lev, S),
           NEW page \in PageIndexes, NEW f, PageOK(T, page, f)
    PROVE  PageOK(S, page, f)
<1>1. PICK a, b, c :
        /\ Trail(T, page, a, b, c) /\ Link(T, c, page[4], f)
        /\ T[c][page[4]].user = (page \in UserPages)
        /\ page \in UserPages =>
             T[Level4][page[1]].user /\ T[a][page[2]].user /\ T[b][page[3]].user
  BY Zenon DEF PageOK
<1>2. \A k \in 1..4 : page[k] \in Indexes
  BY Zenon DEF PageIndexes
<1>3. lev[c] = 1
  BY <1>1, TrailLevels
<1>4. Trail(S, page, a, b, c) /\ Link(S, c, page[4], f)
  BY <1>1, <1>2 DEF Trail, Link, Carries
<1>5. S[c][page[4]] = T[c][page[4]]
  BY <1>1, <1>2, <1>3 DEF Link, Carries
<1>6. page \in UserPages =>
         S[Level4][page[1]].user /\ S[a][page[2]].user /\ S[b][page[3]].user
  BY <1>1, <1>2 DEF Trail, Link, Carries
<1> QED
  BY <1>1, <1>4, <1>5, <1>6, Zenon DEF PageOK

\* S is T with the page mapped to f, and otherwise as it was.
Mapped(T, S, levS, m, page, f, user) ==
    /\ Sound(S, levS) /\ Within(S, m)
    /\ \E a, b, c : Trail(S, page, a, b, c) /\ S[c][page[4]] = Entry(f, user)
    /\ \A pg \in PageIndexes : \A g : Maps(S, pg, g) => Maps(T, pg, g) \/ pg = page
    /\ \A pg \in PageIndexes : \A g : PageOK(T, pg, g) => PageOK(S, pg, g)

\* map_to of a page that was not mapped: it maps the page, or there are too few
\* frames for its tables.
LEMMA MapToMaps ==
    ASSUME memory_map \in MemoryMaps, opens_parents \in BOOLEAN,
           NEW lev, NEW n, NEW f, Ready(tables, lev, n, f),
           NEW page \in PageIndexes, NEW user \in BOOLEAN,
           \A g : ~Maps(tables, page, g),
           NEW r, r = MapTo(page, f, user, n)
    PROVE  /\ r.next \in Nat /\ r.next >= n
           /\ \/ /\ ~r.ok /\ r.next > Cardinality(usable_frames)
                 /\ \E levS : /\ Sound(r.tables, levS) /\ Within(r.tables, r.next)
                              /\ Keeps(tables, lev, r.tables, levS)
              \/ r.ok /\ \E levS : Mapped(tables, r.tables, levS, r.next, page, f, user)
<1> DEFINE d == Descent(page, user, n, tables)
<1>1. r = IF ~d.ok \/ d.tables[d.at][page[4]] # Unused
          THEN [ok |-> FALSE, next |-> d.next, tables |-> d.tables]
          ELSE [ok |-> TRUE, next |-> d.next,
                tables |-> [d.tables EXCEPT ![d.at][page[4]] = Entry(f, user)]]
  BY Zenon DEF MapTo, Descent, At
<1> HIDE DEF d
<1>2. n \in Nat /\ f \in Nat
  BY Zenon DEF Ready
<1>3. CASE RanOut(d, tables, lev, n)
  <2>1. PICK S, levS, m, t :
          /\ d = Stuck(m, S, t)
          /\ m \in Nat /\ m >= n /\ m > Cardinality(usable_frames)
          /\ Sound(S, levS) /\ Within(S, m) /\ Keeps(tables, lev, S, levS)
    BY <1>3, Zenon DEF RanOut
  <2>2. r.ok = FALSE /\ r.next = m /\ r.tables = S
    <3>1. d.ok = FALSE /\ d.next = m /\ d.tables = S
      BY <2>1, Zenon DEF Stuck
    <3>2. r = [ok |-> FALSE, next |-> m, tables |-> S]
      BY <1>1, <3>1, Zenon
    <3> QED
      BY <3>2
  <2> QED
    BY <2>1, <2>2, Zenon
<1>4. ASSUME NEW S, NEW levS, NEW a, NEW b, NEW c,
             Reached(d, tables, lev, n, f, S, levS, c), Trail(S, page, a, b, c)
      PROVE  /\ r.next \in Nat /\ r.next >= n /\ r.ok
             /\ Mapped(tables, r.tables, levS, r.next, page, f, user)
  <2>1. PICK m : /\ d = At(m, S, c) /\ m >= n
                 /\ Ready(S, levS, m, f) /\ Keeps(tables, lev, S, levS)
    BY <1>4, Zenon DEF Reached
  <2>2. m \in Nat /\ Sound(S, levS) /\ Within(S, m) /\ f \in Given(m) /\ ~InUse(S, f)
    BY <2>1, Zenon DEF Ready
  <2>3. c \in DOMAIN S /\ levS[c] = 1 /\ page[4] \in Indexes
    <3>1. c \in DOMAIN S /\ levS[c] = 1
      BY <1>4, <2>2, TrailLevels
    <3> QED
      BY <3>1 DEF PageIndexes
  <2>4. S[c][page[4]] = Unused
    <3>1. SUFFICES ASSUME S[c][page[4]] # Unused PROVE FALSE
      BY Zenon
    <3>2. Maps(S, page, S[c][page[4]].frame)
      BY <1>4, <2>3, <3>1, Zenon DEF Maps, Link
    <3> QED
      BY <2>1, <3>2, Zenon DEF Keeps
  <2>a. PICK e : e = Entry(f, user)
    BY Zenon
  <2>b. PICK R : R = [S EXCEPT ![c][page[4]] = e]
    BY Zenon
  <2>5. r.ok = TRUE /\ r.next = m /\ r.tables = R
    <3>1. d.ok = TRUE /\ d.next = m /\ d.tables = S /\ d.at = c
      BY <2>1, Zenon DEF At
    <3>2. r = [ok |-> TRUE, next |-> m, tables |-> R]
      BY <1>1, <2>4, <2>a, <2>b, <3>1, Zenon
    <3> QED
      BY <3>2
  <2>6. e \in EntryType /\ e.frame = f
    BY <1>2, <2>a, Zenon DEF Entry, EntryType
  <2>7. Leafed(S, R, c, page[4], f, e)
    <3>1. S \in [DOMAIN S -> [Indexes -> EntryType]]
      BY <2>2, Zenon DEF Sound, Tables
    <3>2. /\ R \in [DOMAIN S -> [Indexes -> EntryType]] /\ DOMAIN R = DOMAIN S
          /\ R[c][page[4]] = e
          /\ \A u \in DOMAIN S, j \in Indexes : <<u, j>> # <<c, page[4]>> => R[u][j] = S[u][j]
      BY <2>3, <2>6, <2>b, <3>1, Zenon
    <3> QED
      BY <1>2, <2>2, <2>3, <2>4, <2>6, <3>2, Zenon DEF Leafed
  <2>8. /\ Sound(R, levS)
        /\ \A g \in Nat : InUse(R, g) <=> (InUse(S, g) \/ g = f)
        /\ \A u \in DOMAIN S, j \in Indexes : S[u][j] # Unused => R[u][j] = S[u][j]
    BY <2>2, <2>3, <2>7, LeafedSound
  <2>9. /\ Trail(R, page, a, b, c)
        /\ \A pg \in PageIndexes : \A g : Maps(R, pg, g) => Maps(S, pg, g) \/ pg = page
    <3>1. LeafedPage(S, levS, R, page, a, b, c, f, e)
      BY <1>4, <2>2, <2>7, Zenon DEF LeafedPage
    <3> QED
      BY <3>1, LeafedMaps, Zenon
  <2>10. Within(R, m)
    BY <2>2, <2>8, Zenon DEF Within
  <2>11. \A pg \in PageIndexes : \A g : Maps(R, pg, g) => Maps(tables, pg, g) \/ pg = page
    BY <2>1, <2>9, Zenon DEF Keeps
  <2>12. ASSUME NEW pg \in PageIndexes, NEW g, PageOK(tables, pg, g)
         PROVE  PageOK(R, pg, g)
    <3>1. Carries(S, levS, R)
      <4>1. DOMAIN R = DOMAIN S
        BY <2>7, Zenon DEF Leafed
      <4> QED
        BY <2>8, <4>1, Zenon DEF Carries
    <3>2. Carries(tables, lev, S)
      BY <2>1, KeepsCarries, Zenon
    <3>3. Sound(tables, lev)
      BY Zenon DEF Ready
    <3>4. PageOK(S, pg, g)
      BY <2>12, <3>2, <3>3, CarriesPage, Zenon
    <3> QED
      BY <2>2, <3>1, <3>4, CarriesPage, Zenon
  <2>13. R[c][page[4]] = Entry(f, user)
    BY <2>7, <2>a, Zenon DEF Leafed
  <2>14. Mapped(tables, R, levS, m, page, f, user)
    BY <2>8, <2>9, <2>10, <2>11, <2>12, <2>13, Zenon DEF Mapped
  <2> QED
    BY <2>1, <2>2, <2>5, <2>14, Zenon
<1>5. \/ RanOut(d, tables, lev, n)
      \/ \E S, levS, a, b, c : /\ Reached(d, tables, lev, n, f, S, levS, c)
                               /\ Trail(S, page, a, b, c)
  BY DescentEnds, Zenon DEF d
<1> QED
  BY <1>3, <1>4, <1>5, Zenon
\* The same, with the hypotheses and the conclusion as one fact each.
Unmapped(lev, n, f, page, user) ==
    /\ memory_map \in MemoryMaps /\ opens_parents \in BOOLEAN
    /\ page \in PageIndexes /\ user \in BOOLEAN
    /\ Ready(tables, lev, n, f) /\ \A g : ~Maps(tables, page, g)

MapToEnds(r, lev, n, page, f, user) ==
    /\ r.next \in Nat /\ r.next >= n
    /\ \/ /\ ~r.ok /\ r.next > Cardinality(usable_frames)
          /\ \E levS : /\ Sound(r.tables, levS) /\ Within(r.tables, r.next)
                       /\ Keeps(tables, lev, r.tables, levS)
       \/ r.ok /\ \E levS : Mapped(tables, r.tables, levS, r.next, page, f, user)

\* The same of the result of map_to as kernel_main uses it.
LEMMA MapToResult ==
    ASSUME NEW lev, NEW n, NEW f, NEW page, NEW user, Unmapped(lev, n, f, page, user)
    PROVE  MapToEnds(MapTo(page, f, user, n), lev, n, page, f, user)
<1>1. PICK r : r = MapTo(page, f, user, n)
  BY Zenon
<1>2. MapToEnds(r, lev, n, page, f, user)
  BY <1>1, MapToMaps, Zenon DEF Unmapped, MapToEnds
<1> QED
  BY <1>1, <1>2, Zenon

-----------------------------------------------------------------------------
(* set_user_bit_for_parents *)

OpenedEntry(e) == Entry(e.frame, TRUE)
OpenAt(T, t, i) == [T EXCEPT ![t][i] = OpenedEntry(T[t][i])]

\* A step of set_user_bit_for_parents writes one entry and follows it.
LEMMA OpenEntryIs ==
    ASSUME NEW T, NEW t, NEW i
    PROVE  OpenEntry([tables |-> T, at |-> t], i) =
               [tables |-> OpenAt(T, t, i), at |-> T[t][i].frame]
<1>1. PICK st : st = [tables |-> T, at |-> t]
  BY Zenon
<1>2. st.tables = T /\ st.at = t
  BY <1>1, Zenon
<1>3. OpenEntry(st, i) = [tables |-> OpenAt(T, t, i), at |-> T[t][i].frame]
  BY <1>2, Zenon DEF OpenEntry, OpenAt, OpenedEntry
<1> QED
  BY <1>1, <1>3, Zenon

\* One level: the flag of one used entry is set.
Opening(T, lev, t, i, u) ==
    Sound(T, lev) /\ i \in Indexes /\ Link(T, t, i, u) /\ lev[t] # 1

\* That step keeps the tree, and the entry is open after it.
LEMMA OpenAtOpens ==
    ASSUME NEW T, NEW lev, NEW t, NEW i, NEW u, Opening(T, lev, t, i, u)
    PROVE  /\ Sound(OpenAt(T, t, i), lev) /\ Keeps(T, lev, OpenAt(T, t, i), lev)
           /\ \A f \in Nat : InUse(OpenAt(T, t, i), f) <=> InUse(T, f)
           /\ OpenAt(T, t, i)[t][i].user = TRUE
<1>a. PICK e : e = OpenedEntry(T[t][i])
  BY Zenon
<1>b. PICK S : S = OpenAt(T, t, i)
  BY Zenon
<1>1. t \in DOMAIN T /\ T[t][i] # Unused
  BY Zenon DEF Link, Opening
<1>2. T[t][i] \in [frame : Nat, user : BOOLEAN]
  BY <1>1, Entries, Zenon DEF EntryType, Sound, Opening
<1>3. e \in EntryType /\ e.frame = T[t][i].frame /\ e.user = TRUE
  BY <1>2, <1>a, Zenon DEF EntryType, OpenedEntry, Entry
<1>4. S = [T EXCEPT ![t][i] = e]
  BY <1>a, <1>b, Zenon DEF OpenAt
<1>5. Opened(T, lev, S) /\ S[t][i] = e
  <2>1. Opens(T, lev, t, i, e, S)
    BY <1>1, <1>3, <1>4, Zenon DEF Opens, Opening
  <2> QED
    BY <2>1, OpenKeeps
<1>6. /\ Sound(S, lev) /\ Keeps(T, lev, S, lev)
      /\ \A f \in Nat : InUse(S, f) <=> InUse(T, f)
  BY <1>5, OpenedKeeps, Zenon DEF Opening
<1> QED
  BY <1>3, <1>5, <1>6, <1>b, Zenon

\* The parents of a mapped page are opened, and nothing else changes.
LEMMA ParentsOpened ==
    ASSUME NEW T, NEW lev, Sound(T, lev), NEW page \in PageIndexes, NEW a, NEW b, NEW c,
           Trail(T, page, a, b, c),
           NEW R, R = SetUserBitForParents(page, T)
    PROVE  /\ Sound(R, lev) /\ Keeps(T, lev, R, lev)
           /\ \A f \in Nat : InUse(R, f) <=> InUse(T, f)
           /\ R[Level4][page[1]].user /\ R[a][page[2]].user /\ R[b][page[3]].user
<1>b. PICK T1 : T1 = OpenAt(T, Level4, page[1])
  BY Zenon
<1>c. PICK T2 : T2 = OpenAt(T1, a, page[2])
  BY Zenon
<1>d. PICK T3 : T3 = OpenAt(T2, b, page[3])
  BY Zenon
<1>1. \A k \in 1..4 : page[k] \in Indexes
  BY Zenon DEF PageIndexes
<1>2. /\ lev[Level4] = 4 /\ Level4 \in DOMAIN T
      /\ a \in DOMAIN T /\ b \in DOMAIN T /\ lev[a] = 3 /\ lev[b] = 2
  BY TrailLevels DEF Sound, Tables, Tree
<1>3. Link(T, Level4, page[1], a) /\ Link(T, a, page[2], b) /\ Link(T, b, page[3], c)
  BY Zenon DEF Trail
<1>a. /\ lev[Level4] # 1 /\ lev[a] # 1 /\ lev[b] # 1
      /\ page[1] \in Indexes /\ page[2] \in Indexes /\ page[3] \in Indexes
  BY <1>1, <1>2
<1>4. /\ Sound(T1, lev) /\ Keeps(T, lev, T1, lev)
      /\ \A f \in Nat : InUse(T1, f) <=> InUse(T, f)
      /\ T1[Level4][page[1]].user = TRUE
  <2>1. Opening(T, lev, Level4, page[1], a)
    BY <1>3, <1>a, Zenon DEF Opening
  <2>2. /\ Sound(OpenAt(T, Level4, page[1]), lev) /\ Keeps(T, lev, OpenAt(T, Level4, page[1]), lev)
        /\ \A f \in Nat : InUse(OpenAt(T, Level4, page[1]), f) <=> InUse(T, f)
        /\ OpenAt(T, Level4, page[1])[Level4][page[1]].user = TRUE
    BY <2>1, OpenAtOpens, Zenon
  <2> QED
    BY <1>b, <2>2, Zenon
<1>5. OpenEntry([tables |-> T, at |-> Level4], page[1]) = [tables |-> T1, at |-> a]
  BY <1>3, <1>b, OpenEntryIs, Zenon DEF Link
<1>6. Link(T1, Level4, page[1], a) /\ Link(T1, a, page[2], b) /\ Link(T1, b, page[3], c)
  BY <1>1, <1>3, <1>4, KeepsTrail
<1>7. /\ Sound(T2, lev) /\ Keeps(T1, lev, T2, lev)
      /\ \A f \in Nat : InUse(T2, f) <=> InUse(T1, f)
      /\ T2[a][page[2]].user = TRUE
  <2>1. Opening(T1, lev, a, page[2], b)
    BY <1>4, <1>6, <1>a, Zenon DEF Opening
  <2>2. /\ Sound(OpenAt(T1, a, page[2]), lev) /\ Keeps(T1, lev, OpenAt(T1, a, page[2]), lev)
        /\ \A f \in Nat : InUse(OpenAt(T1, a, page[2]), f) <=> InUse(T1, f)
        /\ OpenAt(T1, a, page[2])[a][page[2]].user = TRUE
    BY <2>1, OpenAtOpens, Zenon
  <2> QED
    BY <1>c, <2>2, Zenon
<1>8. OpenEntry([tables |-> T1, at |-> a], page[2]) = [tables |-> T2, at |-> b]
  BY <1>6, <1>c, OpenEntryIs, Zenon DEF Link
<1>9. Link(T2, Level4, page[1], a) /\ Link(T2, a, page[2], b) /\ Link(T2, b, page[3], c)
  BY <1>1, <1>6, <1>7, KeepsTrail
<1>10. /\ Sound(T3, lev) /\ Keeps(T2, lev, T3, lev)
       /\ \A f \in Nat : InUse(T3, f) <=> InUse(T2, f)
       /\ T3[b][page[3]].user = TRUE
  <2>1. Opening(T2, lev, b, page[3], c)
    BY <1>7, <1>9, <1>a, Zenon DEF Opening
  <2>2. /\ Sound(OpenAt(T2, b, page[3]), lev) /\ Keeps(T2, lev, OpenAt(T2, b, page[3]), lev)
        /\ \A f \in Nat : InUse(OpenAt(T2, b, page[3]), f) <=> InUse(T2, f)
        /\ OpenAt(T2, b, page[3])[b][page[3]].user = TRUE
    BY <2>1, OpenAtOpens, Zenon
  <2> QED
    BY <1>d, <2>2, Zenon
<1>11. OpenEntry([tables |-> T2, at |-> b], page[3]) = [tables |-> T3, at |-> c]
  BY <1>9, <1>d, OpenEntryIs, Zenon DEF Link
<1>12. R = T3
  BY <1>5, <1>8, <1>11 DEF SetUserBitForParents
<1>13. T2[Level4][page[1]].user /\ T3[Level4][page[1]].user
  <2>1. T2[Level4][page[1]].user
    BY <1>a, <1>4, <1>6, <1>7, KeepsUser, Zenon
  <2> QED
    BY <1>a, <1>9, <1>10, <2>1, KeepsUser, Zenon
<1>14. T3[a][page[2]].user
  BY <1>a, <1>7, <1>9, <1>10, KeepsUser, Zenon
<1>15. Keeps(T, lev, T3, lev)
  BY <1>4, <1>7, <1>10, KeepsThen, Zenon
<1> QED
  BY <1>4, <1>7, <1>10, <1>12, <1>13, <1>14, <1>15, Zenon
-----------------------------------------------------------------------------
(* The inductive invariant *)

RootFrames == {roots[i] : i \in DOMAIN roots}

\* The tables are a tree T and the level 4 tables of the processes, which repeat
\* the one of T.  The pages mapped are those kernel_main meant to map.
Shape(T, lev) ==
    /\ Sound(T, lev) /\ Within(T, next)
    /\ tables = [t \in DOMAIN T \cup RootFrames |-> IF t \in DOMAIN T THEN T[t] ELSE T[Level4]]
    /\ \A r \in RootFrames : r \in Nat /\ r \in Given(next) /\ ~InUse(T, r)
    /\ \A page \in DOMAIN page_frame : PageOK(T, page, page_frame[page])
    /\ \A page \in PageIndexes : \A f : Maps(T, page, f) => page \in DOMAIN page_frame

\* How far kernel_main is: the pages it has mapped, and that the processes come
\* after the last of them.
Progress ==
    /\ pc \in {"init_heap", "boot_checks", "map_code", "map_stack", "map_code2",
               "init_tasks", "kernel_mode_test", "halted"}
    /\ DOMAIN page_frame \subseteq Pages
    /\ pc \in {"init_heap", "boot_checks", "map_code", "map_stack", "map_code2"} => roots = << >>
    /\ pc = "init_heap" =>
         \E i \in 1..Len(HeapPages) :
            /\ DOMAIN page_frame = {KernelPage} \cup {HeapPages[j] : j \in 1..(i - 1)}
            /\ IsFiniteSet(DOMAIN page_frame) /\ Cardinality(DOMAIN page_frame) = i
    /\ pc \in {"boot_checks", "map_code"} => DOMAIN page_frame \subseteq KernelPages
    /\ pc = "map_stack" => DOMAIN page_frame \subseteq KernelPages \cup {CodePage}
    /\ pc = "map_code2" => DOMAIN page_frame \subseteq KernelPages \cup {CodePage, StackPage}

Setting ==
    memory_map \in MemoryMaps /\ opens_parents \in BOOLEAN /\ next \in Nat /\ roots \in Seq(Nat)

IInv ==
    /\ Setting /\ Progress /\ HaltsForLackOfFrames
    /\ \E T, lev : Shape(T, lev)

\* The memory map stays.
LEMMA SameFrames ==
    ASSUME memory_map' = memory_map
    PROVE  /\ usable_frames' = usable_frames
           /\ \A f, k : IsNth(f, k)' <=> IsNth(f, k)
<1>1. usable_frames' = usable_frames
  BY Zenon DEF usable_frames
<1> QED
  BY <1>1, Zenon DEF IsNth

\* A frame handed out by the new count is one handed out in the next state.
LEMMA GivenNext ==
    ASSUME memory_map' = memory_map, NEW f, f \in Given(next')
    PROVE  f \in Given(next)'
  BY SameFrames, Zenon DEF Given

\* The same of all frames in use.
LEMMA WithinNext ==
    ASSUME memory_map' = memory_map, NEW T, Within(T, next')
    PROVE  Within(T, next)'
  BY GivenNext, Zenon DEF Within, InUse

\* Pages are sequences of indexes.
LEMMA PagesAreIndexes ==
    /\ Pages \subseteq PageIndexes
    /\ KernelPage \in Pages /\ UserPages \subseteq Pages
    /\ \A i \in DOMAIN HeapPages : HeapPages[i] \in KernelPages
    /\ \A page \in KernelPages : page \in Pages /\ page \notin UserPages
  BY PagesAssumption, Zenon DEF Pages, KernelPages, PageIndexes

\* Before there are processes the tables are the tree itself.
LEMMA NoProcessTables ==
    ASSUME NEW T, NEW lev, Shape(T, lev), roots = << >>
    PROVE  tables = T
<1>1. RootFrames = {}
  BY DEF RootFrames
<1>2. T = [t \in DOMAIN T |-> T[t]]
  BY Zenon DEF Shape, Sound, Tables
<1>3. tables = [t \in DOMAIN T |-> T[t]]
  BY <1>1, Zenon DEF Shape
<1> QED
  BY <1>2, <1>3, Zenon

\* The other way round, for the next state.
LEMMA ShapeNext ==
    ASSUME NEW S, NEW levS, Sound(S, levS), memory_map' = memory_map, Within(S, next'),
           tables' = S, roots' = << >>,
           \A page \in DOMAIN page_frame' : PageOK(S, page, page_frame'[page]),
           \A page \in PageIndexes : \A f : Maps(S, page, f) => page \in DOMAIN page_frame'
    PROVE  Shape(S, levS)'
<1>1. RootFrames' = {}
  BY DEF RootFrames
<1>2. S = [t \in DOMAIN S |-> S[t]]
  BY Zenon DEF Sound, Tables
<1>3. [t \in DOMAIN S |-> S[t]] =
        [t \in DOMAIN S \cup {} |-> IF t \in DOMAIN S THEN S[t] ELSE S[Level4]]
  BY Zenon
<1>4. Within(S, next)'
  BY WithinNext, Zenon
<1> QED
  BY <1>1, <1>2, <1>3, <1>4, Zenon DEF Shape

\* The counter only grows, and a set-up that failed for lack of frames stays so.
LEMMA StillLacking ==
    ASSUME Setting, HaltsForLackOfFrames, memory_map' = memory_map, next' \in Nat, next' >= next,
           why' = why \/ next' > Cardinality(usable_frames) \/ why' \notin {"frames", "map_to"}
    PROVE  HaltsForLackOfFrames'
<1>1. Cardinality(usable_frames) \in Nat /\ next \in Nat
  BY UsableFrames, FS_CardinalityType, Zenon DEF Setting
<1>2. usable_frames' = usable_frames
  BY SameFrames, Zenon
<1> QED
  BY <1>1, <1>2 DEF HaltsForLackOfFrames

\* An entry made for a frame is used, leads to the frame and has the flag given.
LEMMA EntryLeads ==
    ASSUME NEW f \in Nat, NEW user
    PROVE  Entry(f, user) # Unused /\ Entry(f, user).frame = f /\ Entry(f, user).user = user
  BY BootAssumption DEF Entry, Unused

\* What MapPage leaves: the shape, with one page more or with none.
Left(page, then) ==
    /\ \E S, levS : Shape(S, levS)'
    /\ next' \in Nat /\ next' >= next
    /\ HaltsForLackOfFrames'
    /\ \/ pc' = "halted" /\ page_frame' = page_frame
       \/ pc' = then /\ DOMAIN page_frame' = DOMAIN page_frame \cup {page}

\* The frame is there and so are the tables.
LEMMA MapPageDone ==
    ASSUME Setting, Progress, HaltsForLackOfFrames,
           roots = << >>, roots' = roots, memory_map' = memory_map,
           NEW T, NEW lev, Shape(T, lev), tables = T,
           NEW page \in Pages, NEW user, user = (page \in UserPages), NEW then,
           NEW f \in Nat, NEW S, NEW levS, Mapped(T, S, levS, next', page, f, user),
           next' \in Nat, next' >= next, pc' = then, why' = why,
           tables' = IF user THEN SetUserBitForParents(page, S) ELSE S,
           page_frame' = Put(page_frame, page, f)
    PROVE  Left(page, then)
<1>1. page \in PageIndexes /\ \A pg \in Pages : pg \in PageIndexes
  BY PagesAreIndexes, Zenon
<1>2. Sound(S, levS) /\ Within(S, next')
  BY Zenon DEF Mapped
<1>3. PICK a, b, c : Trail(S, page, a, b, c) /\ S[c][page[4]] = Entry(f, user)
  BY Zenon DEF Mapped
<1>4. c \in DOMAIN S /\ levS[c] = 1 /\ page[4] \in Indexes
  <2>1. c \in DOMAIN S /\ levS[c] = 1
    BY <1>1, <1>2, <1>3, TrailLevels
  <2> QED
    BY <1>1, <2>1 DEF PageIndexes
<1>5. Link(S, c, page[4], f) /\ S[c][page[4]].user = user
  <2>1. PICK e : e = Entry(f, user)
    BY Zenon
  <2>2. e # Unused /\ e.frame = f /\ e.user = user
    BY <2>1, EntryLeads
  <2> QED
    BY <1>3, <1>4, <2>1, <2>2, Zenon DEF Link
<1>6. /\ DOMAIN page_frame' = DOMAIN page_frame \cup {page}
      /\ page_frame'[page] = f
      /\ \A pg \in DOMAIN page_frame : pg # page => page_frame'[pg] = page_frame[pg]
  BY Zenon DEF Put
<1>7. HaltsForLackOfFrames'
  BY StillLacking, Zenon

<1> DEFINE Done(R) == /\ Sound(R, levS) /\ Within(R, next')
                      /\ PageOK(R, page, f)
                      /\ \A pg \in PageIndexes : \A g : PageOK(S, pg, g) => PageOK(R, pg, g)
                      /\ \A pg \in PageIndexes : \A g : Maps(R, pg, g) => Maps(S, pg, g)
<1>8. ASSUME NEW R, Done(R), tables' = R
      PROVE  Left(page, then)
  <2>1. ASSUME NEW pg \in DOMAIN page_frame' PROVE PageOK(R, pg, page_frame'[pg])
    <3>1. CASE pg = page
      BY <1>6, <1>8, <3>1, Zenon
    <3>2. CASE pg # page
      <4>1. pg \in DOMAIN page_frame /\ page_frame'[pg] = page_frame[pg]
        BY <1>6, <3>2, Zenon
      <4>2. pg \in PageIndexes
        BY <1>1, <1>8, <4>1, Zenon DEF Progress
      <4>3. PageOK(S, pg, page_frame[pg])
        BY <4>1, <4>2, Zenon DEF Mapped, Shape
      <4> QED
        BY <1>8, <4>1, <4>2, <4>3, Zenon
    <3> QED
      BY <3>1, <3>2, Zenon
  <2>2. ASSUME NEW pg \in PageIndexes, NEW g, Maps(R, pg, g) PROVE pg \in DOMAIN page_frame'
    <3>1. Maps(T, pg, g) \/ pg = page
      BY <1>8, <2>2, Zenon DEF Mapped
    <3> QED
      BY <1>6, <3>1, Zenon DEF Shape
  <2>3. Shape(R, levS)'
    BY <1>8, <2>1, <2>2, ShapeNext, Zenon
  <2> QED
    BY <1>6, <1>7, <2>3, Zenon DEF Left
<1>9. CASE ~user
  <2>1. page \notin UserPages /\ tables' = S
    BY <1>9, Zenon
  <2>2. PageOK(S, page, f)
    BY <1>3, <1>5, <1>9, <2>1, Zenon DEF PageOK
  <2>3. Done(S)
    BY <1>2, <2>2, Zenon
  <2> QED
    BY <1>8, <2>1, <2>3, Zenon
<1>10. CASE user
  <2>1. PICK R : R = SetUserBitForParents(page, S)
    BY Zenon
  <2>2. page \in UserPages /\ tables' = R
    BY <1>10, <2>1, Zenon
  <2>3. /\ Sound(R, levS) /\ Keeps(S, levS, R, levS)
        /\ \A g \in Nat : InUse(R, g) <=> InUse(S, g)
        /\ R[Level4][page[1]].user /\ R[a][page[2]].user /\ R[b][page[3]].user
    BY <1>1, <1>2, <1>3, <2>1, ParentsOpened, Zenon
  <2>4. Within(R, next')
    BY <1>2, <2>3, Zenon DEF Within
  <2>5. PageOK(R, page, f)
    <3>1. R[c][page[4]] = S[c][page[4]] /\ DOMAIN S \subseteq DOMAIN R
      BY <1>4, <2>3, Zenon DEF Keeps
    <3>2. Link(R, c, page[4], f) /\ R[c][page[4]].user = (page \in UserPages)
      BY <1>5, <3>1, Zenon DEF Link
    <3>3. Trail(R, page, a, b, c)
      <4>1. page[1] \in Indexes /\ page[2] \in Indexes /\ page[3] \in Indexes
        BY <1>1 DEF PageIndexes
      <4> QED
        BY <1>3, <2>3, <4>1, KeepsTrail, Zenon DEF Trail
    <3> QED
      BY <2>3, <3>2, <3>3, Zenon DEF PageOK
  <2>6. \A pg \in PageIndexes : \A g : PageOK(S, pg, g) => PageOK(R, pg, g)
    BY <1>2, <2>3, KeepsCarries, CarriesPage, Zenon
  <2>7. \A pg \in PageIndexes : \A g : Maps(R, pg, g) => Maps(S, pg, g)
    BY <2>3, Zenon DEF Keeps
  <2>8. Done(R)
    BY <2>3, <2>4, <2>5, <2>6, <2>7, Zenon
  <2> QED
    BY <1>8, <2>2, <2>8, Zenon
<1> QED
  BY <1>9, <1>10, Zenon

\* allocate_frame and map_to, of a page that is not mapped yet.
LEMMA MapPageKeeps ==
    ASSUME Setting, Progress, HaltsForLackOfFrames, roots = << >>,
           NEW T, NEW lev, Shape(T, lev),
           NEW page \in Pages, page \notin DOMAIN page_frame,
           NEW user, user = (page \in UserPages), NEW then, MapPage(page, user, then)
    PROVE  Left(page, then)
<1> DEFINE f == Frame(next)
           n == AfterAllocate(next)
           r == MapTo(page, f, user, n)
<1>1. tables = T /\ Sound(T, lev) /\ Within(T, next)
  BY NoProcessTables, Zenon DEF Shape
<1>2. /\ memory_map' = memory_map /\ roots' = roots
      /\ memory_map \in MemoryMaps /\ opens_parents \in BOOLEAN /\ next \in Nat
  BY Zenon DEF Setting, MapPage, fixed
<1>3. page \in PageIndexes /\ \A pg \in Pages : pg \in PageIndexes
  BY PagesAreIndexes, Zenon
<1>4. n = next + 1 /\ n \in Nat /\ n >= next
  BY <1>2 DEF AfterAllocate
<1>5. Within(T, n)
  BY <1>1, <1>2, <1>4, GivenGrows, Zenon DEF Within
<1>6. CASE f = NoFrame
  <2>1. /\ pc' = "halted" /\ why' = "frames" /\ next' = n
        /\ tables' = T /\ page_frame' = page_frame
    BY <1>1, <1>6, Zenon DEF MapPage, Halt
  <2>2. next' > Cardinality(usable_frames)
    BY <1>2, <1>4, <1>6, <2>1, Exhausted, UsableFrames, FS_CardinalityType
  <2>3. HaltsForLackOfFrames'
    BY <1>2, <1>4, <2>1, <2>2, StillLacking, Zenon
  <2>4. Shape(T, lev)'
    <3>1. /\ \A pg \in DOMAIN page_frame' : PageOK(T, pg, page_frame'[pg])
          /\ \A pg \in PageIndexes : \A g : Maps(T, pg, g) => pg \in DOMAIN page_frame'
      BY <2>1, Zenon DEF Shape
    <3> QED
      BY <1>1, <1>2, <1>5, <2>1, <3>1, ShapeNext, Zenon
  <2> QED
    BY <1>4, <2>1, <2>3, <2>4, Zenon DEF Left
<1>7. CASE f # NoFrame
  <2>1. f \in Nat /\ f \notin Given(next) /\ f \in Given(n)
    BY <1>2, <1>4, <1>7, FreshFrame, Zenon
  <2>2. Ready(tables, lev, n, f)
    BY <1>1, <1>4, <1>5, <2>1, Zenon DEF Ready, Within
  <2>3. \A g : ~Maps(tables, page, g)
    BY <1>1, <1>3, Zenon DEF Shape
  <2>4. user \in BOOLEAN
    OBVIOUS
  <2>5. /\ r.next \in Nat /\ r.next >= n
        /\ \/ /\ ~r.ok /\ r.next > Cardinality(usable_frames)
              /\ \E levS : /\ Sound(r.tables, levS) /\ Within(r.tables, r.next)
                           /\ Keeps(tables, lev, r.tables, levS)
           \/ r.ok /\ \E levS : Mapped(tables, r.tables, levS, r.next, page, f, user)
    <3> HIDE DEF r, n, f
    <3>1. Unmapped(lev, n, f, page, user)
      BY <1>2, <1>3, <2>2, <2>3, <2>4, Zenon DEF Unmapped
    <3>2. MapToEnds(r, lev, n, page, f, user)
      BY <3>1, MapToResult, Zenon DEF r
    <3> QED
      BY <3>2, Zenon DEF MapToEnds
  <2>6. /\ next' = r.next
        /\ \/ /\ ~r.ok /\ pc' = "halted" /\ why' = "map_to"
              /\ tables' = r.tables /\ page_frame' = page_frame
           \/ /\ r.ok /\ pc' = then /\ why' = why
              /\ tables' = IF user THEN SetUserBitForParents(page, r.tables) ELSE r.tables
              /\ page_frame' = Put(page_frame, page, f)
    BY <1>7, Zenon DEF MapPage, Halt
  <2>7. next' \in Nat /\ next' >= next
    BY <1>2, <1>4, <2>5, <2>6
  <2> HIDE DEF r, n, f
  <2>8. CASE r.ok
    <3>1. PICK S : S = r.tables
      BY Zenon
    <3>2. PICK levS : Mapped(T, S, levS, next', page, f, user)
      BY <1>1, <2>5, <2>6, <2>8, <3>1, Zenon
    <3>3. /\ pc' = then /\ why' = why
          /\ tables' = IF user THEN SetUserBitForParents(page, S) ELSE S
          /\ page_frame' = Put(page_frame, page, f)
      BY <2>6, <2>8, <3>1, Zenon
    <3> QED
      BY <1>1, <1>2, <2>1, <2>7, <3>2, <3>3, MapPageDone, Zenon
  <2>9. CASE ~r.ok
    <3>1. PICK S : S = r.tables
      BY Zenon
    <3>2. PICK levS : /\ Sound(S, levS) /\ Within(S, next')
                      /\ Keeps(T, lev, S, levS)
      BY <1>1, <2>5, <2>6, <2>9, <3>1, Zenon
    <3>3. /\ pc' = "halted" /\ why' = "map_to" /\ tables' = S /\ page_frame' = page_frame
          /\ next' > Cardinality(usable_frames)
      BY <2>5, <2>6, <2>9, <3>1, Zenon
    <3>4. HaltsForLackOfFrames'
      BY <1>2, <2>7, <3>3, StillLacking, Zenon
    <3>5. ASSUME NEW pg \in DOMAIN page_frame' PROVE PageOK(S, pg, page_frame'[pg])
      <4>1. pg \in PageIndexes /\ PageOK(T, pg, page_frame[pg])
        BY <1>3, <3>3, Zenon DEF Progress, Shape
      <4>2. Carries(T, lev, S)
        BY <3>2, KeepsCarries, Zenon
      <4> QED
        BY <1>1, <3>3, <4>1, <4>2, CarriesPage, Zenon
    <3>6. \A pg \in PageIndexes : \A g : Maps(S, pg, g) => pg \in DOMAIN page_frame'
      BY <3>2, <3>3, Zenon DEF Keeps, Shape
    <3>7. Shape(S, levS)'
      BY <1>2, <3>2, <3>3, <3>5, <3>6, ShapeNext, Zenon
    <3> QED
      BY <2>7, <3>3, <3>4, <3>7, Zenon DEF Left
  <2> QED
    BY <2>8, <2>9, Zenon
<1> QED
  BY <1>6, <1>7, Zenon

\* What the bootloader left maps the kernel page and nothing else.
LEMMA BootloaderShape ==
    ASSUME Init
    PROVE  Shape(BootloaderTables, [f \in 0..3 |-> 4 - f])
<1> DEFINE K == KernelPage
<1>1. /\ K \in PageIndexes /\ K \notin UserPages
      /\ K[1] \in Indexes /\ K[2] \in Indexes /\ K[3] \in Indexes /\ K[4] \in Indexes
  BY PagesAreIndexes DEF PageIndexes, KernelPages
<1>2. PICK T : T = BootloaderTables
  BY Zenon
<1>3. PICK lev : lev = [f \in 0..3 |-> 4 - f]
  BY Zenon
<1>4. /\ DOMAIN T = 0..3
      /\ \A t \in 0..3 : T[t] = [EmptyTable EXCEPT ![K[t + 1]] = Entry(t + 1, FALSE)]
  BY <1>2, Zenon DEF BootloaderTables
<1>5. EmptyTable \in [Indexes -> {Unused}]
  BY Zenon DEF EmptyTable
<1>6. \A t \in 0..3 : K[t + 1] \in Indexes /\ Entry(t + 1, FALSE) \in EntryType
  BY <1>1 DEF Entry, EntryType, PageIndexes
<1>7. \A t \in 0..3 : /\ T[t] \in [Indexes -> EntryType]
                      /\ T[t][K[t + 1]] = Entry(t + 1, FALSE)
                      /\ \A i \in Indexes : i # K[t + 1] => T[t][i] = Unused
  BY <1>4, <1>5, <1>6, Zenon DEF EntryType
<1>8. \A t \in 0..3 : /\ Entry(t + 1, FALSE) # Unused
                      /\ Entry(t + 1, FALSE).frame = t + 1
                      /\ Entry(t + 1, FALSE).user = FALSE
  BY BootAssumption DEF Entry, Unused
<1>9. \A t \in 0..3, i \in Indexes :
        T[t][i] # Unused => i = K[t + 1] /\ T[t][i].frame = t + 1 /\ T[t][i].user = FALSE
  BY <1>7, <1>8, Zenon
<1>10. \A t \in 0..3, i \in Indexes : T[t][i].frame \in Nat => T[t][i] # Unused
  BY BootAssumption DEF Unused, Entry
<1>11. T = [t \in 0..3 |-> T[t]]
  BY <1>2, Zenon DEF BootloaderTables
<1>12. Tables(T)
  <2>1. T \in [0..3 -> [Indexes -> EntryType]]
    BY <1>7, <1>11, Zenon
  <2> QED
    BY <1>4, <2>1 DEF Tables, Level4
<1>13. Tree(T, lev)
  <2>1. lev \in [DOMAIN T -> 1..4] /\ lev[Level4] = 4 /\ \A t \in 0..3 : lev[t] = 4 - t
    BY <1>3, <1>4 DEF Level4
  <2>2. ASSUME NEW t \in DOMAIN T, NEW i \in Indexes, T[t][i] # Unused
        PROVE  IF lev[t] = 1 THEN T[t][i].frame \notin DOMAIN T
               ELSE T[t][i].frame \in DOMAIN T /\ lev[T[t][i].frame] = lev[t] - 1
    <3>1. t \in 0..3 /\ T[t][i].frame = t + 1
      BY <1>4, <1>9, <2>2, Zenon
    <3>2. CASE t = 3
      BY <1>4, <2>1, <3>1, <3>2
    <3>3. CASE t \in 0..2
      <4>1. t + 1 \in 0..3 /\ lev[t + 1] = lev[t] - 1 /\ lev[t] # 1
        BY <2>1, <3>3
      <4> QED
        BY <1>4, <3>1, <4>1, Zenon
    <3> QED
      BY <3>1, <3>2, <3>3
  <2>3. ASSUME NEW t \in DOMAIN T, NEW u \in DOMAIN T, NEW i \in Indexes, NEW j \in Indexes,
               T[t][i] # Unused, T[t][i].frame = T[u][j].frame
        PROVE  t = u /\ i = j
    <3>1. t \in 0..3 /\ u \in 0..3 /\ i = K[t + 1] /\ T[t][i].frame = t + 1
      BY <1>4, <1>9, <2>3, Zenon
    <3>2. T[u][j] # Unused
      BY <1>10, <2>3, <3>1
    <3>3. j = K[u + 1] /\ T[u][j].frame = u + 1
      BY <1>9, <3>1, <3>2, Zenon
    <3> QED
      BY <2>3, <3>1, <3>3
  <2> QED
    BY <2>1, <2>2, <2>3 DEF Tree
<1>14. Within(T, next)
  <2>1. ASSUME NEW f \in Nat, InUse(T, f) PROVE f \in KernelFrames
    <3>1. CASE f \in DOMAIN T
      BY <1>4, <3>1 DEF KernelFrames
    <3>2. ASSUME NEW t \in DOMAIN T, NEW i \in Indexes, T[t][i].frame = f
          PROVE  f \in KernelFrames
      <4>1. t \in 0..3 /\ f = t + 1
        BY <1>4, <1>9, <1>10, <3>2
      <4> QED
        BY <4>1 DEF KernelFrames
    <3> QED
      BY <2>1, <3>1, <3>2, Zenon DEF InUse
  <2> QED
    BY <2>1, Zenon DEF Within, Given
<1>15. Link(T, 0, K[1], 1) /\ Link(T, 1, K[2], 2) /\ Link(T, 2, K[3], 3) /\ Link(T, 3, K[4], 4)
  <2>1. \A t \in 0..3 : Link(T, t, K[t + 1], t + 1)
    BY <1>4, <1>7, <1>8, Zenon DEF Link
  <2>2. /\ Link(T, 0, K[0 + 1], 0 + 1) /\ Link(T, 1, K[1 + 1], 1 + 1)
        /\ Link(T, 2, K[2 + 1], 2 + 1) /\ Link(T, 3, K[3 + 1], 3 + 1)
    BY <2>1
  <2> QED
    BY <2>2
<1>16. PageOK(T, K, 4)
  <2>1. T[3][K[4]].user = FALSE
    BY <1>1, <1>9, <1>15 DEF Link
  <2>2. T[3][K[4]].user = (K \in UserPages)
    <3>1. FALSE = (K \in UserPages)
      BY <1>1
    <3> HIDE DEF K
    <3> QED
      BY <2>1, <3>1, Zenon
  <2>3. Trail(T, K, 1, 2, 3) /\ Link(T, 3, K[4], 4)
    BY <1>15, Zenon DEF Trail, Level4
  <2> HIDE DEF K
  <2> QED
    BY <1>1, <2>2, <2>3, Zenon DEF PageOK
<1>17. ASSUME NEW page \in PageIndexes, NEW f, Maps(T, page, f)
       PROVE  page = K
  <2>1. PICK a, b, c : Trail(T, page, a, b, c) /\ Link(T, c, page[4], f)
    BY <1>17, Zenon DEF Maps
  <2>2. /\ page[1] \in Indexes /\ page[2] \in Indexes /\ page[3] \in Indexes
        /\ page[4] \in Indexes
    BY DEF PageIndexes
  <2>3. \A t, i, u : i \in Indexes /\ Link(T, t, i, u) => t \in 0..3 /\ i = K[t + 1] /\ u = t + 1
    BY <1>4, <1>9, Zenon DEF Link
  <2>4. page[1] = K[0 + 1] /\ a = 1
    BY <2>1, <2>2, <2>3 DEF Trail, Level4
  <2>5. page[2] = K[1 + 1] /\ b = 2
    BY <2>1, <2>2, <2>3, <2>4 DEF Trail
  <2>6. page[3] = K[2 + 1] /\ c = 3
    BY <2>1, <2>2, <2>3, <2>5 DEF Trail
  <2>7. page[4] = K[3 + 1]
    BY <2>1, <2>2, <2>3, <2>6, Zenon
  <2>8. \A k \in 1..4 : page[k] = K[k]
    BY <2>4, <2>5, <2>6, <2>7
  <2> QED
    BY <1>1, <2>8 DEF PageIndexes
<1>18. RootFrames = {} /\ tables = T /\ DOMAIN page_frame = {K} /\ page_frame[K] = 4
  BY <1>2 DEF Init, RootFrames
<1>19. tables = [t \in DOMAIN T \cup RootFrames |-> IF t \in DOMAIN T THEN T[t] ELSE T[Level4]]
  BY <1>4, <1>11, <1>18, Zenon
<1>20. Shape(T, lev)
  BY <1>12, <1>13, <1>14, <1>16, <1>17, <1>18, <1>19, Zenon DEF Shape, Sound
<1> QED
  BY <1>2, <1>3, <1>20, Zenon

\* The invariant holds when kernel_main starts to build the address spaces.
LEMMA BootInit ==
    ASSUME Init
    PROVE  IInv
<1>1. Setting
  BY DEF Init, Setting
<1>2. Progress
  <2>1. DOMAIN page_frame = {KernelPage}
    BY Zenon DEF Init
  <2>2. IsFiniteSet(DOMAIN page_frame) /\ Cardinality(DOMAIN page_frame) = 1
    BY <2>1, FS_Singleton, Zenon
  <2>3. 1 \in 1..Len(HeapPages)
    BY PagesAssumption
  <2>4. {HeapPages[j] : j \in 1..(1 - 1)} = {}
    OBVIOUS
  <2>5. \E i \in 1..Len(HeapPages) :
            /\ DOMAIN page_frame = {KernelPage} \cup {HeapPages[j] : j \in 1..(i - 1)}
            /\ IsFiniteSet(DOMAIN page_frame) /\ Cardinality(DOMAIN page_frame) = i
    BY <2>1, <2>2, <2>3, <2>4, Zenon
  <2> QED
    BY <2>1, <2>5, PagesAreIndexes, Zenon DEF Init, Progress
<1>3. HaltsForLackOfFrames
  BY Zenon DEF Init, HaltsForLackOfFrames
<1> QED
  BY <1>1, <1>2, <1>3, BootloaderShape, Zenon DEF IInv

\* init_heap maps the page after the last one it mapped.
LEMMA HeapStep ==
    ASSUME IInv, InitHeap
    PROVE  IInv'
<1> DEFINE i == Cardinality(DOMAIN page_frame)
           page == HeapPages[i]
           then == IF i = Len(HeapPages) THEN "boot_checks" ELSE pc
<1>1. PICK T, lev : Shape(T, lev)
  BY Zenon DEF IInv
<1>2. Setting /\ Progress /\ HaltsForLackOfFrames /\ pc = "init_heap" /\ roots = << >>
  BY Zenon DEF IInv, InitHeap, Progress
<1>3. /\ i \in 1..Len(HeapPages) /\ IsFiniteSet(DOMAIN page_frame)
      /\ DOMAIN page_frame = {KernelPage} \cup {HeapPages[j] : j \in 1..(i - 1)}
  BY <1>2, Zenon DEF Progress
<1>4. DOMAIN HeapPages = 1..Len(HeapPages) /\ Len(HeapPages) \in Nat
  BY PagesAssumption
<1>5. MapPage(page, FALSE, then)
  BY Zenon DEF InitHeap
<1>6. page \in Pages /\ page \in KernelPages /\ page \notin UserPages
  BY <1>3, <1>4, PagesAreIndexes, Zenon
<1>7. page \notin DOMAIN page_frame
  <2>1. \A j \in 1..(i - 1) : j \in DOMAIN HeapPages /\ j # i
    BY <1>3, <1>4
  <2> QED
    BY <1>3, <1>4, <2>1, PagesAssumption, Zenon
<1>8. FALSE = (page \in UserPages)
  BY <1>6
<1> HIDE DEF page, then
<1>9. Left(page, then)
  BY <1>1, <1>2, <1>5, <1>6, <1>7, <1>8, MapPageKeeps, Zenon
<1>10. memory_map' = memory_map /\ opens_parents' = opens_parents /\ roots' = roots
  BY <1>5, Zenon DEF MapPage, fixed
<1>11. Setting'
  BY <1>2, <1>9, <1>10, Zenon DEF Setting, Left
<1>12. Progress'
  <2>1. CASE pc' = "halted" /\ page_frame' = page_frame
    BY <1>2, <2>1, Zenon DEF Progress
  <2>2. CASE pc' = then /\ DOMAIN page_frame' = DOMAIN page_frame \cup {page}
    <3>1. DOMAIN page_frame' \subseteq Pages
      BY <1>2, <1>6, <2>2, Zenon DEF Progress
    <3>2. DOMAIN page_frame' \subseteq KernelPages
      <4>1. \A j \in 1..(i - 1) : HeapPages[j] \in KernelPages
        BY <1>3, <1>4, PagesAreIndexes
      <4> QED
        BY <1>3, <1>6, <2>2, <4>1, Zenon DEF KernelPages
    <3>3. CASE i = Len(HeapPages)
      BY <1>2, <1>10, <2>2, <3>1, <3>2, <3>3, Zenon DEF then, Progress
    <3>4. CASE i # Len(HeapPages)
      <4>1. i + 1 \in 1..Len(HeapPages) /\ (i + 1) - 1 = i
        BY <1>3, <1>4, <3>4
      <4>2. {HeapPages[j] : j \in 1..i} = {HeapPages[j] : j \in 1..(i - 1)} \cup {page}
        <5>1. 1..i = 1..(i - 1) \cup {i}
          BY <1>3
        <5> QED
          BY <5>1, Zenon DEF page
      <4>3. DOMAIN page_frame' = {KernelPage} \cup {HeapPages[j] : j \in 1..((i + 1) - 1)}
        BY <1>3, <2>2, <4>1, <4>2, Zenon
      <4>4. IsFiniteSet(DOMAIN page_frame') /\ Cardinality(DOMAIN page_frame') = i + 1
        BY <1>3, <1>7, <2>2, FS_AddElement
      <4>5. pc' = "init_heap"
        BY <1>2, <2>2, <3>4, Zenon DEF then
      <4>6. \E k \in 1..Len(HeapPages) :
              /\ DOMAIN page_frame' = {KernelPage} \cup {HeapPages[j] : j \in 1..(k - 1)}
              /\ IsFiniteSet(DOMAIN page_frame') /\ Cardinality(DOMAIN page_frame') = k
        BY <4>1, <4>3, <4>4, Zenon
      <4> QED
        BY <1>2, <1>10, <3>1, <4>5, <4>6, Zenon DEF Progress
    <3> QED
      BY <3>3, <3>4, Zenon
  <2> QED
    BY <1>9, <2>1, <2>2, Zenon DEF Left
<1> QED
  BY <1>9, <1>11, <1>12, Zenon DEF IInv, Left

\* The three pages of the user programs.
LEMMA UserPageStep ==
    ASSUME IInv, roots = << >>, NEW page \in UserPages, page \notin DOMAIN page_frame,
           NEW then, MapPage(page, TRUE, then)
    PROVE  /\ Left(page, then) /\ Setting' /\ DOMAIN page_frame' \subseteq Pages
           /\ roots' = roots
<1>1. PICK T, lev : Shape(T, lev)
  BY Zenon DEF IInv
<1>2. Setting /\ Progress /\ HaltsForLackOfFrames
  BY Zenon DEF IInv
<1>3. page \in Pages /\ TRUE = (page \in UserPages)
  BY PagesAreIndexes, Zenon
<1>4. Left(page, then)
  BY <1>1, <1>2, <1>3, MapPageKeeps, Zenon
<1>5. memory_map' = memory_map /\ opens_parents' = opens_parents /\ roots' = roots
  BY Zenon DEF MapPage, fixed
<1>6. Setting'
  BY <1>2, <1>4, <1>5, Zenon DEF Setting, Left
<1>7. DOMAIN page_frame' \subseteq Pages
  BY <1>2, <1>3, <1>4, Zenon DEF Progress, Left
<1> QED
  BY <1>4, <1>5, <1>6, <1>7, Zenon

\* The invariant is kept by the three calls of map_user_page.
LEMMA CodeStep ==
    ASSUME IInv, MapCode \/ MapStack \/ MapCode2
    PROVE  IInv'
<1>1. \A page \in KernelPages : page \notin UserPages
  BY PagesAreIndexes, Zenon
<1>2. CodePage \in UserPages /\ StackPage \in UserPages /\ Code2Page \in UserPages
  BY Zenon DEF UserPages
<1>3. CASE MapCode
  <2>1. roots = << >> /\ CodePage \notin DOMAIN page_frame /\ DOMAIN page_frame \subseteq KernelPages
    BY <1>1, <1>2, <1>3, Zenon DEF MapCode, IInv, Progress
  <2>2. /\ Left(CodePage, "map_stack") /\ Setting' /\ DOMAIN page_frame' \subseteq Pages
        /\ roots' = roots
    BY <1>2, <1>3, <2>1, UserPageStep, Zenon DEF MapCode
  <2> QED
    BY <2>1, <2>2, Zenon DEF IInv, Left, Progress
<1>4. CASE MapStack
  <2>1. /\ roots = << >> /\ StackPage \notin DOMAIN page_frame
        /\ DOMAIN page_frame \subseteq KernelPages \cup {CodePage}
    BY <1>1, <1>2, <1>4, PagesAssumption, Zenon DEF MapStack, IInv, Progress
  <2>2. /\ Left(StackPage, "map_code2") /\ Setting' /\ DOMAIN page_frame' \subseteq Pages
        /\ roots' = roots
    BY <1>2, <1>4, <2>1, UserPageStep, Zenon DEF MapStack
  <2> QED
    BY <2>1, <2>2, Zenon DEF IInv, Left, Progress
<1>5. CASE MapCode2
  <2>1. roots = << >> /\ Code2Page \notin DOMAIN page_frame
    BY <1>1, <1>2, <1>5, PagesAssumption, Zenon DEF MapCode2, IInv, Progress
  <2>2. /\ Left(Code2Page, "init_tasks") /\ Setting' /\ DOMAIN page_frame' \subseteq Pages
        /\ roots' = roots
    BY <1>2, <1>5, <2>1, UserPageStep, Zenon DEF MapCode2
  <2> QED
    BY <2>1, <2>2, Zenon DEF IInv, Left, Progress
<1> QED
  BY <1>3, <1>4, <1>5, Zenon

\* Process::new: a level 4 table that repeats the kernel's.
LEMMA TaskStep ==
    ASSUME IInv, InitTask
    PROVE  IInv'
<1> DEFINE f == Frame(next)
<1>1. PICK T, lev : Shape(T, lev)
  BY Zenon DEF IInv
<1>2. /\ Setting /\ Progress /\ HaltsForLackOfFrames
      /\ memory_map \in MemoryMaps /\ next \in Nat /\ roots \in Seq(Nat)
  BY Zenon DEF IInv, Setting
<1>3. /\ pc = "init_tasks" /\ next' = next + 1 /\ memory_map' = memory_map
      /\ opens_parents' = opens_parents /\ page_frame' = page_frame
  BY Zenon DEF InitTask, AfterAllocate, fixed
<1>4. next' \in Nat /\ next' >= next /\ Given(next) \subseteq Given(next')
  BY <1>2, <1>3, GivenGrows
<1>5. Within(T, next)'
  <2>1. Within(T, next')
    BY <1>1, <1>4, Zenon DEF Shape, Within
  <2> QED
    BY <1>3, <2>1, WithinNext, Zenon
<1>6. CASE f = NoFrame
  <2>1. /\ pc' = "halted" /\ why' = "frames" /\ tables' = tables /\ roots' = roots
    BY <1>6, Zenon DEF InitTask, Halt
  <2>2. next' > Cardinality(usable_frames)
    BY <1>2, <1>3, <1>6, Exhausted, UsableFrames, FS_CardinalityType
  <2>3. HaltsForLackOfFrames'
    BY <1>2, <1>3, <1>4, <2>2, StillLacking, Zenon
  <2>4. Setting' /\ Progress'
    BY <1>2, <1>3, <1>4, <2>1, Zenon DEF Setting, Progress
  <2>5. Shape(T, lev)'
    <3>1. RootFrames' = RootFrames
      BY <2>1, Zenon DEF RootFrames
    <3>2. \A r \in RootFrames : r \in Nat /\ r \in Given(next)' /\ ~InUse(T, r)
      BY <1>1, <1>3, <1>4, GivenNext, Zenon DEF Shape
    <3> QED
      BY <1>1, <1>3, <1>5, <2>1, <3>1, <3>2, Zenon DEF Shape
  <2> QED
    BY <2>3, <2>4, <2>5, Zenon DEF IInv
<1>7. CASE f # NoFrame
  <2>1. f \in Nat /\ f \notin Given(next) /\ f \in Given(next')
    BY <1>2, <1>3, <1>7, FreshFrame, Zenon
  <2>2. /\ tables' = Put(tables, f, tables[Level4]) /\ roots' = Append(roots, f)
        /\ pc' \in {"kernel_mode_test", "init_tasks"} /\ why' = why
    BY <1>3, <1>7, Zenon DEF InitTask, Halt, CopyLevel4
  <2> HIDE DEF f
  <2>3. HaltsForLackOfFrames'
    BY <1>2, <1>3, <1>4, <2>2, StillLacking, Zenon
  <2>4. roots' \in Seq(Nat)
    BY <1>2, <2>1, <2>2
  <2>5. Setting' /\ Progress'
    BY <1>2, <1>3, <1>4, <2>2, <2>4, Zenon DEF Setting, Progress
  <2>6. RootFrames' = RootFrames \cup {f}
    <3>1. /\ DOMAIN roots = 1..Len(roots) /\ Len(roots) \in Nat
          /\ DOMAIN roots' = 1..(Len(roots) + 1)
          /\ \A i \in 1..Len(roots) : roots'[i] = roots[i]
          /\ roots'[Len(roots) + 1] = f
      BY <1>2, <2>1, <2>2
    <3>2. 1..(Len(roots) + 1) = 1..Len(roots) \cup {Len(roots) + 1}
      BY <3>1
    <3> QED
      BY <3>1, <3>2 DEF RootFrames
  <2>7. \A r \in RootFrames' : r \in Nat /\ r \in Given(next)' /\ ~InUse(T, r)
    <3>1. ~InUse(T, f)
      BY <1>1, <2>1, Zenon DEF Shape, Within
    <3> QED
      BY <1>1, <1>3, <1>4, <2>1, <2>6, <3>1, GivenNext, Zenon DEF Shape
  <2>8. tables' = [t \in DOMAIN T \cup RootFrames' |-> IF t \in DOMAIN T THEN T[t] ELSE T[Level4]]
    <3>1. Level4 \in DOMAIN T /\ f \notin DOMAIN T
      BY <1>1, <2>1, Zenon DEF Shape, Sound, Tables, Within, InUse
    <3>2. /\ DOMAIN tables = DOMAIN T \cup RootFrames
          /\ \A t \in DOMAIN tables : tables[t] = IF t \in DOMAIN T THEN T[t] ELSE T[Level4]
      BY <1>1, Zenon DEF Shape
    <3>3. tables[Level4] = T[Level4]
      BY <3>1, <3>2, Zenon
    <3> QED
      BY <2>2, <2>6, <3>1, <3>2, <3>3, Zenon DEF Put
  <2>9. Shape(T, lev)'
    BY <1>1, <1>3, <1>5, <2>7, <2>8, Zenon DEF Shape
  <2> QED
    BY <2>3, <2>5, <2>9, Zenon DEF IInv
<1> QED
  BY <1>6, <1>7, Zenon

\* The steps that touch no table.
LEMMA StillShape ==
    ASSUME IInv, memory_map' = memory_map, opens_parents' = opens_parents, next' = next,
           tables' = tables, page_frame' = page_frame, roots' = roots
    PROVE  Setting' /\ \E T, lev : Shape(T, lev)'
<1>1. PICK T, lev : Shape(T, lev)
  BY Zenon DEF IInv
<1>2. Within(T, next)'
  BY <1>1, WithinNext, Zenon DEF Shape
<1>3. RootFrames' = RootFrames
  BY Zenon DEF RootFrames
<1>4. \A r \in RootFrames : r \in Nat /\ r \in Given(next)' /\ ~InUse(T, r)
  BY <1>1, GivenNext, Zenon DEF Shape
<1>5. Shape(T, lev)'
  BY <1>1, <1>2, <1>3, <1>4, Zenon DEF Shape
<1> QED
  BY <1>5, Zenon DEF IInv, Setting

\* The invariant is kept by every step of kernel_main.
LEMMA BootStep ==
    ASSUME IInv, [Next]_vars
    PROVE  IInv'
<1>1. CASE BootChecks
  <2>1. /\ memory_map' = memory_map /\ opens_parents' = opens_parents /\ next' = next
        /\ tables' = tables /\ page_frame' = page_frame /\ roots' = roots
        /\ pc = "boot_checks"
        /\ \/ pc' = "map_code" /\ why' = why
           \/ pc' = "halted" /\ why' = "checks"
    BY <1>1, Zenon DEF BootChecks, Halt, fixed
  <2>2. Setting' /\ \E T, lev : Shape(T, lev)'
    BY <2>1, StillShape, Zenon
  <2>3. HaltsForLackOfFrames'
    BY <2>1, StillLacking DEF IInv, Setting
  <2>4. Progress'
    BY <2>1, Zenon DEF IInv, Progress
  <2> QED
    BY <2>2, <2>3, <2>4, Zenon DEF IInv
<1>2. CASE UNCHANGED vars
  <2>1. /\ memory_map' = memory_map /\ opens_parents' = opens_parents /\ next' = next
        /\ tables' = tables /\ page_frame' = page_frame /\ roots' = roots
        /\ pc' = pc /\ why' = why
    BY <1>2, Zenon DEF vars
  <2>2. Setting' /\ \E T, lev : Shape(T, lev)'
    BY <2>1, StillShape, Zenon
  <2>3. HaltsForLackOfFrames'
    BY <2>1, StillLacking DEF IInv, Setting
  <2>4. Progress'
    BY <2>1, Zenon DEF IInv, Progress
  <2> QED
    BY <2>2, <2>3, <2>4, Zenon DEF IInv
<1> QED
  BY <1>1, <1>2, HeapStep, CodeStep, TaskStep, Zenon DEF Next, KernelModeTest, Halted

\* The set-up of kernel_main keeps the tables a tree of frames handed out, with
\* the pages it mapped and no other.
THEOREM Invariance == Spec => []IInv
<1>1. Init => IInv
  BY BootInit, Zenon
<1>2. IInv /\ [Next]_vars => IInv'
  BY BootStep, Zenon
<1> QED
  BY <1>1, <1>2, PTL DEF Spec
-----------------------------------------------------------------------------
(* What follows from it *)

\* The table of T that a table of the state repeats.
Rep(T, t) == IF t \in DOMAIN T THEN t ELSE Level4

\* Every table is one of the tree or a process's copy of its level 4 table.
LEMMA Repeats ==
    ASSUME NEW T, NEW lev, Shape(T, lev)
    PROVE  /\ \A t \in DOMAIN tables : Rep(T, t) \in DOMAIN T /\ tables[t] = T[Rep(T, t)]
           /\ \A t \in DOMAIN tables : Rep(T, t) = Level4 => t \in AllRoots
           /\ \A t \in DOMAIN tables : Rep(T, t) # Level4 => t = Rep(T, t)
           /\ \A r \in AllRoots : r \in Nat /\ r \in DOMAIN tables /\ Rep(T, r) = Level4
           /\ DOMAIN T \subseteq DOMAIN tables
<1>1. Level4 \in DOMAIN T /\ Level4 \in Nat
  BY Zenon DEF Shape, Sound, Tables, Level4
<1>2. /\ DOMAIN tables = DOMAIN T \cup RootFrames
      /\ \A t \in DOMAIN tables : tables[t] = IF t \in DOMAIN T THEN T[t] ELSE T[Level4]
  BY Zenon DEF Shape
<1>3. AllRoots = {Level4} \cup RootFrames
  BY Zenon DEF AllRoots, RootFrames
<1>4. \A r \in RootFrames : r \in Nat /\ r \notin DOMAIN T
  BY Zenon DEF Shape, InUse
<1> QED
  BY <1>1, <1>2, <1>3, <1>4, Zenon DEF Rep

\* In a tree with fresh copies of the root, a frame has one use.
LEMMA UsedOnce ==
    ASSUME IInv
    PROVE  FramesUsedOnce
<1>1. PICK T, lev : Shape(T, lev)
  BY Zenon DEF IInv
<1>2. Sound(T, lev) /\ Tables(T) /\ Tree(T, lev)
  BY <1>1, Zenon DEF Shape, Sound
<1>3. SUFFICES ASSUME NEW t \in DOMAIN tables, NEW i \in Indexes, tables[t][i] # Unused
               PROVE  /\ tables[t][i].frame \notin AllRoots
                      /\ \A u \in DOMAIN tables : \A j \in Indexes :
                          (tables[u][j].frame = tables[t][i].frame /\ <<t, i>> # <<u, j>>)
                              => t \in AllRoots /\ u \in AllRoots /\ i = j
  BY Zenon DEF FramesUsedOnce
<1>4. PICK v : v = Rep(T, t) /\ v \in DOMAIN T /\ tables[t] = T[v]
  BY <1>1, Repeats, Zenon
<1>5. T[v][i] # Unused /\ T[v][i].frame \in Nat
  BY <1>2, <1>3, <1>4, Entries, Zenon
<1>6. T[v][i].frame # Level4
  <2>1. CASE lev[v] = 1
    BY <1>2, <1>4, <1>5, <2>1 DEF Tables, Tree
  <2>2. CASE lev[v] # 1
    <3>1. lev[T[v][i].frame] = lev[v] - 1 /\ lev[v] \in 1..4 /\ lev[Level4] = 4
      BY <1>2, <1>4, <1>5, <2>2, Zenon DEF Tree
    <3>2. lev[v] - 1 # 4
      BY <3>1
    <3> QED
      BY <3>1, <3>2, Zenon
  <2> QED
    BY <2>1, <2>2, Zenon
<1>7. T[v][i].frame \notin RootFrames
  <2>1. InUse(T, T[v][i].frame)
    BY <1>4, Zenon DEF InUse
  <2> QED
    BY <1>1, <2>1, Zenon DEF Shape
<1>8. tables[t][i].frame \notin AllRoots
  BY <1>4, <1>6, <1>7, Zenon DEF AllRoots, RootFrames
<1>9. ASSUME NEW u \in DOMAIN tables, NEW j \in Indexes,
             tables[u][j].frame = tables[t][i].frame, <<t, i>> # <<u, j>>
      PROVE  t \in AllRoots /\ u \in AllRoots /\ i = j
  <2>1. PICK w : w = Rep(T, u) /\ w \in DOMAIN T /\ tables[u] = T[w]
    BY <1>1, Repeats, Zenon
  <2>2. v = w /\ i = j
    BY <1>2, <1>4, <1>5, <1>9, <2>1 DEF Tree
  <2>3. v = Level4
    BY <1>1, <1>4, <1>9, <2>1, <2>2, Repeats, Zenon
  <2> QED
    BY <1>1, <1>4, <2>1, <2>2, <2>3, Repeats, Zenon
<1> QED
  BY <1>8, <1>9, Zenon

\* Entries lead to frames handed out, which come from usable regions.
LEMMA WellTyped ==
    ASSUME IInv
    PROVE  BootTypeOK
<1>1. PICK T, lev : Shape(T, lev)
  BY Zenon DEF IInv
<1>2. ASSUME NEW t \in DOMAIN tables, NEW i \in Indexes, tables[t][i] # Unused
      PROVE  \/ tables[t][i].frame \in KernelFrames
             \/ \E r \in DOMAIN memory_map :
                  /\ memory_map[r].usable
                  /\ tables[t][i].frame \in memory_map[r].first .. memory_map[r].last
  <2>1. PICK v : v \in DOMAIN T /\ tables[t] = T[v]
    BY <1>1, Repeats, Zenon
  <2>2. T[v][i].frame \in Nat
    BY <1>1, <1>2, <2>1, Entries, Zenon DEF Shape, Sound
  <2>3. InUse(T, T[v][i].frame)
    BY <2>1, Zenon DEF InUse
  <2>4. tables[t][i].frame \in KernelFrames \cup usable_frames
    BY <1>1, <2>1, <2>2, <2>3, Zenon DEF Shape, Within, Given
  <2> QED
    BY <2>4, Zenon DEF usable_frames
<1> QED
  BY <1>2, Zenon DEF IInv, Setting, Progress, BootTypeOK

\* One level of the walk, where there is an entry.
Leads(x, b, i, y, v) ==
    x # NoFrame /\ tables[x][i] # Unused /\ tables[x][i].frame = y /\ v = (b /\ tables[x][i].user)

Via(x, b) == [frame |-> x, user |-> b]

\* A level of translate_addr_inner, along an entry that is used.
LEMMA FollowEntry ==
    ASSUME NEW x, NEW b, NEW i, NEW y, NEW v, Leads(x, b, i, y, v)
    PROVE  Follow(Via(x, b), i) = Via(y, v)
  BY Zenon DEF Follow, Leads, Via

\* The four levels.
LEMMA WalkEnds ==
    ASSUME IInv, NEW root \in AllRoots, NEW page \in DOMAIN page_frame
    PROVE  /\ Walk(root, page).frame = page_frame[page]
           /\ Walk(root, page).user <=> page \in UserPages
<1>1. PICK T, lev : Shape(T, lev)
  BY Zenon DEF IInv
<1>2. PICK a, b, c :
        /\ Trail(T, page, a, b, c) /\ Link(T, c, page[4], page_frame[page])
        /\ T[c][page[4]].user = (page \in UserPages)
        /\ page \in UserPages =>
             T[Level4][page[1]].user /\ T[a][page[2]].user /\ T[b][page[3]].user
  BY <1>1, Zenon DEF Shape, PageOK
<1>3. /\ root # NoFrame /\ tables[root] = T[Level4]
      /\ \A t \in DOMAIN T : tables[t] = T[t]
  <2>1. \A t \in DOMAIN T : t \in DOMAIN tables /\ Rep(T, t) = t
    BY <1>1, Repeats, Zenon DEF Rep
  <2> QED
    BY <1>1, <2>1, Repeats, BootAssumption
<1>4. /\ a \in DOMAIN T /\ b \in DOMAIN T /\ c \in DOMAIN T
      /\ a # NoFrame /\ b # NoFrame /\ c # NoFrame
  <2>1. DOMAIN T \subseteq Nat
    BY <1>1, Zenon DEF Shape, Sound, Tables
  <2> QED
    BY <1>2, <2>1, BootAssumption, Zenon DEF Trail, Link
<1>5. /\ tables[root][page[1]] # Unused /\ tables[root][page[1]].frame = a
      /\ tables[a][page[2]] # Unused /\ tables[a][page[2]].frame = b
      /\ tables[b][page[3]] # Unused /\ tables[b][page[3]].frame = c
      /\ tables[c][page[4]] # Unused /\ tables[c][page[4]].frame = page_frame[page]
  BY <1>2, <1>3, <1>4, Zenon DEF Trail, Link
<1>u0. PICK u0 : u0 = TRUE
  OBVIOUS
<1>u1. PICK u1 : u1 = (u0 /\ tables[root][page[1]].user)
  OBVIOUS
<1>u2. PICK u2 : u2 = (u1 /\ tables[a][page[2]].user)
  OBVIOUS
<1>u3. PICK u3 : u3 = (u2 /\ tables[b][page[3]].user)
  OBVIOUS
<1>u4. PICK u4 : u4 = (u3 /\ tables[c][page[4]].user)
  OBVIOUS
<1>6. Follow(Via(root, u0), page[1]) = Via(a, u1)
  <2>1. Leads(root, u0, page[1], a, u1)
    BY <1>3, <1>5, <1>u1, Zenon DEF Leads
  <2> QED
    BY <2>1, FollowEntry
<1>7. Follow(Via(a, u1), page[2]) = Via(b, u2)
  <2>1. Leads(a, u1, page[2], b, u2)
    BY <1>4, <1>5, <1>u2, Zenon DEF Leads
  <2> QED
    BY <2>1, FollowEntry
<1>8. Follow(Via(b, u2), page[3]) = Via(c, u3)
  <2>1. Leads(b, u2, page[3], c, u3)
    BY <1>4, <1>5, <1>u3, Zenon DEF Leads
  <2> QED
    BY <2>1, FollowEntry
<1>9. Follow(Via(c, u3), page[4]) = Via(page_frame[page], u4)
  <2>1. Leads(c, u3, page[4], page_frame[page], u4)
    BY <1>4, <1>5, <1>u4, Zenon DEF Leads
  <2> QED
    BY <2>1, FollowEntry
<1>10. u4 <=> page \in UserPages
  BY <1>2, <1>3, <1>4, <1>u0, <1>u1, <1>u2, <1>u3, <1>u4, Zenon
<1>11. Walk(root, page) = [frame |-> page_frame[page], user |-> u4]
  BY <1>u0, <1>6, <1>7, <1>8, <1>9, Zenon DEF Walk, Via
<1> QED
  BY <1>10, <1>11

\* The type of the state, for every memory map: no entry leads outside what the
\* bootloader used and the usable regions.
THEOREM TypeCorrect == Spec => []BootTypeOK
  BY Invariance, WellTyped, PTL

\* No frame that allocate_frame hands out serves two purposes.
THEOREM OneUse == Spec => []FramesUsedOnce
  BY Invariance, UsedOnce, PTL

\* Every level 4 table leads every mapped page to the frame kernel_main meant.
THEOREM Complete == Spec => []EveryTableComplete
<1>1. IInv => EveryTableComplete
  BY WalkEnds, Zenon DEF EveryTableComplete
<1> QED
  BY <1>1, Invariance, PTL

\* User mode reaches the user pages and no page of the kernel or the heap,
\* wherever these pages lie and whether or not map_to opens their parents.
THEOREM KernelClosed == Spec => []OnlyUserPagesOpen
<1>1. IInv => OnlyUserPagesOpen
  BY WalkEnds, Zenon DEF OnlyUserPagesOpen
<1> QED
  BY <1>1, Invariance, PTL

\* The expects on memory fail only when every usable frame is used up.
THEOREM OnlyLackHalts == Spec => []HaltsForLackOfFrames
<1>1. IInv => HaltsForLackOfFrames
  BY Zenon DEF IInv
<1> QED
  BY <1>1, Invariance, PTL
=============================================================================
