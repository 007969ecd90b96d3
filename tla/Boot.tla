-------------------------------- MODULE Boot --------------------------------
(***************************************************************************)
(* How kernel_main (src/src/main.rs) builds the address spaces: physical   *)
(* frames from the boot memory map, the heap's pages, the pages of the     *)
(* user programs with their parent tables, and one level 4 table for each  *)
(* process, over the tables the bootloader left.                           *)
(*                                                                         *)
(* A page is the sequence of its table indexes from level 4 down, a table  *)
(* a function from indexes to entries.  An entry keeps its frame and its   *)
(* USER_ACCESSIBLE flag: every entry made here is PRESENT and WRITABLE.    *)
(* Interrupts are off throughout.                                          *)
(***************************************************************************)
EXTENDS Integers, Sequences, FiniteSets

CONSTANTS
    Indexes,        \* of a table (512 in the code)
    MemoryMaps,     \* memory maps: sequences of [usable, first, last] in frames
    KernelPage,     \* a page of the kernel image, mapped by the bootloader
    HeapPages,      \* the pages from HEAP_START on, in order
    CodePage, StackPage, Code2Page,     \* 0x400_000, 0x600_000 and 0x500_000
    NoFrame,        \* what is returned when the frames are used up
    Pids            \* the processes of init_tasks, in order

UserPages == {CodePage, StackPage, Code2Page}
KernelPages == {KernelPage} \cup {HeapPages[i] : i \in DOMAIN HeapPages}
Pages == KernelPages \cup UserPages

\* The bootloader's tables for the kernel page, and that page's frame.
Level4 == 0
KernelFrames == 0..4

\* The addresses are those of different pages, and the heap has some.
ASSUME PagesAssumption ==
    /\ Pages \subseteq [1..4 -> Indexes]
    /\ HeapPages \in Seq(KernelPages) /\ HeapPages # << >>
    /\ \A i, j \in DOMAIN HeapPages : i # j => HeapPages[i] # HeapPages[j]
    /\ \A i \in DOMAIN HeapPages : HeapPages[i] # KernelPage
    /\ KernelPages \cap UserPages = {}
    /\ CodePage # StackPage /\ CodePage # Code2Page /\ StackPage # Code2Page

\* The map keeps the frames in use out of its usable regions, which is what the
\* comment on BootInfoFrameAllocator::init asks for.  The bootloader sorts it, and
\* no frame is in two regions.
ASSUME BootAssumption ==
    /\ NoFrame \notin Nat
    /\ MemoryMaps \subseteq Seq([usable : BOOLEAN, first : Nat, last : Nat])
    /\ \A map \in MemoryMaps : \A i \in DOMAIN map :
        /\ map[i].usable => map[i].first > 4
        /\ \A j \in DOMAIN map : i < j => map[i].last < map[j].first

\* f with the value v at x.
Put(f, x, v) == [y \in DOMAIN f \cup {x} |-> IF y = x THEN v ELSE f[y]]

Entry(frame, user) == [frame |-> frame, user |-> user]
Unused == Entry(NoFrame, FALSE)
EmptyTable == [i \in Indexes |-> Unused]

VARIABLES
    memory_map,     \* boot_info.memory_map
    opens_parents,  \* whether map_to passes USER_ACCESSIBLE to existing parents
    next,           \* BootInfoFrameAllocator::next
    tables,         \* the page tables: frame -> table
    page_frame,     \* frame kernel_main meant for each page it mapped
    roots,          \* level 4 tables of the processes: pid -> frame
    pc,             \* step of kernel_main
    why             \* what stopped it

vars == <<memory_map, opens_parents, next, tables, page_frame, roots, pc, why>>
fixed == <<memory_map, opens_parents>>

-----------------------------------------------------------------------------
(* BootInfoFrameAllocator *)

\* Variant: the end of a region is taken to belong to it.
UsableFramesInclusive ==
    UNION {memory_map[i].first .. memory_map[i].last + 1 :
             i \in {j \in DOMAIN memory_map : memory_map[j].usable}}

\* What the iterator yields.  It goes through the regions in their order, which is
\* that of the addresses.
usable_frames ==
    UNION {memory_map[i].first .. memory_map[i].last :
             i \in {j \in DOMAIN memory_map : memory_map[j].usable}}

\* nth(n): the usable frame with n usable frames before it.
IsNth(frame, n) ==
    frame \in usable_frames /\ Cardinality({f \in usable_frames : f < frame}) = n

\* The frame allocate_frame returns when it has been called n times before.
Frame(n) ==
    IF \E frame \in usable_frames : IsNth(frame, n)
    THEN CHOOSE frame \in usable_frames : IsNth(frame, n) ELSE NoFrame

\* Variant: the counter is not advanced.
AfterAllocateStays(n) == n

AfterAllocate(n) == n + 1

-----------------------------------------------------------------------------
(* Mapper::map_to of the x86_64 crate, over [ok, next, tables, at]: `at` is  *)
(* the table reached so far.                                                *)

\* The entry leads to a table: it is followed, and opened where the crate does so.
Enter(st, index, user) ==
    LET entry == st.tables[st.at][index]
    IN  [ok |-> TRUE, next |-> st.next, at |-> entry.frame,
         tables |-> [st.tables EXCEPT ![st.at][index] =
                        Entry(entry.frame, entry.user \/ (user /\ opens_parents))]]

\* The entry is unused: a new table is allocated for it.
Create(st, index, user) ==
    LET frame == Frame(st.next)
    IN  [ok |-> TRUE, next |-> AfterAllocate(st.next), at |-> frame,
         tables |-> Put([st.tables EXCEPT ![st.at][index] = Entry(frame, user)],
                        frame, EmptyTable)]

Descend(st, index, user) ==
    IF ~st.ok THEN st
    ELSE IF st.tables[st.at][index] # Unused THEN Enter(st, index, user)
    ELSE IF Frame(st.next) # NoFrame THEN Create(st, index, user)
    ELSE [ok |-> FALSE, next |-> AfterAllocate(st.next), at |-> st.at, tables |-> st.tables]

MapTo(page, frame, user, n) ==
    LET start == [ok |-> TRUE, next |-> n, at |-> Level4, tables |-> tables]
        level3 == Descend(start, page[1], user)
        level2 == Descend(level3, page[2], user)
        down == Descend(level2, page[3], user)
    IN  IF ~down.ok \/ down.tables[down.at][page[4]] # Unused
        THEN [ok |-> FALSE, next |-> down.next, tables |-> down.tables]
        ELSE [ok |-> TRUE, next |-> down.next,
              tables |-> [down.tables EXCEPT ![down.at][page[4]] = Entry(frame, user)]]

\* The body of the loop of set_user_bit_for_parents, over [tables, at].
OpenEntry(st, index) ==
    LET entry == st.tables[st.at][index]
    IN  [tables |-> [st.tables EXCEPT ![st.at][index] = Entry(entry.frame, TRUE)],
         at |-> entry.frame]

\* Variant: only level 4 is opened.
SetUserBitForTopParent(page, tbls) ==
    OpenEntry([tables |-> tbls, at |-> Level4], page[1]).tables

\* set_user_bit_for_parents, for the levels 4, 3 and 2
SetUserBitForParents(page, tbls) ==
    LET level4 == OpenEntry([tables |-> tbls, at |-> Level4], page[1])
        level3 == OpenEntry(level4, page[2])
    IN  OpenEntry(level3, page[3]).tables

-----------------------------------------------------------------------------
BootloaderTables ==
    LET Chain(level) == [EmptyTable EXCEPT ![KernelPage[level]] = Entry(level, FALSE)]
    IN  [f \in 0..3 |-> Chain(f + 1)]

Init ==
    /\ memory_map \in MemoryMaps
    /\ opens_parents \in BOOLEAN
    /\ next = 0
    /\ tables = BootloaderTables
    /\ page_frame = [page \in {KernelPage} |-> 4]
    /\ roots = << >>
    /\ pc = "init_heap"
    /\ why = "running"

\* An expect that fails, or a check: the message, and hlt_loop.
Halt(reason) == pc' = "halted" /\ why' = reason

\* A frame, and a page mapped to it; kernel_main goes on at `then`.  (The quantifier
\* over one value has TLC compute it once.)
MapPage(page, user, then) ==
    LET frame == Frame(next)
    IN  \E mapped \in {MapTo(page, frame, user, AfterAllocate(next))} :
        /\ \/ /\ frame = NoFrame
              /\ Halt("frames")
              /\ next' = AfterAllocate(next)
              /\ UNCHANGED <<tables, page_frame>>
           \/ /\ frame # NoFrame /\ ~mapped.ok
              /\ Halt("map_to")
              /\ next' = mapped.next
              /\ tables' = mapped.tables
              /\ UNCHANGED page_frame
           \/ /\ frame # NoFrame /\ mapped.ok
              /\ pc' = then
              /\ next' = mapped.next
              /\ tables' = IF user THEN SetUserBitForParents(page, mapped.tables)
                                   ELSE mapped.tables
              /\ page_frame' = Put(page_frame, page, frame)
              /\ UNCHANGED why
        /\ UNCHANGED <<fixed, roots>>

\* init_heap, one page of its loop.
InitHeap ==
    /\ pc = "init_heap"
    /\ LET i == Cardinality(DOMAIN page_frame)
       IN  MapPage(HeapPages[i], FALSE, IF i = Len(HeapPages) THEN "boot_checks" ELSE pc)

\* scalable::init takes a second allocator over the same map and leaves it
\* untouched; then the boot checks, which may fail.
BootChecks ==
    /\ pc = "boot_checks"
    /\ \/ pc' = "map_code" /\ UNCHANGED why
       \/ Halt("checks")
    /\ UNCHANGED <<fixed, next, tables, page_frame, roots>>

MapCode == pc = "map_code" /\ MapPage(CodePage, TRUE, "map_stack")

MapStack == pc = "map_stack" /\ MapPage(StackPage, TRUE, "map_code2")

\* Variant: the first program's address is used again.
MapCode2Again == pc = "map_code2" /\ MapPage(CodePage, TRUE, "init_tasks")

MapCode2 == pc = "map_code2" /\ MapPage(Code2Page, TRUE, "init_tasks")

\* Variant: only the entry of the user's pages is copied.
CopyUserHalf(table) == [EmptyTable EXCEPT ![CodePage[1]] = table[CodePage[1]]]

\* create_process_page_table_with_user_mappings: every entry of level 4.
CopyLevel4(table) == table

\* init_tasks, one Process::new of the two.
InitTask ==
    /\ pc = "init_tasks"
    /\ LET pid == Pids[Len(roots) + 1]
           frame == Frame(next)
       IN  /\ next' = AfterAllocate(next)
           /\ \/ frame = NoFrame /\ Halt("frames") /\ UNCHANGED <<tables, roots>>
              \/ /\ frame # NoFrame
                 /\ tables' = Put(tables, frame, CopyLevel4(tables[Level4]))
                 /\ roots' = Append(roots, frame)
                 /\ pc' = IF pid = Pids[Len(Pids)] THEN "kernel_mode_test" ELSE pc
                 /\ UNCHANGED why
    /\ UNCHANGED <<fixed, page_frame>>

\* func_ptr(): the program at the code frame is `jmp $`, and interrupts are off.
KernelModeTest == pc = "kernel_mode_test" /\ UNCHANGED vars

Halted == pc = "halted" /\ UNCHANGED vars

Next ==
    \/ InitHeap \/ BootChecks \/ MapCode \/ MapStack \/ MapCode2 \/ InitTask
    \/ KernelModeTest \/ Halted

\* One CPU, nothing to wait for.
Spec == Init /\ [][Next]_vars /\ WF_vars(Next)

-----------------------------------------------------------------------------
\* One level of the walk, over [frame, user].
Follow(st, index) ==
    IF st.frame = NoFrame \/ tables[st.frame][index] = Unused
    THEN [st EXCEPT !.frame = NoFrame]
    ELSE [frame |-> tables[st.frame][index].frame,
          user |-> st.user /\ tables[st.frame][index].user]

\* The frame a page leads to from a level 4 table, and whether every level on the
\* way lets user mode pass.
Walk(root, page) ==
    LET level3 == Follow([frame |-> root, user |-> TRUE], page[1])
        level2 == Follow(level3, page[2])
        level1 == Follow(level2, page[3])
    IN  Follow(level1, page[4])

AllRoots == {Level4} \cup {roots[i] : i \in DOMAIN roots}

\* The type of the state: an entry leads to a frame the bootloader used or to one
\* of a usable region.
BootTypeOK ==
    /\ next \in Nat
    /\ pc \in {"init_heap", "boot_checks", "map_code", "map_stack", "map_code2",
               "init_tasks", "kernel_mode_test", "halted"}
    /\ \A t \in DOMAIN tables : \A i \in Indexes :
        tables[t][i] # Unused =>
            \/ tables[t][i].frame \in KernelFrames
            \/ \E r \in DOMAIN memory_map :
                 /\ memory_map[r].usable
                 /\ tables[t][i].frame \in memory_map[r].first .. memory_map[r].last
    /\ DOMAIN page_frame \subseteq Pages

\* A frame serves one purpose: it is one page or one table.  Two entries lead to
\* the same frame only where a process's level 4 table repeats the kernel's.
\* This is what allocate_frame's counter and the memory map are for.
FramesUsedOnce ==
    \A t \in DOMAIN tables : \A i \in Indexes :
        tables[t][i] # Unused =>
            /\ tables[t][i].frame \notin AllRoots
            /\ \A u \in DOMAIN tables : \A j \in Indexes :
                (tables[u][j].frame = tables[t][i].frame /\ <<t, i>> # <<u, j>>)
                    => t \in AllRoots /\ u \in AllRoots /\ i = j

\* Each process reaches every page mapped so far, kernel pages included, at the
\* frame kernel_main meant for it: a switch of CR3 to a process's table does not
\* pull the kernel from under the handler.
EveryTableComplete ==
    \A root \in AllRoots : \A page \in DOMAIN page_frame :
        Walk(root, page).frame = page_frame[page]

\* User mode gets through all four levels to the mapped user pages and to no
\* other: opening the parents of user pages opens no page of the kernel or the
\* heap, though they share tables.
OnlyUserPagesOpen ==
    \A root \in AllRoots : \A page \in DOMAIN page_frame :
        Walk(root, page).user <=> page \in UserPages

\* Memory set-up fails only when the machine's frames are used up.
HaltsForLackOfFrames ==
    why \in {"frames", "map_to"} => next > Cardinality(usable_frames)

\* The trial call of the user program in kernel mode comes back, as the message
\* after it and the jump to user mode expect.
KernelModeTestReturns == pc = "kernel_mode_test" ~> pc # "kernel_mode_test"
=============================================================================
