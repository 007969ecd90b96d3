------------------------------- MODULE MCBoot -------------------------------
(* Memory maps of up to 19 frames: one usable region, or two around a hole.  *)
(* Twelve usable frames are just enough.  Code and second program share a    *)
(* level 1 table, the stack has its own, the heap its own level 4 entry.     *)
EXTENDS Boot

Region(usable, first, last) == [usable |-> usable, first |-> first, last |-> last]

MCMemoryMaps ==
    {<<Region(FALSE, 0, 4), Region(TRUE, 5, last)>> : last \in 5..17}
    \cup {<<Region(FALSE, 0, 4), Region(TRUE, 5, hole - 1),
            Region(FALSE, hole, hole), Region(TRUE, hole + 1, last)>> :
              hole \in 6..12, last \in 13..18}

\* One map with room for all of it.
MCAmpleMap == {<<Region(FALSE, 0, 4), Region(TRUE, 5, 17)>>}

MCKernelPage == <<0, 0, 1, 0>>
MCHeapPages == <<<<1, 0, 0, 0>>, <<1, 0, 0, 1>>>>
MCCodePage == <<0, 0, 2, 0>>
MCCode2Page == <<0, 0, 2, 1>>
MCStackPage == <<0, 0, 3, 0>>
MCPids == <<1, 2>>
=============================================================================
