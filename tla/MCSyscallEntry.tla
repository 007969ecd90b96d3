--------------------------- MODULE MCSyscallEntry ---------------------------
(* 64 slots, the kernel's part from 40 on; every place of the stack's top. *)
EXTENDS SyscallEntry
=============================================================================
