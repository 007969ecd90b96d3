--------------------------- MODULE MCMemoryHandles --------------------------
(* Small instances of MemoryHandles for TLC. *)
EXTENDS MemoryHandles
=============================================================================
