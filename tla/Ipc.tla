-------------------------------- MODULE Ipc ---------------------------------
(***************************************************************************)
(* What the two registries of src/src/ipc.rs have in common: the processes *)
(* that call them, and the one that is running.                            *)
(***************************************************************************)
EXTENDS Integers

CONSTANT MaxTargetPid   \* largest pid create_channel and transfer_memory accept (10000)

VARIABLE current        \* CPU_DATA.current_process_id

\* Process 0 is the idle task, and whatever runs after an exit.
Pids == 0..MaxTargetPid
=============================================================================
