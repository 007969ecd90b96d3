------------------------------ MODULE MCLocks ------------------------------
(* Every run of every handler, on one CPU. *)
EXTENDS Locks
=============================================================================
