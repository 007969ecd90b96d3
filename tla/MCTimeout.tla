----------------------------- MODULE MCTimeout ------------------------------
(* Instances of Timeout for TLC. *)
EXTENDS Timeout
=============================================================================
