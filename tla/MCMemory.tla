------------------------------ MODULE MCMemory ------------------------------
(* Two block sizes, so that a request can fit none, one or both.            *)
EXTENDS Memory, TLC

MCBlockSizes == <<2, 4>>

MCSymmetry == Permutations(Cpus) \cup Permutations(Callers)
=============================================================================
