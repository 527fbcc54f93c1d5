------------------------------ MODULE MCRegistry ------------------------------
(***************************************************************************)
(* Registry for TLC.  A thread that opens holds the only handle that is    *)
(* not held elsewhere, so as many handles as threads never run out.        *)
(***************************************************************************)
EXTENDS Registry, TLC

Symmetry == Permutations(Threads) \cup Permutations(Handles)
=============================================================================
