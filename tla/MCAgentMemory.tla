---------------------------- MODULE MCAgentMemory -----------------------------
(***************************************************************************)
(* AgentMemory for TLC: three ids, pages of two, and two texts, one of    *)
(* them so long that no fetch finds its memory.                            *)
(***************************************************************************)
EXTENDS AgentMemory, TLC

Symmetry == Permutations(Threads) \cup Permutations(Sources)
=============================================================================
