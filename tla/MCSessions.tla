------------------------------ MODULE MCSessions ------------------------------
(***************************************************************************)
(* Sessions for TLC.                                                       *)
(***************************************************************************)
EXTENDS Sessions, TLC

Symmetry ==
  Permutations(Threads) \cup Permutations(Ids) \cup Permutations(Docs) \cup Permutations(Collections)
=============================================================================
