----------------------------- MODULE MCInterleave -----------------------------
(***************************************************************************)
(* Interleave for TLC: two documents and a digest that may cover both.     *)
(***************************************************************************)
EXTENDS Interleave, TLC

CONSTANTS d1, d2, d3

MCDocs == {d1, d2, d3}

MCTexts == {[len |-> 3, members |-> {}], [len |-> 0, members |-> {d1, d2}]}

\* Ordinary knobs, and knobs that are out of range.
MCKnobs == {[topK |-> 2, topN |-> 2, perDoc |-> 2, total |-> 3, rounds |-> 2],
            [topK |-> 9, topN |-> 0, perDoc |-> 9, total |-> 9, rounds |-> 9]}

Symmetry == Permutations({d1, d2})
=============================================================================
