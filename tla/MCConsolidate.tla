---------------------------- MODULE MCConsolidate -----------------------------
(***************************************************************************)
(* Consolidate for TLC: the last three memories make a group, a chain      *)
(* whose ends share no term; the first one makes a group with any of them, *)
(* and with all of them there terms stop being top terms, as more than two *)
(* memories use them.  Groups, and the keys they get, change with every    *)
(* memory that comes or goes.                                              *)
(***************************************************************************)
EXTENDS Consolidate

\* How often each memory uses each of the two terms.
MCUses == << <<1, 1>>, <<1, 0>>, <<1, 1>>, <<0, 1>> >>

MCSession == <<1, 1, 1, 2>>

S(i, n) == [id |-> i, len |-> n]

\* Sentence 1 is said by three memories; sentence 3 is a line of backquotes and
\* the name of a language; sentence 4 does not fit a digest that has another.
MCText == << <<S(1, 2)>>, <<S(3, 2), S(1, 2)>>, <<S(1, 2), S(4, 4)>>, <<S(2, 2)>> >>

\* A model that says too much, of a code block it does not close.
MCModelTexts == { <<S(5, 2), S(3, 2), S(4, 3)>> }

MCNorm == [s \in Sentences |-> IF s = S(3, 1) THEN 0 ELSE 10 * s.id + s.len]

MCKind == [s \in Sentences |-> IF s = S(3, 2) THEN "fence" ELSE "plain"]

\* The fifth sentence says a credential.
MCRedacted == [s \in Sentences |-> IF s.id = 5 THEN 3 ELSE s.len]

MCKeyBlock == S(6, 6)

MCFenceTruncated == S(6, 4)

\* Two memories that use the same terms, too few to be related: each is a group
\* of its own, and their groups get the same key.
MCAlike == << <<1, 1>>, <<1, 1>> >>

MCAlikeText == << <<S(1, 2)>>, <<S(2, 2)>> >>

MCAlikeSession == <<1, 2>>
=============================================================================
