------------------------------ MODULE MCTextPath ------------------------------
(***************************************************************************)
(* TextPath for TLC: every line of up to three tokens of the classes that  *)
(* depend on what is around them, a line of each other class, key blocks   *)
(* and fences.                                                             *)
(***************************************************************************)
EXTENDS TextPath

Keyed == {"word", "name", "sep", "key", "longopen", "padded"}

MCLines == BoundedSeq(Keyed, 3) \cup {<<t>> : t \in Tokens}
             \cup {<<"bearer", "longkey", "assign">>, <<"open", "secret", "kept">>}

MCConfigs == [size : 0..3, overlap : 0..4]
=============================================================================
