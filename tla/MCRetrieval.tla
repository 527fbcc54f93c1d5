----------------------------- MODULE MCRetrieval -----------------------------
(***************************************************************************)
(* Retrieval for TLC: three documents, two texts that share a query, three *)
(* encoders (two versions of a model, a third of another dimension, which  *)
(* yields another than it is configured for when small).                   *)
(***************************************************************************)
EXTENDS Benchmarks

Model(version, dim, yields) ==
  [model |-> "granite", version |-> version, tag |-> "r2", dim |-> dim, yields |-> yields]

One == Model("one", 4, 4)
Two == Model("two", 4, 4)
Wide == Model("one", 8, 8)
Wrong == Model("two", 6, 4)

MCEncoders == {One, Two, Wide, Wrong}

MCSetups == {[chunking |-> 1, encoder |-> e] : e \in {NoEncoder, One, Two, Wide, Wrong}}
              \cup {[chunking |-> 2, encoder |-> One]}

MCTexts == {"long", "short"}

\* Chunks are named by the words they hold.
MCCut(text, chunking) ==
  IF text = "short" THEN <<"a">>
  ELSE IF chunking = 1 THEN <<"a b", "b c">> ELSE <<"a b c">>

MCMeta(text) == IF text = "long" THEN [tags |-> {<<"kind", "note">>, <<"lang", "en">>}, created |-> 3]
                ELSE [tags |-> {<<"kind", "memo">>}, created |-> 5]

MCRaw(q, chunk) ==
  CASE q = "b" -> IF chunk = "a b" THEN 2 ELSE IF chunk = "a" THEN 0 ELSE 1
    [] q = "a" -> IF chunk = "a" THEN 2 ELSE IF chunk = "b c" THEN 0 ELSE 1
    [] q = "c" -> IF chunk = "a b" THEN 0 ELSE IF chunk = "b c" THEN 2 ELSE 1
    [] OTHER -> 0

MCById(q) == IF q = "doc_id:d1" THEN "d1" ELSE NoDoc

\* Another version of a model puts the chunks in another order.
MCCosine(e, f, q, chunk) ==
  LET n == CASE chunk = "a" -> 4 [] chunk = "a b" -> 1 [] OTHER -> 3
  IN  IF e = f THEN n ELSE Unit - n

Ask(tool, query, topK, filter, alpha, exclude) ==
  [tool |-> tool, query |-> query, topK |-> topK, filter |-> filter, alpha |-> alpha,
   exclude |-> exclude]

Notes == [eq |-> {<<"kind", "note">>}, among |-> {<<"lang", {"en", "it"}>>}, after |-> 0, before |-> 9]

Recent == [eq |-> {}, among |-> {<<"kind", {"note", "memo"}>>}, after |-> 4, before |-> 9]

MCRequests ==
  { Ask("msa_search", "a", 2, NoFilter, NoAlpha, {}),
    Ask("msa_search", "b", 1, NoFilter, 2, {}),
    Ask("msa_search", "a", 1, NoFilter, 0, {}),
    Ask("msa_search", "a", 1, Notes, NoAlpha, {}),
    Ask("msa_search", "a", 1, Recent, 5, {}),
    Ask("msa_search", "doc_id:d1", 2, NoFilter, NoAlpha, {}),
    Ask("msa_search", "a", 1, NoFilter, -1, {}),
    Ask("msa_search", Unparsable, 1, NoFilter, NoAlpha, {}),
    Ask("msa_search", Blank, 1, NoFilter, NoAlpha, {}),
    Ask("msa_search_iterative", "a", 1, NoFilter, NoAlpha, {"d1"}) }

-----------------------------------------------------------------------------
(* The benchmarks: a short text of another document is a digest of d1. *)

MCWords(chunk) ==
  CASE chunk = "a" -> << <<"a">> >>
    [] chunk = "a b" -> << <<"a">>, <<"b">> >>
    [] chunk = "b c" -> << <<"b">>, <<"c">> >>
    [] OTHER -> << <<"a">>, <<"b">>, <<"c">> >>

MCMembers(d, text) == IF text = "short" /\ d # "d1" THEN {"d1"} ELSE {}

MCSessionOf(d) == CASE d = "d1" -> "s1" [] d = "d2" -> "s2" [] OTHER -> "s3"

\* One where every text fits, one where it is cut.
MCGateConfigs == {[budget |-> 14, perDoc |-> 7], [budget |-> 9, perDoc |-> 5]}

MCQuestions ==
  { [query |-> "c", answer |-> << <<"a">> >>, relevant |-> {"d1", "d2"}, gold |-> {"s3"}, date |-> 2],
    [query |-> "a", answer |-> << <<"c">> >>, relevant |-> {"d1", "d2"}, gold |-> {"s1", "s2"}, date |-> 2],
    [query |-> "b", answer |-> << <<"b">>, <<"a">> >>, relevant |-> {"d1"}, gold |-> {"s1"}, date |-> NoDate],
    [query |-> "a", answer |-> << <<"b">>, <<"c">> >>, relevant |-> {"d3"}, gold |-> {"s2", "s3"}, date |-> 1],
    [query |-> "a", answer |-> NoAnswer, relevant |-> {"d2"}, gold |-> {}, date |-> 0],
    [query |-> "b", answer |-> <<>>, relevant |-> {"d2"}, gold |-> {"s1"}, date |-> 1] }

MCDiscount(i) == CASE i = 1 -> 1000 [] i = 2 -> 631 [] i = 3 -> 500 [] OTHER -> 431

\* One session has no date.
MCDateOf(s) == CASE s = "s1" -> 2 [] s = "s2" -> 0 [] OTHER -> NoDate

MCTextCosine(q, text) == IF (q = "a") = (text = "long") THEN 1 ELSE 3
=============================================================================
