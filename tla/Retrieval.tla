------------------------------ MODULE Retrieval ------------------------------
(***************************************************************************)
(* Searches of one collection: the call of a client looks up whether the   *)
(* collection exists, opens it (which creates it), and reads; in between,  *)
(* others index, synchronise, delete and drop, and the process is started  *)
(* again with another chunking or another encoder.                         *)
(*                                                                         *)
(* A text is what it is cut into, with its metadata.  The score a query    *)
(* gives to a chunk does not depend on the other chunks; cosines and the   *)
(* weight alpha are counted in Units, so that scores are whole numbers.    *)
(***************************************************************************)
EXTENDS Integers, FiniteSets, SequencesExt

CONSTANTS
  Threads, Docs, Texts, Encoders, Setups, Requests,
  Cut(_, _),         \* the chunks of a text under a chunking
  Meta(_),           \* the metadata of a text and its date, [tags, created]
  Raw(_, _),         \* the score of a chunk for a query, 0 if it does not match
  ById(_),           \* the document that a query asks for by its doc_id field
  Cosine(_, _, _, _),  \* of a query under an encoder and a chunk under another
  Unit,              \* the scale of cosines and of alpha
  PostprocessOverfetch, MaxOverfetch,
  NoEncoder, NoDoc, NoFilter, NoAlpha,
  Blank, Unparsable  \* queries: no word at all; refused by the parser

EncoderType == [model : STRING, version : STRING, tag : STRING, dim : Nat, yields : Nat]

SetupType == [chunking : Nat, encoder : Encoders \cup {NoEncoder}]

\* What a filter says: pairs that must be there, values allowed, dates.
Filters == [eq : SUBSET (STRING \X STRING), among : SUBSET (STRING \X SUBSET STRING),
            after : Nat, before : Nat]

\* The comment of IndexProfile: model, version, tag and dimension identify the
\* encoder, whatever runs it.
ASSUME RetrievalAssumption ==
  /\ Encoders \subseteq EncoderType
  /\ Setups \subseteq SetupType
  /\ \A e, f \in Encoders :
       <<e.model, e.version, e.tag, e.dim>> = <<f.model, f.version, f.tag, f.dim>> => e = f
  /\ \A r \in Requests : r.filter \in Filters \cup {NoFilter} /\ r.exclude \subseteq Docs
  /\ Unit \in Nat \ {0}

\* A text has finitely many chunks, scores are not negative, and a cosine is
\* brought into 0 .. Unit.
ASSUME ScoreAssumption ==
  /\ IsFiniteSet(Docs) /\ {PostprocessOverfetch, MaxOverfetch} \subseteq Nat
  /\ \A r \in Requests : r.topK \in Nat /\ r.alpha \in Int \cup {NoAlpha}
  /\ \A text \in Texts, s \in Setups :
       LET chunks == Cut(text, s.chunking)
       IN  /\ Len(chunks) \in Nat
           /\ \A r \in Requests, i \in 1 .. Len(chunks) :
                /\ Raw(r.query, chunks[i]) \in Nat
                /\ \A e, f \in Encoders : Cosine(e, f, r.query, chunks[i]) \in 0 .. Unit

VARIABLES
  setup,    \* the configuration the process runs with
  entry,    \* the registry holds the collection
  present,  \* its directory is on disk
  stored,   \* the documents: text, setup they were cut and embedded under, profile
  call,     \* the call of each thread
  acked     \* history: something was indexed since the collection was created

vars == <<setup, entry, present, stored, call, acked>>

Idle == [pc |-> "idle"]

NothingStored == [d \in Docs |-> NoDoc]

Init == /\ setup \in Setups
        /\ entry = FALSE /\ present = FALSE
        /\ stored = NothingStored
        /\ call = [t \in Threads |-> Idle]
        /\ acked = FALSE

-----------------------------------------------------------------------------
(* What is stored of a text. *)

\* index_profile and its hash.
Profile(s) ==
  IF s.encoder = NoEncoder THEN <<s.chunking>>
  ELSE <<s.chunking, s.encoder.model, s.encoder.version, s.encoder.tag, s.encoder.dim>>

\* A vector of another length than the configured one is an error.
Encodes == setup.encoder # NoEncoder => setup.encoder.yields = setup.encoder.dim

\* should_skip_upsert
MaySkip(d, text) ==
  stored[d] # NoDoc /\ stored[d].text = text /\ stored[d].profile = Profile(setup)

Write(d, text) ==
  /\ stored' = [stored EXCEPT ![d] = [text |-> text, setup |-> setup, profile |-> Profile(setup)]]
  /\ acked' = TRUE

OpenCollection == entry' = TRUE /\ present' = TRUE

\* A batch of another client, of one document; skip is skip_unchanged.
Index(d, text, skip) ==
  /\ OpenCollection
  /\ \/ Encodes /\ ~(skip /\ MaySkip(d, text)) /\ Write(d, text)
     \/ skip /\ MaySkip(d, text) /\ UNCHANGED <<stored, acked>>
     \/ UNCHANGED <<stored, acked>>     \* a failure, nothing is written
  /\ UNCHANGED <<setup, call>>

Delete(d) ==
  /\ OpenCollection
  /\ stored' = [stored EXCEPT ![d] = NoDoc]
  /\ UNCHANGED <<setup, call, acked>>

Drop ==
  /\ present
  /\ entry' = FALSE /\ present' = FALSE
  /\ stored' = NothingStored
  /\ acked' = FALSE
  /\ UNCHANGED <<setup, call>>

\* The process is started again; build_encoder takes what is configured then.
Restart(s) ==
  /\ setup' = s
  /\ entry' = FALSE
  /\ call' = [t \in Threads |-> Idle]
  /\ UNCHANGED <<present, stored, acked>>

-----------------------------------------------------------------------------
(* search_hybrid.  A record is <<document, chunk>>; 0 is the sentinel. *)

Sentinel == 0

ChunksOf(d) == Cut(stored[d].text, stored[d].setup.chunking)

Records ==
  UNION {{<<d, i>> : i \in 0 .. Len(ChunksOf(d))} : d \in {e \in Docs : stored[e] # NoDoc}}

\* A query for a doc_id matches every record of the document.
RawScore(q, rec) ==
  (IF ById(q) = rec[1] THEN 1 ELSE 0)
    + (IF rec[2] = Sentinel THEN 0 ELSE Raw(q, ChunksOf(rec[1])[rec[2]]))

Matching(q) == {rec \in Records : RawScore(q, rec) > 0}

FilterMatches(f, text) ==
  LET m == Meta(text)
  IN  /\ f.eq \subseteq m.tags
      /\ \A p \in f.among : \E v \in p[2] : <<p[1], v>> \in m.tags
      /\ f.after <= m.created /\ m.created <= f.before

Passes(r, rec) ==
  /\ rec[2] # Sentinel
  /\ rec[1] \notin r.exclude
  /\ r.filter = NoFilter \/ FilterMatches(r.filter, stored[rec[1]].text)

\* run_search asks for the dense part only below 1.0.
Dense(r) == r.alpha # NoAlpha /\ r.alpha < Unit

Least(a, b) == IF a <= b THEN a ELSE b

Most(a, b) == IF a <= b THEN b ELSE a

\* Variant: nothing more is fetched for what is excluded.
FetchLimitFiltered(r) ==
  Most(1, IF r.filter # NoFilter \/ Dense(r)
          THEN Least(r.topK * PostprocessOverfetch, MaxOverfetch) ELSE r.topK)

FetchLimit(r) ==
  Most(1, IF r.filter # NoFilter \/ r.exclude # {} \/ Dense(r)
          THEN Least(r.topK * PostprocessOverfetch, MaxOverfetch) ELSE r.topK)

\* The n best of a set, by a score; equal scores are taken in any order.
Best(S, n, score) ==
  {T \in SUBSET S : /\ Cardinality(T) = Least(n, Cardinality(S))
                    /\ \A a \in T, b \in S \ T : score[a] >= score[b]}

\* cosine_unit; a chunk without a vector, or with one of another length, is neutral.
CosineUnit(q, rec) ==
  LET s == stored[rec[1]].setup
  IN  IF s.encoder = NoEncoder \/ s.encoder.dim # setup.encoder.dim THEN Unit \div 2
      ELSE Cosine(setup.encoder, s.encoder, q, ChunksOf(rec[1])[rec[2]])

Orders(T, score) ==
  {o \in SetToSeqs(T) : \A i, j \in DOMAIN o : i < j => score[o[i]] >= score[o[j]]}

\* What a search can answer: fetch, post-process, rescore, truncate.
Answers(r) ==
  LET raw == [rec \in Matching(r.query) |-> RawScore(r.query, rec)]
      answers(T) ==
        LET max == IF T = {} THEN 0 ELSE Max({raw[rec] : rec \in T})
            score == IF Dense(r)
                     THEN [rec \in {c \in T : Passes(r, c)} |->
                             r.alpha * raw[rec] * Unit
                               + (Unit - r.alpha) * CosineUnit(r.query, rec) * max]
                     ELSE raw
        IN  UNION {Orders(K, score) : K \in Best({rec \in T : Passes(r, rec)}, r.topK, score)}
  IN  UNION {answers(T) : T \in Best(Matching(r.query), FetchLimit(r), raw)}

-----------------------------------------------------------------------------
(* The call of a client: msa_search, or the search of msa_search_iterative. *)

\* Variant: only collections that are open are known.
ListedOpen == entry

\* list_on_disk
Listed == entry \/ present

Answer(t, reply, hits) ==
  call' = [call EXCEPT ![t] = [pc |-> "answered", req |-> call[t].req, reply |-> reply,
                               hits |-> hits, before |-> call[t].before]]

Begin(t, r) ==
  /\ call[t].pc = "idle"
  /\ call' = [call EXCEPT ![t] =
       IF r.query = Blank
       THEN [pc |-> "answered", req |-> r, reply |-> "invalid_params", hits |-> <<>>, before |-> acked]
       ELSE [pc |-> "listed", req |-> r, existed |-> Listed, before |-> acked]]
  /\ UNCHANGED <<setup, entry, present, stored, acked>>

Open(t) ==
  /\ call[t].pc = "listed"
  /\ OpenCollection
  /\ call' = [call EXCEPT ![t].pc = "opened"]
  /\ UNCHANGED <<setup, stored, acked>>

\* No scorer, an encoder or a parser that refuses, a negative weight, or no
\* directory any more.
SearchFails(r) ==
  \/ Dense(r) /\ (setup.encoder = NoEncoder \/ ~Encodes \/ r.alpha < 0)
  \/ r.query = Unparsable
  \/ ~present

Search(t) ==
  LET r == call[t].req
  IN  /\ call[t].pc = "opened"
      /\ \/ SearchFails(r) /\ Answer(t, "internal_error", <<>>)
         \/ /\ ~SearchFails(r)
            /\ \E hits \in Answers(r) :
                 Answer(t, IF hits = <<>> /\ ~call[t].existed /\ r.tool = "msa_search"
                           THEN "hint" ELSE "hits", hits)
      /\ UNCHANGED <<setup, entry, present, stored, acked>>

Return(t) ==
  /\ call[t].pc = "answered"
  /\ call' = [call EXCEPT ![t] = Idle]
  /\ UNCHANGED <<setup, entry, present, stored, acked>>

Next ==
  \/ \E d \in Docs, text \in Texts, skip \in BOOLEAN : Index(d, text, skip)
  \/ \E d \in Docs : Delete(d)
  \/ Drop
  \/ \E s \in Setups : Restart(s)
  \/ \E t \in Threads : (\E r \in Requests : Begin(t, r)) \/ Open(t) \/ Search(t) \/ Return(t)

Spec == Init /\ [][Next]_vars

-----------------------------------------------------------------------------
(* Properties *)

\* A search that answers gives chunks that match, pass the filter and are not
\* excluded, at most topK of them.  As long as the matches fit what the
\* over-fetch promises, it gives as many as there are, and no chunk is left out,
\* or listed later, that is better in both scores than one listed; a vector that
\* cannot be compared counts as neutral.  A hit whose document the next
\* synchronisation would skip as unchanged is cut and embedded as the running
\* process does, over any history of restarts (fingerprint.rs).
BestHits ==
  [][\A t \in Threads :
       call[t].pc = "opened" /\ call'[t].pc = "answered" /\ call'[t].reply # "internal_error" =>
         LET r == call[t].req
             hits == call'[t].hits
             good == {rec \in Matching(r.query) : Passes(r, rec)}
             fits == Cardinality(Matching(r.query)) <=
                       IF r.filter = NoFilter /\ r.exclude = {} /\ ~Dense(r) THEN r.topK
                       ELSE Least(r.topK * PostprocessOverfetch, MaxOverfetch)
             vector(rec) == stored[rec[1]].setup.encoder
             cosine(rec) == IF ~Dense(r) \/ vector(rec) = NoEncoder THEN Unit \div 2
                            ELSE IF vector(rec).dim # setup.encoder.dim THEN Unit \div 2
                            ELSE Cosine(setup.encoder, vector(rec), r.query, ChunksOf(rec[1])[rec[2]])
             worse(a, b) == /\ RawScore(r.query, a) < RawScore(r.query, b)
                            /\ cosine(a) <= cosine(b)
                            /\ r.alpha = 0 => cosine(a) < cosine(b)
         IN  /\ ToSet(hits) \subseteq good
             /\ Len(hits) <= r.topK
             /\ IsInjective(hits)
             /\ \A rec \in ToSet(hits) :
                  MaySkip(rec[1], stored[rec[1]].text) => stored[rec[1]].setup = setup
             /\ fits =>
                  /\ Len(hits) = Least(r.topK, Cardinality(good))
                  /\ \A i \in DOMAIN hits, b \in good :
                       worse(hits[i], b) => \E j \in 1 .. (i - 1) : hits[j] = b]_vars

\* The hint that a collection does not exist is never given for one something
\* was indexed into before the call began, by any client or in an earlier run of
\* the process (server.rs, msa_search).
HintIsTrue ==
  \A t \in Threads : call[t].pc = "answered" /\ call[t].reply = "hint" => ~call[t].before
=============================================================================
