------------------------------ MODULE Benchmarks ------------------------------
(***************************************************************************)
(* What the benchmark tools make of a search.  The runner scores the       *)
(* ranked documents of a cell of its sweep; the injection gate compares    *)
(* two contexts of the same size, one of whole texts and one of the chunks *)
(* that matched; the conversational bench reorders or filters the hits     *)
(* under several conditions, counts the sessions found and, after a        *)
(* consolidation, picks the evidence it shows, where a digest stands for   *)
(* its members.                                                            *)
(*                                                                         *)
(* The tools index a dataset the way clients do; it is what is stored.     *)
(* A word is a sequence of letters, a context a sequence of letters and    *)
(* blanks, and a letter is as long as it is in the budget.  A metric is    *)
(* the pair of integers it is the quotient of; the averages over questions *)
(* and the latencies are left out.  Dates are counted in half-lives.       *)
(***************************************************************************)
EXTENDS Retrieval

CONSTANTS
  Questions,       \* [query, answer, relevant, gold, date]
  Letters,
  Words(_),        \* the words of a chunk
  Members(_, _),   \* the members of a document with a text, {} if it is no digest
  SessionOf(_),    \* session_of
  Pool,            \* RERANK_POOL, the top_k of the tools
  TopKs,           \* TOP_K, how much evidence is shown
  GateConfigs,     \* the budgets of the gate, [budget, perDoc]
  NoAnswer,        \* none, or yes or no
  Alphas, TopNs,   \* what the runner sweeps
  TopKReport, Near, Far,   \* its cuts: of the ranking, @10, @20
  Discount(_),     \* of a rank in nDCG, scaled
  DateOf(_),       \* of a session, or NoDate
  Slack,           \* ORACLE_BAND_SLACK_DAYS
  Lives,           \* the bound of an age
  DenseTop,        \* DENSE_TOP
  TextCosine(_, _),  \* of a query and a whole text
  NoReport, Blanks, NoDate

ASSUME BenchAssumption ==
  /\ \A q \in Questions : q.relevant \subseteq Docs /\ q.relevant # {}
  /\ \A i \in 1 .. Cardinality(Docs) : /\ {Discount(i), Discount(i + 1)} \subseteq Nat
                                       /\ Discount(i) >= Discount(i + 1) /\ Discount(i + 1) > 0
  /\ {TopKReport, Near, Far} \subseteq Nat \ {0}
  /\ Near <= Far /\ Alphas \subseteq 0 .. Unit /\ TopKs \cup TopNs \subseteq Nat /\ Pool \in Nat

\* A digest has finitely many members.
ASSUME MembersAssumption == \A d \in Docs, text \in Texts : IsFiniteSet(Members(d, text))

\* Scores are not negative; the gold sessions of a question are finitely many, and
\* no session is older than the bound.
ASSUME ConditionsAssumption ==
  LET sessions == {SessionOf(d) : d \in Docs} \cup UNION {q.gold : q \in Questions}
  IN  /\ {Slack, Lives, DenseTop} \subseteq Nat
      /\ \A s \in sessions : DateOf(s) \in Nat \cup {NoDate}
      /\ \A q \in Questions :
           /\ IsFiniteSet(q.gold) /\ q.date \in Nat \cup {NoDate}
           /\ \A s \in sessions :
                q.date # NoDate /\ DateOf(s) # NoDate => q.date - DateOf(s) <= Lives
           /\ \A text \in Texts : TextCosine(q.query, text) \in Nat
           /\ \A text \in Texts, s \in Setups :
                \A i \in 1 .. Len(Cut(text, s.chunking)) :
                  Raw(q.query, Cut(text, s.chunking)[i]) \in Nat

\* Chunks, and the answers to questions, are sequences of words.
ASSUME WordsAssumption ==
  /\ \A text \in Texts, s \in Setups :
       LET chunks == Cut(text, s.chunking)
       IN  /\ DOMAIN chunks = 1 .. Len(chunks)
           /\ \A i \in 1 .. Len(chunks) : Words(chunks[i]) \in Seq(Seq(Letters))
  /\ \A q \in Questions : q.answer # NoAnswer => q.answer \in Seq(Seq(Letters))
  /\ \A cfg \in GateConfigs : {cfg.budget, cfg.perDoc} \subseteq Nat

VARIABLE report  \* what the tools say of a question, or NoReport

benchVars == <<vars, report>>

-----------------------------------------------------------------------------
(* What the tools ask. *)

Question(q) == [tool |-> "bench", query |-> q.query, topK |-> Pool, filter |-> NoFilter,
                alpha |-> NoAlpha, exclude |-> {}]

\* The elements of s at the places of I, in their order.
Selected(s, I) ==
  LET n == Cardinality(I)
      place == CHOOSE o \in [1 .. n -> I] : \A i, j \in 1 .. n : i < j => o[i] < o[j]
  IN  [i \in 1 .. n |-> s[place[i]]]

\* Variant: a document counts again for every hit.
UniqueEach(docs) == docs

\* Documents in the order of their best hit.
Unique(docs) == Selected(docs, {i \in DOMAIN docs : \A j \in 1 .. (i - 1) : docs[j] # docs[i]})

DocsOf(hits) == [i \in DOMAIN hits |-> hits[i][1]]

Ranked(hits) == Unique(DocsOf(hits))

-----------------------------------------------------------------------------
(* The runner: a cell of the sweep, and its metrics. *)

\* Without dense part at alpha = 1.
CellQuestion(q, alpha, topn) ==
  [Question(q) EXCEPT !.topK = topn, !.alpha = IF alpha = Unit THEN NoAlpha ELSE alpha]

Prefix(s, n) == SubSeq(s, 1, Least(n, Len(s)))

RankedDocs(hits) == Prefix(Ranked(hits), TopKReport)

\* The ranks at which something relevant is.
Found(ranked, relevant, k) == {i \in DOMAIN Prefix(ranked, k) : ranked[i] \in relevant}

Ndcg(ranked, relevant, k) ==
  LET ideal == 1 .. Least(Cardinality(relevant), Least(k, Len(ranked)))
  IN  IF Found(ranked, relevant, k) = {} THEN <<0, 1>>
      ELSE <<MapThenSumSet(Discount, Found(ranked, relevant, k)), MapThenSumSet(Discount, ideal)>>

Mrr(ranked, relevant, k) ==
  LET ranks == Found(ranked, relevant, k) IN IF ranks = {} THEN <<0, 1>> ELSE <<1, Min(ranks)>>

Recall(ranked, relevant, k) == <<Cardinality(Found(ranked, relevant, k)), Cardinality(relevant)>>

Cell(q, hits) ==
  [question |-> q, hits |-> hits, tool |-> "runner",
   ndcg |-> Ndcg(RankedDocs(hits), q.relevant, Near),
   mrr |-> Mrr(RankedDocs(hits), q.relevant, Near),
   recallNear |-> Recall(RankedDocs(hits), q.relevant, Near),
   recallFar |-> Recall(RankedDocs(hits), q.relevant, Far)]

-----------------------------------------------------------------------------
(* The injection gate. *)

Spelled(text) == FlattenSeq([i \in DOMAIN text |-> IF i = 1 THEN text[i] ELSE <<Blanks>> \o text[i]])

Snippet(rec) == Spelled(Words(ChunksOf(rec[1])[rec[2]]))

\* fetch_doc
FullText(d) == Spelled(FlattenSeq([i \in DOMAIN ChunksOf(d) |-> Words(ChunksOf(d)[i])]))

\* Variant: the room left in the budget is not looked at.
AppendBoundedByCap(cfg, ctx, text) ==
  IF Len(ctx) >= cfg.budget THEN ctx
  ELSE ctx \o SubSeq(text, 1, Least(cfg.perDoc, Len(text))) \o <<Blanks>>

AppendBounded(cfg, ctx, text) ==
  IF Len(ctx) >= cfg.budget THEN ctx
  ELSE ctx \o SubSeq(text, 1, Least(Least(cfg.budget - Len(ctx), cfg.perDoc), Len(text)))
           \o <<Blanks>>

Context(cfg, texts) == FoldLeft(LAMBDA ctx, text : AppendBounded(cfg, ctx, text), <<>>, texts)

\* Condition C, and condition D.
ContextC(cfg, hits) == Context(cfg, [i \in DOMAIN Ranked(hits) |-> FullText(Ranked(hits)[i])])

ContextD(cfg, hits) == Context(cfg, [i \in DOMAIN hits |-> Snippet(hits[i])])

Holds(ctx, answer) ==
  \E i \in 1 .. Len(ctx) - Len(answer) + 1 : SubSeq(ctx, i, i + Len(answer) - 1) = answer

Oracle(hits, answer) == \E d \in ToSet(Ranked(hits)) : Holds(FullText(d), answer)

\* The questions the gate scores: with an answer that is in a relevant document.
Extractive(q) ==
  /\ q.answer # NoAnswer /\ Spelled(q.answer) # <<>>
  /\ \E d \in q.relevant : stored[d] # NoDoc /\ Holds(FullText(d), Spelled(q.answer))

Gate(cfg, q, hits) ==
  [question |-> q, hits |-> hits, tool |-> "gate", cfg |-> cfg, ctxC |-> ContextC(cfg, hits),
   ctxD |-> ContextD(cfg, hits), oracle |-> Oracle(hits, Spelled(q.answer))]

-----------------------------------------------------------------------------
(* The conversational bench: sessions are scored in the order they are found. *)

Score(sessions, gold, k) ==
  LET ranks == {i \in DOMAIN sessions : sessions[i] \in gold}
  IN  [first |-> IF ranks = {} THEN 0 ELSE Min(ranks),
       covered |-> Cardinality({i \in ranks : i <= k})]

SessionsOf(hits) == Unique([i \in DOMAIN hits |-> SessionOf(hits[i][1])])

\* Variant: the band lies around the first of the gold sessions.
InBandOfFirst(s, gold) ==
  LET dates == {DateOf(g) : g \in gold} \ {NoDate}
  IN  IF dates = {} THEN TRUE
      ELSE /\ DateOf(s) # NoDate
           /\ Min(dates) - Slack <= DateOf(s) /\ DateOf(s) <= Min(dates) + Slack

\* The oracle's band of dates; without dated gold sessions all are in it.
InBand(s, gold) ==
  LET dates == {DateOf(g) : g \in gold} \ {NoDate}
  IN  IF dates = {} THEN TRUE
      ELSE /\ DateOf(s) # NoDate
           /\ Min(dates) - Slack <= DateOf(s) /\ DateOf(s) <= Max(dates) + Slack

BandHits(q, hits) == Selected(hits, {i \in DOMAIN hits : InBand(SessionOf(hits[i][1]), q.gold)})

\* The stable sort_by of both conditions that follow.
Resorted(hits, score) ==
  LET before(i, j) ==
        score[hits[i]] > score[hits[j]] \/ (score[hits[i]] = score[hits[j]] /\ i < j)
      order == CHOOSE o \in SetToSeqs(DOMAIN hits) :
                 \A i, j \in DOMAIN hits : i < j => before(o[i], o[j])
  IN  [i \in DOMAIN hits |-> hits[order[i]]]

\* 0.2 + 0.8 * 0.5^age, scaled.
Prior(age) == 2 ^ Lives + 4 * 2 ^ (Lives - age)

\* An undated session is not aged.
Age(q, rec) == LET date == DateOf(SessionOf(rec[1]))
               IN  IF q.date = NoDate \/ date = NoDate THEN 0 ELSE Most(0, q.date - date)

RecencyHits(q, hits) ==
  Resorted(hits, [rec \in ToSet(hits) |-> RawScore(q.query, rec) * Prior(Age(q, rec))])

\* dense_rerank of the first hits, with the scores stretched to 0 .. 1.
DenseHits(q, alpha, hits) ==
  LET pool == Prefix(hits, DenseTop)
      raws == {RawScore(q.query, rec) : rec \in ToSet(pool)}
      span == Max(raws) - Min(raws)
      score == [rec \in ToSet(pool) |->
                  alpha * (RawScore(q.query, rec) - Min(raws)) * Unit
                    + (Unit - alpha) * TextCosine(q.query, stored[rec[1]].text) * Most(span, 1)]
  IN  IF pool = <<>> THEN <<>> ELSE Resorted(pool, score)

Conditions(k, alpha, q, hits) ==
  [question |-> q, hits |-> hits, tool |-> "conditions", topK |-> k,
   bm25 |-> Score(SessionsOf(hits), q.gold, k),
   band |-> Score(SessionsOf(BandHits(q, hits)), q.gold, k),
   recency |-> RecencyHits(q, hits),
   dense |-> DenseHits(q, alpha, hits),
   evidence |-> Prefix(Ranked(hits), k)]

-----------------------------------------------------------------------------
(* The conversational bench, over a collection with digests. *)

MembersOf(d) == Members(d, stored[d].text)

IsDigest(d) == MembersOf(d) # {}

\* A digest found stands for the sessions of its members.
SessionsSeen(hits) ==
  Unique(FlattenSeq([i \in DOMAIN hits |->
    LET d == hits[i][1]
    IN  IF IsDigest(d) THEN SetToSeq({SessionOf(e) : e \in MembersOf(d)}) ELSE <<SessionOf(d)>>]))

\* Variant: what any digest that was found has as a member is covered.
CoveredIdsAnywhere(picked, k) == UNION {MembersOf(d) : d \in ToSet(picked)}

CoveredIds(picked, k) ==
  UNION {MembersOf(picked[i]) : i \in 1 .. Least(k, Len(picked))}

Evidence(picked, k) ==
  Prefix(Selected(picked, {i \in DOMAIN picked : picked[i] \notin CoveredIds(picked, k)}), k)

Conversation(k, q, hits) ==
  [question |-> q, hits |-> hits, tool |-> "convbench", topK |-> k,
   sessions |-> SessionsSeen(hits), score |-> Score(SessionsSeen(hits), q.gold, k), evidence |-> Evidence(Ranked(hits), k)]

-----------------------------------------------------------------------------
\* A dataset: everything is there, and no digest has a digest as a member.
Dataset ==
  /\ \A d \in Docs : stored[d] # NoDoc /\ stored[d].setup = setup
  /\ \A d \in Docs : \A e \in MembersOf(d) : ~IsDigest(e)

Ready == /\ report = NoReport
         /\ entry /\ \A t \in Threads : call[t].pc = "idle"
         /\ Dataset

\* The gate and the conversational bench index without an encoder.
Evaluate(q) ==
  /\ Ready /\ setup.encoder = NoEncoder
  /\ \E hits \in Answers(Question(q)) :
       \/ Extractive(q) /\ \E cfg \in GateConfigs : report' = Gate(cfg, q, hits)
       \/ \E k \in TopKs, alpha \in Alphas : report' = Conditions(k, alpha, q, hits)
       \/ \E k \in TopKs : report' = Conversation(k, q, hits)
  /\ UNCHANGED vars

\* An encoder that is missing or refuses ends the run.
EvalCell(q, alpha, topn) ==
  /\ Ready
  /\ alpha < Unit => setup.encoder # NoEncoder /\ Encodes
  /\ \E hits \in Answers(CellQuestion(q, alpha, topn)) : report' = Cell(q, hits)
  /\ UNCHANGED vars

NextQuestion ==
  /\ report # NoReport
  /\ report' = NoReport
  /\ UNCHANGED vars

BenchInit == Init /\ report = NoReport

BenchNext ==
  \/ report = NoReport /\ Next /\ UNCHANGED report
  \/ \E q \in Questions :
       Evaluate(q) \/ \E alpha \in Alphas, topn \in TopNs : EvalCell(q, alpha, topn)
  \/ NextQuestion

BenchSpec == BenchInit /\ [][BenchNext]_benchVars

-----------------------------------------------------------------------------
(* Properties *)

\* The metrics of a cell are what they are called: none exceeds one, although a
\* document has several hits; they agree on whether anything relevant was found;
\* the reciprocal rank is one where the best hit is relevant; a longer cut
\* recalls no less, and nothing but what was hit (metrics.rs, runner.rs).
CellsHonest ==
  report # NoReport /\ report.tool = "runner" =>
    LET hit == {rec[1] : rec \in ToSet(report.hits)}
    IN  /\ \A m \in {report.ndcg, report.mrr, report.recallNear, report.recallFar} :
             0 <= m[1] /\ m[1] <= m[2]
        /\ (report.ndcg[1] > 0) = (report.recallNear[1] > 0)
        /\ (report.mrr[1] > 0) = (report.recallNear[1] > 0)
        /\ report.hits # <<>> =>
             (report.mrr = <<1, 1>>) = (report.hits[1][1] \in report.question.relevant)
        /\ report.recallNear[1] <= report.recallFar[1]
        /\ report.recallFar[1] <= Cardinality(report.question.relevant \cap hit)

\* The conditions are what they are compared as.  The band of dates bounds the
\* others from above if every gold session has a date: it finds a gold session
\* no later and covers no fewer.  Recency is a prior and no gate: it keeps every
\* hit, and a hit stays ahead of one that is neither better nor newer; the dense
\* rerank keeps the first hits, and a hit ahead of one that is in no way better.
ConditionsHonest ==
  report # NoReport /\ report.tool = "conditions" =>
    LET q == report.question
        hits == report.hits
        ahead(o, a, b) == \E i, j \in DOMAIN o : i < j /\ o[i] = a /\ o[j] = b
        text(rec) == TextCosine(q.query, stored[rec[1]].text)
    IN  /\ (\A g \in q.gold : DateOf(g) # NoDate) =>
             /\ report.bm25.first > 0 => report.band.first \in 1 .. report.bm25.first
             /\ report.band.covered >= report.bm25.covered
        /\ ToSet(report.recency) = ToSet(hits) /\ Len(report.recency) = Len(hits)
        /\ \A i, j \in DOMAIN hits :
             i < j /\ Age(q, hits[i]) <= Age(q, hits[j]) => ahead(report.recency, hits[i], hits[j])
        /\ ToSet(report.dense) = ToSet(Prefix(hits, DenseTop))
        /\ \A i, j \in DOMAIN Prefix(hits, DenseTop) :
             i < j /\ text(hits[i]) >= text(hits[j]) => ahead(report.dense, hits[i], hits[j])

\* The gate compares what it says it does: both contexts keep to the budget (but
\* for the last separator); an answer of one word that is in a context is in a
\* document found; and whole texts that fit hold every answer in reach.
GateHonest ==
  report # NoReport /\ report.tool = "gate" =>
    LET answer == Spelled(report.question.answer)
        texts == {FullText(d) : d \in ToSet(Ranked(report.hits))}
        fits == /\ \A text \in texts : Len(text) <= report.cfg.perDoc
                /\ Len(FlattenSeq([i \in DOMAIN Ranked(report.hits) |->
                                     FullText(Ranked(report.hits)[i]) \o <<Blanks>>])) <= report.cfg.budget
    IN  /\ Len(report.ctxC) <= report.cfg.budget + 1 /\ Len(report.ctxD) <= report.cfg.budget + 1
        /\ Blanks \notin ToSet(answer) /\ (Holds(report.ctxC, answer) \/ Holds(report.ctxD, answer))
             => report.oracle
        /\ fits /\ report.oracle => Holds(report.ctxC, answer)

\* The evidence shows no document twice and no more than TopK; every document
\* among the first TopK is shown itself or by a digest that is shown; and the
\* sessions counted include those of all that is shown.
EvidenceCovers ==
  report # NoReport /\ report.tool = "convbench" =>
    LET picked == Ranked(report.hits)
        shown == ToSet(report.evidence)
    IN  /\ Len(report.evidence) <= report.topK /\ IsInjective(report.evidence)
        /\ \A i \in 1 .. Least(report.topK, Len(picked)) :
             picked[i] \in shown \cup UNION {MembersOf(d) : d \in shown}
        /\ \A d \in shown :
             {SessionOf(e) : e \in IF IsDigest(d) THEN MembersOf(d) ELSE {d}} \subseteq ToSet(report.sessions)
=============================================================================
