--------------------------- MODULE InterleaveProofs ----------------------------
(***************************************************************************)
(* Theorems about Interleave, for every set of documents, knobs, ceilings  *)
(* and number of rounds, whatever is written and lost in between.          *)
(***************************************************************************)
EXTENDS Interleave, TLAPS

USE DEF round, history, vars

HitType == [doc : Docs, members : SUBSET Docs]

\* The knobs of a round are within the ceilings.
KnobsInv == params.total <= MaxTotal /\ params.rounds <= MaxRounds

\* What a round has selected is new to the client, without repetition, and no
\* selected digest covers another selected document.
SelectInv ==
  \A i, j \in picks \cup injected :
    /\ hits[i].doc \notin state.seen
    /\ i # j => hits[i].doc # hits[j].doc
    /\ hits[j].doc \notin hits[i].members

\* Only a round that runs selects and injects, and what it injects fits.
PhaseInv ==
  /\ pc \notin {"fetch", "reply"} => hits = <<>> /\ picks = {} /\ injected = {} /\ gained = 0
  /\ pc = "fetch" => state.round < params.rounds /\ Used <= params.total

\* A reply says what the round has done.
AnswerInv ==
  /\ pc = "reply" => /\ answer.state.round = state.round + 1
                     /\ answer.state.seen = state.seen \cup {hits[i].doc : i \in injected}
                     /\ answer.state.used = Used
                     /\ Used <= params.total
                     /\ state.round < params.rounds
                     /\ answer.stop => state.round + 1 >= params.rounds \/ Used >= params.total
  /\ pc = "refused" => answer.state = state /\ Spent(params)

\* Who was told to stop has spent the rounds or the characters.
ToldInv == \A p \in told : Spent(p)

CeilingInv == state.used <= MaxTotal /\ state.round <= MaxRounds

IInv == /\ TypeOK /\ KnobsInv /\ SelectInv /\ PhaseInv /\ AnswerInv
        /\ ToldInv /\ CeilingInv /\ StateIsTrue

-----------------------------------------------------------------------------
(* The operators of the model. *)

\* Clamped knobs are within the ceilings.
LEMMA ClampedType ==
  ASSUME NEW k \in KnobType
  PROVE  /\ Clamped(k) \in KnobType
         /\ Clamped(k).total <= MaxTotal
         /\ Clamped(k).rounds <= MaxRounds
<1>1. \A x \in Nat, hi \in Nat \ {0} : Clamp(x, hi) \in Nat /\ Clamp(x, hi) <= hi
  BY DEF Clamp
<1>2. \A x, y \in Nat : Least(x, y) \in Nat
  BY DEF Least
<1>3. /\ k.topK \in Nat /\ k.topN \in Nat /\ k.perDoc \in Nat /\ k.total \in Nat /\ k.rounds \in Nat
      /\ MaxTopK \in Nat \ {0} /\ MaxTopN \in Nat \ {0} /\ MaxPerDoc \in Nat \ {0}
      /\ MaxTotal \in Nat \ {0} /\ MaxRounds \in Nat \ {0}
  BY InterleaveAssumption DEF KnobType
<1>4. /\ Clamped(k).topN = Least(Clamp(k.topN, MaxTopN), Clamp(k.topK, MaxTopK))
      /\ Clamped(k).topK = Clamp(k.topK, MaxTopK)
      /\ Clamped(k).perDoc = Clamp(k.perDoc, MaxPerDoc)
      /\ Clamped(k).total = Clamp(k.total, MaxTotal)
      /\ Clamped(k).rounds = Clamp(k.rounds, MaxRounds)
      /\ Clamped(k) = [topK |-> Clamped(k).topK, topN |-> Clamped(k).topN,
                       perDoc |-> Clamped(k).perDoc, total |-> Clamped(k).total,
                       rounds |-> Clamped(k).rounds]
  BY DEF Clamped
<1>5. Clamped(k).topN \in Nat
  BY <1>1, <1>2, <1>3, <1>4
<1>6. /\ Clamped(k).topK \in Nat /\ Clamped(k).perDoc \in Nat
      /\ Clamped(k).total \in Nat /\ Clamped(k).rounds \in Nat
  BY <1>1, <1>3, <1>4
<1>7. Clamped(k).total <= MaxTotal /\ Clamped(k).rounds <= MaxRounds
  BY <1>1, <1>3, <1>4
<1>8. Clamped(k) \in KnobType
  BY <1>4, <1>5, <1>6 DEF KnobType
<1> QED
  BY <1>7, <1>8

LEMMA NoKnobsType ==
  NoKnobs \in KnobType /\ NoKnobs.total <= MaxTotal /\ NoKnobs.rounds <= MaxRounds
<1> DEFINE k == [topK |-> 0, topN |-> 0, perDoc |-> 0, total |-> 0, rounds |-> 0]
<1>1. k \in KnobType
  BY DEF KnobType
<1> QED
  BY <1>1, ClampedType DEF NoKnobs

LEMMA NoAnswerType == NoAnswer \in [state : StateType, stop : BOOLEAN, gain : Nat]
  BY DEF NoAnswer, Fresh, StateType

\* The hits of a search are documents with the ids that they cover.
LEMMA HitsType ==
  ASSUME TypeOK, NEW n \in Nat, NEW r \in Ranking(n)
  PROVE  HitsOf(r) \in Seq(HitType) /\ Len(HitsOf(r)) <= n /\ DOMAIN HitsOf(r) = DOMAIN r
<1>1. PICK m \in 0..n : r \in [1..m -> Present]
  BY DEF Ranking
<1>2. \A i \in 1..m : r[i] \in Docs /\ docs[r[i]].members \in SUBSET Docs
  BY <1>1, InterleaveAssumption DEF Present, TypeOK
<1>3. HitsOf(r) \in [1..m -> HitType]
  BY <1>1, <1>2 DEF HitsOf, HitType
<1>4. HitsOf(r) \in Seq(HitType) /\ Len(HitsOf(r)) = m
  BY <1>3
<1> QED
  BY <1>1, <1>3, <1>4

\* What is selected is new, unrepeated, and not covered by what is selected.
LEMMA PicksSelect ==
  ASSUME NEW h \in Seq(HitType), NEW p
  PROVE  /\ Picks(h, p) \subseteq DOMAIN h
         /\ \A i, j \in Picks(h, p) : /\ h[i].doc \notin state.seen
                                      /\ i # j => h[i].doc # h[j].doc
                                      /\ h[j].doc \notin h[i].members
<1> DEFINE F == FreshHits(h, state.seen)
<1>1. Picks(h, p) \subseteq F /\ \A i \in Picks(h, p), j \in F : h[i].doc \notin h[j].members
  BY DEF Picks, Top, Uncovered
<1>2. F \subseteq DOMAIN h /\ DOMAIN h = 1..Len(h) /\ Len(h) \in Nat
  BY DEF FreshHits
<1>3. \A i \in F : h[i].doc \notin state.seen /\ \A j \in 1..(i - 1) : h[j].doc # h[i].doc
  BY DEF FreshHits
<1>4. \A i, j \in F : i # j => h[i].doc # h[j].doc
  <2>1. \A i, j \in F : i < j => i \in 1..(j - 1)
    BY <1>2
  <2>2. \A i, j \in F : i # j => i < j \/ j < i
    BY <1>2
  <2> QED
    BY <1>3, <2>1, <2>2
<1> QED
  BY <1>1, <1>2, <1>3, <1>4

\* The documents of the injected hits.
LEMMA InjectedType == TypeOK => {hits[i].doc : i \in injected} \subseteq Docs
<1> SUFFICES ASSUME TypeOK, NEW i \in injected PROVE hits[i].doc \in Docs
  OBVIOUS
<1>1. hits \in Seq(HitType) /\ i \in DOMAIN hits
  BY DEF TypeOK, HitType
<1>2. hits[i] \in HitType
  BY <1>1
<1> QED
  BY <1>2 DEF HitType

\* A document never gets more characters than are left.
LEMMA InjectedFits ==
  ASSUME TypeOK, NEW len \in Nat, Used < params.total
  PROVE  InjectedChars(len) \in Nat /\ Used + InjectedChars(len) <= params.total
<1>1. Used \in Nat /\ params.perDoc \in Nat /\ params.total \in Nat
  BY DEF TypeOK, Used, StateType, KnobType
<1> HIDE DEF Used
<1> QED
  BY <1>1 DEF InjectedChars, Least

-----------------------------------------------------------------------------
(* The steps. *)

LEMMA InitInv == Init => IInv
<1> SUFFICES ASSUME Init PROVE IInv
  OBVIOUS
<1>1. state \in StateType /\ answer \in [state : StateType, stop : BOOLEAN, gain : Nat]
  BY NoAnswerType DEF Init, Fresh, StateType
<1>2. Len(hits) <= params.topK
  BY NoKnobsType DEF Init, KnobType
<1>3. TypeOK /\ KnobsInv
  BY <1>1, <1>2, NoKnobsType DEF Init, TypeOK, KnobsInv, PCs
<1> QED
  BY <1>3, InterleaveAssumption
  DEF Init, IInv, SelectInv, PhaseInv, AnswerInv, ToldInv, CeilingInv, StateIsTrue, Fresh

LEMMA RefuseStep ==
  ASSUME IInv, NEW k \in Knobs, Refuse(k)
  PROVE  IInv'
<1> USE DEF IInv, Refuse
<1>1. Clamped(k) \in KnobType /\ Clamped(k).total <= MaxTotal /\ Clamped(k).rounds <= MaxRounds
  BY ClampedType, InterleaveAssumption
<1>2. Len(hits') <= params'.topK
  <2>1. hits = <<>> /\ params' = Clamped(k) /\ Clamped(k).topK \in Nat
    BY <1>1 DEF PhaseInv, KnobType
  <2> QED
    BY <2>1
<1>3. TypeOK'
  BY <1>1, <1>2 DEF TypeOK, PCs
<1>4. KnobsInv'
  BY <1>1 DEF KnobsInv
<1>5. SelectInv' /\ PhaseInv' /\ ToldInv' /\ CeilingInv' /\ StateIsTrue'
  BY DEF SelectInv, PhaseInv, ToldInv, CeilingInv, StateIsTrue, Used, Spent
<1>6. AnswerInv'
  BY DEF AnswerInv, Spent
<1> QED
  BY <1>3, <1>4, <1>5, <1>6

LEMMA RouteStep ==
  ASSUME IInv, NEW k \in Knobs, NEW r \in Ranking(Clamped(k).topK), Route(k, r)
  PROVE  IInv'
<1> USE DEF IInv
<1>1. Clamped(k) \in KnobType /\ Clamped(k).total <= MaxTotal /\ Clamped(k).rounds <= MaxRounds
  BY ClampedType, InterleaveAssumption
<1>2. HitsOf(r) \in Seq(HitType) /\ Len(HitsOf(r)) <= Clamped(k).topK
  <2>1. Clamped(k).topK \in Nat
    BY <1>1 DEF KnobType
  <2> QED
    BY <2>1, HitsType
<1>3. /\ picks' \subseteq DOMAIN hits'
      /\ \A i, j \in picks' : /\ hits'[i].doc \notin state.seen
                              /\ i # j => hits'[i].doc # hits'[j].doc
                              /\ hits'[j].doc \notin hits'[i].members
  <2>1. hits' = HitsOf(r) /\ picks' = Picks(HitsOf(r), Clamped(k))
    BY DEF Route
  <2> QED
    BY <1>2, <2>1, PicksSelect
<1>4. /\ pc = "idle" /\ pc' = "fetch" /\ params' = Clamped(k) /\ hits' = HitsOf(r)
      /\ ~Spent(params') /\ injected = {} /\ gained = 0
      /\ UNCHANGED <<docs, state, injected, gained, answer, shown, chars, worked, told>>
  BY DEF Route, PhaseInv, Spent
<1> HIDE DEF IInv
<1>5. TypeOK /\ SelectInv /\ PhaseInv /\ AnswerInv /\ ToldInv /\ CeilingInv /\ StateIsTrue
  BY DEF IInv
<1>6. TypeOK'
  BY <1>1, <1>2, <1>3, <1>4, <1>5 DEF TypeOK, PCs, HitType
<1>7. KnobsInv' /\ SelectInv'
  BY <1>1, <1>3, <1>4 DEF KnobsInv, SelectInv
<1>8. ToldInv' /\ CeilingInv' /\ StateIsTrue' /\ AnswerInv'
  BY <1>4, <1>5 DEF ToldInv, CeilingInv, StateIsTrue, AnswerInv, Spent
<1>9. PhaseInv'
  <2>1. /\ state.round \in Nat /\ state.used \in Nat
        /\ params'.rounds \in Nat /\ params'.total \in Nat
    BY <1>1, <1>4, <1>5 DEF TypeOK, StateType, KnobType
  <2>2. state.round < params'.rounds /\ state.used < params'.total
    BY <1>4, <2>1 DEF Spent
  <2> QED
    BY <1>4, <2>1, <2>2 DEF PhaseInv, Used
<1> QED
  BY <1>6, <1>7, <1>8, <1>9 DEF IInv

LEMMA InjectStep ==
  ASSUME IInv, NEW i \in picks, Inject(i)
  PROVE  IInv'
<1> USE DEF IInv
<1> DEFINE len == docs[hits[i].doc].len
<1>1. len \in Nat
  BY InterleaveAssumption DEF Inject, Present, TypeOK
<1>2. InjectedChars(len) \in Nat /\ Used + InjectedChars(len) <= params.total
  BY <1>1, InjectedFits DEF Inject
<1>3. /\ pc = "fetch" /\ gained' = gained + InjectedChars(len)
      /\ picks' = picks \ {i} /\ injected' = injected \cup {i}
      /\ UNCHANGED <<docs, state, pc, params, hits, answer, shown, chars, worked, told>>
  BY DEF Inject, NextPick
<1> HIDE DEF len
<1>4. picks' \cup injected' \subseteq picks \cup injected
  BY <1>3
<1>5. TypeOK'
  BY <1>2, <1>3 DEF TypeOK
<1>6. KnobsInv' /\ SelectInv' /\ ToldInv' /\ CeilingInv' /\ StateIsTrue' /\ AnswerInv'
  BY <1>3, <1>4 DEF KnobsInv, SelectInv, ToldInv, CeilingInv, StateIsTrue, AnswerInv, Spent
<1>7. PhaseInv'
  BY <1>2, <1>3 DEF PhaseInv, Used, TypeOK, StateType
<1> QED
  BY <1>5, <1>6, <1>7

LEMMA PassOverStep ==
  ASSUME IInv, NEW i \in picks, PassOver(i)
  PROVE  IInv'
<1> USE DEF IInv
<1>1. /\ pc = "fetch" /\ picks' = picks \ {i}
      /\ UNCHANGED <<docs, state, pc, params, hits, injected, gained, answer, shown, chars, worked, told>>
  BY DEF PassOver, NextPick
<1>2. TypeOK'
  BY <1>1 DEF TypeOK
<1> QED
  BY <1>1, <1>2
  DEF KnobsInv, SelectInv, PhaseInv, AnswerInv, ToldInv, CeilingInv, StateIsTrue, Used, Spent

LEMMA FinishStep == ASSUME IInv, Finish PROVE IInv'
<1> USE DEF IInv
<1> DEFINE next == [round |-> NextRound, seen |-> NextSeen, used |-> Used]
           stop == NextRound >= params.rounds \/ Used >= params.total
<1>1. /\ pc = "fetch" /\ pc' = "reply"
      /\ answer' = [state |-> next, stop |-> stop, gain |-> gained]
      /\ UNCHANGED <<docs, state, params, hits, picks, injected, gained, shown, chars, worked, told>>
  BY DEF Finish
<1>2. next \in StateType
  <2>1. NextSeen \in SUBSET Docs
    BY InjectedType DEF NextSeen, TypeOK, StateType
  <2>2. NextRound \in Nat /\ Used \in Nat
    BY DEF NextRound, Used, TypeOK, StateType
  <2> QED
    BY <2>1, <2>2 DEF StateType
<1>3. TypeOK'
  BY <1>1, <1>2 DEF TypeOK, PCs
<1>4. KnobsInv' /\ SelectInv' /\ PhaseInv' /\ ToldInv' /\ CeilingInv' /\ StateIsTrue'
  BY <1>1 DEF KnobsInv, SelectInv, PhaseInv, ToldInv, CeilingInv, StateIsTrue, Spent
<1>5. AnswerInv'
  BY <1>1 DEF AnswerInv, PhaseInv, Used, NextRound, NextSeen
<1> QED
  BY <1>3, <1>4, <1>5

LEMMA OverStep ==
  ASSUME TypeOK, RoundOver
  PROVE  /\ pc' \in PCs /\ params' \in KnobType /\ hits' \in Seq(HitType)
         /\ Len(hits') <= params'.topK /\ picks' = {} /\ injected' = {} /\ gained' = 0
         /\ KnobsInv' /\ SelectInv' /\ PhaseInv'
<1>1. Len(hits') <= params'.topK
  BY NoKnobsType DEF RoundOver, KnobType
<1> QED
  BY <1>1, NoKnobsType DEF RoundOver, PCs, KnobsInv, SelectInv, PhaseInv

LEMMA ReceiveStep == ASSUME IInv, Receive PROVE IInv'
<1> USE DEF IInv
<1>1. RoundOver /\ pc' = "idle" /\ UNCHANGED <<docs, answer>>
  BY DEF Receive, RoundOver
<1>2. state' \in StateType /\ shown' \subseteq Docs /\ chars' \in Nat /\ worked' \in Nat
  <2>1. shown' = shown \cup {hits[i].doc : i \in injected}
    BY DEF Receive
  <2>2. shown' \subseteq Docs
    BY <2>1, InjectedType DEF TypeOK
  <2>3. state' \in StateType /\ chars' \in Nat /\ worked' \in Nat
    BY DEF Receive, TypeOK
  <2> QED
    BY <2>2, <2>3
<1>3. told' \subseteq KnobType
  BY DEF Receive, TypeOK
<1>4. TypeOK'
  BY <1>1, <1>2, <1>3, OverStep DEF TypeOK, HitType
<1>5. CASE pc = "refused"
  <2>1. /\ state' = state /\ worked' = worked /\ shown' = shown /\ chars' = chars
        /\ told' \subseteq told \cup {params} /\ Spent(params)
    BY <1>5 DEF Receive, AnswerInv, PhaseInv, TypeOK
  <2>2. ToldInv' /\ CeilingInv' /\ StateIsTrue'
    BY <2>1 DEF ToldInv, Spent, CeilingInv, StateIsTrue
  <2> QED
    BY <1>1, <1>4, <2>2, OverStep DEF AnswerInv
<1>6. CASE pc = "reply"
  <2>1. /\ state'.round = state.round + 1
        /\ state'.seen = state.seen \cup {hits[i].doc : i \in injected}
        /\ state'.used = state.used + gained
        /\ state'.used <= params.total /\ state.round < params.rounds
        /\ worked' = worked + 1
        /\ shown' = shown \cup {hits[i].doc : i \in injected}
        /\ chars' = chars + gained
        /\ told' = told \/ (told' = told \cup {params} /\ answer.stop)
    BY <1>6 DEF Receive, AnswerInv, Used
  <2>2. /\ state.round \in Nat /\ state.used \in Nat /\ gained \in Nat
        /\ params.rounds \in Nat /\ params.total \in Nat
        /\ MaxTotal \in Nat /\ MaxRounds \in Nat
    BY InterleaveAssumption DEF TypeOK, StateType, KnobType
  <2>3. StateIsTrue' /\ CeilingInv'
    BY <2>1, <2>2 DEF StateIsTrue, CeilingInv, KnobsInv
  <2>4. ASSUME NEW p \in told' PROVE Spent(p)'
    <3>1. CASE p \in told
      <4>1. p.rounds \in Nat /\ p.total \in Nat
        BY <3>1 DEF TypeOK, KnobType
      <4> QED
        BY <3>1, <4>1, <2>1, <2>2 DEF ToldInv, Spent
    <3>2. CASE p = params /\ answer.stop
      BY <1>6, <3>2, <2>1, <2>2 DEF AnswerInv, Spent, Used
    <3> QED
      BY <2>1, <2>4, <3>1, <3>2
  <2>5. ToldInv'
    BY <2>4 DEF ToldInv
  <2> QED
    BY <1>1, <1>4, <2>3, <2>5, OverStep DEF AnswerInv
<1> QED
  BY <1>5, <1>6 DEF Receive

LEMMA LoseStep == ASSUME IInv, Lose PROVE IInv'
<1> USE DEF IInv
<1>1. /\ RoundOver /\ pc' = "idle" /\ answer' = NoAnswer
      /\ UNCHANGED <<docs, state, shown, chars, worked, told>>
  BY DEF Lose, RoundOver
<1>2. TypeOK'
  BY <1>1, OverStep, NoAnswerType DEF TypeOK, HitType
<1>3. ToldInv' /\ CeilingInv' /\ StateIsTrue' /\ AnswerInv'
  BY <1>1 DEF ToldInv, CeilingInv, StateIsTrue, AnswerInv, Spent
<1> QED
  BY <1>1, <1>2, <1>3, OverStep

LEMMA OtherStep ==
  ASSUME IInv, (\E d \in Docs : Change(d)) \/ UNCHANGED vars
  PROVE  IInv'
<1> USE DEF IInv
<1>1. /\ docs' \in [Docs -> Texts \cup {Absent}]
      /\ UNCHANGED <<state, pc, params, hits, picks, injected, gained, answer, shown, chars, worked, told>>
  BY DEF Change, TypeOK
<1>2. TypeOK'
  BY <1>1 DEF TypeOK
<1> QED
  BY <1>1, <1>2
  DEF KnobsInv, SelectInv, PhaseInv, AnswerInv, ToldInv, CeilingInv, StateIsTrue, Used, Spent

LEMMA NextInv == IInv /\ [Next]_vars => IInv'
<1> SUFFICES ASSUME IInv, [Next]_vars PROVE IInv'
  OBVIOUS
<1>1. CASE \E k \in Knobs : Refuse(k)
  BY <1>1, RefuseStep
<1>2. CASE \E k \in Knobs : \E r \in Ranking(Clamped(k).topK) : Route(k, r)
  BY <1>2, RouteStep
<1>3. CASE \E i \in picks : Inject(i) \/ PassOver(i)
  BY <1>3, InjectStep, PassOverStep
<1>4. CASE Finish \/ Receive \/ Lose
  BY <1>4, FinishStep, ReceiveStep, LoseStep
<1>5. CASE (\E d \in Docs : Change(d)) \/ UNCHANGED vars
  BY <1>5, OtherStep
<1> QED
  BY <1>1, <1>2, <1>3, <1>4, <1>5 DEF Next

-----------------------------------------------------------------------------
(* The theorems. *)

\* The inductive invariant holds of every conversation.
THEOREM Invariance == Spec => []IInv
<1> QED
  BY InitInv, NextInv, PTL DEF Spec

\* The type invariant.
THEOREM TypeCorrect == Spec => []TypeOK
<1>1. IInv => TypeOK
  BY DEF IInv
<1> QED
  BY <1>1, Invariance, PTL

\* The state the client carries says what it has received.
THEOREM StateStaysTrue == Spec => []StateIsTrue
<1>1. IInv => StateIsTrue
  BY DEF IInv
<1> QED
  BY <1>1, Invariance, PTL

\* No document is injected twice in a conversation.
THEOREM NothingRepeats == Spec => []NothingShownTwice
<1>1. IInv => NothingShownTwice
  BY DEF IInv, SelectInv, StateIsTrue, NothingShownTwice
<1> QED
  BY <1>1, Invariance, PTL

\* No digest is injected with a document that it covers.
THEOREM DigestsStandAlone == Spec => []DigestStandsAlone
<1>1. IInv => DigestStandsAlone
  BY DEF IInv, SelectInv, DigestStandsAlone
<1> QED
  BY <1>1, Invariance, PTL

\* The budgets of characters hold.
THEOREM BudgetsHold == Spec => []BudgetKept
<1>1. IInv => BudgetKept
  BY DEF IInv, PhaseInv, AnswerInv, StateIsTrue, CeilingInv, BudgetKept, Used, TypeOK, PCs
<1> QED
  BY <1>1, Invariance, PTL

\* A conversation has at most MaxRounds rounds that run.
THEOREM RoundsAreBounded == Spec => []RoundsEnd
<1>1. IInv => RoundsEnd
  BY DEF IInv, StateIsTrue, CeilingInv, RoundsEnd
<1> QED
  BY <1>1, Invariance, PTL

\* hard_stop is final.
THEOREM StopsAreFinal == Spec => StopIsFinal
<1> DEFINE Kept == \A k \in Knobs : Clamped(k) \in told =>
                     \A r \in Ranking(Clamped(k).topK) : ~Route(k, r)
<1>1. IInv => Kept
  BY DEF IInv, ToldInv, Route
<1>2. []IInv => [][Kept]_vars
  BY <1>1, PTL
<1> QED
  BY <1>2, Invariance DEF StopIsFinal
=============================================================================
