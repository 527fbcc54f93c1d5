------------------------------ MODULE Interleave ------------------------------
(***************************************************************************)
(* A Memory Interleave conversation: rounds of msa_interleave_round over a *)
(* state that the client carries from reply to request.  The collection is *)
(* written by others at any time, also within a round; replies get lost,   *)
(* and the client then calls again with the state it has.                  *)
(*                                                                         *)
(* A document is its length and, if it is a digest, the ids it covers.     *)
(* Whatever ranks hits is abstracted: a search finds any documents there.  *)
(***************************************************************************)
EXTENDS Integers, Sequences, FiniteSets, Functions

CONSTANTS
  Docs,          \* document ids
  Texts,         \* the documents there can be: [len, members]
  Absent,        \* no document
  Knobs,         \* what clients ask for: [topK, topN, perDoc, total, rounds]
  MaxTopK,       \* MAX_TOP_K
  MaxTopN,       \* MAX_FETCH_TOP_N_CEILING
  MaxPerDoc,     \* MAX_CHARS_PER_DOC_CEILING
  MaxTotal,      \* MAX_TOTAL_CHARS_CEILING
  MaxRounds      \* MAX_ROUNDS_CEILING

KnobType == [topK : Nat, topN : Nat, perDoc : Nat, total : Nat, rounds : Nat]

ASSUME InterleaveAssumption ==
  /\ Texts \subseteq [len : Nat, members : SUBSET Docs]
  /\ Absent \notin Texts
  /\ Knobs \subseteq KnobType
  /\ {MaxTopK, MaxTopN, MaxPerDoc, MaxTotal, MaxRounds} \subseteq Nat \ {0}

VARIABLES
  docs,      \* the collection, [Docs -> Texts \cup {Absent}]
  state,     \* the InterleaveStateV1 the client holds
  pc,        \* where the round is
  params,    \* the knobs of the round, clamped
  hits,      \* its ranked hits: a document and the ids it covered
  picks,     \* the hits it is still going to fetch, by position
  injected,  \* the hits it has injected, by position
  gained,    \* the characters it has injected
  answer,    \* its reply: the next state, hard_stop, and the gain
  shown,     \* history: the documents the client has received
  chars,     \* history: how many characters it has received
  worked,    \* history: how many replies it has received of rounds that ran
  told       \* history: the knobs it was told to stop under

round   == <<pc, params, hits, picks, injected, gained>>
history == <<shown, chars, worked, told>>
vars    == <<docs, state, round, answer, history>>

PCs == {"idle", "fetch", "reply", "refused"}

Fresh == [round |-> 0, seen |-> {}, used |-> 0]

NoAnswer == [state |-> Fresh, stop |-> FALSE, gain |-> 0]

Clamp(x, hi) == IF x < 1 THEN 1 ELSE IF x > hi THEN hi ELSE x

Least(x, y) == IF x < y THEN x ELSE y

Clamped(k) == [topN   |-> Least(Clamp(k.topN, MaxTopN), Clamp(k.topK, MaxTopK)),
               topK   |-> Clamp(k.topK, MaxTopK),
               perDoc |-> Clamp(k.perDoc, MaxPerDoc),
               total  |-> Clamp(k.total, MaxTotal),
               rounds |-> Clamp(k.rounds, MaxRounds)]

NoKnobs == Clamped([topK |-> 0, topN |-> 0, perDoc |-> 0, total |-> 0, rounds |-> 0])

Init == /\ docs \in [Docs -> Texts \cup {Absent}]
        /\ state = Fresh
        /\ pc = "idle"
        /\ params = NoKnobs
        /\ hits = <<>>
        /\ picks = {} /\ injected = {} /\ gained = 0
        /\ answer = NoAnswer
        /\ shown = {} /\ chars = 0 /\ worked = 0 /\ told = {}

-----------------------------------------------------------------------------
(* Which hits a round fetches. *)

Present == {d \in Docs : docs[d] # Absent}

\* The hits of a search, at most n chunks, in the order of their scores.
Ranking(n) == UNION {[1..m -> Present] : m \in 0..n}

HitsOf(r) == [i \in DOMAIN r |-> [doc |-> r[i], members |-> docs[r[i]].members]]

\* Variant: a second chunk of a document counts as another document.
FreshEachChunk(h, seen) == {i \in DOMAIN h : h[i].doc \notin seen}

\* The best hit of every document not yet seen.
FreshHits(h, seen) ==
  {i \in DOMAIN h : h[i].doc \notin seen /\ \A j \in 1..(i - 1) : h[j].doc # h[i].doc}

\* Variant: a digest covers only the members ranked below it.
UncoveredBelow(h, F) == {i \in F : \A j \in F : j < i => h[i].doc \notin h[j].members}

\* Digest supersede: a member of a fresh digest is dropped.
Uncovered(h, F) == {i \in F : \A j \in F : h[i].doc \notin h[j].members}

Top(S, n) == {i \in S : Cardinality({j \in S : j < i}) < n}

Picks(h, p) == Top(Uncovered(h, FreshHits(h, state.seen)), p.topN)

-----------------------------------------------------------------------------
(* A round. *)

\* Variant: max_rounds is no more than advice.
SpentCharsOnly(p) == state.used >= p.total

\* Variant: a round may begin while the budget is spent to the last character.
SpentOver(p) == state.round >= p.rounds \/ state.used > p.total

Spent(p) == state.round >= p.rounds \/ state.used >= p.total

\* The hard-stop preflight: no work, the state goes back as it is.
Refuse(k) ==
  /\ pc = "idle"
  /\ Spent(Clamped(k))
  /\ pc' = "refused"
  /\ params' = Clamped(k)
  /\ answer' = [state |-> state, stop |-> TRUE, gain |-> 0]
  /\ UNCHANGED <<docs, state, hits, picks, injected, gained, history>>

Route(k, r) ==
  /\ pc = "idle"
  /\ ~Spent(Clamped(k))
  /\ pc' = "fetch"
  /\ params' = Clamped(k)
  /\ hits' = HitsOf(r)
  /\ picks' = Picks(HitsOf(r), Clamped(k))
  /\ UNCHANGED <<docs, state, injected, gained, answer, history>>

Used == state.used + gained

NextPick(i) == pc = "fetch" /\ i \in picks /\ \A j \in picks : i <= j

\* Variant: a document may fill its own cap whatever is left in total.
InjectedCharsUncapped(len) == Least(len, params.perDoc)

\* bound_text: the characters of a document that fit.
InjectedChars(len) == Least(len, Least(params.perDoc, params.total - Used))

Inject(i) ==
  /\ NextPick(i)
  /\ Used < params.total
  /\ hits[i].doc \in Present
  /\ picks' = picks \ {i}
  /\ injected' = injected \cup {i}
  /\ gained' = gained + InjectedChars(docs[hits[i].doc].len)
  /\ UNCHANGED <<docs, state, pc, params, hits, answer, history>>

\* The total budget is spent, or the fetch fails: the next pick, if any.
PassOver(i) ==
  /\ NextPick(i)
  /\ picks' = picks \ {i}
  /\ UNCHANGED <<docs, state, pc, params, hits, injected, gained, answer, history>>

NextRound == state.round + 1

\* Variant: whatever was routed counts as seen.
NextSeenRouted == state.seen \cup {hits[i].doc : i \in DOMAIN hits}

\* What was injected, and not what was skipped or could not be fetched.
NextSeen == state.seen \cup {hits[i].doc : i \in injected}

Finish ==
  /\ pc = "fetch"
  /\ picks = {}
  /\ pc' = "reply"
  /\ answer' = [state |-> [round |-> NextRound, seen |-> NextSeen, used |-> Used],
                stop  |-> NextRound >= params.rounds \/ Used >= params.total,
                gain  |-> gained]
  /\ UNCHANGED <<docs, state, params, hits, picks, injected, gained, history>>

-----------------------------------------------------------------------------
(* The client, and the other users of the collection. *)

RoundOver == /\ pc' = "idle"
             /\ params' = NoKnobs
             /\ hits' = <<>>
             /\ picks' = {} /\ injected' = {} /\ gained' = 0
             /\ UNCHANGED docs

\* The client adopts the state of the reply.
Receive ==
  /\ pc \in {"reply", "refused"}
  /\ state' = answer.state
  /\ shown' = shown \cup {hits[i].doc : i \in injected}
  /\ chars' = chars + gained
  /\ worked' = IF pc = "reply" THEN worked + 1 ELSE worked
  /\ told' = IF answer.stop THEN told \cup {params} ELSE told
  /\ RoundOver
  /\ UNCHANGED answer

\* The reply is lost, the round fails, or the server ends before it replies.
Lose ==
  /\ pc # "idle"
  /\ answer' = NoAnswer
  /\ RoundOver
  /\ UNCHANGED <<state, history>>

\* Another client writes or deletes a document.
Change(d) ==
  /\ \E x \in Texts \cup {Absent} : docs' = [docs EXCEPT ![d] = x]
  /\ UNCHANGED <<state, round, answer, history>>

Next ==
  \/ \E k \in Knobs : Refuse(k) \/ \E r \in Ranking(Clamped(k).topK) : Route(k, r)
  \/ \E i \in picks : Inject(i) \/ PassOver(i)
  \/ Finish \/ Receive \/ Lose
  \/ \E d \in Docs : Change(d)

Spec == Init /\ [][Next]_vars

-----------------------------------------------------------------------------
(* Properties *)

StateType == [round : Nat, seen : SUBSET Docs, used : Nat]

\* The type invariant.
TypeOK == /\ docs \in [Docs -> Texts \cup {Absent}]
          /\ state \in StateType
          /\ pc \in PCs
          /\ params \in KnobType
          /\ hits \in Seq([doc : Docs, members : SUBSET Docs])
          /\ Len(hits) <= params.topK
          /\ picks \subseteq DOMAIN hits
          /\ injected \subseteq DOMAIN hits
          /\ gained \in Nat
          /\ answer \in [state : StateType, stop : BOOLEAN, gain : Nat]
          /\ shown \subseteq Docs
          /\ chars \in Nat
          /\ worked \in Nat
          /\ told \subseteq KnobType

\* No document is injected twice in a conversation, be it by two rounds or by
\* two chunks in one, whatever is written or lost in between.
NothingShownTwice ==
  \A i \in injected : /\ hits[i].doc \notin shown
                      /\ \A j \in injected \ {i} : hits[j].doc # hits[i].doc

\* The state the client carries says what it has received, neither less nor
\* more: what was skipped, failed or got lost can still be injected later.
StateIsTrue == state.seen = shown /\ state.used = chars /\ state.round = worked

\* No round takes what the client has received beyond the total budget that
\* this round was given, and none ever beyond the server's ceiling.
BudgetKept == /\ injected # {} => chars + gained <= params.total
              /\ chars <= MaxTotal

\* A round injects no document with a digest that covers it.
DigestStandsAlone == \A i, j \in injected : hits[j].doc \notin hits[i].members

\* hard_stop is final: under the knobs with which the client was told to stop
\* no later round does any work, also after rounds with other knobs.
StopIsFinal ==
  [][\A k \in Knobs : Clamped(k) \in told =>
       \A r \in Ranking(Clamped(k).topK) : ~Route(k, r)]_vars

\* Rounds end: a client that goes on calling, with whatever knobs, receives at
\* most MaxRounds replies of rounds that ran, even if it finds nothing.
RoundsEnd == worked <= MaxRounds
=============================================================================
