------------------------------- MODULE Sessions -------------------------------
(***************************************************************************)
(* SessionRegistry and the calls that use it: msa_search_iterative takes a *)
(* session out of the registry, searches without its mutex and stores it   *)
(* back; msa_drop_session removes it; an idle session expires.             *)
(***************************************************************************)
EXTENDS Naturals, FiniteSets

CONSTANTS
  Threads,      \* the calls that can be in progress at once
  Ids,          \* session ids; a new session gets one never used before
  Docs,         \* document ids
  Collections,  \* collection names
  Ttl,          \* the idle time after which a session expires, in ticks
  TopK,         \* the most documents a search returns
  NoSession     \* no session

ASSUME SessionAssumption ==
  /\ Ttl \in Nat \ {0}
  /\ TopK \in Nat
  /\ NoSession \notin Ids
  /\ NoSession \notin [collection : Collections, seen : SUBSET Docs, age : 0 .. Ttl]

VARIABLES
  sessions,  \* the registry, [Ids -> Session or NoSession]
  used,      \* the ids given out
  serving,   \* the id of the session each call has taken out, or NoSession
  taken,     \* that session, or NoSession
  shown,     \* history: the documents each session has shown its client
  dropped    \* history: the sessions msa_drop_session answered dropped = true for

vars == <<sessions, used, serving, taken, shown, dropped>>

Session == [collection : Collections, seen : SUBSET Docs, age : 0 .. Ttl]

NewSession(c) == [collection |-> c, seen |-> {}, age |-> 0]

Init == /\ sessions = [id \in Ids |-> NoSession]
        /\ used = {}
        /\ serving = [t \in Threads |-> NoSession]
        /\ taken = [t \in Threads |-> NoSession]
        /\ shown = [id \in Ids |-> {}]
        /\ dropped = {}

-----------------------------------------------------------------------------
(* The registry. *)

\* Variant: sessions are never collected.
KeepAll(reg) == reg

\* gc: the sessions idle for less than ttl.
Gc(reg) ==
  [id \in Ids |-> IF reg[id] # NoSession /\ reg[id].age = Ttl THEN NoSession ELSE reg[id]]

\* Variant: take hands out a copy and leaves the session in the registry.
AfterTakeCopy(reg, id) == reg

\* take removes the session it hands out.
AfterTake(reg, id) == [reg EXCEPT ![id] = NoSession]

\* Variant: the documents of the last round only.
SeenLastRound(session, hits) == hits

\* What a session has seen after a round.
SeenAfter(session, hits) == session.seen \cup hits

-----------------------------------------------------------------------------
(* msa_search_iterative *)

Busy(t, id, session) ==
  /\ serving' = [serving EXCEPT ![t] = id]
  /\ taken' = [taken EXCEPT ![t] = session]

Free(t) == Busy(t, NoSession, NoSession)

Idle(t) == taken[t] = NoSession

\* A call without a session_id starts a session.
Begin(t, id, c) ==
  /\ Idle(t)
  /\ id \notin used
  /\ used' = used \cup {id}
  /\ Busy(t, id, NewSession(c))
  /\ UNCHANGED <<sessions, shown, dropped>>

\* A call with a session_id, known or not, takes the session out: for its own
\* collection to search, for another one to be lost with the error.
Resume(t, id, c) ==
  LET reg == Gc(sessions)
  IN  /\ Idle(t)
      /\ \/ /\ reg[id] # NoSession
            /\ sessions' = AfterTake(reg, id)
            /\ IF reg[id].collection = c
               THEN Busy(t, id, reg[id])
               ELSE UNCHANGED <<serving, taken>>
         \/ /\ reg[id] = NoSession
            /\ sessions' = reg
            /\ UNCHANGED <<serving, taken>>
      /\ UNCHANGED <<used, shown, dropped>>

\* search_excluding: documents the session has not seen, at most top_k.
SearchHits(session) == {hits \in SUBSET (Docs \ session.seen) : Cardinality(hits) <= TopK}

\* The search succeeds; the session is stored, warm again, even if exhausted.
Respond(t, hits) ==
  LET id == serving[t]
  IN  /\ ~Idle(t)
      /\ hits \in SearchHits(taken[t])
      /\ sessions' = [Gc(sessions) EXCEPT
                        ![id] = [taken[t] EXCEPT !.seen = SeenAfter(taken[t], hits), !.age = 0]]
      /\ shown' = [shown EXCEPT ![id] = @ \cup hits]
      /\ Free(t)
      /\ UNCHANGED <<used, dropped>>

\* The search fails: Err, and the session that was taken is lost.
SearchFails(t) ==
  /\ ~Idle(t)
  /\ Free(t)
  /\ UNCHANGED <<sessions, used, shown, dropped>>

-----------------------------------------------------------------------------
(* msa_drop_session *)

\* Only what is in the registry, expired or not, is reported as dropped.
Dropped(id) == IF sessions[id] # NoSession THEN dropped \cup {id} ELSE dropped

Drop(id) ==
  /\ dropped' = Dropped(id)
  /\ sessions' = [sessions EXCEPT ![id] = NoSession]
  /\ UNCHANGED <<used, serving, taken, shown>>

\* Time passes for the sessions in the registry.
Tick ==
  /\ sessions' = [id \in Ids |->
       IF sessions[id] # NoSession /\ sessions[id].age < Ttl
       THEN [sessions[id] EXCEPT !.age = @ + 1] ELSE sessions[id]]
  /\ UNCHANGED <<used, serving, taken, shown, dropped>>

Next == \/ \E t \in Threads, id \in Ids, c \in Collections : Begin(t, id, c) \/ Resume(t, id, c)
        \/ \E t \in Threads, hits \in SUBSET Docs : Respond(t, hits)
        \/ \E t \in Threads : SearchFails(t)
        \/ \E id \in Ids : Drop(id)
        \/ Tick

Spec == Init /\ [][Next]_vars

-----------------------------------------------------------------------------
(* Properties *)

\* The type invariant.
TypeOK == /\ sessions \in [Ids -> Session \cup {NoSession}]
          /\ used \subseteq Ids
          /\ serving \in [Threads -> Ids \cup {NoSession}]
          /\ taken \in [Threads -> Session \cup {NoSession}]
          /\ shown \in [Ids -> SUBSET Docs]
          /\ dropped \subseteq used

\* A session is in one place: in the registry, or with the one call that took
\* it, so two calls with the same session_id never search side by side.
OnePlace ==
  \A t \in Threads : ~Idle(t) =>
    /\ sessions[serving[t]] = NoSession
    /\ \A s \in Threads \ {t} : serving[s] # serving[t]

\* Whatever calls overlap, a session remembers every document it has shown, so
\* that no later round shows one of them again.
NothingForgotten ==
  /\ \A id \in Ids : sessions[id] # NoSession => shown[id] \subseteq sessions[id].seen
  /\ \A t \in Threads : ~Idle(t) => shown[serving[t]] \subseteq taken[t].seen

\* A drop that answered dropped = true is final: no call in progress brings the
\* session back.
DropIsFinal ==
  \A id \in dropped : sessions[id] = NoSession /\ \A t \in Threads : serving[t] # id

\* A session idle for its whole TTL is never resumed, although it stays in the
\* registry until a take or a store collects it.
ExpiredNotResumed ==
  [][\A t \in Threads : Idle(t) /\ taken'[t] # NoSession =>
       LET old == sessions[serving'[t]] IN old # NoSession => old.age < Ttl]_vars
=============================================================================
