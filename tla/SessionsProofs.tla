---------------------------- MODULE SessionsProofs ----------------------------
(***************************************************************************)
(* Theorems about Sessions, for every number of calls and sessions.        *)
(***************************************************************************)
EXTENDS Sessions, TLAPS

USE DEF vars

\* A call has an id exactly when it has a session.
ServingInv == \A t \in Threads : serving[t] = NoSession <=> taken[t] = NoSession

\* An id that was not given out has no session and no history.
FreshInv ==
  \A id \in Ids \ used :
    /\ sessions[id] = NoSession
    /\ shown[id] = {}
    /\ \A t \in Threads : serving[t] # id

IInv == TypeOK /\ ServingInv /\ FreshInv /\ OnePlace /\ NothingForgotten /\ DropIsFinal

-----------------------------------------------------------------------------
\* Collecting the expired sessions keeps the others as they are.
LEMMA GcType ==
  ASSUME TypeOK
  PROVE  /\ Gc(sessions) \in [Ids -> Session \cup {NoSession}]
         /\ \A id \in Ids : Gc(sessions)[id] # NoSession =>
              Gc(sessions)[id] = sessions[id] /\ sessions[id].age # Ttl
  BY DEF TypeOK, Gc

\* A session is a record, which NoSession is not.
LEMMA NotASession == NoSession \notin Session
  BY SessionAssumption DEF Session

LEMMA InitInv == Init => IInv
  BY SessionAssumption, NotASession
     DEF Init, IInv, TypeOK, ServingInv, FreshInv, OnePlace, NothingForgotten, DropIsFinal, Idle

\* A new session has shown nothing and is nobody else's.
LEMMA BeginStep ==
  ASSUME IInv, NEW t \in Threads, NEW id \in Ids, NEW c \in Collections, Begin(t, id, c)
  PROVE  IInv'
<1> USE SessionAssumption, NotASession DEF IInv, TypeOK, Begin, Busy, Idle
<1>1. NewSession(c) \in Session /\ NewSession(c).seen = {}
  BY DEF NewSession, Session
<1>2. TypeOK'
  BY <1>1
<1>3. ServingInv' /\ FreshInv'
  BY <1>1 DEF ServingInv, FreshInv
<1>4. OnePlace'
  BY <1>1 DEF OnePlace, FreshInv, ServingInv
<1>5. NothingForgotten'
  BY <1>1 DEF NothingForgotten, FreshInv, ServingInv
<1>6. DropIsFinal'
  BY <1>1 DEF DropIsFinal
<1> QED
  BY <1>2, <1>3, <1>4, <1>5, <1>6

\* A session that is resumed leaves the registry.
LEMMA ResumeStep ==
  ASSUME IInv, NEW t \in Threads, NEW id \in Ids, NEW c \in Collections, Resume(t, id, c)
  PROVE  IInv'
<1> DEFINE reg == Gc(sessions)
<1> USE SessionAssumption, NotASession DEF IInv, TypeOK, Resume, Busy, Idle, AfterTake
<1>1. /\ reg \in [Ids -> Session \cup {NoSession}]
      /\ \A i \in Ids : reg[i] # NoSession => reg[i] = sessions[i]
  BY GcType
<1> HIDE DEF reg
<1>2. sessions' \in [Ids -> Session \cup {NoSession}]
  BY <1>1 DEF reg
<1>3. \A i \in Ids : sessions'[i] # NoSession => sessions'[i] = sessions[i]
  BY <1>1 DEF reg
<1>4. \/ UNCHANGED <<serving, taken>>
      \/ /\ sessions[id] \in Session
         /\ sessions'[id] = NoSession
         /\ serving' = [serving EXCEPT ![t] = id]
         /\ taken' = [taken EXCEPT ![t] = sessions[id]]
  BY <1>1 DEF reg
<1>5. UNCHANGED <<used, shown, dropped>>
  OBVIOUS
<1> HIDE DEF Resume
<1>6. TypeOK'
  BY <1>2, <1>4, <1>5
<1>7. ServingInv' /\ FreshInv'
  BY <1>2, <1>3, <1>4, <1>5 DEF ServingInv, FreshInv
<1>8. OnePlace'
  BY <1>2, <1>3, <1>4, <1>5 DEF OnePlace, ServingInv
<1>9. NothingForgotten'
  BY <1>2, <1>3, <1>4, <1>5 DEF NothingForgotten, ServingInv
<1>10. DropIsFinal'
  BY <1>2, <1>3, <1>4, <1>5 DEF DropIsFinal
<1> QED
  BY <1>6, <1>7, <1>8, <1>9, <1>10

\* A session that comes back has seen what it showed.
LEMMA RespondStep ==
  ASSUME IInv, NEW t \in Threads, NEW hits \in SUBSET Docs, Respond(t, hits)
  PROVE  IInv'
<1> DEFINE id   == serving[t]
           back == [taken[t] EXCEPT !.seen = SeenAfter(taken[t], hits), !.age = 0]
<1> USE SessionAssumption, NotASession DEF IInv, TypeOK, Respond, Free, Busy, Idle
<1>1. id \in Ids /\ id \in used /\ taken[t] \in Session
  BY DEF ServingInv, FreshInv
<1>2. back \in Session /\ back.seen = taken[t].seen \cup hits
  <2>1. /\ SeenAfter(taken[t], hits) = taken[t].seen \cup hits
        /\ taken[t].seen \cup hits \in SUBSET Docs
        /\ 0 \in 0 .. Ttl
    BY <1>1 DEF Session, SeenAfter
  <2>2. taken[t] \in [collection : Collections, seen : SUBSET Docs, age : 0 .. Ttl]
    BY <1>1 DEF Session
  <2>3. \A seen \in SUBSET Docs, age \in 0 .. Ttl :
          LET new == [taken[t] EXCEPT !.seen = seen, !.age = age]
          IN  new \in [collection : Collections, seen : SUBSET Docs, age : 0 .. Ttl] /\ new.seen = seen
    BY <2>2
  <2> QED
    BY <2>1, <2>3 DEF Session
<1>3. sessions' \in [Ids -> Session \cup {NoSession}] /\ sessions'[id] = back
  BY <1>1, <1>2, GcType
<1>4. \A i \in Ids \ {id} : sessions'[i] # NoSession => sessions'[i] = sessions[i]
  BY <1>1, GcType
<1>5. /\ shown' = [shown EXCEPT ![id] = @ \cup hits]
      /\ serving' = [serving EXCEPT ![t] = NoSession]
      /\ taken' = [taken EXCEPT ![t] = NoSession]
      /\ UNCHANGED <<used, dropped>>
  OBVIOUS
<1>6. \A s \in Threads \ {t} : serving[s] # id
  BY DEF OnePlace
<1>7. shown[id] \subseteq taken[t].seen
  BY DEF NothingForgotten
<1> HIDE DEF back, id, Respond
<1>8. TypeOK'
  BY <1>1, <1>3, <1>5
<1>9. ServingInv' /\ FreshInv'
  BY <1>1, <1>3, <1>4, <1>5 DEF ServingInv, FreshInv
<1>10. OnePlace'
  BY <1>1, <1>3, <1>4, <1>5, <1>6 DEF OnePlace, ServingInv
<1>11. NothingForgotten'
  <2>1. \A i \in Ids : sessions'[i] # NoSession => shown'[i] \subseteq sessions'[i].seen
    BY <1>1, <1>2, <1>3, <1>4, <1>5, <1>7 DEF NothingForgotten
  <2>2. ASSUME NEW s \in Threads, taken'[s] # NoSession
        PROVE  shown'[serving'[s]] \subseteq taken'[s].seen
    BY <2>2, <1>1, <1>5, <1>6 DEF NothingForgotten, ServingInv
  <2> QED
    BY <2>1, <2>2 DEF NothingForgotten
<1>12. DropIsFinal'
  BY <1>1, <1>3, <1>4, <1>5, <1>6 DEF DropIsFinal, id
<1> QED
  BY <1>8, <1>9, <1>10, <1>11, <1>12

\* What is dropped was in the registry, so no call has it.
LEMMA DropStep ==
  ASSUME IInv, NEW id \in Ids, Drop(id)
  PROVE  IInv'
<1> USE SessionAssumption, NotASession DEF IInv, TypeOK, Drop, Dropped, Idle
<1>1. TypeOK'
  BY DEF FreshInv
<1>2. ServingInv' /\ FreshInv'
  BY DEF ServingInv, FreshInv
<1>3. OnePlace' /\ NothingForgotten'
  BY DEF OnePlace, NothingForgotten, ServingInv
<1>4. DropIsFinal'
  BY DEF DropIsFinal, OnePlace, ServingInv
<1> QED
  BY <1>1, <1>2, <1>3, <1>4

\* A failed search, and time, only make sessions disappear or grow older.
LEMMA OtherStep ==
  ASSUME IInv, (\E t \in Threads : SearchFails(t)) \/ Tick
  PROVE  IInv'
<1> USE SessionAssumption, NotASession DEF IInv, TypeOK, Idle
<1>1. CASE \E t \in Threads : SearchFails(t)
  BY <1>1 DEF SearchFails, Free, Busy, ServingInv, FreshInv, OnePlace, NothingForgotten, DropIsFinal
<1>2. CASE Tick
  <2>1. /\ sessions' \in [Ids -> Session \cup {NoSession}]
        /\ \A id \in Ids : sessions'[id] = NoSession <=> sessions[id] = NoSession
        /\ \A id \in Ids : sessions[id] # NoSession => sessions'[id].seen = sessions[id].seen
    BY <1>2 DEF Tick, Session
  <2>2. UNCHANGED <<used, serving, taken, shown, dropped>>
    BY <1>2 DEF Tick
  <2> QED
    BY <2>1, <2>2 DEF ServingInv, FreshInv, OnePlace, NothingForgotten, DropIsFinal
<1> QED
  BY <1>1, <1>2

LEMMA NextInv == IInv /\ [Next]_vars => IInv'
<1> SUFFICES ASSUME IInv, [Next]_vars PROVE IInv'
  OBVIOUS
<1>1. CASE Next
  BY <1>1, BeginStep, ResumeStep, RespondStep, DropStep, OtherStep DEF Next
<1>2. CASE UNCHANGED vars
  BY <1>2 DEF IInv, TypeOK, ServingInv, FreshInv, OnePlace, NothingForgotten, DropIsFinal, Idle
<1> QED
  BY <1>1, <1>2

-----------------------------------------------------------------------------
\* The inductive invariant holds of every behaviour of the session registry.
THEOREM Invariance == Spec => []IInv
  BY InitInv, NextInv, PTL DEF Spec

\* The registry and the calls that borrow from it stay well typed.
THEOREM TypeCorrect == Spec => []TypeOK
<1>1. IInv => TypeOK
  BY DEF IInv
<1> QED
  BY <1>1, Invariance, PTL

\* take hands a session to one call at a time: never two searches of it at once.
THEOREM SessionsAreExclusive == Spec => []OnePlace
<1>1. IInv => OnePlace
  BY DEF IInv
<1> QED
  BY <1>1, Invariance, PTL

\* Whatever calls overlap, no session forgets a document it has shown.
THEOREM NothingIsForgotten == Spec => []NothingForgotten
<1>1. IInv => NothingForgotten
  BY DEF IInv
<1> QED
  BY <1>1, Invariance, PTL

\* A session reported as dropped never comes back.
THEOREM DropsAreFinal == Spec => []DropIsFinal
<1>1. IInv => DropIsFinal
  BY DEF IInv
<1> QED
  BY <1>1, Invariance, PTL

\* A call is given a session idle for less than the TTL, or a new one.
LEMMA TakenFresh ==
  ASSUME IInv, Next, NEW t \in Threads, Idle(t), taken'[t] # NoSession,
         sessions[serving'[t]] # NoSession
  PROVE  sessions[serving'[t]].age < Ttl
<1> USE SessionAssumption, NotASession DEF IInv, TypeOK, Idle
<1>1. ASSUME NEW s \in Threads, NEW id \in Ids, NEW c \in Collections, Begin(s, id, c)
      PROVE  FALSE
  BY <1>1 DEF Begin, Busy, FreshInv, ServingInv
<1>2. ASSUME NEW s \in Threads, NEW id \in Ids, NEW c \in Collections, Resume(s, id, c)
      PROVE  sessions[serving'[t]].age < Ttl
  <2>1. serving'[t] = id /\ Gc(sessions)[id] # NoSession
    BY <1>2 DEF Resume, Busy
  <2>2. sessions[id] \in Session /\ sessions[id].age # Ttl
    BY <2>1, GcType
  <2> QED
    BY <2>1, <2>2 DEF Session
<1>3. ASSUME \/ \E s \in Threads, hits \in SUBSET Docs : Respond(s, hits)
             \/ \E s \in Threads : SearchFails(s)
             \/ \E id \in Ids : Drop(id)
             \/ Tick
      PROVE  FALSE
  BY <1>3 DEF Respond, SearchFails, Drop, Tick, Free, Busy
<1> QED
  BY <1>1, <1>2, <1>3 DEF Next

\* An expired session is never resumed, collected or not.
THEOREM ExpiryHolds == Spec => ExpiredNotResumed
<1>1. IInv /\ [Next]_vars =>
        [\A t \in Threads : Idle(t) /\ taken'[t] # NoSession =>
           LET old == sessions[serving'[t]] IN old # NoSession => old.age < Ttl]_vars
  BY TakenFresh
<1> QED
  BY <1>1, Invariance, PTL DEF Spec, ExpiredNotResumed
=============================================================================
