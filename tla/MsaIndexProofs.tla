--------------------------- MODULE MsaIndexProofs ----------------------------
(***************************************************************************)
(* Theorems about MsaIndex, for every set of threads, documents, sources,  *)
(* contents, profiles and requests: its invariants, and that it implements *)
(* AtomicIndex.                                                            *)
(***************************************************************************)
EXTENDS MsaIndex, SequenceTheorems, TLAPS

-----------------------------------------------------------------------------
(* Facts about the data. *)

\* The fields of a request.
LEMMA RequestFields ==
  ASSUME NEW r \in Requests
  PROVE  /\ r.op \in {"delta", "index", "delete"}
         /\ r.ups \in Seq([doc : Docs, content : Contents])
         /\ DOMAIN r.ups \subseteq Nat
         /\ \A i \in DOMAIN r.ups : r.ups[i].doc \in Docs /\ r.ups[i].content \in Contents
         /\ r.dels \subseteq Docs
         /\ r.scope \in Sources \cup {NoSource}
<1>1. r \in RequestType
  BY RequestAssumption
<1>2. r.ups \in Seq([doc : Docs, content : Contents])
  BY <1>1 DEF RequestType
<1>3. DOMAIN r.ups = 1 .. Len(r.ups) /\ Len(r.ups) \in Nat
  BY <1>2
<1>4. \A i \in DOMAIN r.ups : r.ups[i] \in [doc : Docs, content : Contents]
  BY <1>2, <1>3, ElementOfSeq
<1> QED
  BY <1>1, <1>2, <1>3, <1>4 DEF RequestType

\* What stage_document writes is a whole document.
LEMMA WrittenType ==
  ASSUME NEW r \in Requests, NEW i \in DOMAIN r.ups, NEW p \in Profiles
  PROVE  /\ Written(r, i, p) \in Fingerprints
         /\ Written(r, i, p) \notin {Absent, Torn}
         /\ Written(r, i, p).content = r.ups[i].content
         /\ Written(r, i, p).profile = p
<1>1. Written(r, i, p) \in Fingerprints
  BY RequestFields DEF Written, Fingerprints
<1>2. Written(r, i, p) \notin {Absent, Torn}
  BY <1>1, DataAssumption
<1> QED
  BY <1>1, <1>2 DEF Written

\* A digest lists documents of the collection with their content hash.
LEMMA DigestType ==
  ASSUME NEW C \in [Docs -> DocStates], NEW scope
  PROVE  Digest(C, scope) \in Digests
<1> DEFINE D == {e \in Sentinels(C) : InScope(C[e], scope)}
<1>1. D \in SUBSET Docs
  BY DEF Sentinels
<1>2. \A d \in D : C[d].content \in Contents \cup {NoHash}
  BY DEF Sentinels, DocStates, Fingerprints
<1>3. Digest(C, scope) \in [D -> Contents \cup {NoHash}]
  BY <1>2 DEF Digest
<1> QED
  BY <1>1, <1>3 DEF Digests

\* What a client passes as if_manifest_digest is such a digest.
LEMMA ExpectedType ==
  /\ NoDigest \in Digests
  /\ \A C \in [Docs -> DocStates], r \in Requests : Expected(C, r) \in Digests
<1>1. [d \in Docs |-> Absent] \in [Docs -> DocStates]
  BY DEF DocStates
<1>2. NoDigest \in Digests
  BY <1>1, DigestType DEF NoDigest
<1> QED
  BY <1>2, DigestType DEF Expected

\* A plan speaks of the request it was computed for.
LEMMA PlanType ==
  ASSUME NEW r \in Requests, NEW C, NEW p
  PROVE  LET decided == PlanFor(C, p, r)
         IN  /\ decided \in Plans
             /\ decided.index \subseteq DOMAIN r.ups
             /\ decided.unchanged \subseteq DOMAIN r.ups
             /\ decided.delete \subseteq r.dels
<1>1. DOMAIN r.ups \subseteq Nat /\ r.dels \subseteq Docs
  BY RequestFields
<1> QED
  BY <1>1 DEF PlanFor, Classify, Unconditional, UpsertsWith, Plans

-----------------------------------------------------------------------------
(* The inductive invariant. *)

Holding == {"check", "classify", "writer", "stage", "rollback", "report"}

Planned == {"writer", "stage", "rollback", "report"}

\* A thread holds a lock exactly where the code says it does.
LockInv ==
  \A t \in Threads : /\ pc[t] \in Holding <=> deltaLock = t
                     /\ pc[t] \in {"stage", "rollback"} <=> writerLock = t

\* A request in progress passed the checks made before any lock.
RequestInv ==
  \A t \in Threads : pc[t] # "idle" => req[t] \in Requests /\ Accepted(req[t])

\* A plan speaks of its request, and its upserts are staged in order.
PlanInv ==
  \A t \in Threads :
    /\ pc[t] \in Planned => /\ plan[t].index \subseteq DOMAIN req[t].ups
                            /\ plan[t].unchanged \subseteq DOMAIN req[t].ups
                            /\ plan[t].delete \subseteq req[t].dels
                            /\ todo[t] \subseteq plan[t].index
    /\ pc[t] = "writer" => todo[t] = plan[t].index
    /\ pc[t] = "stage" => \A i \in plan[t].index \ todo[t], j \in todo[t] : i < j

\* What the writer of t has pending after the upserts no longer in todo.
Pending(t) ==
  [d \in Docs |->
     LET I == UpsertsOf(req[t], plan[t].index \ todo[t], d)
     IN  IF I # {} THEN Written(req[t], Latest(I), profile)
         ELSE IF d \in plan[t].delete THEN Absent
         ELSE Keep]

\* The writer has nothing pending but what the thread that holds it staged.
StagedInv ==
  /\ writerLock = Nobody => staged = Clean
  /\ \A t \in Threads : pc[t] = "stage" => staged = Pending(t)

\* What is pending is torn only between a failure and its rollback, and
\* every upsert staged so far has left something pending.
StagedWhole ==
  \A t \in Threads : pc[t] = "stage" =>
    /\ \A d \in Docs : staged[d] # Torn
    /\ \A i \in plan[t].index \ todo[t] : staged[req[t].ups[i].doc] # Keep

\* Past its checks a delta still passes them: nobody else can commit.
CheckedInv ==
  \A t \in Threads :
    /\ pc[t] \in {"check", "classify"} => req[t].op = "delta"
    /\ pc[t] = "classify" => Preconditions(committed, profile, req[t], want[t])

IInv == TypeOK /\ LockInv /\ RequestInv /\ PlanInv /\ StagedInv /\ CheckedInv
             /\ StagedWhole /\ PlanIsCurrent /\ DocumentsWhole

USE DEF shared, locks, local, vars

\* Initially no thread is doing anything, and no document is torn.
LEMMA InitInv == Init => IInv
<1> SUFFICES ASSUME Init PROVE IInv
  OBVIOUS
<1>1. Legacy \in Fingerprints /\ Legacy # Torn /\ Absent # Torn
  BY DataAssumption DEF Legacy, Fingerprints
<1>2. TypeOK
  <2>1. committed \in [Docs -> DocStates]
    BY <1>1 DEF Init, DocStates
  <2>2. plan \in [Threads -> Plans] /\ todo \in [Threads -> SUBSET Nat]
    BY DEF Init, NoPlan, Plans
  <2> QED
    BY <2>1, <2>2, ExpectedType DEF Init, TypeOK, PCs, Clean
<1>3. LockInv /\ RequestInv /\ PlanInv /\ StagedInv /\ CheckedInv /\ PlanIsCurrent
  BY ThreadAssumption
  DEF Init, LockInv, RequestInv, PlanInv, StagedInv, CheckedInv, PlanIsCurrent, Holding, Planned
<1>4. DocumentsWhole /\ StagedWhole
  BY <1>1 DEF Init, DocumentsWhole, StagedWhole
<1> QED
  BY <1>2, <1>3, <1>4 DEF IInv

\* Every step keeps the types.
LEMMA TypeStep == IInv /\ [Next]_vars => TypeOK'
<1> SUFFICES ASSUME IInv, [Next]_vars PROVE TypeOK'
  OBVIOUS
<1> USE DEF IInv
<1>1. ASSUME NEW t \in Threads, NEW r \in Requests, Begin(t, r) PROVE TypeOK'
  BY <1>1, ExpectedType DEF Begin, TypeOK, Goto, PCs
<1>2. ASSUME NEW t \in Threads, LockDelta(t) PROVE TypeOK'
  <2>1. req[t] \in Requests /\ t \in Threads
    BY <1>2 DEF LockDelta, RequestInv
  <2>2. Unconditional(req[t]) \in Plans
    BY <2>1, RequestFields DEF Unconditional, Plans
  <2>3. Unconditional(req[t]).index \in SUBSET Nat
    BY <2>1, RequestFields DEF Unconditional
  <2> QED
    BY <1>2, <2>1, <2>2, <2>3 DEF LockDelta, TypeOK, Goto, PCs
<1>3. ASSUME NEW t \in Threads, CheckPreconditions(t) PROVE TypeOK'
  BY <1>3 DEF CheckPreconditions, TypeOK, Goto, PCs
<1>4. ASSUME NEW t \in Threads, Return(t), UnlockDelta(t),
             committed' = committed, profile' = profile,
             writerOpen' \in BOOLEAN, staged' \in [Docs -> DocStates \cup {Keep}],
             writerLock' \in Threads \cup {Nobody}
      PROVE TypeOK'
  BY <1>4, ExpectedType DEF Return, UnlockDelta, TypeOK, Goto, PCs, NoPlan, Plans
<1>5. ASSUME NEW t \in Threads, Refuse(t) \/ WriterUnavailable(t) \/ Report(t) PROVE TypeOK'
  BY <1>4, <1>5 DEF Refuse, WriterUnavailable, Report, TypeOK
<1>6. ASSUME NEW t \in Threads, ClassifyBatch(t) PROVE TypeOK'
  <2>1. req[t] \in Requests
    BY <1>6 DEF ClassifyBatch, RequestInv
  <2>2. Classify(committed, profile, req[t]) \in Plans
    BY <2>1, RequestFields DEF Classify, UpsertsWith, Plans
  <2>3. Classify(committed, profile, req[t]).index \in SUBSET Nat
    BY <2>2 DEF Plans
  <2> QED
    BY <1>6, <2>2, <2>3 DEF ClassifyBatch, TypeOK, Goto, PCs
<1>7. ASSUME NEW t \in Threads, TakeWriter(t) PROVE TypeOK'
  BY <1>7 DEF TakeWriter, TypeOK, Goto, PCs, DocStates
<1>8. ASSUME NEW t \in Threads, NEW i \in todo[t], StageDocument(t, i) PROVE TypeOK'
  <2>1. req[t] \in Requests /\ i \in DOMAIN req[t].ups
    BY <1>8 DEF StageDocument, RequestInv, PlanInv, Planned
  <2>2. Written(req[t], i, profile) \in DocStates
    BY <2>1, WrittenType DEF TypeOK, DocStates
  <2> QED
    BY <1>8, <2>2 DEF StageDocument, TypeOK
<1>9. ASSUME NEW t \in Threads, NEW i \in todo[t], StageFails(t, i) PROVE TypeOK'
  BY <1>9 DEF StageFails, TypeOK, Goto, PCs, DocStates
<1>10. ASSUME NEW t \in Threads, Commit(t) PROVE TypeOK'
  <2>1. Merged \in [Docs -> DocStates]
    BY DEF Merged, TypeOK
  <2> QED
    BY <1>10, <2>1 DEF Commit, TypeOK, Goto, PCs, Clean
<1>11. ASSUME NEW t \in Threads, CommitFails(t) PROVE TypeOK'
  BY <1>11 DEF CommitFails, TypeOK, Goto, PCs
<1>12. ASSUME NEW t \in Threads, Rollback(t) PROVE TypeOK'
  BY <1>4, <1>12 DEF Rollback, RolledBack, TypeOK, Clean
<1>13. CASE ReleaseWriter
  BY <1>13 DEF ReleaseWriter, TypeOK, Clean
<1>14. CASE Crash
  BY <1>14, ExpectedType DEF Crash, TypeOK, Clean, NoPlan, Plans, PCs
<1>15. CASE UNCHANGED vars
  BY <1>15 DEF TypeOK
<1> QED
  BY <1>1, <1>2, <1>3, <1>5, <1>6, <1>7, <1>8, <1>9, <1>10, <1>11, <1>12, <1>13, <1>14, <1>15
  DEF Next, Step
\* A thread that is idle or waiting holds no lock: leaving a request and
\* taking the next step of it keep the locks where they are.
LEMMA LockStep == IInv /\ [Next]_vars => LockInv'
<1> SUFFICES ASSUME IInv, [Next]_vars PROVE LockInv'
  OBVIOUS
<1> USE ThreadAssumption DEF IInv, LockInv, Holding, TypeOK, Goto
<1>1. ASSUME NEW t \in Threads, NEW r \in Requests, Begin(t, r) PROVE LockInv'
  BY <1>1 DEF Begin
<1>2. ASSUME NEW t \in Threads, LockDelta(t) PROVE LockInv'
  BY <1>2 DEF LockDelta, DeltaLockFree
<1>3. ASSUME NEW t \in Threads, CheckPreconditions(t) PROVE LockInv'
  BY <1>3 DEF CheckPreconditions
<1>4. ASSUME NEW t \in Threads, Refuse(t) PROVE LockInv'
  BY <1>4 DEF Refuse, Return, UnlockDelta
<1>5. ASSUME NEW t \in Threads, WriterUnavailable(t) PROVE LockInv'
  BY <1>5 DEF WriterUnavailable, Return, UnlockDelta
<1>6. ASSUME NEW t \in Threads, ClassifyBatch(t) PROVE LockInv'
  BY <1>6 DEF ClassifyBatch
<1>7. ASSUME NEW t \in Threads, TakeWriter(t) PROVE LockInv'
  BY <1>7 DEF TakeWriter
<1>8. ASSUME NEW t \in Threads, NEW i \in todo[t], StageDocument(t, i) PROVE LockInv'
  BY <1>8 DEF StageDocument
<1>9. ASSUME NEW t \in Threads, NEW i \in todo[t], StageFails(t, i) PROVE LockInv'
  BY <1>9 DEF StageFails
<1>10. ASSUME NEW t \in Threads, Commit(t) PROVE LockInv'
  BY <1>10 DEF Commit
<1>11. ASSUME NEW t \in Threads, CommitFails(t) PROVE LockInv'
  BY <1>11 DEF CommitFails
<1>12. ASSUME NEW t \in Threads, Rollback(t) PROVE LockInv'
  BY <1>12 DEF Rollback, Return, UnlockDelta
<1>13. ASSUME NEW t \in Threads, Report(t) PROVE LockInv'
  BY <1>13 DEF Report, Return, UnlockDelta
<1>14. CASE ReleaseWriter
  BY <1>14 DEF ReleaseWriter
<1>15. CASE Crash
  BY <1>15 DEF Crash
<1>16. CASE UNCHANGED vars
  BY <1>16
<1> QED
  BY <1>1, <1>2, <1>3, <1>4, <1>5, <1>6, <1>7, <1>8, <1>9, <1>10, <1>11, <1>12, <1>13, <1>14,
     <1>15, <1>16
  DEF Next, Step

\* A request is accepted when it begins and does not change until it returns.
LEMMA RequestStep == IInv /\ [Next]_vars => RequestInv'
<1> SUFFICES ASSUME IInv, [Next]_vars PROVE RequestInv'
  OBVIOUS
<1> USE DEF IInv, RequestInv, TypeOK, Goto
<1>1. ASSUME NEW t \in Threads, NEW r \in Requests, Begin(t, r) PROVE RequestInv'
  BY <1>1 DEF Begin
<1>2. ASSUME NEW t \in Threads, Return(t) PROVE RequestInv'
  BY <1>2 DEF Return
<1>3. ASSUME NEW t \in Threads, pc[t] # "idle", NEW label, Goto(t, label), UNCHANGED req
      PROVE RequestInv'
  BY <1>3
<1>4. ASSUME NEW t \in Threads, Step(t) PROVE RequestInv'
  <2>1. \/ Return(t)
        \/ pc[t] # "idle" /\ UNCHANGED <<pc, req>>
        \/ pc[t] # "idle" /\ UNCHANGED req /\ \E label : Goto(t, label)
    BY <1>4
    DEF Step, LockDelta, CheckPreconditions, Refuse, WriterUnavailable, ClassifyBatch, TakeWriter,
        StageDocument, StageFails, Commit, CommitFails, Rollback, Report
  <2> QED
    BY <1>2, <1>3, <2>1
<1>5. CASE ReleaseWriter
  BY <1>5 DEF ReleaseWriter
<1>6. CASE Crash
  BY <1>6 DEF Crash
<1>7. CASE UNCHANGED vars
  BY <1>7
<1> QED
  BY <1>1, <1>4, <1>5, <1>6, <1>7 DEF Next

\* Plans stay within their request, and staging goes upwards through them.
LEMMA PlanStep == IInv /\ [Next]_vars => PlanInv'
<1> SUFFICES ASSUME IInv, [Next]_vars PROVE PlanInv'
  OBVIOUS
<1> USE DEF IInv, PlanInv, Planned, TypeOK, Goto
<1>1. ASSUME NEW t \in Threads, NEW r \in Requests, Begin(t, r) PROVE PlanInv'
  BY <1>1 DEF Begin
<1>2. ASSUME NEW t \in Threads, LockDelta(t) PROVE PlanInv'
  BY <1>2 DEF LockDelta, Unconditional
<1>3. ASSUME NEW t \in Threads, Return(t) PROVE PlanInv'
  BY <1>3 DEF Return
<1>4. ASSUME NEW t \in Threads, ClassifyBatch(t) PROVE PlanInv'
  <2>1. LET new == Classify(committed, profile, req[t])
        IN  /\ new.index \subseteq DOMAIN req[t].ups
            /\ new.unchanged \subseteq DOMAIN req[t].ups
            /\ new.delete \subseteq req[t].dels
    BY DEF Classify, UpsertsWith
  <2> QED
    BY <1>4, <2>1 DEF ClassifyBatch
<1>5. ASSUME NEW t \in Threads, NEW i \in todo[t], StageDocument(t, i) PROVE PlanInv'
  <2>1. \A j \in todo[t] : j \in Nat
    OBVIOUS
  <2> QED
    BY <1>5, <2>1 DEF StageDocument, NextUpsert
<1>6. ASSUME NEW t \in Threads, NEW i \in todo[t], StageFails(t, i) PROVE PlanInv'
  BY <1>6 DEF StageFails
<1>7. ASSUME NEW t \in Threads, CheckPreconditions(t) \/ TakeWriter(t) \/ Commit(t) \/ CommitFails(t)
      PROVE PlanInv'
  BY <1>7 DEF CheckPreconditions, TakeWriter, Commit, CommitFails
<1>8. CASE ReleaseWriter
  BY <1>8 DEF ReleaseWriter
<1>9. CASE Crash
  BY <1>9 DEF Crash
<1>10. CASE UNCHANGED vars
  BY <1>10
<1>11. ASSUME NEW t \in Threads, Refuse(t) \/ WriterUnavailable(t) \/ Rollback(t) \/ Report(t)
       PROVE PlanInv'
  BY <1>3, <1>11 DEF Refuse, WriterUnavailable, Rollback, Report
<1> QED
  BY <1>1, <1>2, <1>4, <1>5, <1>6, <1>7, <1>8, <1>9, <1>10, <1>11 DEF Next, Step

\* The latest of the upserts staged so far is the one staged last.
LEMMA LatestIsLast ==
  ASSUME NEW I \in SUBSET Nat, NEW i \in Nat, \A j \in I : j < i
  PROVE  Latest(I \cup {i}) = i
<1>1. \A j \in I \cup {i} : j <= i
  OBVIOUS
<1>2. \A k \in I \cup {i} : (\A j \in I \cup {i} : j <= k) => k = i
  OBVIOUS
<1> QED
  BY <1>1, <1>2 DEF Latest

\* Staging one more upsert of a batch.
LEMMA PendingNext ==
  ASSUME IInv, NEW t \in Threads, NEW i \in todo[t], StageDocument(t, i)
  PROVE  Pending(t)' = [Pending(t) EXCEPT ![req[t].ups[i].doc] = Written(req[t], i, profile)]
<1> DEFINE r == req[t]
           done == plan[t].index \ todo[t]
<1>1. /\ pc[t] = "stage" /\ r \in Requests /\ DOMAIN r.ups \subseteq Nat
      /\ todo[t] \subseteq plan[t].index /\ plan[t].index \subseteq DOMAIN r.ups
      /\ \A j \in done : j < i
  BY RequestFields DEF IInv, RequestInv, PlanInv, Planned, StageDocument
<1>2. r.ups[i].doc \in Docs /\ i \in Nat
  BY <1>1, RequestFields
<1>3. /\ (plan[t].index \ todo[t])' = done \cup {i}
      /\ req' = req /\ plan' = plan /\ profile' = profile
  BY <1>1 DEF StageDocument, IInv, TypeOK
<1>4. ASSUME NEW d \in Docs, d = r.ups[i].doc
      PROVE  Pending(t)'[d] = Written(r, i, profile)
  <2>1. UpsertsOf(r, done \cup {i}, d) = UpsertsOf(r, done, d) \cup {i}
    BY <1>4 DEF UpsertsOf
  <2>2. UpsertsOf(r, done, d) \in SUBSET Nat /\ \A j \in UpsertsOf(r, done, d) : j < i
    BY <1>1 DEF UpsertsOf
  <2>3. Latest(UpsertsOf(r, done \cup {i}, d)) = i
    BY <1>2, <2>1, <2>2, LatestIsLast
  <2> QED
    BY <1>3, <2>1, <2>3 DEF Pending
<1>5. ASSUME NEW d \in Docs, d # r.ups[i].doc
      PROVE  Pending(t)'[d] = Pending(t)[d]
  <2>1. UpsertsOf(r, done \cup {i}, d) = UpsertsOf(r, done, d)
    BY <1>5 DEF UpsertsOf
  <2> QED
    BY <1>3, <2>1 DEF Pending
<1>6. Pending(t)' = [d \in Docs |-> Pending(t)'[d]] /\ DOMAIN Pending(t) = Docs
  BY DEF Pending
<1>7. \A d \in Docs : Pending(t)'[d] =
        [Pending(t) EXCEPT ![r.ups[i].doc] = Written(r, i, profile)][d]
  BY <1>4, <1>5, <1>6
<1> QED
  BY <1>2, <1>6, <1>7

\* The writer holds what its thread staged, and nothing once it is let go.
LEMMA StagedStep == IInv /\ [Next]_vars => StagedInv'
<1> SUFFICES ASSUME IInv, [Next]_vars PROVE StagedInv'
  OBVIOUS
<1> USE ThreadAssumption DEF IInv, StagedInv, LockInv, TypeOK, Goto
<1>0. ASSUME NEW s \in Threads, req'[s] = req[s], plan'[s] = plan[s], todo'[s] = todo[s],
             profile' = profile
      PROVE  Pending(s)' = Pending(s)
  BY <1>0 DEF Pending, UpsertsOf
<1>1. ASSUME NEW t \in Threads, \A s \in Threads : pc'[s] = "stage" => s # t,
             \A s \in Threads \ {t} : pc'[s] = pc[s] /\ req'[s] = req[s]
                                      /\ plan'[s] = plan[s] /\ todo'[s] = todo[s],
             profile' = profile, staged' = staged, writerLock' = writerLock
      PROVE  StagedInv'
  BY <1>0, <1>1
<1>2. ASSUME NEW t \in Threads, NEW r \in Requests, Begin(t, r) PROVE StagedInv'
  BY <1>1, <1>2 DEF Begin
<1>3. ASSUME NEW t \in Threads, LockDelta(t) \/ CheckPreconditions(t) \/ ClassifyBatch(t)
      PROVE StagedInv'
  BY <1>1, <1>3 DEF LockDelta, CheckPreconditions, ClassifyBatch
<1>4. ASSUME NEW t \in Threads, Refuse(t) \/ WriterUnavailable(t) \/ Report(t) PROVE StagedInv'
  BY <1>1, <1>4 DEF Refuse, WriterUnavailable, Report, Return
<1>5. ASSUME NEW t \in Threads, TakeWriter(t) PROVE StagedInv'
  <2>1. staged = Clean /\ \A s \in Threads : pc'[s] = "stage" => s = t
    BY <1>5 DEF TakeWriter
  <2>2. plan' = plan /\ todo' = todo /\ req' = req /\ profile' = profile
    BY <1>5 DEF TakeWriter
  <2>3. \A d \in Docs : UpsertsOf(req[t], plan[t].index \ todo[t], d) = {}
    BY <1>5 DEF TakeWriter, PlanInv, UpsertsOf
  <2>4. Pending(t)' = [d \in Docs |-> IF d \in plan[t].delete THEN Absent ELSE Keep]
    BY <2>2, <2>3 DEF Pending
  <2>5. staged' = [d \in Docs |-> IF d \in plan[t].delete THEN Absent ELSE Keep]
    BY <1>5, <2>1 DEF TakeWriter, Clean
  <2>6. writerLock' = t
    BY <1>5 DEF TakeWriter
  <2> QED
    BY <2>1, <2>4, <2>5, <2>6
<1>6. ASSUME NEW t \in Threads, NEW i \in todo[t], StageDocument(t, i) PROVE StagedInv'
  <2>1. /\ pc' = pc /\ pc[t] = "stage" /\ writerLock' = writerLock
        /\ staged' = [staged EXCEPT ![req[t].ups[i].doc] = Written(req[t], i, profile)]
    BY <1>6 DEF StageDocument
  <2>2. staged' = Pending(t)'
    BY <1>6, <2>1, PendingNext
  <2> QED
    BY <2>1, <2>2
<1>7. ASSUME NEW t \in Threads, NEW i \in todo[t], StageFails(t, i) PROVE StagedInv'
  BY <1>7 DEF StageFails
<1>8. ASSUME NEW t \in Threads, CommitFails(t) PROVE StagedInv'
  BY <1>8 DEF CommitFails
<1>9. ASSUME NEW t \in Threads, Commit(t) PROVE StagedInv'
  BY <1>9 DEF Commit
<1>10. ASSUME NEW t \in Threads, Rollback(t) PROVE StagedInv'
  BY <1>10 DEF Rollback, RolledBack, Return
<1>11. CASE ReleaseWriter
  BY <1>11 DEF ReleaseWriter, WriterIdle
<1>12. CASE Crash
  BY <1>12 DEF Crash
<1>13. CASE UNCHANGED vars
  BY <1>0, <1>13
<1> QED
  BY <1>2, <1>3, <1>4, <1>5, <1>6, <1>7, <1>8, <1>9, <1>10, <1>11, <1>12, <1>13 DEF Next, Step

\* Only the holder of the delta lock commits, so no plan goes stale.
LEMMA CurrentStep == IInv /\ [Next]_vars => CheckedInv' /\ PlanIsCurrent'
<1> DEFINE Current == CheckedInv /\ PlanIsCurrent
<1> SUFFICES ASSUME IInv, [Next]_vars PROVE Current'
  OBVIOUS
<1> USE ThreadAssumption DEF IInv, CheckedInv, PlanIsCurrent, LockInv, Holding, TypeOK, Goto
<1>1. ASSUME NEW t \in Threads, pc'[t] \notin {"check", "classify", "writer", "stage"},
             \A s \in Threads \ {t} : pc'[s] = pc[s] /\ req'[s] = req[s]
                                      /\ plan'[s] = plan[s] /\ want'[s] = want[s],
             profile' = profile, committed' = committed
      PROVE  Current'
  BY <1>1
<1>2. ASSUME NEW t \in Threads, NEW r \in Requests, Begin(t, r) PROVE Current'
  BY <1>1, <1>2 DEF Begin
<1>3. ASSUME NEW t \in Threads, LockDelta(t) PROVE Current'
  <2>1. \A s \in Threads : pc[s] \notin {"check", "classify", "writer", "stage"}
    BY <1>3 DEF LockDelta, DeltaLockFree
  <2> QED
    BY <1>3, <2>1 DEF LockDelta, PlanFor
<1>4. ASSUME NEW t \in Threads, CheckPreconditions(t) PROVE Current'
  BY <1>4 DEF CheckPreconditions
<1>5. ASSUME NEW t \in Threads, Refuse(t) \/ WriterUnavailable(t) \/ Rollback(t) \/ Report(t)
      PROVE Current'
  BY <1>1, <1>5 DEF Refuse, WriterUnavailable, Rollback, Report, Return
<1>6. ASSUME NEW t \in Threads, ClassifyBatch(t) PROVE Current'
  BY <1>6 DEF ClassifyBatch, PlanFor
<1>7. ASSUME NEW t \in Threads, TakeWriter(t) PROVE Current'
  BY <1>7 DEF TakeWriter
<1>8. ASSUME NEW t \in Threads, NEW i \in todo[t], StageDocument(t, i) PROVE Current'
  BY <1>8 DEF StageDocument
<1>9. ASSUME NEW t \in Threads, NEW i \in todo[t], StageFails(t, i) PROVE Current'
  BY <1>1, <1>9 DEF StageFails
<1>10. ASSUME NEW t \in Threads, Commit(t) PROVE Current'
  BY <1>10 DEF Commit
<1>11. ASSUME NEW t \in Threads, CommitFails(t) PROVE Current'
  BY <1>1, <1>11 DEF CommitFails
<1>12. CASE ReleaseWriter
  BY <1>12 DEF ReleaseWriter
<1>13. CASE Crash
  BY <1>13 DEF Crash
<1>14. CASE UNCHANGED vars
  BY <1>14
<1> QED
  BY <1>2, <1>3, <1>4, <1>5, <1>6, <1>7, <1>8, <1>9, <1>10, <1>11, <1>12, <1>13, <1>14
  DEF Next, Step

\* No document is torn where a commit publishes it.
LEMMA WholeStep == IInv /\ [Next]_vars => StagedWhole' /\ DocumentsWhole'
<1> DEFINE Whole == StagedWhole /\ DocumentsWhole
<1> SUFFICES ASSUME IInv, [Next]_vars PROVE Whole'
  OBVIOUS
<1> USE ThreadAssumption, DataAssumption
    DEF IInv, StagedWhole, DocumentsWhole, LockInv, TypeOK, Goto
<1>1. Absent # Torn /\ Keep # Torn /\ \A d \in Docs : Clean[d] # Torn
  BY DEF Clean, DocStates
<1>2. ASSUME NEW t \in Threads, NEW r \in Requests, Begin(t, r) PROVE Whole'
  BY <1>2 DEF Begin
<1>3. ASSUME NEW t \in Threads, LockDelta(t) \/ CheckPreconditions(t) \/ ClassifyBatch(t)
      PROVE Whole'
  BY <1>3 DEF LockDelta, CheckPreconditions, ClassifyBatch
<1>4. ASSUME NEW t \in Threads, Refuse(t) \/ WriterUnavailable(t) \/ Report(t) PROVE Whole'
  BY <1>4 DEF Refuse, WriterUnavailable, Report, Return
<1>5. ASSUME NEW t \in Threads, TakeWriter(t) PROVE Whole'
  <2>1. staged = Clean
    BY <1>5 DEF TakeWriter, StagedInv
  <2>2. pc[t] = "writer" /\ plan[t].index \ todo[t] = {}
    BY <1>5 DEF TakeWriter, PlanInv
  <2> QED
    BY <1>1, <1>5, <2>1, <2>2 DEF TakeWriter
<1>6. ASSUME NEW t \in Threads, NEW i \in todo[t], StageDocument(t, i) PROVE Whole'
  <2>1. req[t] \in Requests /\ i \in DOMAIN req[t].ups /\ profile \in Profiles
    BY <1>6 DEF StageDocument, RequestInv, PlanInv, Planned
  <2>2. Written(req[t], i, profile) # Torn /\ Written(req[t], i, profile) # Keep
    BY <2>1, WrittenType DEF DocStates
  <2>3. \A j \in DOMAIN req[t].ups : req[t].ups[j].doc \in Docs
    BY <2>1, RequestFields
  <2>4. plan[t].index \subseteq DOMAIN req[t].ups
    BY <1>6 DEF StageDocument, PlanInv, Planned
  <2> QED
    BY <1>6, <2>2, <2>3, <2>4 DEF StageDocument
<1>7. ASSUME NEW t \in Threads, NEW i \in todo[t], StageFails(t, i) PROVE Whole'
  BY <1>7 DEF StageFails
<1>8. ASSUME NEW t \in Threads, Commit(t) PROVE Whole'
  <2>1. \A d \in Docs : Merged[d] # Torn
    BY <1>8 DEF Commit, Merged
  <2> QED
    BY <1>1, <1>8, <2>1 DEF Commit
<1>9. ASSUME NEW t \in Threads, CommitFails(t) \/ Rollback(t) PROVE Whole'
  BY <1>1, <1>9 DEF CommitFails, Rollback, RolledBack, Return
<1>10. CASE ReleaseWriter
  BY <1>1, <1>10 DEF ReleaseWriter, WriterIdle
<1>11. CASE Crash
  BY <1>1, <1>11 DEF Crash
<1>12. CASE UNCHANGED vars
  BY <1>12
<1> QED
  BY <1>2, <1>3, <1>4, <1>5, <1>6, <1>7, <1>8, <1>9, <1>10, <1>11, <1>12 DEF Next, Step

-----------------------------------------------------------------------------
(* Theorems *)

\* The invariant is inductive.
LEMMA IInvStep == IInv /\ [Next]_vars => IInv'
BY TypeStep, LockStep, RequestStep, PlanStep, StagedStep, CurrentStep, WholeStep DEF IInv

\* It holds in every state of the system.
THEOREM Invariance == Spec => []IInv
BY InitInv, IInvStep, PTL DEF Spec

\* Type correctness of the write paths.
THEOREM TypeCorrect == Spec => []TypeOK
<1>1. IInv => TypeOK
  BY DEF IInv
<1> QED
  BY <1>1, Invariance, PTL

\* No write commits between the moment apply_delta (delta.rs) reads the
\* committed state and its own commit: plans and preconditions stay true.
THEOREM PlansStayCurrent == Spec => []PlanIsCurrent
<1>1. IInv => PlanIsCurrent
  BY DEF IInv
<1> QED
  BY <1>1, Invariance, PTL

\* No document is ever committed half-written, whatever fails or crashes.
THEOREM DocumentsStayWhole == Spec => []DocumentsWhole
<1>1. IInv => DocumentsWhole
  BY DEF IInv
<1> QED
  BY <1>1, Invariance, PTL

-----------------------------------------------------------------------------
(* What a commit does to the documents. *)

\* The commit publishes the deletes of the plan and then all its upserts.
LEMMA CommitEffect ==
  ASSUME IInv, NEW t \in Threads, Commit(t)
  PROVE  committed' = Effect(committed, profile, req[t], plan[t])
<1>1. /\ pc[t] = "stage" /\ staged = Pending(t) /\ plan[t].index \ todo[t] = plan[t].index
      /\ \A i \in plan[t].index : staged[req[t].ups[i].doc] # Keep
  BY DEF Commit, IInv, StagedInv, StagedWhole
<1>2. ASSUME NEW d \in Docs
      PROVE  Merged[d] = Effect(committed, profile, req[t], plan[t])[d]
  <2> DEFINE I == UpsertsOf(req[t], plan[t].index, d)
  <2>1. Pending(t)[d] = IF I # {} THEN Written(req[t], Latest(I), profile)
                        ELSE IF d \in plan[t].delete THEN Absent ELSE Keep
    BY <1>1, Zenon DEF Pending
  <2>2. I # {} => staged[d] # Keep
    BY <1>1 DEF UpsertsOf
  <2>3. Absent # Keep
    BY ThreadAssumption DEF DocStates
  <2>4. Effect(committed, profile, req[t], plan[t])[d] =
          IF I # {} THEN Written(req[t], Latest(I), profile)
          ELSE IF d \in plan[t].delete THEN Absent ELSE committed[d]
    BY DEF Effect
  <2>5. Merged[d] = IF staged[d] = Keep THEN committed[d] ELSE staged[d]
    BY DEF Merged
  <2> HIDE DEF I
  <2> QED
    BY <1>1, <2>1, <2>2, <2>3, <2>4, <2>5
<1> QED
  BY <1>2 DEF Commit, Merged, Effect

\* A document with a sentinel that doc_fingerprint can find is found.
LEMMA FingerprintFound ==
  ASSUME NEW C, NEW d \in Docs, C[d] \notin {Absent, Torn}, C[d].content \notin Oversized
  PROVE  DocFingerprint(C, d) = C[d]
BY DEF DocFingerprint, Sentinels

\* Only Commit takes a thread to its report.
LEMMA OnlyCommit ==
  ASSUME IInv, [Next]_vars, NEW t \in Threads, pc[t] # "report", pc'[t] = "report"
  PROVE  Commit(t)
<1> USE DEF IInv, TypeOK, Goto
<1>1. pc'[t] # pc[t] /\ pc'[t] # "idle"
  OBVIOUS
<1>2. ~Crash /\ ~ReleaseWriter /\ ~UNCHANGED vars
  BY <1>1 DEF Crash, ReleaseWriter
<1>3. \A s \in Threads, r \in Requests : ~Begin(s, r)
  BY <1>1 DEF Begin
<1>4. ASSUME NEW s \in Threads, Step(s) PROVE Commit(t)
  <2>1. ~Refuse(s) /\ ~WriterUnavailable(s) /\ ~Rollback(s) /\ ~Report(s)
    BY <1>1 DEF Refuse, WriterUnavailable, Rollback, Report, Return
  <2>2. ~LockDelta(s) /\ ~CheckPreconditions(s) /\ ~ClassifyBatch(s) /\ ~TakeWriter(s)
    BY <1>1 DEF LockDelta, CheckPreconditions, ClassifyBatch, TakeWriter
  <2>3. ~CommitFails(s) /\ \A i \in todo[s] : ~StageDocument(s, i) /\ ~StageFails(s, i)
    BY <1>1 DEF CommitFails, StageDocument, StageFails
  <2>4. Commit(s)
    BY <1>4, <2>1, <2>2, <2>3 DEF Step
  <2> QED
    BY <1>1, <2>4 DEF Commit
<1> QED
  BY <1>2, <1>3, <1>4 DEF Next

\* A scoped commit leaves every document of another source alone.
LEMMA ScopeStep == IInv /\ [Next]_vars => \A t \in Threads : ScopeKept(t)
<1> SUFFICES ASSUME IInv, [Next]_vars, NEW t \in Threads, CommitOf(t), req[t].scope # NoSource,
                    NEW d \in Docs, Foreign(committed[d], req[t].scope),
                    committed[d].content \notin Oversized
             PROVE  committed'[d] = committed[d]
  BY DEF ScopeKept
<1> DEFINE r == req[t]
           fp == DocFingerprint(committed, d)
<1>1. Commit(t)
  BY OnlyCommit DEF CommitOf
<1>2. pc[t] = "stage" /\ r \in Requests /\ r.op = "delta"
  BY <1>1, RequestAssumption DEF Commit, IInv, RequestInv
<1>3. plan[t] = Classify(committed, profile, r)
  BY <1>2 DEF IInv, PlanIsCurrent, PlanFor
<1>4. fp = committed[d] /\ fp # Absent /\ ~InScope(fp, r.scope)
  BY FingerprintFound DEF IInv, DocumentsWhole, Foreign, InScope
<1>5. UpsertsOf(r, plan[t].index, d) = {}
  BY <1>3, <1>4 DEF UpsertsOf, Classify, UpsertsWith, UpsertStatus
<1>6. d \notin plan[t].delete
  BY <1>3, <1>4 DEF Classify, DeleteStatus
<1>7. committed'[d] = Effect(committed, profile, r, plan[t])[d]
  BY <1>1, CommitEffect
<1> QED
  BY <1>5, <1>6, <1>7 DEF Effect

\* No interleaving of requests crosses a scope: theorem for every batch size
\* and every number of threads.
THEOREM ScopesAreProtected == Spec => ScopeProtected
BY Invariance, ScopeStep, PTL DEF Spec, ScopeProtected

-----------------------------------------------------------------------------
(* What an outcome reports. *)

\* A batch that names each document once finds its upserts as it wrote them,
\* its unchanged documents as it read them and its deletes gone.
LEMMA CommitReports ==
  ASSUME IInv, NEW t \in Threads, Commit(t), DistinctDocs(req[t])
  PROVE  Reported(t)'
<1> DEFINE r == req[t]
           C == committed
<1>1. /\ pc[t] = "stage" /\ r \in Requests /\ Accepted(r)
      /\ plan[t] = PlanFor(C, profile, r)
      /\ r' = r /\ profile' = profile /\ plan' = plan
      /\ plan[t].index \subseteq DOMAIN r.ups
      /\ plan[t].unchanged \subseteq DOMAIN r.ups
      /\ plan[t].delete \subseteq r.dels
      /\ profile \in Profiles
  BY DEF Commit, IInv, RequestInv, PlanIsCurrent, PlanInv, Planned, TypeOK
<1>2. /\ DOMAIN r.ups \subseteq Nat
      /\ \A i \in DOMAIN r.ups : r.ups[i].doc \in Docs /\ r.ups[i].content \in Contents
      /\ r.dels \subseteq Docs
  BY <1>1, RequestFields
<1>3. committed' = Effect(C, profile, r, plan[t])
  BY CommitEffect
<1>4. ASSUME NEW i \in plan[t].index
      PROVE  /\ committed'[r.ups[i].doc].content = r.ups[i].content
             /\ committed'[r.ups[i].doc].profile = profile
  <2>1. UpsertsOf(r, plan[t].index, r.ups[i].doc) = {} \cup {i}
    BY <1>1 DEF UpsertsOf, DistinctDocs
  <2>2. Latest({} \cup {i}) = i
    BY <1>1, <1>2, LatestIsLast
  <2>3. committed'[r.ups[i].doc] = Written(r, i, profile)
    BY <1>1, <1>2, <1>3, <2>1, <2>2 DEF Effect
  <2> QED
    BY <2>3 DEF Written
<1>5. ASSUME NEW i \in plan[t].unchanged
      PROVE  /\ committed'[r.ups[i].doc].content = r.ups[i].content
             /\ committed'[r.ups[i].doc].profile = profile
  <2> DEFINE d == r.ups[i].doc
             fp == DocFingerprint(C, d)
  <2>1. r.op = "delta" /\ plan[t] = Classify(C, profile, r)
    BY <1>1 DEF PlanFor, Unconditional
  <2>2. UpsertStatus(fp, r, i, profile) = "unchanged"
    BY <2>1 DEF Classify, UpsertsWith
  <2>3. fp # Absent /\ fp.content = r.ups[i].content /\ fp.profile = profile
    BY <2>2 DEF UpsertStatus, ShouldSkipUpsert
  <2>4. C[d] = fp
    BY <2>3 DEF DocFingerprint
  <2>5. i \notin plan[t].index
    BY <2>1, <2>2 DEF Classify, UpsertsWith
  <2>6. UpsertsOf(r, plan[t].index, d) = {}
    BY <1>1, <2>5 DEF UpsertsOf, DistinctDocs
  <2>7. d \notin plan[t].delete
    BY <1>1, <2>1 DEF Accepted
  <2>8. committed'[d] = C[d]
    BY <1>1, <1>2, <1>3, <2>6, <2>7 DEF Effect
  <2> QED
    BY <2>3, <2>4, <2>8
<1>6. ASSUME NEW d \in plan[t].delete
      PROVE  committed'[d] = Absent
  <2>1. \A i \in DOMAIN r.ups : r.ups[i].doc # d
    BY <1>1, RequestAssumption DEF Accepted, RequestType
  <2>2. UpsertsOf(r, plan[t].index, d) = {}
    BY <1>1, <2>1 DEF UpsertsOf
  <2> QED
    BY <1>1, <1>2, <1>3, <2>2 DEF Effect
<1> QED
  BY <1>1, <1>4, <1>5, <1>6 DEF Reported

\* While a thread reports, it holds the delta lock: nobody else commits.
LEMMA ReportHolds ==
  ASSUME IInv, [Next]_vars, NEW t \in Threads, pc[t] = "report", pc'[t] = "report"
  PROVE  /\ req'[t] = req[t] /\ plan'[t] = plan[t]
         /\ profile' = profile /\ committed' = committed
<1> USE ThreadAssumption DEF IInv, TypeOK, LockInv, Holding, Goto
<1>1. ~Crash
  BY DEF Crash
<1>2. ASSUME NEW s \in Threads, NEW r \in Requests, Begin(s, r)
      PROVE  UNCHANGED <<req[t], plan[t], profile, committed>>
  BY <1>2 DEF Begin
<1>3. ASSUME NEW s \in Threads, Step(s)
      PROVE  UNCHANGED <<req[t], plan[t], profile, committed>>
  <2>1. CASE LockDelta(s) \/ CheckPreconditions(s) \/ ClassifyBatch(s) \/ TakeWriter(s)
    BY <2>1 DEF LockDelta, CheckPreconditions, ClassifyBatch, TakeWriter
  <2>2. CASE Refuse(s) \/ WriterUnavailable(s) \/ Rollback(s) \/ Report(s)
    BY <2>2 DEF Refuse, WriterUnavailable, Rollback, Report, Return
  <2>3. CASE CommitFails(s) \/ \E i \in todo[s] : StageDocument(s, i) \/ StageFails(s, i)
    BY <2>3 DEF CommitFails, StageDocument, StageFails
  <2>4. CASE Commit(s)
    BY <2>4 DEF Commit
  <2> QED
    BY <1>3, <2>1, <2>2, <2>3, <2>4 DEF Step
<1>4. CASE ReleaseWriter \/ UNCHANGED vars
  BY <1>4 DEF ReleaseWriter
<1> QED
  BY <1>1, <1>2, <1>3, <1>4 DEF Next

\* Once reported, an outcome stays true until its thread returns.
LEMMA ReportStep == IInv /\ ReportIsTrue /\ [Next]_vars => ReportIsTrue'
<1> SUFFICES ASSUME IInv, ReportIsTrue, [Next]_vars, NEW t \in Threads,
                    pc'[t] = "report", DistinctDocs(req'[t])
             PROVE  Reported(t)'
  BY DEF ReportIsTrue
<1>1. CASE Commit(t)
  <2>1. DistinctDocs(req[t])
    BY <1>1 DEF Commit
  <2> QED
    BY <1>1, <2>1, CommitReports
<1>2. CASE pc[t] = "report"
  BY <1>2, ReportHolds DEF ReportIsTrue, Reported
<1> QED
  BY <1>1, <1>2, OnlyCommit

\* Whatever other requests do, an outcome tells the truth about the documents
\* committed when its digest is read.
THEOREM ReportsAreTrue == Spec => []ReportIsTrue
<1>1. Init => ReportIsTrue
  BY DEF Init, ReportIsTrue
<1> QED
  BY <1>1, Invariance, ReportStep, PTL DEF Spec
-----------------------------------------------------------------------------
(* The refinement: every step of the write paths is a call, an effect, a    *)
(* reply or a restart of the abstract collection, or changes nothing a      *)
(* client can see.                                                          *)

USE DEF shared, locks, local, vars

\* The abstract collection decides about data exactly as the index does.
LEMMA SameData ==
  /\ Abstract!Legacy = Legacy
  /\ \A r : Abstract!Accepted(r) = Accepted(r)
  /\ \A C, scope : Abstract!Digest(C, scope) = Digest(C, scope)
  /\ \A C, r : Abstract!Expected(C, r) = Expected(C, r)
  /\ \A C, p, r, w : Abstract!Preconditions(C, p, r, w) = Preconditions(C, p, r, w)
  /\ \A C, p, r : Abstract!PlanFor(C, p, r) = PlanFor(C, p, r)
  /\ \A C, p, r, pl : Abstract!Effect(C, p, r, pl) = Effect(C, p, r, pl)
<1>1. Abstract!Legacy = Legacy
  BY DEF Abstract!Legacy, Legacy
<1>2. \A r : Abstract!Accepted(r) = Accepted(r)
  BY DEF Abstract!Accepted, Accepted, Abstract!Cardinality, Cardinality
<1>3. \A fp, scope : Abstract!InScope(fp, scope) = InScope(fp, scope)
  BY DEF Abstract!InScope, InScope
<1>4. \A C : Abstract!Sentinels(C) = Sentinels(C)
  BY DEF Abstract!Sentinels, Sentinels
<1>5. \A C, scope : Abstract!Digest(C, scope) = Digest(C, scope)
  BY <1>3, <1>4 DEF Abstract!Digest, Digest
<1>6. Abstract!NoDigest = NoDigest
  BY <1>5 DEF Abstract!NoDigest, NoDigest
<1>7. \A C, r : Abstract!Expected(C, r) = Expected(C, r)
  BY <1>5, <1>6 DEF Abstract!Expected, Expected
<1>8. \A C, p, r, w : Abstract!Preconditions(C, p, r, w) = Preconditions(C, p, r, w)
  BY <1>5 DEF Abstract!Preconditions, Preconditions
<1>9. \A C, d : Abstract!DocFingerprint(C, d) = DocFingerprint(C, d)
  BY <1>4 DEF Abstract!DocFingerprint, DocFingerprint
<1>10. \A fp, r, i, p : Abstract!UpsertStatus(fp, r, i, p) = UpsertStatus(fp, r, i, p)
  BY <1>3 DEF Abstract!UpsertStatus, UpsertStatus, Abstract!ShouldSkipUpsert, ShouldSkipUpsert
<1>11. \A fp, r : Abstract!DeleteStatus(fp, r) = DeleteStatus(fp, r)
  BY <1>3 DEF Abstract!DeleteStatus, DeleteStatus
<1>12. \A status, C, p, r : Abstract!UpsertsWith(status, C, p, r) = UpsertsWith(status, C, p, r)
  BY <1>9, <1>10 DEF Abstract!UpsertsWith, UpsertsWith
<1>13. \A C, p, r : Abstract!Classify(C, p, r) = Classify(C, p, r)
  BY <1>9, <1>11, <1>12 DEF Abstract!Classify, Classify
<1>14. \A C, p, r : Abstract!PlanFor(C, p, r) = PlanFor(C, p, r)
  BY <1>13 DEF Abstract!PlanFor, PlanFor, Abstract!Unconditional, Unconditional
<1>15. \A I : Abstract!Latest(I) = Latest(I)
  BY DEF Abstract!Latest, Latest
<1>16. \A r, i, p : Abstract!Written(r, i, p) = Written(r, i, p)
  BY DEF Abstract!Written, Written
<1>17. \A r, I, d : Abstract!UpsertsOf(r, I, d) = UpsertsOf(r, I, d)
  BY DEF Abstract!UpsertsOf, UpsertsOf
<1>18. \A C, p, r, pl : Abstract!Effect(C, p, r, pl) = Effect(C, p, r, pl)
  BY <1>15, <1>16, <1>17 DEF Abstract!Effect, Effect
<1> QED
  BY <1>1, <1>2, <1>5, <1>7, <1>8, <1>14, <1>18

\* What a client sees of a thread that does not move does not change.
LEMMA SameCall ==
  ASSUME NEW s \in Threads, pc'[s] = pc[s], req'[s] = req[s], want'[s] = want[s],
         plan'[s] = plan[s], pc[s] = "report" => committed' = committed
  PROVE  CallOf(s)' = CallOf(s)
BY DEF CallOf

\* A thread between its call and its effect looks the same throughout.
LEMMA SilentCall ==
  ASSUME NEW s \in Threads, pc[s] \notin {"idle", "report"}, pc'[s] \notin {"idle", "report"},
         req'[s] = req[s], want'[s] = want[s]
  PROVE  CallOf(s)' = CallOf(s)
BY DEF CallOf

\* One thread moves, and only a thread without a report ahead of it commits.
LEMMA OneCall ==
  ASSUME IInv, NEW t \in Threads, NEW c, CallOf(t)' = c,
         \A s \in Threads \ {t} : /\ pc'[s] = pc[s] /\ req'[s] = req[s]
                                  /\ want'[s] = want[s] /\ plan'[s] = plan[s],
         committed' = committed \/ deltaLock = t
  PROVE  Calls' = [Calls EXCEPT ![t] = c]
<1>1. ASSUME NEW s \in Threads \ {t} PROVE CallOf(s)' = CallOf(s)
  <2>1. pc[s] = "report" => committed' = committed
    BY <1>1 DEF IInv, LockInv, Holding
  <2> QED
    BY <1>1, <2>1, SameCall
<1>2. Calls' = [s \in Threads |-> CallOf(s)']
  BY DEF Calls
<1> QED
  BY <1>1, <1>2 DEF Calls

\* The mapping takes initial states to initial states.
LEMMA InitRefines == Init => Abstract!Init
BY SameData DEF Init, Abstract!Init, Abstract!Idle, Calls, CallOf

\* A request begun is a call.
LEMMA BeginRefines ==
  ASSUME IInv, NEW t \in Threads, NEW r \in Requests, Begin(t, r)
  PROVE  Abstract!Call(t, r)
<1> USE DEF IInv, TypeOK, Goto
<1>1. CallOf(t)' = Abstract!Called(r, Expected(committed, r))
  BY DEF Begin, CallOf, Abstract!Called
<1>2. Calls' = [Calls EXCEPT ![t] = Abstract!Called(r, Expected(committed, r))]
  BY <1>1, OneCall DEF Begin
<1>3. Calls[t].phase = "idle"
  BY DEF Begin, Calls, CallOf
<1> QED
  BY <1>2, <1>3, SameData DEF Begin, Abstract!Call

\* A return, with an outcome or an error, is a reply.
LEMMA ReturnRefines ==
  ASSUME IInv, NEW t \in Threads, Return(t), pc[t] # "idle", UNCHANGED <<committed, profile>>
  PROVE  Abstract!Reply(t)
<1> USE DEF IInv, TypeOK, Goto
<1>1. CallOf(t)' = Abstract!Idle
  BY DEF Return, CallOf, Abstract!Idle
<1>2. Calls' = [Calls EXCEPT ![t] = Abstract!Idle]
  BY <1>1, OneCall DEF Return
<1>3. Calls[t].phase # "idle"
  BY DEF Calls, CallOf
<1> QED
  BY <1>2, <1>3 DEF Abstract!Reply

\* The commit is the instant a request takes effect.
LEMMA CommitRefines ==
  ASSUME IInv, NEW t \in Threads, Commit(t)
  PROVE  Abstract!TakeEffect(t)
<1> USE DEF IInv, TypeOK, Goto
<1> DEFINE r == req[t]
<1>1. /\ pc[t] = "stage" /\ deltaLock = t /\ r \in Requests
      /\ pc'[t] = "report" /\ req' = req /\ want' = want /\ plan' = plan
      /\ profile' = profile
  BY DEF Commit, LockInv, Holding, RequestInv
<1>2. /\ plan[t] = PlanFor(committed, profile, r)
      /\ r.op = "delta" => Preconditions(committed, profile, r, want[t])
  BY <1>1 DEF PlanIsCurrent
<1>3. Preconditions(committed, profile, r, want[t])
  BY <1>1, <1>2, RequestAssumption DEF Preconditions
<1>4. committed' = Effect(committed, profile, r, plan[t])
  BY CommitEffect
<1>5. CallOf(t)' = Abstract!Committed(plan[t], Digest(committed', r.scope))
  BY <1>1 DEF CallOf, Abstract!Committed
<1>6. Calls' = [Calls EXCEPT ![t] = Abstract!Committed(plan[t], Digest(committed', r.scope))]
  BY <1>1, <1>5, OneCall DEF Commit
<1>7. Calls[t].phase = "called" /\ Calls[t].req = r /\ Calls[t].want = want[t]
  BY <1>1 DEF Calls, CallOf
<1>8. /\ Abstract!PlanFor(committed, profile, r) = plan[t]
      /\ Abstract!Preconditions(committed, profile, r, want[t])
      /\ committed' = Abstract!Effect(committed, profile, r, plan[t])
      /\ Abstract!Digest(committed', r.scope) = Digest(committed', r.scope)
  BY <1>2, <1>3, <1>4, SameData
<1> HIDE DEF r
<1> QED
  BY <1>1, <1>6, <1>7, <1>8 DEF Abstract!TakeEffect

\* Every step of a thread is a reply, an effect, or invisible.
LEMMA StepRefines ==
  ASSUME IInv, NEW t \in Threads, Step(t)
  PROVE  [Abstract!Next]_(Abstract!vars)
<1> USE DEF IInv, TypeOK, Goto
<1>1. CASE Commit(t)
  BY <1>1, CommitRefines DEF Abstract!Next
<1>2. CASE Refuse(t) \/ WriterUnavailable(t) \/ Rollback(t) \/ Report(t)
  <2>1. Return(t) /\ pc[t] # "idle" /\ UNCHANGED <<committed, profile>>
    BY <1>2 DEF Refuse, WriterUnavailable, Rollback, Report
  <2> QED
    BY <2>1, ReturnRefines DEF Abstract!Next
<1>3. CASE \/ LockDelta(t) \/ CheckPreconditions(t) \/ ClassifyBatch(t) \/ TakeWriter(t)
           \/ CommitFails(t) \/ \E i \in todo[t] : StageDocument(t, i) \/ StageFails(t, i)
  <2>1. /\ pc[t] \notin {"idle", "report"} /\ pc'[t] \notin {"idle", "report"}
        /\ req' = req /\ want' = want /\ UNCHANGED <<committed, profile>>
        /\ \A s \in Threads \ {t} : pc'[s] = pc[s] /\ plan'[s] = plan[s]
    BY <1>3 DEF LockDelta, CheckPreconditions, ClassifyBatch, TakeWriter, CommitFails,
                StageDocument, StageFails
  <2>2. Calls' = [Calls EXCEPT ![t] = CallOf(t)]
    BY <2>1, SilentCall, OneCall
  <2>3. Calls' = Calls
    BY <2>2 DEF Calls
  <2> QED
    BY <2>1, <2>3 DEF Abstract!vars
<1> QED
  BY <1>1, <1>2, <1>3 DEF Step

\* A crash is a restart; giving up the writer is invisible.
LEMMA NextRefines == IInv /\ [Next]_vars => [Abstract!Next]_(Abstract!vars)
<1> SUFFICES ASSUME IInv, [Next]_vars PROVE [Abstract!Next]_(Abstract!vars)
  OBVIOUS
<1>1. CASE Crash
  <2>1. Calls' = [t \in Threads |-> Abstract!Idle]
    BY <1>1 DEF Crash, Calls, CallOf, Abstract!Idle
  <2> QED
    BY <1>1, <2>1 DEF Crash, Abstract!Restart, Abstract!Next
<1>2. CASE ReleaseWriter \/ UNCHANGED vars
  <2>1. UNCHANGED <<pc, req, want, plan, committed, profile>>
    BY <1>2 DEF ReleaseWriter
  <2>2. Calls' = Calls
    BY <2>1 DEF Calls, CallOf
  <2> QED
    BY <2>1, <2>2 DEF Abstract!vars
<1>3. ASSUME NEW t \in Threads, NEW r \in Requests, Begin(t, r)
      PROVE  [Abstract!Next]_(Abstract!vars)
  BY <1>3, BeginRefines DEF Abstract!Next
<1> QED
  BY <1>1, <1>2, <1>3, StepRefines DEF Next

\* The write paths implement the abstract collection: each request takes effect
\* at one instant between its call and its reply, or not at all.
THEOREM WritesAreAtomic == Spec => Atomic
BY InitRefines, NextRefines, Invariance, PTL DEF Spec, Atomic, Abstract!Spec
=============================================================================
