------------------------------ MODULE MsaIndex -------------------------------
(***************************************************************************)
(* One collection: the write paths of MsaIndex (apply_delta,               *)
(* index_documents, delete_document, release_writer) run by concurrent     *)
(* request threads over the collection's delta lock, its long-lived writer *)
(* and the documents committed to disk.                                    *)
(*                                                                         *)
(* The index library underneath is external: its writer holds pending      *)
(* operations that a commit publishes atomically and a rollback forgets.   *)
(***************************************************************************)
EXTENDS IndexData

CONSTANTS
  Threads,    \* the requests that can be in progress at once
  Nobody,     \* no thread
  NoRequest,  \* no request
  Keep        \* the writer has nothing pending for the document

ASSUME ThreadAssumption ==
  /\ Nobody \notin Threads
  /\ NoRequest \notin Requests
  /\ Keep \notin DocStates

VARIABLES
  committed,   \* the documents of the last commit, [Docs -> DocStates]
  profile,     \* the index profile of the running process
  writerOpen,  \* whether writer is Some(IndexWriter)
  staged,      \* what the writer has pending, per document
  deltaLock,   \* the thread that holds delta_lock, or Nobody
  writerLock,  \* the thread that holds the writer mutex, or Nobody
  pc,          \* where each thread is
  req,         \* the request it serves
  want,        \* the digest its client passed as if_manifest_digest
  plan,        \* the classification it has computed
  todo         \* the upserts it has still to stage

shared == <<committed, profile, writerOpen, staged>>
locks  == <<deltaLock, writerLock>>
local  == <<pc, req, want, plan, todo>>
vars   == <<shared, locks, local>>

PCs == {"idle", "lock", "check", "classify", "writer", "stage", "rollback", "report"}

Clean    == [d \in Docs |-> Keep]
NoPlan   == [index |-> {}, unchanged |-> {}, delete |-> {}]

\* The committed documents with the pending operations applied.
Merged == [d \in Docs |-> IF staged[d] = Keep THEN committed[d] ELSE staged[d]]

Goto(t, label) == pc' = [pc EXCEPT ![t] = label]

\* The thread returns to its client and forgets the request.
Return(t) ==
  /\ Goto(t, "idle")
  /\ req' = [req EXCEPT ![t] = NoRequest]
  /\ want' = [want EXCEPT ![t] = NoDigest]
  /\ plan' = [plan EXCEPT ![t] = NoPlan]
  /\ todo' = [todo EXCEPT ![t] = {}]

\* Variant: a return that leaves the delta lock taken.
UnlockDeltaForgotten(t) == UNCHANGED deltaLock

\* The guard of the delta lock goes out of scope on every return.
UnlockDelta(t) == deltaLock' = Nobody

\* Variant: the delta lock is not waited for.
DeltaLockShared == deltaLock \in Threads \cup {Nobody}

DeltaLockFree == deltaLock = Nobody

\* Variant: release_writer does not wait for the writer mutex.
WriterIdleUnchecked == TRUE

\* release_writer may take the writer only between two users of it.
WriterIdle == writerLock = Nobody

\* Variant: an error path that does not roll back.
RolledBackNothing == staged

\* What a rollback leaves pending.
RolledBack == Clean

-----------------------------------------------------------------------------
(* Every process starts by opening the index: no writer, no lock held.     *)

Init == /\ committed \in [Docs -> {Absent, Legacy}]
        /\ profile \in Profiles
        /\ writerOpen = FALSE
        /\ staged = Clean
        /\ deltaLock = Nobody
        /\ writerLock = Nobody
        /\ pc = [t \in Threads |-> "idle"]
        /\ req = [t \in Threads |-> NoRequest]
        /\ want = [t \in Threads |-> NoDigest]
        /\ plan = [t \in Threads |-> NoPlan]
        /\ todo = [t \in Threads |-> {}]

\* A request arrives and passes the checks made before any lock.  A client
\* that guards its write read the manifest of its scope a while ago: now.
Begin(t, r) ==
  /\ pc[t] = "idle"
  /\ Accepted(r)
  /\ Goto(t, "lock")
  /\ req' = [req EXCEPT ![t] = r]
  /\ want' = [want EXCEPT ![t] = Expected(committed, r)]
  /\ UNCHANGED <<shared, locks, plan, todo>>

\* delta_lock is taken; only apply_delta has anything to read under it.
LockDelta(t) ==
  /\ pc[t] = "lock"
  /\ DeltaLockFree
  /\ deltaLock' = t
  /\ \/ /\ req[t].op = "delta"
        /\ Goto(t, "check")
        /\ UNCHANGED <<plan, todo>>
     \/ /\ req[t].op # "delta"
        /\ Goto(t, "writer")
        /\ plan' = [plan EXCEPT ![t] = Unconditional(req[t])]
        /\ todo' = [todo EXCEPT ![t] = Unconditional(req[t]).index]
  /\ UNCHANGED <<shared, writerLock, req, want>>

CheckPreconditions(t) ==
  /\ pc[t] = "check"
  /\ Preconditions(committed, profile, req[t], want[t])
  /\ Goto(t, "classify")
  /\ UNCHANGED <<shared, locks, req, want, plan, todo>>

\* A precondition fails, or the committed state cannot be read: Err, and
\* nothing has been written.
Refuse(t) ==
  /\ pc[t] \in {"check", "classify"}
  /\ UnlockDelta(t)
  /\ Return(t)
  /\ UNCHANGED <<shared, writerLock>>

ClassifyBatch(t) ==
  /\ pc[t] = "classify"
  /\ plan' = [plan EXCEPT ![t] = Classify(committed, profile, req[t])]
  /\ todo' = [todo EXCEPT ![t] = plan'[t].index]
  /\ Goto(t, "writer")
  /\ UNCHANGED <<shared, locks, req, want>>

-----------------------------------------------------------------------------
(* with_writer: everything below runs under the writer mutex.              *)

\* The writer is created on first use; the deletes of the plan are staged.
TakeWriter(t) ==
  /\ pc[t] = "writer"
  /\ writerLock = Nobody
  /\ writerLock' = t
  /\ writerOpen' = TRUE
  /\ staged' = [d \in Docs |-> IF d \in plan[t].delete THEN Absent ELSE staged[d]]
  /\ Goto(t, "stage")
  /\ UNCHANGED <<committed, profile, deltaLock, req, want, plan, todo>>

\* Creating the writer fails: another holder of the index directory, no memory.
WriterUnavailable(t) ==
  /\ pc[t] = "writer"
  /\ writerLock = Nobody
  /\ ~writerOpen
  /\ UnlockDelta(t)
  /\ Return(t)
  /\ UNCHANGED <<shared, writerLock>>

NextUpsert(t, i) == i \in todo[t] /\ \A j \in todo[t] : i <= j

\* stage_document: delete the old records, add the chunks and the sentinel.
StageDocument(t, i) ==
  /\ pc[t] = "stage"
  /\ NextUpsert(t, i)
  /\ staged' = [staged EXCEPT ![req[t].ups[i].doc] = Written(req[t], i, profile)]
  /\ todo' = [todo EXCEPT ![t] = @ \ {i}]
  /\ UNCHANGED <<committed, profile, writerOpen, locks, pc, req, want, plan>>

\* stage_document fails before it touches the writer, after it has deleted the
\* old records, or after it has added some chunks.
StageFails(t, i) ==
  /\ pc[t] = "stage"
  /\ NextUpsert(t, i)
  /\ \/ UNCHANGED staged
     \/ \E left \in {Absent, Torn} :
          staged' = [staged EXCEPT ![req[t].ups[i].doc] = left]
  /\ Goto(t, "rollback")
  /\ UNCHANGED <<committed, profile, writerOpen, locks, req, want, plan, todo>>

\* One commit publishes the whole batch.  Only apply_delta reads the digest
\* afterwards, under the delta lock; segment merging changes no document.
Commit(t) ==
  /\ pc[t] = "stage"
  /\ todo[t] = {}
  /\ committed' = Merged
  /\ staged' = Clean
  /\ writerLock' = Nobody
  /\ Goto(t, "report")
  /\ UNCHANGED <<profile, writerOpen, deltaLock, req, want, plan, todo>>

CommitFails(t) ==
  /\ pc[t] = "stage"
  /\ todo[t] = {}
  /\ Goto(t, "rollback")
  /\ UNCHANGED <<shared, locks, req, want, plan, todo>>

Rollback(t) ==
  /\ pc[t] = "rollback"
  /\ staged' = RolledBack
  /\ writerLock' = Nobody
  /\ UnlockDelta(t)
  /\ Return(t)
  /\ UNCHANGED <<committed, profile, writerOpen>>

\* The outcome and the new digest leave, or an error if the digest cannot be
\* read; the delta lock is released.
Report(t) ==
  /\ pc[t] = "report"
  /\ UnlockDelta(t)
  /\ Return(t)
  /\ UNCHANGED <<shared, writerLock>>

-----------------------------------------------------------------------------
(* release_writer waits for the writer mutex, not for the delta lock.      *)

ReleaseWriter ==
  /\ WriterIdle
  /\ writerOpen
  /\ writerOpen' = FALSE
  /\ staged' = Clean
  /\ UNCHANGED <<committed, profile, locks, local>>

\* The process dies and a new one opens the index, configured the same or not.
Crash ==
  /\ profile' \in Profiles
  /\ writerOpen' = FALSE
  /\ staged' = Clean
  /\ deltaLock' = Nobody
  /\ writerLock' = Nobody
  /\ pc' = [t \in Threads |-> "idle"]
  /\ req' = [t \in Threads |-> NoRequest]
  /\ want' = [t \in Threads |-> NoDigest]
  /\ plan' = [t \in Threads |-> NoPlan]
  /\ todo' = [t \in Threads |-> {}]
  /\ UNCHANGED committed

\* What a thread does once its request is begun.
Step(t) == \/ LockDelta(t)
           \/ CheckPreconditions(t)
           \/ Refuse(t)
           \/ ClassifyBatch(t)
           \/ TakeWriter(t)
           \/ WriterUnavailable(t)
           \/ \E i \in todo[t] : StageDocument(t, i) \/ StageFails(t, i)
           \/ Commit(t)
           \/ CommitFails(t)
           \/ Rollback(t)
           \/ Report(t)

Next == \/ \E t \in Threads : Step(t) \/ \E r \in Requests : Begin(t, r)
        \/ ReleaseWriter
        \/ Crash

Spec == Init /\ [][Next]_vars

\* A handler runs on a thread of its own and never waits for its client.  The
\* mutexes are not fair, so nothing is assumed of a thread waiting for one
\* that others keep taking.
FairSpec == Spec /\ \A t \in Threads : WF_vars(Step(t))

-----------------------------------------------------------------------------
(* Properties *)

\* The type invariant.
TypeOK == /\ committed \in [Docs -> DocStates]
          /\ profile \in Profiles
          /\ writerOpen \in BOOLEAN
          /\ staged \in [Docs -> DocStates \cup {Keep}]
          /\ deltaLock \in Threads \cup {Nobody}
          /\ writerLock \in Threads \cup {Nobody}
          /\ pc \in [Threads -> PCs]
          /\ req \in [Threads -> Requests \cup {NoRequest}]
          /\ \A t \in Threads : pc[t] # "idle" => req[t] \in Requests
          /\ want \in [Threads -> Digests]
          /\ plan \in [Threads -> Plans]
          /\ todo \in [Threads -> SUBSET Nat]

\* From classification to commit nothing a request has read goes stale: what
\* it is going to do is what it would decide about the documents committed
\* now, and its preconditions hold of them.  (delta.rs: "No other write can
\* commit in this window".)
PlanIsCurrent ==
  \A t \in Threads : pc[t] \in {"writer", "stage"} =>
    /\ plan[t] = PlanFor(committed, profile, req[t])
    /\ req[t].op = "delta" => Preconditions(committed, profile, req[t], want[t])

\* No interleaving, failure or crash leaves a committed document without its
\* sentinel: a batch that failed half-way is never published by a later one.
DocumentsWhole == \A d \in Docs : committed[d] # Torn

DistinctDocs(r) ==
  \A i, j \in DOMAIN r.ups : r.ups[i].doc = r.ups[j].doc => i = j

\* What the outcome says of each document is true of the committed documents.
Reported(t) ==
  /\ \A i \in plan[t].index \cup plan[t].unchanged :
       /\ committed[req[t].ups[i].doc].content = req[t].ups[i].content
       /\ committed[req[t].ups[i].doc].profile = profile
  /\ \A d \in plan[t].delete : committed[d] = Absent

\* When apply_delta reads the digest it returns, what it is about to report is
\* true of the committed documents: those indexed or unchanged have the content
\* sent and were indexed under the current profile, those deleted are gone.
\* Stated of batches that name a document once.
ReportIsTrue ==
  \A t \in Threads : pc[t] = "report" /\ DistinctDocs(req[t]) => Reported(t)

CommitOf(t) == pc[t] = "stage" /\ pc'[t] = "report"

Foreign(fp, scope) == fp # Absent /\ fp.source # scope

ScopeKept(t) ==
  CommitOf(t) /\ req[t].scope # NoSource =>
    \A d \in Docs :
      Foreign(committed[d], req[t].scope) /\ committed[d].content \notin Oversized
        => committed'[d] = committed[d]

\* A scoped batch neither overwrites nor deletes a document of another source,
\* whatever else commits between the request and its commit.  Stated of the
\* documents whose sentinel doc_fingerprint can find.
ScopeProtected == [][\A t \in Threads : ScopeKept(t)]_vars

\* The same without the exception, as delta.rs states it: "Scoped upsert never
\* overwrites a doc_id owned by another source", "Scoped delete never evicts".
ScopeNeverCrossed ==
  [][\A t \in Threads : CommitOf(t) /\ req[t].scope # NoSource =>
       \A d \in Docs :
         Foreign(committed[d], req[t].scope) => committed'[d] = committed[d]]_vars

\* What the abstract specification sees of a thread.
CallOf(t) ==
  IF pc[t] = "idle" THEN [phase |-> "idle"]
  ELSE IF pc[t] = "report"
  THEN [phase |-> "committed", plan |-> plan[t], digest |-> Digest(committed, req[t].scope)]
  ELSE [phase |-> "called", req |-> req[t], want |-> want[t]]

Calls == [t \in Threads |-> CallOf(t)]

Abstract == INSTANCE AtomicIndex WITH store <- committed, calls <- Calls

\* Every request takes effect atomically, between its call and its reply: the
\* write paths of the index implement AtomicIndex.
Atomic == Abstract!Spec

\* Whoever takes the delta lock gives it back: no path of a write, failing or
\* not, waits for a lock it cannot get, and none returns with the lock taken.
HolderFinishes == \A t \in Threads : (deltaLock = t) ~> (deltaLock # t)
=============================================================================
