-------------------------- MODULE AgentMemoryProofs ---------------------------
(***************************************************************************)
(* Theorems about AgentMemory, for every number of calls, memories,        *)
(* sources and page limit.                                                 *)
(***************************************************************************)
EXTENDS AgentMemory, FiniteSetTheorems, TLAPS

USE DEF local, vars

\* A call that is not in progress has listed nothing.
IdleInv ==
  \A t \in Threads : pc[t] = "idle" => standing[t] = {} /\ ~crowded[t]

\* What is standing is still what the call is about.
StandingInv ==
  \A t \in Threads : \A d \in standing[t] :
    /\ d \in Sentinels(store)
    /\ pc[t] = "scan" => store[d].content = call[t].text
    /\ pc[t] = "delete" => store[d].source = call[t].source

\* What is standing is yet to be looked at, if one page held the listing and a
\* fetch finds it.
PageInv ==
  \A t \in Threads : ~crowded[t] =>
    /\ pc[t] = "delete" => standing[t] \subseteq page[t]
    /\ pc[t] = "scan" => call[t].text \in Oversized \/ standing[t] \subseteq page[t]
    /\ pc[t] = "write" => call[t].text \in Oversized \/ standing[t] = {}

\* A forget is of one source, a remember of one text.
CallInv ==
  \A t \in Threads : /\ pc[t] = "delete" => call[t].source \in Sources
                     /\ pc[t] = "scan" => call[t].text \in Contents

IInv == TypeOK /\ IdleInv /\ StandingInv /\ PageInv /\ CallInv

-----------------------------------------------------------------------------
(* The operators of the model. *)

\* A page holds a listing that is not longer than the limit.
LEMMA PageHolds ==
  ASSUME NEW S \in SUBSET Docs, ~(Cardinality(S) > PageLimit)
  PROVE  FirstPage(S) = S
<1>1. IsFiniteSet(S)
  BY MemoryAssumption, FS_Subset
<1>2. ASSUME NEW d \in S PROVE Cardinality({e \in S : e < d}) < PageLimit
  <2> DEFINE below == {e \in S : e < d}
  <2>1. below \subseteq S /\ below # S
    <3>1. d \notin below
      BY MemoryAssumption
    <3> QED
      BY <3>1
  <2> HIDE DEF below
  <2>2. /\ IsFiniteSet(below)
        /\ Cardinality(below) <= Cardinality(S)
        /\ Cardinality(below) # Cardinality(S)
    BY <1>1, <2>1, FS_Subset
  <2>3. Cardinality(S) \in Nat /\ Cardinality(below) \in Nat
    BY <1>1, <2>2, FS_CardinalityType
  <2> QED
    BY <2>2, <2>3, MemoryAssumption DEF below
<1> QED
  BY <1>2 DEF FirstPage

LEMMA PageType == \A S \in SUBSET Docs : FirstPage(S) \in SUBSET Docs
  BY DEF FirstPage

\* The one document that a remember may change, and what becomes of it.
LEMMA RememberEffect ==
  ASSUME TypeOK, NEW c \in Calls, c.doc \in used, c.text \in Contents
  PROVE  LET C == Applied(RememberBatch(c))
         IN  /\ C \in [Docs -> DocStates]
             /\ \A d \in Docs \ {c.doc} : C[d] = store[d]
             /\ \/ C[c.doc] = store[c.doc]
                \/ C[c.doc] = [content |-> c.text, profile |-> Unembedded, source |-> c.source]
<1> DEFINE r == RememberBatch(c)
           plan == PlanFor(store, Unembedded, r)
           new == [content |-> c.text, profile |-> Unembedded, source |-> c.source]
<1>1. /\ r.ups = <<[doc |-> c.doc, content |-> c.text]>> /\ r.dels = {} /\ r.op = "delta"
      /\ r.scope = c.source /\ DOMAIN r.ups = {1}
  BY DEF RememberBatch, Batch
<1>2. plan.index \subseteq {1} /\ plan.delete = {}
  BY <1>1 DEF PlanFor, Classify, UpsertsWith
<1>3. \A d \in Docs : Applied(r)[d] = IF UpsertsOf(r, plan.index, d) # {}
                                       THEN Written(r, Latest(UpsertsOf(r, plan.index, d)), Unembedded)
                                       ELSE store[d]
  BY <1>2 DEF Applied, Effect
<1>4. \A d \in Docs : UpsertsOf(r, plan.index, d) # {} =>
        d = c.doc /\ UpsertsOf(r, plan.index, d) = {1}
  BY <1>1, <1>2 DEF UpsertsOf
<1>5. Latest({1}) = 1
  BY DEF Latest
<1>6. Written(r, 1, Unembedded) = new
  BY <1>1 DEF Written
<1>7. new \in DocStates
  BY MemoryAssumption DEF DocStates, Fingerprints, Calls
<1>8. \A d \in Docs : Applied(r)[d] = store[d] \/ (d = c.doc /\ Applied(r)[d] = new)
  BY <1>3, <1>4, <1>5, <1>6
<1>9. \A d \in Docs : Applied(r)[d] \in DocStates
  BY <1>7, <1>8 DEF TypeOK
<1>10. c.doc \in Docs
  BY DEF TypeOK
<1> HIDE DEF r, new
<1>11. Applied(r) \in [Docs -> DocStates]
  BY <1>9 DEF Applied, Effect
<1> QED
  BY <1>8, <1>10, <1>11 DEF r, new

\* What a forget does: the listed documents of its source go, those that are
\* not too long to be found, and only they.
LEMMA ForgetEffect ==
  ASSUME TypeOK, NEW ds \in SUBSET Docs, NEW source \in Sources
  PROVE  LET C == Applied(ForgetBatch(ds, source))
         IN  /\ C \in [Docs -> DocStates]
             /\ \A d \in Docs :
                  C[d] = IF /\ d \in ds /\ d \in Sentinels(store)
                            /\ store[d].source = source /\ store[d].content \notin Oversized
                         THEN Absent ELSE store[d]
<1> DEFINE r == ForgetBatch(ds, source)
           plan == PlanFor(store, Unembedded, r)
<1>1. r.ups = <<>> /\ r.dels = ds /\ r.op = "delta" /\ r.scope = source /\ source # NoSource
  BY DataAssumption DEF ForgetBatch, Batch
<1>2. plan.index = {}
  BY <1>1 DEF PlanFor, Classify, UpsertsWith
<1>3. plan.delete = {d \in ds : /\ d \in Sentinels(store)
                               /\ store[d].source = source /\ store[d].content \notin Oversized}
  <2>1. plan.delete = {d \in ds : DeleteStatus(DocFingerprint(store, d), r) = "deleted"}
    BY <1>1 DEF PlanFor, Classify
  <2>2. ASSUME NEW d \in ds
        PROVE  DeleteStatus(DocFingerprint(store, d), r) = "deleted"
                 <=> /\ d \in Sentinels(store)
                     /\ store[d].source = source /\ store[d].content \notin Oversized
    BY <1>1 DEF DeleteStatus, DocFingerprint, InScope, Sentinels
  <2> QED
    BY <2>1, <2>2
<1>4. \A d \in Docs : Applied(r)[d] = IF d \in plan.delete THEN Absent ELSE store[d]
  BY <1>2 DEF Applied, Effect, UpsertsOf
<1>5. Applied(r) \in [Docs -> DocStates]
  <2>1. \A d \in Docs : Applied(r)[d] \in DocStates
    BY <1>4 DEF TypeOK, DocStates
  <2> QED
    BY <2>1 DEF Applied, Effect
<1> QED
  BY <1>3, <1>4, <1>5

-----------------------------------------------------------------------------
(* The steps. *)

LEMMA InitInv == Init => IInv
<1> SUFFICES ASSUME Init PROVE IInv
  OBVIOUS
<1>1. Sentinels(store) = {}
  BY DEF Init, Sentinels
<1>2. NoCall \in Calls
  BY DEF NoCall, Calls
<1>3. TypeOK
  BY <1>1, <1>2 DEF Init, TypeOK, DocStates, PCs
<1> QED
  BY <1>3 DEF Init, IInv, IdleInv, StandingInv, PageInv, CallInv

\* A write to the collection leaves what stands of the other calls standing,
\* and the writing call is done.
LEMMA PutStep ==
  ASSUME IInv, NEW t \in Threads, NEW C \in [Docs -> DocStates], Put(t, C), Return(t),
         UNCHANGED used,
         \A d \in Sentinels(C) : C[d] = store[d] \/ (C[d].content \in Contents /\ d \in used)
  PROVE  IInv'
<1> USE DEF IInv, Put, Return
<1>1. NoCall \in Calls
  BY DEF NoCall, Calls
<1>2. \A d \in Sentinels(C) : C[d] = store[d] => d \in Sentinels(store)
  BY DEF Sentinels
<1>3. /\ Sentinels(store)' = Sentinels(C)
      /\ \A s \in Threads : standing'[s] \subseteq standing[s]
      /\ \A s \in Threads : \A d \in standing'[s] : d \in Sentinels(C) /\ C[d] = store[d] /\ s # t
      /\ standing'[t] = {}
  BY DEF Sentinels, StandingInv, TypeOK
<1>4. TypeOK'
  <2>1. standing' \in [Threads -> SUBSET Docs]
    BY <1>3 DEF TypeOK
  <2>2. \A d \in Sentinels(C) : C[d].content \in Contents /\ d \in used
    BY <1>2 DEF TypeOK
  <2>3. crowded' \in [Threads -> BOOLEAN]
    BY DEF TypeOK
  <2>4. pc' \in [Threads -> PCs] /\ call' \in [Threads -> Calls] /\ page' \in [Threads -> SUBSET Docs]
    BY <1>1 DEF TypeOK, PCs
  <2>5. \A s \in Threads : pc'[s] = "write" => call'[s].doc \in used' /\ call'[s].text \in Contents
    BY DEF TypeOK
  <2> QED
    BY <1>3, <2>1, <2>2, <2>3, <2>4, <2>5 DEF TypeOK
<1>5. IdleInv' /\ CallInv'
  BY <1>3 DEF IdleInv, CallInv, TypeOK
<1>6. StandingInv'
  BY <1>3 DEF StandingInv, TypeOK
<1>7. PageInv'
  BY <1>3 DEF PageInv, TypeOK
<1> QED
  BY <1>4, <1>5, <1>6, <1>7

\* A call that lists begins with all it is about in its page, or crowded.
LEMMA ListStep ==
  ASSUME IInv, NEW t \in Threads, NEW label \in {"scan", "delete"}, NEW c \in Calls,
         NEW scope \in Sources \cup {NoSource}, NEW match \in SUBSET InManifest(scope),
         List(t, label, c, scope, match),
         label = "scan" => c.text \in Contents /\ \A d \in match : store[d].content = c.text,
         label = "delete" => c.source \in Sources /\ \A d \in match : store[d].source = c.source
  PROVE  IInv'
<1> USE DEF IInv, List
<1>1. InManifest(scope) \in SUBSET Docs /\ match \subseteq Sentinels(store)
  BY DEF InManifest, Sentinels
<1>2. FirstPage(InManifest(scope)) \in SUBSET Docs
  BY <1>1, PageType
<1>3. ~crowded'[t] => match \subseteq page'[t]
  BY <1>1, PageHolds DEF TypeOK
<1>4. TypeOK'
  BY <1>1, <1>2 DEF TypeOK, PCs, Sentinels
<1>5. IdleInv' /\ CallInv' /\ StandingInv'
  BY <1>1 DEF IdleInv, CallInv, StandingInv, TypeOK, Sentinels
<1>6. PageInv'
  BY <1>3 DEF PageInv, TypeOK
<1> QED
  BY <1>4, <1>5, <1>6

LEMMA RememberStep ==
  ASSUME IInv, NEW t \in Threads, NEW text \in Contents, NEW force \in BOOLEAN,
         NEW source \in Sources \cup {NoSource},
         \/ RememberNew(t, text, source, force)
         \/ \E d \in Docs : RememberAs(t, d, text, source, force)
  PROVE  IInv'
<1>1. CASE RememberNew(t, text, source, force)
  <2>1. [doc |-> NoDoc, text |-> text, source |-> source] \in Calls
    BY DEF Calls
  <2>2. Holding(text) \subseteq InManifest(NoSource) /\ \A d \in Holding(text) : store[d].content = text
    BY DEF Holding, InManifest, InScope
  <2> QED
    BY <1>1, <2>1, <2>2, ListStep DEF RememberNew
<1>2. ASSUME NEW d \in Docs, RememberAs(t, d, text, source, force)
      PROVE  IInv'
  <2> USE <1>2 DEF IInv, RememberAs
  <2>1. [doc |-> d, text |-> text, source |-> source] \in Calls
    BY DEF Calls
  <2>2. TypeOK'
    BY <2>1 DEF TypeOK, PCs, Sentinels
  <2>3. IdleInv' /\ CallInv' /\ PageInv'
    BY DEF IdleInv, CallInv, PageInv, TypeOK
  <2>4. StandingInv'
    BY DEF IdleInv, StandingInv, TypeOK, Sentinels
  <2> QED
    BY <2>2, <2>3, <2>4
<1> QED
  BY <1>1, <1>2

\* A document that is passed over was not what the call is about, or was not
\* found, or is not standing any more.
LEMMA ScanStep ==
  ASSUME IInv, NEW t \in Threads, NEW d \in Docs,
         Scan(t, d) \/ ScanOther(t, d) \/ ScanFails(t, d) \/ Generate(t, d)
  PROVE  IInv'
<1> USE DEF IInv
<1>0. NoCall \in Calls
  BY DEF NoCall, Calls
<1>1. CASE Scan(t, d)
  BY <1>0, <1>1 DEF Scan, Return, IdleInv, StandingInv, PageInv, CallInv, TypeOK, PCs, Sentinels
<1>2. CASE ScanOther(t, d)
  <2>1. d \notin standing[t] \/ call[t].text \in Oversized
    BY <1>2 DEF ScanOther, PassOver, Found, DocFingerprint, StandingInv, SameMemory, Sentinels
  <2> QED
    BY <1>2, <2>1 DEF ScanOther, PassOver, IdleInv, StandingInv, PageInv, CallInv, TypeOK, PCs,
                      Sentinels
<1>3. CASE ScanFails(t, d)
  BY <1>3 DEF ScanFails, PassOver, IdleInv, StandingInv, PageInv, CallInv, TypeOK, PCs, Sentinels
<1>4. CASE Generate(t, d)
  <2>1. [call[t] EXCEPT !.doc = d] \in Calls /\ call[t].text = [call[t] EXCEPT !.doc = d].text
    BY DEF TypeOK, Calls
  <2>2. TypeOK'
    BY <1>4, <2>1 DEF Generate, TypeOK, PCs, Sentinels, CallInv
  <2>3. IdleInv' /\ CallInv'
    BY <1>4 DEF Generate, IdleInv, CallInv, TypeOK
  <2>4. StandingInv'
    BY <1>4 DEF Generate, StandingInv, TypeOK, Sentinels
  <2>5. PageInv'
    BY <1>4, <2>1 DEF Generate, PageInv, TypeOK
  <2> QED
    BY <2>2, <2>3, <2>4, <2>5
<1> QED
  BY <1>1, <1>2, <1>3, <1>4

LEMMA WriteStep == ASSUME IInv, NEW t \in Threads, Write(t) PROVE IInv'
<1> DEFINE C == Applied(RememberBatch(call[t]))
<1>1. call[t] \in Calls /\ call[t].doc \in used /\ call[t].text \in Contents
  BY DEF IInv, TypeOK, Write
<1> HIDE DEF C
<1>2. /\ C \in [Docs -> DocStates]
      /\ \A d \in Docs \ {call[t].doc} : C[d] = store[d]
      /\ \/ C[call[t].doc] = store[call[t].doc]
         \/ C[call[t].doc].content = call[t].text
  <2>1. TypeOK
    BY DEF IInv
  <2>2. /\ C \in [Docs -> DocStates]
        /\ \A d \in Docs \ {call[t].doc} : C[d] = store[d]
        /\ \/ C[call[t].doc] = store[call[t].doc]
           \/ C[call[t].doc] =
                [content |-> call[t].text, profile |-> Unembedded, source |-> call[t].source]
    BY <1>1, <2>1, RememberEffect DEF C
  <2> QED
    BY <2>2
<1>3. \A d \in Sentinels(C) : C[d] = store[d] \/ (C[d].content \in Contents /\ d \in used)
  BY <1>1, <1>2 DEF Sentinels
<1>4. Put(t, C) /\ Return(t) /\ UNCHANGED used
  BY DEF Write, C
<1> QED
  BY <1>2, <1>3, <1>4, PutStep

LEMMA ForgetStep ==
  ASSUME IInv, NEW t \in Threads, Delete(t) \/ \E d \in Docs : ForgetDoc(t, d)
  PROVE  IInv'
<1>1. CASE Delete(t)
  <2> DEFINE C == Applied(ForgetBatch(page[t], call[t].source))
  <2> HIDE DEF C
  <2>1. /\ C \in [Docs -> DocStates]
        /\ \A d \in Docs : C[d] = Absent \/ C[d] = store[d]
    <3>1. TypeOK /\ page[t] \in SUBSET Docs /\ call[t].source \in Sources
      BY <1>1 DEF IInv, TypeOK, CallInv, Delete
    <3>2. /\ C \in [Docs -> DocStates]
          /\ \A d \in Docs :
               C[d] = IF /\ d \in page[t] /\ d \in Sentinels(store)
                         /\ store[d].source = call[t].source /\ store[d].content \notin Oversized
                      THEN Absent ELSE store[d]
      BY <3>1, ForgetEffect DEF C
    <3> QED
      BY <3>2
  <2>2. \A d \in Sentinels(C) : C[d] = store[d]
    BY <2>1 DEF Sentinels
  <2>3. Put(t, C) /\ Return(t) /\ UNCHANGED used
    BY <1>1 DEF Delete, C
  <2> QED
    BY <2>1, <2>2, <2>3, PutStep
<1>2. ASSUME NEW d \in Docs, ForgetDoc(t, d) PROVE IInv'
  <2> DEFINE C == [store EXCEPT ![d] = Absent]
  <2>1. C \in [Docs -> DocStates] /\ \A e \in Sentinels(C) : C[e] = store[e]
    BY DEF IInv, TypeOK, DocStates, Sentinels
  <2>2. Put(t, C) /\ Return(t) /\ UNCHANGED used
    BY <1>2 DEF ForgetDoc
  <2> HIDE DEF C
  <2> QED
    BY <2>1, <2>2, PutStep
<1> QED
  BY <1>1, <1>2

LEMMA ForgetSourceStep ==
  ASSUME IInv, NEW t \in Threads, NEW source \in Sources, ForgetSource(t, source)
  PROVE  IInv'
<1> DEFINE c == [NoCall EXCEPT !.source = source]
<1>1. c \in Calls /\ c.source = source
  BY DEF NoCall, Calls
<1>2. \A d \in InManifest(source) : store[d].source = source
  BY DataAssumption DEF InManifest, InScope
<1> QED
  BY <1>1, <1>2, ListStep DEF ForgetSource

LEMMA FailsStep == ASSUME IInv, NEW t \in Threads, Fails(t) PROVE IInv'
<1>1. NoCall \in Calls
  BY DEF NoCall, Calls
<1> QED
  BY <1>1 DEF IInv, Fails, Return, IdleInv, StandingInv, PageInv, CallInv, TypeOK, PCs, Sentinels

LEMMA CrashStep == ASSUME IInv, Crash PROVE IInv'
<1>1. NoCall \in Calls
  BY DEF NoCall, Calls
<1> QED
  BY <1>1 DEF IInv, Crash, IdleInv, StandingInv, PageInv, CallInv, TypeOK, PCs, Sentinels

LEMMA NextInv == IInv /\ [Next]_vars => IInv'
<1> SUFFICES ASSUME IInv, [Next]_vars PROVE IInv'
  OBVIOUS
<1>1. CASE Next
  BY <1>1, RememberStep, ScanStep, WriteStep, ForgetStep, ForgetSourceStep, FailsStep, CrashStep DEF Next
<1>2. CASE UNCHANGED vars
  BY <1>2 DEF IInv, IdleInv, StandingInv, PageInv, CallInv, TypeOK, Sentinels
<1> QED
  BY <1>1, <1>2

-----------------------------------------------------------------------------
\* The inductive invariant holds of every behaviour of the memory tools.
THEOREM Invariance == Spec => []IInv
  BY InitInv, NextInv, PTL DEF Spec

\* Every memory keeps the hash of its text, and the calls stay well typed.
THEOREM TypeCorrect == Spec => []TypeOK
<1>1. IInv => TypeOK
  BY DEF IInv
<1> QED
  BY <1>1, Invariance, PTL

\* However calls overlap, remember adds no copy of a text that was in a
\* collection of at most one page throughout its call, unless it failed to
\* fetch every copy or the text is too long for its copies to be found.
THEOREM NoCopyIsAdded == Spec => []NoSecondCopy
<1>1. IInv => NoSecondCopy
  BY DEF IInv, PageInv, NoSecondCopy, Generated
<1> QED
  BY <1>1, Invariance, PTL

LEMMA DeleteExact ==
  ASSUME IInv, NEW t \in Threads, Delete(t)
  PROVE  /\ crowded[t] \/ \A d \in standing[t] :
                            store[d].content \notin Oversized => store'[d] = Absent
         /\ \A d \in Sentinels(store) :
              store[d].source # call[t].source => store'[d] = store[d]
<1> USE DEF IInv
<1>1. \A d \in Docs :
        store'[d] = IF /\ d \in page[t] /\ d \in Sentinels(store)
                       /\ store[d].source = call[t].source /\ store[d].content \notin Oversized
                    THEN Absent ELSE store[d]
  BY ForgetEffect DEF TypeOK, CallInv, Delete, Put
<1>2. \A d \in standing[t] : d \in Sentinels(store) /\ store[d].source = call[t].source
  BY DEF StandingInv, Delete
<1>3. ~crowded[t] => standing[t] \subseteq page[t]
  BY DEF PageInv, Delete
<1> QED
  BY <1>1, <1>2, <1>3 DEF Sentinels

\* A forget takes all of its source that is not too long to be found, and
\* nothing of another.
THEOREM ForgetIsExact == Spec => ForgetsItsSource
<1>1. IInv /\ [Next]_vars =>
        [\A t \in Threads : Delete(t) =>
           /\ crowded[t] \/ \A d \in standing[t] :
                              store[d].content \notin Oversized => store'[d] = Absent
           /\ \A d \in Sentinels(store) :
                store[d].source # call[t].source => store'[d] = store[d]]_vars
  BY DeleteExact
<1> QED
  BY <1>1, Invariance, PTL DEF Spec, ForgetsItsSource
=============================================================================
