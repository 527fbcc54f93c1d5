----------------------------- MODULE SyncPathProofs -----------------------------
(***************************************************************************)
(* Theorems about SyncPath, for every directory, source, page limit and    *)
(* batch size: its types, that no document loses its file's place in the   *)
(* collection, that a call ends, that it leaves mirrored what nobody else  *)
(* touched, and that a dry run counts what the batches would do.           *)
(***************************************************************************)
EXTENDS SyncPath, FiniteSetTheorems, TLAPS

USE DEF local, vars

\* The walk has read every file behind it that did not change since, and it
\* knows of those it could not read.
WalkInv ==
  pc = "walk" =>
    /\ gone = {}
    /\ \A d \in filesStill \ left :
         /\ files[d] \in Contents => [doc |-> d, content |-> files[d]] \in scanned
         /\ Fails(call, files[d]) => errors

\* Pages are listed for a call that prunes a source, after a walk that read
\* every file it wants.
ListInv ==
  pc = "list" =>
    /\ call.source # NoSource
    /\ \A d \in filesStill :
         /\ files[d] \in Contents => d \in ScannedDocs
         /\ ~Fails(call, files[d])

\* What is going to be deleted has no file that the call wants.
GoneInv ==
  /\ gone # {} => call.source # NoSource
  /\ \A d \in gone \cap filesStill : ~Wanted(call, files[d])

\* The scan is finite, though the contents need not be.
FiniteInv == IsFiniteSet(scanned)

IInv == TypeOK /\ FiniteInv /\ WalkInv /\ ListInv /\ GoneInv

-----------------------------------------------------------------------------
(* Numbers *)

\* A finite set of numbers that is not empty has a greatest element.
LEMMA HasMax ==
  ASSUME NEW S \in SUBSET Nat, IsFiniteSet(S), S # {}
  PROVE  \E m \in S : \A s \in S : s <= m
<1> DEFINE above(s) == {e \in S : e > s}
           T == {above(s) : s \in S}
<1>1. IsWellFoundedOn(StrictSubsetOrdering(S), SUBSET S)
  BY FS_StrictSubsetOrderingWellFounded, FS_FiniteSubsetsOfFinite
<1>2. T \subseteq SUBSET S /\ T # {}
  OBVIOUS
<1> HIDE DEF T
<1>3. PICK x \in T : \A y \in T : ~ (<<y, x>> \in StrictSubsetOrdering(S))
  BY <1>1, <1>2, WFMin
<1>4. PICK m \in S : x = above(m)
  BY DEF T
<1>5. ASSUME NEW s \in S, s > m PROVE FALSE
  <2>0. \A e \in S : e \in Nat
    OBVIOUS
  <2>1. above(s) \subseteq above(m) /\ s \in above(m) /\ s \notin above(s)
    <3>1. \A e \in above(s) : e \in S /\ e > m
      BY <1>5, <2>0
    <3>2. s \in above(m) /\ s \notin above(s)
      BY <1>5, <2>0
    <3> QED
      BY <3>1, <3>2
  <2>2. above(s) \in T /\ above(s) \in SUBSET S /\ above(m) \in SUBSET S
    BY DEF T
  <2> HIDE DEF above
  <2>3. <<above(s), above(m)>> \in StrictSubsetOrdering(S)
    BY <2>1, <2>2 DEF StrictSubsetOrdering
  <2> QED
    BY <1>3, <1>4, <2>2, <2>3
<1> QED
  BY <1>5

\* It has a least one too: one with none below it.
LEMMA HasMin ==
  ASSUME NEW S \in SUBSET Nat, IsFiniteSet(S), S # {}
  PROVE  \E m \in S : Cardinality({e \in S : e < m}) = 0
<1> DEFINE below(s) == {e \in S : e < s}
           T == {below(s) : s \in S}
<1>1. IsWellFoundedOn(StrictSubsetOrdering(S), SUBSET S)
  BY FS_StrictSubsetOrderingWellFounded, FS_FiniteSubsetsOfFinite
<1>2. T \subseteq SUBSET S /\ T # {}
  OBVIOUS
<1> HIDE DEF T
<1>3. PICK x \in T : \A y \in T : ~ (<<y, x>> \in StrictSubsetOrdering(S))
  BY <1>1, <1>2, WFMin
<1>4. PICK m \in S : x = below(m)
  BY DEF T
<1>5. ASSUME NEW s \in S, s < m PROVE FALSE
  <2>0. \A e \in S : e \in Nat
    OBVIOUS
  <2>1. below(s) \subseteq below(m) /\ s \in below(m) /\ s \notin below(s)
    <3>1. \A e \in below(s) : e \in S /\ e < m
      BY <1>5, <2>0
    <3>2. s \in below(m) /\ s \notin below(s)
      BY <1>5, <2>0
    <3> QED
      BY <3>1, <3>2
  <2>2. below(s) \in T /\ below(s) \in SUBSET S /\ below(m) \in SUBSET S
    BY DEF T
  <2> HIDE DEF below
  <2>3. <<below(s), below(m)>> \in StrictSubsetOrdering(S)
    BY <2>1, <2>2 DEF StrictSubsetOrdering
  <2> QED
    BY <1>3, <1>4, <2>2, <2>3
<1>6. {e \in S : e < m} = {}
  BY <1>5
<1> QED
  BY <1>6, FS_EmptySet

\* The constants, in the form the steps need.
LEMMA Bounds ==
  /\ Docs \in SUBSET Nat /\ IsFiniteSet(Docs) /\ 0 \notin Docs
  /\ MaxFiles \in Nat /\ MaxEdits \in Nat /\ PageLimit \in Nat /\ PageLimit > 0
  /\ MaxBatchDocs \in Nat
  /\ NoCall.source = NoSource
  /\ \A c \in Calls \cup {NoCall} : c.source \in Sources \cup {NoSource}
<1>1. /\ Docs \in SUBSET Nat /\ IsFiniteSet(Docs) /\ 0 \notin Docs
      /\ MaxFiles \in Nat /\ MaxEdits \in Nat /\ PageLimit \in Nat /\ PageLimit > 0
  BY SyncAssumption
<1>2. MaxBatchDocs \in Nat
  BY DataAssumption
<1>3. NoCall.source = NoSource
  BY DEF NoCall
<1>4. \A c \in Calls : c.source \in Sources \cup {NoSource}
  BY SyncAssumption DEF CallType
<1> QED
  BY <1>1, <1>2, <1>3, <1>4

LEMMA StatesDiffer == \A fp \in Fingerprints : fp # Absent /\ fp # Torn
  BY DataAssumption

-----------------------------------------------------------------------------
(* The pages. *)

LEMMA PageType ==
  ASSUME TypeOK
  PROVE  /\ Page \in SUBSET Docs /\ Rest \in SUBSET Docs /\ Page \subseteq Rest
         /\ \A d \in Page : store[d] \in Fingerprints /\ d \in InManifest
  BY DEF TypeOK, Page, Rest, InManifest, Sentinels

\* A page that does not end the listing has a last id.
LEMMA CursorType ==
  ASSUME TypeOK, Page # Rest
  PROVE  NextCursor(Rest, Page) \in Page
<1>1. Page \in SUBSET Docs /\ Rest \in SUBSET Docs /\ Page \subseteq Rest
  BY PageType
<1>2. IsFiniteSet(Rest) /\ IsFiniteSet(Page)
  BY <1>1, Bounds, FS_Subset
<1>3. Rest \in SUBSET Nat /\ Page \in SUBSET Nat /\ Rest # {}
  BY <1>1, Bounds
<1>4. \E m \in Rest : Cardinality({e \in Rest : e < m}) = 0
  BY <1>2, <1>3, HasMin
<1>5. Page # {}
  BY <1>4, Bounds DEF Page
<1>6. \E n \in Page : \A s \in Page : s <= n
  BY <1>2, <1>3, <1>5, HasMax
<1>7. \E n \in Page : \A s \in Page : n >= s
  BY <1>3, <1>6
<1> QED
  BY <1>7 DEF NextCursor, Max

LEMMA TurnType ==
  ASSUME TypeOK, NEW after, Turn(after)
  PROVE  cursor' \in Docs \cup {0} /\ pc' \in {pc, after}
  BY CursorType, PageType DEF Turn

-----------------------------------------------------------------------------
(* The batches. *)

\* A batch of upserts makes no document absent.
LEMMA UpsertEffect ==
  ASSUME TypeOK, NEW n \in Nat, NEW ups \in [1..n -> scanned]
  PROVE  LET r == Batch(ups, {})
             plan == PlanFor(store, profile, r)
             C == Effect(store, profile, r, plan)
         IN  /\ C \in [Docs -> Fingerprints \cup {Absent}]
             /\ \A d \in Docs : C[d] = Absent => store[d] = Absent
             /\ Cardinality(plan.index) \in Nat
             /\ Cardinality(plan.unchanged) \in Nat
             /\ Cardinality(plan.delete) \in Nat
<1> DEFINE r == Batch(ups, {})
           plan == PlanFor(store, profile, r)
           C == Effect(store, profile, r, plan)
<1>1. /\ r.ups = ups /\ r.dels = {} /\ r.op = "delta" /\ r.scope = call.source
      /\ DOMAIN r.ups = 1..n
  BY DEF Batch
<1>2. plan.index \subseteq 1..n /\ plan.unchanged \subseteq 1..n /\ plan.delete = {}
  BY <1>1 DEF PlanFor, Classify, UpsertsWith
<1>3. /\ Cardinality(plan.index) \in Nat
      /\ Cardinality(plan.unchanged) \in Nat
      /\ Cardinality(plan.delete) \in Nat
  <2> HIDE DEF plan
  <2>1. IsFiniteSet(1..n)
    BY FS_Interval
  <2>2. IsFiniteSet(plan.index) /\ IsFiniteSet(plan.unchanged) /\ IsFiniteSet(plan.delete)
    BY <1>2, <2>1, FS_Subset, FS_EmptySet
  <2> QED
    BY <2>2, FS_CardinalityType
<1>4. ASSUME NEW i \in 1..n PROVE Written(r, i, profile) \in Fingerprints
  <2>1. ups[i].content \in Contents /\ call.source \in Sources \cup {NoSource}
    BY Bounds DEF TypeOK
  <2> QED
    BY <1>1, <2>1 DEF Written, Fingerprints, TypeOK
<1>5. ASSUME NEW d \in Docs
      PROVE  \/ C[d] \in Fingerprints
             \/ C[d] = store[d]
  <2> DEFINE I == UpsertsOf(r, plan.index, d)
  <2>1. I \subseteq 1..n
    BY <1>2 DEF UpsertsOf
  <2>2. C[d] = IF I # {} THEN Written(r, Latest(I), profile) ELSE store[d]
    BY <1>2 DEF Effect
  <2>3. I # {} => Latest(I) \in I
    <3> HIDE DEF I
    <3>1. IsFiniteSet(1..n) /\ I \in SUBSET (1..n)
      BY <2>1, FS_Interval
    <3>2. IsFiniteSet(I)
      BY <3>1, FS_Subset
    <3>3. I \in SUBSET Nat
      BY <3>1
    <3>4. I # {} => \E i \in I : \A j \in I : j <= i
      BY <3>2, <3>3, HasMax
    <3> QED
      BY <3>4, Zenon DEF Latest
  <2> HIDE DEF I, C, r, plan
  <2> QED
    BY <1>4, <2>1, <2>2, <2>3
<1>6. \A d \in Docs : C[d] \in Fingerprints \cup {Absent}
  BY <1>5 DEF TypeOK
<1>7. C \in [Docs -> Fingerprints \cup {Absent}]
  BY <1>6 DEF Effect
<1>8. \A d \in Docs : C[d] = Absent => store[d] = Absent
  BY <1>5, StatesDiffer
<1> HIDE DEF r, plan, C
<1> QED
  BY <1>3, <1>7, <1>8 DEF r, plan, C

\* A batch of deletes makes those documents absent that are of the source.
LEMMA PruneEffect ==
  ASSUME TypeOK, NEW ds \in SUBSET Docs
  PROVE  LET r == Batch(<<>>, ds)
             plan == PlanFor(store, profile, r)
             C == Effect(store, profile, r, plan)
         IN  /\ C \in [Docs -> Fingerprints \cup {Absent}]
             /\ \A d \in Docs : store[d] # Absent /\ C[d] = Absent =>
                  d \in ds /\ InScope(store[d], call.source)
             /\ Cardinality(plan.index) \in Nat
             /\ Cardinality(plan.unchanged) \in Nat
             /\ Cardinality(plan.delete) \in Nat
<1> DEFINE r == Batch(<<>>, ds)
           plan == PlanFor(store, profile, r)
           C == Effect(store, profile, r, plan)
<1>1. r.ups = <<>> /\ r.dels = ds /\ r.op = "delta" /\ r.scope = call.source
  BY DEF Batch
<1>2. /\ plan.index = {} /\ plan.unchanged = {}
      /\ plan.delete = {d \in ds : DeleteStatus(DocFingerprint(store, d), r) = "deleted"}
  BY <1>1 DEF PlanFor, Classify, UpsertsWith
<1>3. /\ Cardinality(plan.index) \in Nat
      /\ Cardinality(plan.unchanged) \in Nat
      /\ Cardinality(plan.delete) \in Nat
  <2>1. plan.delete \in SUBSET Docs
    BY <1>2
  <2> QED
    BY <1>2, <2>1, Bounds, FS_Subset, FS_CardinalityType, FS_EmptySet
<1>4. \A d \in Docs : C[d] = IF d \in plan.delete THEN Absent ELSE store[d]
  BY <1>2 DEF Effect, UpsertsOf
<1>5. C \in [Docs -> Fingerprints \cup {Absent}]
  <2>1. \A d \in Docs : C[d] \in Fingerprints \cup {Absent}
    BY <1>4 DEF TypeOK
  <2> QED
    BY <2>1 DEF Effect
<1>6. ASSUME NEW d \in Docs, d \in plan.delete
      PROVE  d \in ds /\ InScope(store[d], call.source)
  BY <1>1, <1>2, <1>6 DEF DeleteStatus, DocFingerprint
<1>7. \A d \in Docs : store[d] # Absent /\ C[d] = Absent =>
        d \in ds /\ InScope(store[d], call.source)
  BY <1>4, <1>6
<1> HIDE DEF r, plan, C
<1> QED
  BY <1>3, <1>5, <1>7 DEF r, plan, C

-----------------------------------------------------------------------------
(* The steps. *)

\* A call that begins or ends knows nothing yet.
LEMMA FreshStep ==
  ASSUME IInv, NEW p \in Calls \cup {NoCall}, NEW at \in {"idle", "walk"}, Fresh(p, at),
         store' = store, files' \in [Docs -> FileStates], profile' \in Profiles,
         edits' \in 0..MaxEdits
  PROVE  IInv'
<1>1. scanned' = {} /\ gone' = {} /\ fresh' = {} /\ filesStill' = left' /\ docsStill' = left'
      /\ pc' = at /\ call' = p /\ met' = 0 /\ cursor' = 0 /\ errors' = FALSE /\ tally' = NoTally
      /\ left' \in {Docs, {}}
  BY DEF Fresh
<1>2. TypeOK'
  <2>1. NoTally \in [indexed : Nat, unchanged : Nat, deleted : Nat, batches : Nat]
    BY DEF NoTally
  <2>2. 0 \in 0..MaxFiles /\ FALSE \in BOOLEAN
    BY Bounds
  <2> QED
    BY <1>1, <2>1, <2>2 DEF IInv, TypeOK
<1>3. FiniteInv' /\ WalkInv' /\ ListInv' /\ GoneInv'
  BY <1>1, FS_EmptySet DEF FiniteInv, WalkInv, ListInv, GoneInv
<1> QED
  BY <1>2, <1>3 DEF IInv

LEMMA InitInv == Init => IInv
<1> SUFFICES ASSUME Init PROVE IInv
  OBVIOUS
<1>1. TypeOK
  <2>1. store \in [Docs -> Fingerprints \cup {Absent}] /\ files \in [Docs -> FileStates]
    BY SyncAssumption DEF Init
  <2>2. NoTally \in [indexed : Nat, unchanged : Nat, deleted : Nat, batches : Nat]
    BY DEF NoTally
  <2>3. 0 \in 0..MaxFiles /\ 0 \in 0..MaxEdits /\ FALSE \in BOOLEAN
    BY Bounds
  <2> QED
    BY <2>1, <2>2, <2>3 DEF Init, TypeOK
<1>2. FiniteInv /\ WalkInv /\ ListInv /\ GoneInv
  BY FS_EmptySet DEF Init, FiniteInv, WalkInv, ListInv, GoneInv
<1> QED
  BY <1>1, <1>2 DEF IInv

\* The walk reads one more file.
LEMMA WalkForward == ASSUME IInv, NEW d \in Docs, WalkStep(d) PROVE IInv'
<1> USE DEF IInv
<1>1. /\ UNCHANGED <<store, files, profile, pc, call, cursor, gone, fresh, tally,
                     filesStill, docsStill, edits>>
      /\ left' = left \ {d}
      /\ errors' = (errors \/ Fails(call, files[d]))
      /\ pc = "walk" /\ d \in left
  BY DEF WalkStep
<1>2. /\ scanned' \subseteq [doc : Docs, content : Contents]
      /\ IsFiniteSet(scanned')
      /\ scanned \subseteq scanned'
      /\ files[d] \in Contents => [doc |-> d, content |-> files[d]] \in scanned'
  BY FS_AddElement DEF WalkStep, TypeOK, FiniteInv
<1>3. met' \in 0..MaxFiles
  BY Bounds DEF WalkStep, HasRoom, TypeOK
<1>4. errors' \in BOOLEAN /\ (errors => errors') /\ (Fails(call, files[d]) => errors')
  BY <1>1, Zenon
<1>5. TypeOK'
  BY <1>1, <1>2, <1>3, <1>4 DEF TypeOK
<1>6. WalkInv'
  <2>1. ASSUME NEW e \in filesStill \ left'
        PROVE  /\ files[e] \in Contents => [doc |-> e, content |-> files[e]] \in scanned'
               /\ Fails(call, files[e]) => errors'
    <3>1. CASE e = d
      BY <1>2, <1>4, <3>1
    <3>2. CASE e # d
      <4>1. e \in filesStill \ left
        BY <1>1, <3>2
      <4>2. /\ files[e] \in Contents => [doc |-> e, content |-> files[e]] \in scanned
            /\ Fails(call, files[e]) => errors
        BY <1>1, <4>1 DEF WalkInv
      <4> QED
        BY <1>2, <1>4, <4>2, Zenon
    <3> QED
      BY <3>1, <3>2
  <2> QED
    BY <1>1, <2>1 DEF WalkInv, Fails, Follows
<1>7. ListInv' /\ GoneInv' /\ FiniteInv'
  BY <1>1, <1>2 DEF ListInv, GoneInv, FiniteInv, Wanted, Fails, Follows
<1> QED
  BY <1>5, <1>6, <1>7

\* Only a walk that failed nowhere leads to a listing.
LEMMA WalkEnds == ASSUME IInv, EndWalk PROVE IInv'
<1> USE DEF IInv
<1>1. /\ UNCHANGED <<store, files, profile, call, left, scanned, errors, met, cursor, gone,
                     fresh, tally, filesStill, docsStill, edits>>
      /\ pc = "walk" /\ left = {} /\ gone = {}
      /\ pc' \in {"list", "plan", "apply"}
      /\ pc' = "list" => MayPrune
  BY DEF EndWalk, AfterList, WalkInv
<1>2. TypeOK'
  BY <1>1 DEF TypeOK
<1>3. ASSUME MayPrune, NEW d \in filesStill
      PROVE  /\ files[d] \in Contents => d \in ScannedDocs
             /\ ~Fails(call, files[d])
             /\ call.source # NoSource
  <2>1. /\ files[d] \in Contents => [doc |-> d, content |-> files[d]] \in scanned
        /\ Fails(call, files[d]) => errors
    BY <1>1 DEF WalkInv
  <2>2. [doc |-> d, content |-> files[d]].doc = d
    OBVIOUS
  <2>3. files[d] \in Contents => d \in ScannedDocs
    BY <2>1, <2>2 DEF ScannedDocs
  <2>4. ~Fails(call, files[d])
    BY <1>3, <2>1, Zenon DEF MayPrune
  <2> QED
    BY <1>3, <2>3, <2>4 DEF MayPrune
<1>4. MayPrune => call.source # NoSource
  BY DEF MayPrune
<1>5. ListInv'
  BY <1>1, <1>3, <1>4 DEF ListInv, ScannedDocs, Fails, Follows
<1>6. FiniteInv' /\ WalkInv' /\ GoneInv'
  BY <1>1 DEF FiniteInv, WalkInv, GoneInv
<1> QED
  BY <1>2, <1>5, <1>6

\* What a page adds to gone has no file that the call wants.
LEMMA ListForward == ASSUME IInv, ListPage PROVE IInv'
<1> USE DEF IInv
<1>1. /\ UNCHANGED <<store, files, profile, call, left, scanned, errors, met, fresh, tally,
                     filesStill, docsStill, edits>>
      /\ pc = "list"
      /\ gone' = gone \cup (Page \ ScannedDocs)
      /\ cursor' \in Docs \cup {0}
      /\ pc' \in {"list", "plan", "apply"}
  <2>1. cursor' \in Docs \cup {0} /\ pc' \in {pc, AfterList}
    BY TurnType DEF ListPage
  <2> QED
    BY <2>1 DEF ListPage, AfterList
<1>2. TypeOK'
  BY <1>1, PageType DEF TypeOK
<1>3. ASSUME NEW d \in gone', d \in filesStill PROVE ~Wanted(call, files[d])
  <2>1. CASE d \in gone
    BY <1>3, <2>1 DEF GoneInv
  <2>2. CASE d \notin ScannedDocs
    BY <1>1, <1>3, <2>2 DEF ListInv, Wanted
  <2> QED
    BY <1>1, <2>1, <2>2
<1>4. GoneInv'
  BY <1>1, <1>3 DEF GoneInv, ListInv, Wanted, Fails, Follows
<1>5. FiniteInv' /\ WalkInv' /\ ListInv'
  BY <1>1 DEF FiniteInv, WalkInv, ListInv, ScannedDocs, Fails, Follows
<1> QED
  BY <1>2, <1>4, <1>5

LEMMA PlanForward == ASSUME IInv, PlanPage PROVE IInv'
<1> USE DEF IInv
<1>1. /\ UNCHANGED <<store, files, profile, call, left, scanned, errors, met, gone,
                     filesStill, docsStill, edits>>
      /\ pc = "plan"
      /\ cursor' \in Docs \cup {0}
      /\ pc' \in {"plan", "replied"}
  <2>1. cursor' \in Docs \cup {0} /\ pc' \in {pc, "replied"}
    BY TurnType DEF PlanPage
  <2> QED
    BY <2>1 DEF PlanPage
<1>2. fresh' \subseteq [doc : Docs, content : Contents]
  <2>1. \A d \in Page : IsFresh(store[d]) =>
          [doc |-> d, content |-> store[d].content] \in [doc : Docs, content : Contents]
    BY PageType DEF IsFresh, Fingerprints
  <2> QED
    BY <2>1 DEF PlanPage, TypeOK
<1>3. tally' \in [indexed : Nat, unchanged : Nat, deleted : Nat, batches : Nat]
  <2> DEFINE same == Cardinality(scanned \cap fresh')
  <2>1. /\ IsFiniteSet(scanned) /\ IsFiniteSet(scanned \cap fresh') /\ IsFiniteSet(gone)
        /\ same <= Cardinality(scanned)
    BY Bounds, FS_Subset DEF FiniteInv, TypeOK
  <2>2. same \in Nat /\ Cardinality(scanned) \in Nat /\ Cardinality(gone) \in Nat
    BY <2>1, FS_CardinalityType
  <2>3. tally' = [indexed |-> Cardinality(scanned) - same, unchanged |-> same,
                  deleted |-> Cardinality(gone), batches |-> 0] \/ tally' = tally
    BY DEF PlanPage, NoTally
  <2> HIDE DEF same
  <2> QED
    BY <2>1, <2>2, <2>3 DEF TypeOK
<1>4. TypeOK'
  BY <1>1, <1>2, <1>3 DEF TypeOK
<1>5. FiniteInv' /\ WalkInv' /\ ListInv' /\ GoneInv'
  BY <1>1 DEF FiniteInv, WalkInv, ListInv, GoneInv, Wanted, Fails, Follows
<1> QED
  BY <1>4, <1>5

\* A batch adds natural numbers to the counts.
LEMMA CountsType ==
  ASSUME TypeOK, NEW r, Apply(r),
         Cardinality(PlanFor(store, profile, r).index) \in Nat,
         Cardinality(PlanFor(store, profile, r).unchanged) \in Nat,
         Cardinality(PlanFor(store, profile, r).delete) \in Nat
  PROVE  tally' \in [indexed : Nat, unchanged : Nat, deleted : Nat, batches : Nat]
  BY DEF Apply, TypeOK

\* The batches that a scan is cut into.
LEMMA ChunkType ==
  ASSUME IInv, NEW ups \in Chunks
  PROVE  \E n \in Nat : ups \in [1..n -> scanned]
<1> DEFINE n == Min({MaxBatchDocs, Cardinality(scanned)})
<1>1. Cardinality(scanned) \in Nat
  BY FS_CardinalityType DEF IInv, FiniteInv
<1>2. n \in {MaxBatchDocs, Cardinality(scanned)}
  <2>1. \E x \in {MaxBatchDocs, Cardinality(scanned)} :
          \A y \in {MaxBatchDocs, Cardinality(scanned)} : x =< y
    BY <1>1, Bounds
  <2> QED
    BY <2>1, Zenon DEF Min
<1> HIDE DEF n
<1>3. n \in Nat
  BY <1>1, <1>2, Bounds
<1>4. ups \in [1..n -> scanned]
  BY DEF Chunks, n
<1> QED
  BY <1>3, <1>4

LEMMA UpsertForward ==
  ASSUME IInv, UpsertBatch
  PROVE  IInv' /\ \A d \in Docs : store'[d] = Absent => store[d] = Absent
<1> USE DEF IInv
<1>1. PICK ups \in Chunks : Apply(Batch(ups, {})) /\ scanned' = scanned \ Range(ups)
  BY DEF UpsertBatch
<1>2. PICK n \in Nat : ups \in [1..n -> scanned]
  BY ChunkType
<1>3. /\ store' \in [Docs -> Fingerprints \cup {Absent}]
      /\ \A d \in Docs : store'[d] = Absent => store[d] = Absent
      /\ tally' \in [indexed : Nat, unchanged : Nat, deleted : Nat, batches : Nat]
  <2>1. store' = Effect(store, profile, Batch(ups, {}), PlanFor(store, profile, Batch(ups, {})))
    BY <1>1 DEF Apply
  <2> QED
    BY <1>1, <1>2, <2>1, UpsertEffect, CountsType
<1>4. /\ UNCHANGED <<files, profile, pc, call, left, errors, met, cursor, gone, fresh,
                     filesStill, docsStill, edits>>
      /\ pc = "apply"
  BY DEF UpsertBatch
<1>5. scanned' \in SUBSET scanned /\ IsFiniteSet(scanned')
  BY <1>1, FS_Subset DEF FiniteInv
<1>6. TypeOK'
  BY <1>3, <1>4, <1>5 DEF TypeOK
<1>7. FiniteInv' /\ WalkInv' /\ ListInv' /\ GoneInv'
  BY <1>4, <1>5 DEF FiniteInv, WalkInv, ListInv, GoneInv, Wanted, Fails, Follows
<1> QED
  BY <1>3, <1>6, <1>7

LEMMA PruneForward ==
  ASSUME IInv, PruneBatch
  PROVE  /\ IInv'
         /\ \A d \in Docs : store[d] # Absent /\ store'[d] = Absent =>
              d \in gone /\ store[d].source = call.source
<1> USE DEF IInv
<1> DEFINE some == {d \in gone : Cardinality({e \in gone : e < d}) < MaxBatchDocs}
<1>1. /\ UNCHANGED <<files, profile, pc, call, left, scanned, errors, met, cursor, fresh,
                     filesStill, docsStill, edits>>
      /\ pc = "apply" /\ gone # {} /\ gone' = gone \ some
      /\ Apply(Batch(<<>>, some))
  BY DEF PruneBatch
<1>2. some \in SUBSET Docs /\ some \subseteq gone
  BY DEF TypeOK
<1> HIDE DEF some
<1>3. /\ store' \in [Docs -> Fingerprints \cup {Absent}]
      /\ \A d \in Docs : store[d] # Absent /\ store'[d] = Absent =>
           d \in some /\ InScope(store[d], call.source)
      /\ tally' \in [indexed : Nat, unchanged : Nat, deleted : Nat, batches : Nat]
  <2>1. store' = Effect(store, profile, Batch(<<>>, some),
                        PlanFor(store, profile, Batch(<<>>, some)))
    BY <1>1 DEF Apply
  <2> QED
    BY <1>1, <1>2, <2>1, PruneEffect, CountsType
<1>4. \A d \in Docs : store[d] # Absent /\ store'[d] = Absent =>
        d \in gone /\ store[d].source = call.source
  BY <1>1, <1>2, <1>3 DEF InScope, GoneInv
<1>5. TypeOK'
  BY <1>1, <1>3 DEF TypeOK
<1>6. FiniteInv' /\ WalkInv' /\ ListInv' /\ GoneInv'
  BY <1>1 DEF FiniteInv, WalkInv, ListInv, GoneInv, Wanted, Fails, Follows
<1> QED
  BY <1>4, <1>5, <1>6

LEMMA OthersStep ==
  ASSUME IInv,
         \/ \E d \in Docs, fp \in InitialDocs : OtherWrite(d, fp)
         \/ \E d \in Docs, f \in InitialFiles : FileChange(d, f)
  PROVE  IInv'
<1> USE DEF IInv
<1>1. ASSUME NEW d \in Docs, NEW fp \in InitialDocs, OtherWrite(d, fp) PROVE IInv'
  <2>1. /\ UNCHANGED <<files, profile, local, filesStill>>
        /\ docsStill' \subseteq docsStill
        /\ edits' \in 0..MaxEdits
    BY <1>1, Bounds DEF OtherWrite, TypeOK
  <2>2. store' \in [Docs -> Fingerprints \cup {Absent}]
    BY <1>1, SyncAssumption DEF OtherWrite, TypeOK
  <2>3. TypeOK'
    BY <2>1, <2>2 DEF TypeOK
  <2>4. FiniteInv' /\ WalkInv' /\ ListInv' /\ GoneInv'
    BY <2>1 DEF FiniteInv, WalkInv, ListInv, GoneInv, ScannedDocs, Wanted, Fails, Follows
  <2> QED
    BY <2>3, <2>4
<1>2. ASSUME NEW d \in Docs, NEW f \in InitialFiles, FileChange(d, f) PROVE IInv'
  <2>1. /\ UNCHANGED <<store, profile, local, docsStill>>
        /\ filesStill' = filesStill \ {d}
        /\ \A e \in filesStill' : files'[e] = files[e]
        /\ edits' \in 0..MaxEdits
    BY <1>2, Bounds DEF FileChange, TypeOK
  <2>2. files' \in [Docs -> FileStates]
    BY <1>2, SyncAssumption DEF FileChange, TypeOK
  <2>3. TypeOK'
    BY <2>1, <2>2 DEF TypeOK
  <2>4. FiniteInv' /\ WalkInv' /\ ListInv' /\ GoneInv'
    BY <2>1 DEF FiniteInv, WalkInv, ListInv, GoneInv, ScannedDocs, Wanted, Fails, Follows
  <2> QED
    BY <2>3, <2>4
<1> QED
  BY <1>1, <1>2

\* What begins and what ends a call.
LEMMA EdgeStep ==
  ASSUME IInv, (\E p \in Calls : Call(p)) \/ WalkExceeds \/ Return \/ Fail \/ Restart
  PROVE  IInv'
<1>1. TypeOK
  BY DEF IInv
<1>2. ASSUME NEW p \in Calls, Call(p) PROVE IInv'
  BY <1>1, <1>2, FreshStep DEF Call, TypeOK
<1>3. CASE WalkExceeds \/ Return \/ Fail
  BY <1>1, <1>3, FreshStep DEF WalkExceeds, Return, Fail, Abort, TypeOK
<1>4. CASE Restart
  <2>1. edits' \in 0..MaxEdits
    BY <1>1, <1>4, Bounds DEF Restart, TypeOK
  <2> QED
    BY <1>1, <1>4, <2>1, FreshStep DEF Restart, TypeOK
<1> QED
  BY <1>2, <1>3, <1>4

LEMMA ReplyStep == ASSUME IInv, Reply PROVE IInv'
  BY DEF IInv, Reply, TypeOK, FiniteInv, WalkInv, ListInv, GoneInv, Wanted, Fails, Follows

LEMMA NextInv == IInv /\ [Next]_vars => IInv'
<1> SUFFICES ASSUME IInv, [Next]_vars PROVE IInv'
  OBVIOUS
<1>1. CASE Step
  BY <1>1, WalkForward, WalkEnds, ListForward, PlanForward, UpsertForward, PruneForward,
     ReplyStep, EdgeStep DEF Step
<1>2. CASE UNCHANGED vars
  BY <1>2 DEF IInv, TypeOK, FiniteInv, WalkInv, ListInv, GoneInv, ScannedDocs, Wanted, Fails,
              Follows
<1> QED
  BY <1>1, <1>2, EdgeStep, OthersStep DEF Next

-----------------------------------------------------------------------------
\* The inductive invariant of a synchronisation, whoever else writes.
THEOREM Invariance == Spec => []IInv
  BY InitInv, NextInv, PTL DEF Spec

\* The variables of a synchronisation hold values of their types; above all,
\* the cursor is always the id of a document, whatever the others delete.
THEOREM TypeCorrect == Spec => []TypeOK
<1>1. IInv => TypeOK
  BY DEF IInv
<1> QED
  BY <1>1, Invariance, PTL

\* Only the batches of a call make a document absent while it goes on.
LEMMA OnlyBatchesDelete ==
  ASSUME IInv, [Next]_vars, pc' = pc, local' # local
  PROVE  store' = store \/ UpsertBatch \/ PruneBatch
<1>1. CASE Step
  BY <1>1 DEF Step, WalkStep, WalkExceeds, EndWalk, ListPage, PlanPage, Reply, Return, Fail
<1>2. ASSUME NEW p \in Calls, Call(p) PROVE store' = store
  BY <1>2 DEF Call
<1>3. ASSUME NEW d \in Docs, NEW fp \in InitialDocs, OtherWrite(d, fp) PROVE FALSE
  BY <1>3 DEF OtherWrite
<1> QED
  BY <1>1, <1>2, <1>3 DEF Next, FileChange, Restart

\* However pages and batches are cut, and whatever other clients write and
\* other programs do to the directory meanwhile, a synchronisation deletes no
\* document whose file the call wants and that was there all along, and no
\* document of another source.
THEOREM SyncSparesFiles == Spec => FilesSurvive
<1>1. IInv /\ [Next]_vars =>
        [pc' = pc /\ local' # local =>
           \A d \in Docs :
             store[d] # Absent /\ store'[d] = Absent =>
               /\ store[d].source = call.source
               /\ d \in filesStill => ~Wanted(call, files[d])]_vars
  <2> SUFFICES ASSUME IInv, [Next]_vars, pc' = pc, local' # local,
                      NEW d \in Docs, store[d] # Absent, store'[d] = Absent
               PROVE  /\ store[d].source = call.source
                      /\ d \in filesStill => ~Wanted(call, files[d])
    OBVIOUS
  <2>1. PruneBatch
    BY OnlyBatchesDelete, UpsertForward
  <2>2. d \in gone /\ store[d].source = call.source
    BY <2>1, PruneForward
  <2> QED
    BY <2>2 DEF IInv, GoneInv
<1> QED
  BY <1>1, Invariance, PTL DEF Spec, FilesSurvive

-----------------------------------------------------------------------------
(* The measure. *)

\* The walk reads a path once.
OnceInv ==
  /\ \A u, v \in scanned : u.doc = v.doc => u = v
  /\ \A u \in scanned : u.doc \notin left

LEMMA OnceNext == OnceInv /\ [Next]_vars => OnceInv'
<1> SUFFICES ASSUME OnceInv, [Next]_vars PROVE OnceInv'
  OBVIOUS
<1>1. ASSUME NEW d \in Docs, WalkStep(d) PROVE OnceInv'
  <2>1. /\ left' = left \ {d} /\ d \in left
        /\ \A u \in scanned' : u \in scanned \/ u = [doc |-> d, content |-> files[d]]
    BY <1>1 DEF WalkStep
  <2>2. \A u \in scanned : u.doc # d
    BY <2>1 DEF OnceInv
  <2>3. \A u \in scanned' : (u \in scanned /\ u.doc # d) \/ (u = [doc |-> d, content |-> files[d]] /\ u.doc = d)
    BY <2>1, <2>2
  <2> QED
    BY <2>1, <2>3 DEF OnceInv
<1>2. CASE \E p, at : Fresh(p, at)
  BY <1>2 DEF Fresh, OnceInv
<1>3. CASE scanned' \subseteq scanned /\ left' = left
  BY <1>3 DEF OnceInv
<1>4. \/ \E d \in Docs : WalkStep(d)
      \/ \E p, at : Fresh(p, at)
      \/ scanned' \subseteq scanned /\ left' = left
  <2>1. CASE Step
    BY <2>1 DEF Step, WalkExceeds, EndWalk, ListPage, PlanPage, UpsertBatch, PruneBatch,
                Reply, Return, Fail, Abort
  <2> QED
    BY <2>1 DEF Next, Call, OtherWrite, FileChange, Restart
<1> QED
  BY <1>1, <1>2, <1>3, <1>4

LEMMA OnceInvariance == Spec => []OnceInv
<1>1. Init => OnceInv
  BY DEF Init, OnceInv
<1> QED
  BY <1>1, OnceNext, PTL DEF Spec

\* What the measure is made of: numbers, at most that of the documents.
Beyond == {d \in Docs : d > cursor}

Sized ==
  LET n == Cardinality(Docs)
  IN  /\ n \in Nat
      /\ Cardinality(Beyond) \in 0..n
      /\ Cardinality(scanned) \in 0..n
      /\ Cardinality(gone) \in 0..n
      /\ Cardinality(left) \in 0..n
      /\ IsFiniteSet(Beyond) /\ IsFiniteSet(scanned) /\ IsFiniteSet(gone) /\ IsFiniteSet(left)

LEMMA MeasureType == IInv /\ OnceInv => Sized
<1> SUFFICES ASSUME IInv, OnceInv PROVE Sized
  OBVIOUS
<1>1. /\ Cardinality(Docs) \in Nat
      /\ \A S \in SUBSET Docs : IsFiniteSet(S) /\ Cardinality(S) \in 0..Cardinality(Docs)
  <2>1. Cardinality(Docs) \in Nat
    BY Bounds, FS_CardinalityType
  <2>2. ASSUME NEW S \in SUBSET Docs
        PROVE  IsFiniteSet(S) /\ Cardinality(S) \in 0..Cardinality(Docs)
    <3>1. IsFiniteSet(S) /\ Cardinality(S) <= Cardinality(Docs)
      BY Bounds, FS_Subset
    <3>2. Cardinality(S) \in Nat
      BY <3>1, FS_CardinalityType
    <3> QED
      BY <2>1, <3>1, <3>2
  <2> QED
    BY <2>1, <2>2
<1>2. Beyond \in SUBSET Docs /\ gone \in SUBSET Docs /\ left \in SUBSET Docs
  BY DEF Beyond, IInv, TypeOK
<1>3. IsFiniteSet(scanned) /\ Cardinality(scanned) \in 0..Cardinality(Docs)
  <2> DEFINE f == [u \in scanned |-> u.doc]
  <2>1. f \in [scanned -> Docs]
    BY DEF IInv, TypeOK
  <2>2. IsInjective(f)
    BY DEF OnceInv, IsInjective
  <2> HIDE DEF f
  <2>3. f \in Injection(scanned, Docs)
    BY <2>1, <2>2 DEF Injection
  <2>4. IsFiniteSet(scanned) /\ Cardinality(scanned) <= Cardinality(Docs)
    BY <2>3, Bounds, FS_Injection
  <2>5. Cardinality(scanned) \in Nat
    BY <2>4, FS_CardinalityType
  <2> QED
    BY <1>1, <2>4, <2>5
<1> QED
  BY <1>1, <1>2, <1>3 DEF Sized

\* A part of a finite set that is not all of it is smaller.
LEMMA Smaller ==
  ASSUME NEW S, IsFiniteSet(S), NEW T \in SUBSET S, T # S
  PROVE  Cardinality(T) < Cardinality(S)
<1>1. IsFiniteSet(T) /\ Cardinality(T) <= Cardinality(S) /\ Cardinality(T) # Cardinality(S)
  BY FS_Subset
<1>2. Cardinality(T) \in Nat /\ Cardinality(S) \in Nat
  BY <1>1, FS_CardinalityType
<1> QED
  BY <1>1, <1>2

\* A page that does not end the listing leaves fewer ids beyond its cursor.
LEMMA PageAdvances ==
  ASSUME TypeOK, IsFiniteSet(Beyond), Page # Rest, cursor' = NextCursor(Rest, Page)
  PROVE  Cardinality(Beyond') < Cardinality(Beyond)
<1>1. cursor' \in Docs /\ cursor' \in Rest
  BY CursorType, PageType
<1>2. cursor' > cursor
  BY <1>1 DEF Rest
<1>3. cursor' \in Nat /\ cursor \in Nat /\ \A d \in Docs : d \in Nat
  BY <1>1, Bounds DEF TypeOK
<1>4. Beyond' \in SUBSET Beyond
  BY <1>2, <1>3 DEF Beyond
<1>5. cursor' \in Beyond /\ cursor' \notin Beyond'
  BY <1>1, <1>2, <1>3 DEF Beyond
<1> QED
  BY <1>4, <1>5, Smaller

\* Every step of the call itself makes the measure smaller.
LEMMA StepAdvances ==
  ASSUME IInv, OnceInv, IInv', OnceInv', Step
  PROVE  Remaining' < Remaining
<1> DEFINE n == Cardinality(Docs)
<1>1. /\ n \in Nat
      /\ Cardinality(Beyond) \in 0..n /\ Cardinality(scanned) \in 0..n
      /\ Cardinality(gone) \in 0..n /\ Cardinality(left) \in 0..n
      /\ IsFiniteSet(Beyond) /\ IsFiniteSet(scanned) /\ IsFiniteSet(gone) /\ IsFiniteSet(left)
  BY MeasureType DEF Sized
<1>2. /\ Cardinality(Beyond') \in 0..n /\ Cardinality(scanned') \in 0..n
      /\ Cardinality(gone') \in 0..n /\ Cardinality(left') \in 0..n
  <2>1. Sized'
    BY MeasureType, PTL
  <2> QED
    BY <2>1 DEF Sized
<1>3. Remaining = CASE pc = "walk"    -> 4 + 3 * n + Cardinality(left)
                    [] pc = "list"    -> 3 + 2 * n + Cardinality(Beyond)
                    [] pc = "plan"    -> 2 + Cardinality(Beyond)
                    [] pc = "apply"   -> 2 + Cardinality(scanned) + Cardinality(gone)
                    [] pc = "replied" -> 1
                    [] pc = "idle"    -> 0
  BY DEF Remaining, Beyond
<1>4. Remaining' = CASE pc' = "walk"    -> 4 + 3 * n + Cardinality(left')
                     [] pc' = "list"    -> 3 + 2 * n + Cardinality(Beyond')
                     [] pc' = "plan"    -> 2 + Cardinality(Beyond')
                     [] pc' = "apply"   -> 2 + Cardinality(scanned') + Cardinality(gone')
                     [] pc' = "replied" -> 1
                     [] pc' = "idle"    -> 0
  BY DEF Remaining, Beyond
<1> HIDE DEF n
<1>5. ASSUME NEW d \in Docs, WalkStep(d) PROVE Remaining' < Remaining
  <2>1. left' \in SUBSET left /\ left' # left /\ pc = "walk" /\ pc' = "walk"
    BY <1>5 DEF WalkStep
  <2>2. Cardinality(left') < Cardinality(left)
    BY <1>1, <2>1, Smaller
  <2> QED
    BY <1>1, <1>2, <1>3, <1>4, <2>1, <2>2
<1>6. CASE EndWalk
  <2>1. /\ pc = "walk" /\ pc' \in {"list", "plan", "apply"} /\ gone' = {}
    BY <1>6 DEF EndWalk, AfterList, IInv, WalkInv
  <2>2. Cardinality(gone') = 0
    BY <2>1, FS_EmptySet
  <2> QED
    BY <1>1, <1>2, <1>3, <1>4, <2>1, <2>2
<1>7. CASE ListPage
  <2>1. CASE Page = Rest
    <3>1. pc = "list" /\ pc' \in {"plan", "apply"}
      BY <1>7, <2>1 DEF ListPage, Turn, AfterList
    <3> QED
      BY <1>1, <1>2, <1>3, <1>4, <3>1
  <2>2. CASE Page # Rest
    <3>1. pc = "list" /\ pc' = "list" /\ cursor' = NextCursor(Rest, Page)
      BY <1>7, <2>2 DEF ListPage, Turn
    <3>2. Cardinality(Beyond') < Cardinality(Beyond)
      BY <1>1, <2>2, <3>1, PageAdvances DEF IInv
    <3> QED
      BY <1>1, <1>2, <1>3, <1>4, <3>1, <3>2
  <2> QED
    BY <2>1, <2>2
<1>8. CASE PlanPage
  <2>1. CASE Page = Rest
    <3>1. pc = "plan" /\ pc' = "replied"
      BY <1>8, <2>1 DEF PlanPage, Turn
    <3> QED
      BY <1>1, <1>2, <1>3, <1>4, <3>1
  <2>2. CASE Page # Rest
    <3>1. pc = "plan" /\ pc' = "plan" /\ cursor' = NextCursor(Rest, Page)
      BY <1>8, <2>2 DEF PlanPage, Turn
    <3>2. Cardinality(Beyond') < Cardinality(Beyond)
      BY <1>1, <2>2, <3>1, PageAdvances DEF IInv
    <3> QED
      BY <1>1, <1>2, <1>3, <1>4, <3>1, <3>2
  <2> QED
    BY <2>1, <2>2
<1>9. CASE UpsertBatch
  <2>1. /\ pc = "apply" /\ pc' = "apply" /\ gone' = gone /\ scanned # {}
    BY <1>9 DEF UpsertBatch
  <2>2. PICK ups \in Chunks : scanned' = scanned \ Range(ups)
    BY <1>9 DEF UpsertBatch
  <2>3. \E u \in scanned : u \in Range(ups)
    <3> DEFINE m == Min({MaxBatchDocs, Cardinality(scanned)})
    <3>1. Cardinality(scanned) # 0
      BY <1>1, <2>1, FS_EmptySet
    <3>2. m \in {MaxBatchDocs, Cardinality(scanned)}
      <4>1. \E x \in {MaxBatchDocs, Cardinality(scanned)} :
              \A y \in {MaxBatchDocs, Cardinality(scanned)} : x =< y
        BY <1>1, Bounds
      <4> QED
        BY <4>1, Zenon DEF Min
    <3>3. ups \in [1..m -> scanned]
      BY DEF Chunks
    <3> HIDE DEF m
    <3>4. 1 \in 1..m
      BY <1>1, <3>1, <3>2, Bounds, SyncAssumption
    <3> QED
      BY <3>3, <3>4 DEF Range
  <2>4. scanned' \in SUBSET scanned /\ scanned' # scanned
    BY <2>2, <2>3
  <2>5. Cardinality(scanned') < Cardinality(scanned)
    BY <1>1, <2>4, Smaller
  <2> QED
    BY <1>1, <1>2, <1>3, <1>4, <2>1, <2>5
<1>10. CASE PruneBatch
  <2> DEFINE some == {d \in gone : Cardinality({e \in gone : e < d}) < MaxBatchDocs}
  <2>1. pc = "apply" /\ pc' = "apply" /\ scanned' = scanned /\ gone # {} /\ gone' = gone \ some
    BY <1>10 DEF PruneBatch
  <2>2. gone \in SUBSET Nat
    BY Bounds DEF IInv, TypeOK
  <2>3. PICK m \in gone : Cardinality({e \in gone : e < m}) = 0
    BY <1>1, <2>1, <2>2, HasMin
  <2>4. m \in some
    BY <2>3, Bounds, SyncAssumption
  <2>5. gone' \in SUBSET gone /\ gone' # gone
    BY <2>1, <2>4
  <2>6. Cardinality(gone') < Cardinality(gone)
    BY <1>1, <2>5, Smaller
  <2> QED
    BY <1>1, <1>2, <1>3, <1>4, <2>1, <2>6
<1>11. CASE Reply
  <2>1. pc = "apply" /\ pc' = "replied"
    BY <1>11 DEF Reply
  <2> QED
    BY <1>1, <1>3, <1>4, <2>1
<1>12. CASE WalkExceeds \/ Return \/ Fail
  <2>1. pc \in {"walk", "list", "plan", "apply", "replied"} /\ pc' = "idle"
    BY <1>12 DEF WalkExceeds, Return, Fail, Abort, Fresh
  <2> QED
    BY <1>1, <1>3, <1>4, <2>1
<1> QED
  BY <1>5, <1>6, <1>7, <1>8, <1>9, <1>10, <1>11, <1>12 DEF Step

\* A process that dies has nothing left of its call.
LEMMA RestartAdvances ==
  ASSUME IInv, OnceInv, Restart, pc # "idle"
  PROVE  Remaining' < Remaining
<1>1. /\ Cardinality(Docs) \in Nat
      /\ Cardinality(Beyond) \in Nat /\ Cardinality(scanned) \in Nat
      /\ Cardinality(gone) \in Nat /\ Cardinality(left) \in Nat
  BY MeasureType DEF Sized
<1>2. Remaining' = 0
  BY DEF Restart, Fresh, Remaining
<1>3. pc \in {"walk", "list", "plan", "apply", "replied"}
  BY DEF IInv, TypeOK
<1>4. Remaining > 0
  BY <1>1, <1>3 DEF Remaining, Beyond
<1> QED
  BY <1>2, <1>4

\* A synchronisation ends however busy the collection and the directory are:
\* each of its steps makes a number smaller that nobody else can touch.
THEOREM SyncEnds == Spec => CallEnds
<1>1. IInv /\ OnceInv /\ IInv' /\ OnceInv' /\ [Next]_vars =>
        [(pc # "idle" /\ local' # local => Remaining' < Remaining)
           /\ (local' = local => Remaining' = Remaining)]_vars
  <2> SUFFICES ASSUME IInv, OnceInv, IInv', OnceInv', Next
               PROVE  /\ pc # "idle" /\ local' # local => Remaining' < Remaining
                      /\ local' = local => Remaining' = Remaining
    BY DEF Remaining
  <2>1. local' = local => Remaining' = Remaining
    BY DEF Remaining
  <2>2. ASSUME pc # "idle", local' # local PROVE Step \/ Restart
    BY <2>2 DEF Next, Call, OtherWrite, FileChange
  <2> QED
    BY <2>1, <2>2, StepAdvances, RestartAdvances
<1> QED
  BY <1>1, Invariance, OnceInvariance, PTL DEF Spec, CallEnds
-----------------------------------------------------------------------------
(* What a call owes to the documents and files nobody else touched. *)

Still == filesStill \cap docsStill

\* The document is what its file says, or belongs to another source.
MirrorsFile(d) ==
  /\ store[d] # Absent
  /\ InScope(store[d], call.source) =>
       store[d].content = files[d] /\ store[d].profile = profile

Owes(d) ==
  files[d] \in Contents =>
    [doc |-> d, content |-> files[d]] \in scanned \/ MirrorsFile(d)

\* A document of the source without a file, in a call that prunes.
Stray(d) ==
  /\ call.prune
  /\ ~errors
  /\ ~Wanted(call, files[d])
  /\ store[d] # Absent
  /\ store[d].source = call.source

PhaseInv ==
  /\ pc # "walk" => left = {}
  /\ pc = "walk" => cursor = 0
  /\ pc = "plan" => call.dry
  /\ pc = "apply" => ~call.dry
  /\ pc = "replied" => call.dry \/ (scanned = {} /\ gone = {})
  /\ call.prune => call.source # NoSource

\* What was read of a file that has not changed is still true.
ReadInv == \A u \in scanned : u.doc \in filesStill => files[u.doc] = u.content

\* A file the walk has passed is still to be upserted, or has been.
OwedInv == \A d \in Still \ left : Owes(d)

\* The prune does not find its fingerprint.
Missed(d) == ~call.dry /\ store[d].content \in Oversized

\* A document without a file is ahead of the cursor, or on its way out, or has
\* been missed on its way out.
StrayInv ==
  \A d \in Still :
    Stray(d) => /\ pc = "list" => d > cursor \/ d \in gone
                /\ pc = "plan" => d \in gone
                /\ pc \in {"apply", "replied"} => d \in gone \/ Missed(d)

MirrorInv == PhaseInv /\ ReadInv /\ OwedInv /\ StrayInv

LEMMA SameDoc ==
  ASSUME NEW d, files'[d] = files[d], store'[d] = store[d],
         UNCHANGED <<call, errors, profile>>
  PROVE  (MirrorsFile(d)' <=> MirrorsFile(d)) /\ (Stray(d)' <=> Stray(d))
<1>1. MirrorsFile(d)' <=> MirrorsFile(d)
  BY DEF MirrorsFile
<1>2. Wanted(call, files[d])' <=> Wanted(call, files[d])
  BY DEF Wanted, Fails, Follows
<1>3. Stray(d)' <=> Stray(d)
  BY <1>2, Zenon DEF Stray
<1> QED
  BY <1>1, <1>3

\* Steps that leave the documents, the plan and the place of a call alone, or
\* take documents out of what it answers for.
LEMMA MirrorKept ==
  ASSUME MirrorInv, UNCHANGED <<call, errors, profile, left, scanned, gone, pc, cursor>>,
         filesStill' \subseteq filesStill, docsStill' \subseteq docsStill,
         \A d \in filesStill' : files'[d] = files[d],
         \A d \in docsStill' : store'[d] = store[d]
  PROVE  MirrorInv'
<1>1. \A d \in Still' : /\ d \in Still
                        /\ MirrorsFile(d)' <=> MirrorsFile(d)
                        /\ Stray(d)' <=> Stray(d)
                        /\ files'[d] = files[d]
                        /\ Missed(d)' <=> Missed(d)
  BY SameDoc DEF Still, Missed
<1>2. PhaseInv' /\ ReadInv'
  BY DEF MirrorInv, PhaseInv, ReadInv
<1>3. OwedInv'
  BY <1>1 DEF MirrorInv, OwedInv, Owes
<1>4. StrayInv'
  BY <1>1 DEF MirrorInv, StrayInv
<1> QED
  BY <1>2, <1>3, <1>4 DEF MirrorInv

LEMMA MirrorFresh ==
  ASSUME NEW p \in Calls \cup {NoCall}, NEW at \in {"idle", "walk"}, Fresh(p, at),
         p.prune => p.source # NoSource
  PROVE  MirrorInv'
<1>1. /\ scanned' = {} /\ gone' = {} /\ filesStill' = left' /\ docsStill' = left'
      /\ pc' = at /\ call' = p /\ cursor' = 0
      /\ at # "walk" => left' = {}
  BY DEF Fresh
<1> QED
  BY <1>1 DEF MirrorInv, PhaseInv, ReadInv, OwedInv, StrayInv, Still

LEMMA MirrorWalk == ASSUME IInv, MirrorInv, NEW d \in Docs, WalkStep(d) PROVE MirrorInv'
<1>1. /\ UNCHANGED <<store, files, profile, pc, call, cursor, gone, filesStill, docsStill>>
      /\ left' = left \ {d} /\ pc = "walk"
      /\ scanned' = IF files[d] \in Contents
                    THEN scanned \cup {[doc |-> d, content |-> files[d]]} ELSE scanned
  BY DEF WalkStep
<1>2. [doc |-> d, content |-> files[d]].doc = d /\ [doc |-> d, content |-> files[d]].content = files[d]
  OBVIOUS
<1>3. PhaseInv' /\ StrayInv'
  BY <1>1 DEF MirrorInv, PhaseInv, StrayInv
<1>4. ReadInv'
  BY <1>1, <1>2 DEF MirrorInv, ReadInv
<1>5. ASSUME NEW e \in Still' \ left' PROVE Owes(e)'
  <2>1. CASE e = d
    BY <1>1, <2>1 DEF Owes
  <2>2. CASE e # d
    BY <1>1, <2>2, <1>5 DEF Owes, MirrorsFile, MirrorInv, OwedInv, Still
  <2> QED
    BY <2>1, <2>2
<1> QED
  BY <1>3, <1>4, <1>5 DEF MirrorInv, OwedInv

LEMMA MirrorEndWalk == ASSUME IInv, MirrorInv, EndWalk PROVE MirrorInv'
<1>1. /\ UNCHANGED <<store, files, profile, call, left, scanned, errors, cursor, gone,
                     filesStill, docsStill>>
      /\ pc = "walk" /\ left = {} /\ cursor = 0
      /\ pc' = IF MayPrune THEN "list" ELSE AfterList
  BY DEF EndWalk, MirrorInv, PhaseInv
<1>2. PhaseInv' /\ ReadInv' /\ OwedInv'
  BY <1>1 DEF MirrorInv, PhaseInv, ReadInv, OwedInv, Owes, MirrorsFile, Still, AfterList
<1>3. ASSUME NEW d \in Still', Stray(d)'
      PROVE  pc' = "list" /\ d > cursor'
  <2>1. Stray(d)
    BY <1>1, <1>3, SameDoc
  <2>2. MayPrune
    BY <2>1, Zenon DEF Stray, MayPrune, MirrorInv, PhaseInv
  <2>3. d \in Nat \ {0}
    BY <1>3, <1>1, SyncAssumption DEF Still, IInv, TypeOK
  <2> QED
    BY <1>1, <2>2, <2>3
<1> QED
  BY <1>2, <1>3 DEF MirrorInv, StrayInv

\* Nothing that is listed lies between a page and the next.
LEMMA PageCovers ==
  ASSUME TypeOK, NEW d \in Rest, NEW after, Turn(after)
  PROVE  d \in Page \/ (pc' = pc /\ d > cursor')
<1>1. Page \in SUBSET Docs /\ Rest \in SUBSET Docs
  BY PageType
<1>2. CASE Page = Rest
  BY <1>2
<1>3. CASE Page # Rest
  <2>1. cursor' \in Page /\ pc' = pc
    BY <1>3, CursorType DEF Turn
  <2>2. ASSUME d <= cursor' PROVE d \in Page
    <3>p. PICK m \in Page : m = cursor'
      BY <2>1
    <3> DEFINE below(n) == {e \in Rest : e < n}
    <3>0. d \in Nat /\ m \in Nat /\ d <= m /\ \A e \in Rest : e \in Nat
      BY <1>1, <2>2, <3>p, Bounds
    <3>1. below(d) \subseteq below(m)
      <4>1. ASSUME NEW e \in Rest, e < d PROVE e < m
        <5>1. e \in Nat
          BY <3>0
        <5> QED
          BY <3>0, <4>1, <5>1
      <4> QED
        BY <4>1
    <3>2. IsFiniteSet(Rest) /\ IsFiniteSet(below(m))
      BY <1>1, Bounds, FS_Subset
    <3>3. Cardinality(below(d)) <= Cardinality(below(m))
      <4> HIDE DEF below
      <4> QED
        BY <3>1, <3>2, FS_Subset
    <3>4. IsFiniteSet(below(d))
      <4> HIDE DEF below
      <4> QED
        BY <3>1, <3>2, FS_Subset
    <3>5. Cardinality(below(d)) \in Nat /\ Cardinality(below(m)) \in Nat
      <4> HIDE DEF below
      <4> QED
        BY <3>2, <3>4, FS_CardinalityType
    <3>6. Cardinality(below(m)) < PageLimit
      BY <2>1 DEF Page
    <3>7. Cardinality(below(d)) < PageLimit
      <4> HIDE DEF below
      <4> QED
        BY <3>3, <3>5, <3>6, Bounds
    <3> QED
      BY <3>7 DEF Page
  <2>3. d \in Nat /\ cursor' \in Nat
    BY <1>1, <2>1, Bounds
  <2> QED
    BY <2>1, <2>2, <2>3
<1> QED
  BY <1>2, <1>3

LEMMA MirrorList == ASSUME IInv, MirrorInv, ListPage PROVE MirrorInv'
<1>1. /\ UNCHANGED <<store, files, profile, call, left, scanned, errors,
                     filesStill, docsStill>>
      /\ pc = "list" /\ left = {}
      /\ gone' = gone \cup (Page \ ScannedDocs)
      /\ Turn(AfterList)
      /\ pc' \in {"list", AfterList}
  BY DEF ListPage, MirrorInv, PhaseInv, Turn
<1>2. PhaseInv' /\ ReadInv' /\ OwedInv'
  BY <1>1 DEF MirrorInv, PhaseInv, ReadInv, OwedInv, Owes, MirrorsFile, Still, AfterList
<1>3. ASSUME NEW d \in Still', Stray(d)'
      PROVE  d \in gone' \/ (pc' = "list" /\ d > cursor')
  <2>1. Stray(d) /\ d \in Still /\ d \in Docs
    BY <1>1, <1>3, SameDoc DEF Still, IInv, TypeOK
  <2>2. d > cursor \/ d \in gone
    BY <1>1, <2>1 DEF MirrorInv, StrayInv
  <2>3. d \in InManifest
    BY <2>1, DataAssumption DEF Stray, InManifest, Sentinels, InScope, IInv, TypeOK
  <2>4. d \notin ScannedDocs
    BY <2>1 DEF ScannedDocs, Stray, Wanted, Still, MirrorInv, ReadInv, IInv, TypeOK
  <2>5. CASE d > cursor
    <3>1. d \in Rest
      BY <2>1, <2>3, <2>5 DEF Rest
    <3>2. d \in Page \/ (pc' = pc /\ d > cursor')
      BY <1>1, <3>1, PageCovers DEF IInv
    <3> QED
      BY <1>1, <2>4, <3>2
  <2> QED
    BY <1>1, <2>2, <2>5
<1>4. StrayInv'
  BY <1>1, <1>3 DEF StrayInv, AfterList
<1> QED
  BY <1>2, <1>4 DEF MirrorInv

LEMMA MirrorPlan == ASSUME IInv, MirrorInv, PlanPage PROVE MirrorInv'
<1>1. /\ UNCHANGED <<store, files, profile, call, left, scanned, errors, gone,
                     filesStill, docsStill>>
      /\ pc = "plan" /\ pc' \in {"plan", "replied"}
  BY DEF PlanPage, Turn
<1>2. PhaseInv' /\ ReadInv' /\ OwedInv'
  BY <1>1 DEF MirrorInv, PhaseInv, ReadInv, OwedInv, Owes, MirrorsFile, Still
<1>3. \A d \in Still' : d \in Still /\ (Stray(d)' <=> Stray(d))
  BY <1>1, SameDoc DEF Still
<1> QED
  BY <1>1, <1>2, <1>3 DEF MirrorInv, StrayInv

LEMMA MirrorReply == ASSUME MirrorInv, Reply PROVE MirrorInv'
<1>1. /\ UNCHANGED <<store, files, profile, call, left, scanned, errors, gone,
                     filesStill, docsStill>>
      /\ pc = "apply" /\ pc' = "replied" /\ scanned = {} /\ gone = {}
  BY DEF Reply
<1>2. PhaseInv' /\ ReadInv' /\ OwedInv'
  BY <1>1 DEF MirrorInv, PhaseInv, ReadInv, OwedInv, Owes, MirrorsFile, Still
<1>3. \A d \in Still' : d \in Still /\ (Stray(d)' <=> Stray(d))
  BY <1>1, SameDoc DEF Still
<1> QED
  BY <1>1, <1>2, <1>3 DEF MirrorInv, StrayInv, Missed

\* The index finds the fingerprint a document has, or none where there is no
\* document or its content is too long.
LEMMA Fingerprinted ==
  ASSUME TypeOK, NEW d \in Docs
  PROVE  /\ DocFingerprint(store, d) # Absent => DocFingerprint(store, d) = store[d]
         /\ store[d] # Absent /\ store[d].content \notin Oversized =>
              DocFingerprint(store, d) = store[d]
  BY SyncAssumption, DataAssumption, StatesDiffer DEF DocFingerprint, Sentinels, TypeOK

\* A batch of upserts leaves a document as it is or as the scan read its file,
\* and afterwards the files of the batch are mirrored.
LEMMA UpsertExact ==
  ASSUME TypeOK, OnceInv, NEW n \in Nat, NEW ups \in [1..n -> scanned], NEW d \in Docs
  PROVE  LET r == Batch(ups, {})
             c == Effect(store, profile, r, PlanFor(store, profile, r))[d]
         IN  /\ \/ c = store[d]
                \/ \E u \in scanned : /\ u.doc = d
                                      /\ c = [content |-> u.content, profile |-> profile,
                                              source |-> call.source]
             /\ \A i \in 1..n : ups[i].doc = d =>
                  /\ c # Absent
                  /\ InScope(c, call.source) =>
                       c.content = ups[i].content /\ c.profile = profile
<1> DEFINE r == Batch(ups, {})
           plan == PlanFor(store, profile, r)
           I == UpsertsOf(r, plan.index, d)
           c == Effect(store, profile, r, plan)[d]
<1>1. /\ r.ups = ups /\ r.dels = {} /\ r.op = "delta" /\ r.scope = call.source
      /\ DOMAIN r.ups = 1..n
  BY DEF Batch
<1>2. /\ plan.index = {i \in 1..n : UpsertStatus(DocFingerprint(store, ups[i].doc), r, i, profile) = "indexed"}
      /\ plan.delete = {}
  BY <1>1 DEF PlanFor, Classify, UpsertsWith
<1>3. I = {i \in plan.index : ups[i].doc = d} /\ I \subseteq 1..n
  BY <1>1, <1>2 DEF UpsertsOf
<1>4. c = IF I # {} THEN Written(r, Latest(I), profile) ELSE store[d]
  BY <1>2 DEF Effect
<1>5. I # {} => Latest(I) \in I
  <2> HIDE DEF I
  <2>1. IsFiniteSet(1..n) /\ I \in SUBSET (1..n)
    BY <1>3, FS_Interval
  <2>2. IsFiniteSet(I)
    BY <2>1, FS_Subset
  <2>3. I \in SUBSET Nat
    BY <2>1
  <2>4. I # {} => \E i \in I : \A j \in I : j <= i
    BY <2>2, <2>3, HasMax
  <2> QED
    BY <2>4, Zenon DEF Latest
<1>6. \A i \in 1..n : UpsertStatus(DocFingerprint(store, ups[i].doc), r, i, profile) # "indexed" =>
        LET fp == DocFingerprint(store, ups[i].doc)
        IN  /\ fp # Absent
            /\ InScope(fp, call.source) => fp.content = ups[i].content /\ fp.profile = profile
  BY <1>1 DEF UpsertStatus, ShouldSkipUpsert
<1>7. DocFingerprint(store, d) # Absent => DocFingerprint(store, d) = store[d]
  BY Fingerprinted
<1>8. \A i \in 1..n : Written(r, i, profile) =
        [content |-> ups[i].content, profile |-> profile, source |-> call.source]
  BY <1>1 DEF Written
<1> HIDE DEF r, plan, I, c
<1>9. CASE I # {}
  <2>1. PICK j \in 1..n : ups[j].doc = d /\ c = Written(r, j, profile)
    BY <1>3, <1>4, <1>5, <1>9
  <2>2. ups[j] \in scanned /\ ups[j].content \in Contents
    BY DEF TypeOK
  <2>3. c = [content |-> ups[j].content, profile |-> profile, source |-> call.source]
    BY <1>8, <2>1
  <2>4. c # Absent
    <3>1. c \in Fingerprints
      BY <2>2, <2>3, Bounds DEF Fingerprints, TypeOK
    <3> QED
      BY <3>1, StatesDiffer
  <2>5. \A i \in 1..n : ups[i].doc = d => ups[i] = ups[j]
    BY <2>1, <2>2 DEF OnceInv
  <2> QED
    BY <2>1, <2>2, <2>3, <2>4, <2>5 DEF r, plan, c
<1>10. CASE I = {}
  <2>1. c = store[d]
    BY <1>4, <1>10
  <2>2. ASSUME NEW i \in 1..n, ups[i].doc = d
        PROVE  /\ c # Absent
               /\ InScope(c, call.source) => c.content = ups[i].content /\ c.profile = profile
    <3>1. UpsertStatus(DocFingerprint(store, ups[i].doc), r, i, profile) # "indexed"
      BY <1>2, <1>3, <1>10, <2>2
    <3> QED
      BY <1>6, <1>7, <2>1, <2>2, <3>1
  <2> QED
    BY <2>1, <2>2 DEF r, plan, c
<1> QED
  BY <1>9, <1>10

LEMMA MirrorUpsert == ASSUME IInv, OnceInv, MirrorInv, UpsertBatch PROVE MirrorInv'
<1>1. PICK ups \in Chunks : Apply(Batch(ups, {})) /\ scanned' = scanned \ Range(ups)
  BY DEF UpsertBatch
<1>2. PICK n \in Nat : ups \in [1..n -> scanned]
  BY ChunkType
<1>3. /\ UNCHANGED <<files, profile, pc, call, left, errors, cursor, gone, filesStill, docsStill>>
      /\ pc = "apply" /\ left = {}
  BY DEF UpsertBatch, MirrorInv, PhaseInv
<1>4. store' = Effect(store, profile, Batch(ups, {}), PlanFor(store, profile, Batch(ups, {})))
  BY <1>1 DEF Apply
<1>5. Range(ups) = {ups[i] : i \in 1..n}
  BY <1>2 DEF Range
<1>6. ASSUME NEW d \in Docs
      PROVE  /\ \/ store'[d] = store[d]
                \/ \E u \in scanned : /\ u.doc = d
                                      /\ store'[d] = [content |-> u.content, profile |-> profile,
                                                      source |-> call.source]
             /\ \A i \in 1..n : ups[i].doc = d =>
                  /\ store'[d] # Absent
                  /\ InScope(store'[d], call.source) =>
                       store'[d].content = ups[i].content /\ store'[d].profile = profile
  BY <1>2, <1>4, UpsertExact DEF IInv
<1>7. PhaseInv' /\ ReadInv'
  BY <1>1, <1>3 DEF MirrorInv, PhaseInv, ReadInv
<1>8. ASSUME NEW d \in Still'
      PROVE  /\ d \in Still /\ d \in Docs
             /\ \A u \in scanned : u.doc = d => u.content = files[d] /\ files[d] \in Contents
  BY <1>3 DEF Still, MirrorInv, ReadInv, IInv, TypeOK
<1>9. ASSUME NEW d \in Still', files[d] \in Contents,
             [doc |-> d, content |-> files[d]] \notin scanned'
      PROVE  MirrorsFile(d)'
  <2> DEFINE u == [doc |-> d, content |-> files[d]]
  <2>1. u.doc = d /\ u.content = files[d]
    OBVIOUS
  <2> HIDE DEF u
  <2>2. CASE u \in scanned
    <3>1. PICK i \in 1..n : ups[i] = u
      BY <1>1, <1>5, <1>9, <2>2 DEF u
    <3> QED
      BY <1>3, <1>6, <1>8, <2>1, <3>1 DEF MirrorsFile
  <2>3. CASE u \notin scanned
    <3>1. MirrorsFile(d)
      BY <1>3, <1>8, <1>9, <2>3 DEF MirrorInv, OwedInv, Owes, u
    <3>2. CASE store'[d] = store[d]
      BY <1>3, <3>1, <3>2, SameDoc
    <3>3. CASE \E v \in scanned : /\ v.doc = d
                                  /\ store'[d] = [content |-> v.content, profile |-> profile,
                                                  source |-> call.source]
      <4>1. PICK v \in scanned : /\ v.doc = d
                                 /\ store'[d] = [content |-> v.content, profile |-> profile,
                                                 source |-> call.source]
        BY <3>3
      <4>2. v.content = files[d] /\ files[d] \in Contents
        BY <1>8, <4>1
      <4>3. store'[d] \in Fingerprints
        BY <4>1, <4>2, Bounds DEF Fingerprints, IInv, TypeOK
      <4> QED
        BY <1>3, <4>1, <4>2, <4>3, StatesDiffer DEF MirrorsFile
    <3> QED
      BY <1>6, <1>8, <3>2, <3>3
  <2> QED
    BY <2>2, <2>3
<1>10. OwedInv'
  BY <1>3, <1>9 DEF OwedInv, Owes
<1>11. ASSUME NEW d \in Still', Stray(d)' PROVE d \in gone' \/ Missed(d)'
  <2>1. ~Wanted(call, files[d])
    BY <1>3, <1>11 DEF Stray, Wanted, Fails, Follows
  <2>2. store'[d] = store[d]
    BY <1>6, <1>8, <2>1 DEF Wanted
  <2>3. Stray(d)
    BY <1>3, <1>11, <2>2, SameDoc
  <2> QED
    BY <1>3, <1>8, <2>2, <2>3 DEF MirrorInv, StrayInv, Missed
<1>12. StrayInv'
  BY <1>3, <1>11 DEF StrayInv
<1> QED
  BY <1>7, <1>10, <1>12 DEF MirrorInv

\* A batch of deletes takes the documents of the source that it names and whose
\* fingerprint it finds, and touches no other.
LEMMA PruneExact ==
  ASSUME TypeOK, NEW ds \in SUBSET Docs, NEW d \in Docs
  PROVE  LET r == Batch(<<>>, ds)
             c == Effect(store, profile, r, PlanFor(store, profile, r))[d]
         IN  /\ d \notin ds => c = store[d]
             /\ /\ d \in ds
                /\ store[d] # Absent
                /\ store[d].source = call.source
                /\ store[d].content \notin Oversized
                => c = Absent
<1> DEFINE r == Batch(<<>>, ds)
           plan == PlanFor(store, profile, r)
<1>1. r.ups = <<>> /\ r.dels = ds /\ r.op = "delta" /\ r.scope = call.source
  BY DEF Batch
<1>2. /\ plan.index = {}
      /\ plan.delete = {e \in ds : DeleteStatus(DocFingerprint(store, e), r) = "deleted"}
  BY <1>1 DEF PlanFor, Classify, UpsertsWith
<1>3. Effect(store, profile, r, plan)[d] = IF d \in plan.delete THEN Absent ELSE store[d]
  BY <1>2 DEF Effect, UpsertsOf
<1>4. store[d] # Absent /\ store[d].source = call.source /\ store[d].content \notin Oversized =>
        DeleteStatus(DocFingerprint(store, d), r) = "deleted"
  BY <1>1, Fingerprinted DEF DeleteStatus, InScope
<1> HIDE DEF r, plan
<1> QED
  BY <1>2, <1>3, <1>4 DEF r, plan

LEMMA PruneChoice ==
  ASSUME TypeOK, NEW ds \in SUBSET Docs, NEW d \in Docs
  PROVE  LET r == Batch(<<>>, ds)
             c == Effect(store, profile, r, PlanFor(store, profile, r))[d]
         IN  c = store[d] \/ c = Absent
<1> DEFINE r == Batch(<<>>, ds)
           plan == PlanFor(store, profile, r)
<1>1. r.ups = <<>> /\ r.op = "delta"
  BY DEF Batch
<1>2. plan.index = {}
  BY <1>1 DEF PlanFor, Classify, UpsertsWith
<1>3. Effect(store, profile, r, plan)[d] = IF d \in plan.delete THEN Absent ELSE store[d]
  BY <1>2 DEF Effect, UpsertsOf
<1> HIDE DEF r, plan
<1> QED
  BY <1>3 DEF r, plan

LEMMA MirrorPrune == ASSUME IInv, MirrorInv, PruneBatch PROVE MirrorInv'
<1> DEFINE some == {d \in gone : Cardinality({e \in gone : e < d}) < MaxBatchDocs}
<1>1. /\ UNCHANGED <<files, profile, pc, call, left, scanned, errors, cursor, filesStill, docsStill>>
      /\ pc = "apply" /\ gone' = gone \ some
      /\ Apply(Batch(<<>>, some))
  BY DEF PruneBatch
<1>2. some \in SUBSET Docs /\ some \subseteq gone
  BY DEF IInv, TypeOK
<1> HIDE DEF some
<1>3. ASSUME NEW d \in Docs
      PROVE  /\ d \notin some => store'[d] = store[d]
             /\ /\ d \in some
                /\ store[d] # Absent
                /\ store[d].source = call.source
                /\ store[d].content \notin Oversized
                => store'[d] = Absent
  <2>1. store' = Effect(store, profile, Batch(<<>>, some),
                        PlanFor(store, profile, Batch(<<>>, some)))
    BY <1>1 DEF Apply
  <2> QED
    BY <1>2, <2>1, PruneExact DEF IInv
<1>4. PhaseInv' /\ ReadInv'
  BY <1>1 DEF MirrorInv, PhaseInv, ReadInv
<1>5. ASSUME NEW d \in Still' PROVE d \in Still /\ d \in Docs
  BY <1>1 DEF Still, IInv, TypeOK
<1>6. ASSUME NEW d \in Still', files[d] \in Contents
      PROVE  store'[d] = store[d]
  <2>1. d \notin gone
    BY <1>5, <1>6 DEF IInv, GoneInv, Wanted, Still
  <2> QED
    BY <1>2, <1>3, <1>5, <2>1
<1>7. ASSUME NEW d \in Still' \ left' PROVE Owes(d)'
  <2>1. d \in Still \ left /\ Owes(d)
    BY <1>1, <1>5, <1>7 DEF MirrorInv, OwedInv
  <2>2. files[d] \in Contents => (MirrorsFile(d)' <=> MirrorsFile(d))
    BY <1>1, <1>6, <1>7, SameDoc
  <2> QED
    BY <1>1, <2>1, <2>2 DEF Owes
<1>8. ASSUME NEW d \in Still', Stray(d)' PROVE d \in gone' \/ Missed(d)'
  <2>0. ~call.dry
    BY <1>1 DEF MirrorInv, PhaseInv
  <2>1. CASE d \notin some
    <3>1. store'[d] = store[d]
      BY <1>3, <1>5, <2>1
    <3>2. Stray(d)
      BY <1>1, <1>8, <3>1, SameDoc
    <3> QED
      BY <1>1, <1>5, <2>1, <3>1, <3>2 DEF MirrorInv, StrayInv, Missed
  <2>2. CASE d \in some
    <3>1. store'[d] # Absent /\ store'[d].source = call.source
      BY <1>1, <1>8 DEF Stray
    <3>2. store'[d] = store[d]
      <4>1. store' = Effect(store, profile, Batch(<<>>, some),
                            PlanFor(store, profile, Batch(<<>>, some)))
        BY <1>1 DEF Apply
      <4> QED
        BY <1>2, <1>5, <3>1, <4>1, PruneChoice DEF IInv
    <3> QED
      BY <1>1, <1>3, <1>5, <2>0, <2>2, <3>1, <3>2 DEF Missed
  <2> QED
    BY <2>1, <2>2
<1> QED
  BY <1>1, <1>4, <1>7, <1>8 DEF MirrorInv, OwedInv, StrayInv

LEMMA MirrorNext == IInv /\ OnceInv /\ MirrorInv /\ [Next]_vars => MirrorInv'
<1> SUFFICES ASSUME IInv, OnceInv, MirrorInv, [Next]_vars PROVE MirrorInv'
  OBVIOUS
<1>0. ~NoCall.prune
  BY DEF NoCall
<1>1. CASE Step
  <2>1. CASE WalkExceeds \/ Return \/ Fail
    BY <1>0, <2>1, MirrorFresh DEF WalkExceeds, Return, Fail, Abort
  <2> QED
    BY <1>1, <2>1, MirrorWalk, MirrorEndWalk, MirrorList, MirrorPlan, MirrorUpsert,
       MirrorPrune, MirrorReply DEF Step
<1>2. ASSUME NEW p \in Calls, Call(p) PROVE MirrorInv'
  BY <1>2, MirrorFresh DEF Call, Accepts
<1>3. CASE Restart
  BY <1>0, <1>3, MirrorFresh DEF Restart
<1>4. ASSUME NEW d \in Docs, NEW fp \in InitialDocs, OtherWrite(d, fp) PROVE MirrorInv'
  <2>1. /\ UNCHANGED <<files, profile, call, errors, left, scanned, gone, pc, cursor, filesStill>>
        /\ docsStill' = docsStill \ {d}
        /\ \A e \in docsStill' : store'[e] = store[e]
    BY <1>4 DEF OtherWrite, IInv, TypeOK
  <2> QED
    BY <2>1, MirrorKept
<1>5. ASSUME NEW d \in Docs, NEW f \in InitialFiles, FileChange(d, f) PROVE MirrorInv'
  <2>1. /\ UNCHANGED <<store, profile, call, errors, left, scanned, gone, pc, cursor, docsStill>>
        /\ filesStill' = filesStill \ {d}
        /\ \A e \in filesStill' : files'[e] = files[e]
    BY <1>5 DEF FileChange, IInv, TypeOK
  <2> QED
    BY <2>1, MirrorKept
<1>6. CASE UNCHANGED vars
  BY <1>6, MirrorKept
<1> QED
  BY <1>1, <1>2, <1>3, <1>4, <1>5, <1>6 DEF Next

\* When a synchronisation replies, every document that nobody else touched
\* mirrors its file, but for one without a file whose fingerprint the prune
\* does not find: for any directory, any collection, any limits, any contents
\* that are too large, and whatever happened to the other files and documents.
THEOREM SyncMirrors == Spec => []Mirrored
<1>1. Init => MirrorInv
  <2> SUFFICES ASSUME Init PROVE MirrorInv
    OBVIOUS
  <2>1. ~NoCall.prune
    BY Zenon DEF NoCall
  <2> QED
    BY <2>1 DEF Init, MirrorInv, PhaseInv, ReadInv, OwedInv, StrayInv, Still
<1>2. IInv /\ MirrorInv => Mirrored
  <2> SUFFICES ASSUME IInv, MirrorInv, pc = "replied", ~call.dry, NEW d \in Still
               PROVE  /\ files[d] \in Contents => MirrorsFile(d)
                      /\ Stray(d) => Missed(d)
    BY Zenon DEF Mirrored, MirrorsFile, Stray, Missed, Still
  <2>1. left = {} /\ scanned = {} /\ gone = {}
    BY DEF MirrorInv, PhaseInv
  <2>2. files[d] \in Contents => MirrorsFile(d)
    BY <2>1 DEF MirrorInv, OwedInv, Owes
  <2>3. Stray(d) => Missed(d)
    BY <2>1 DEF MirrorInv, StrayInv
  <2> QED
    BY <2>2, <2>3
<1> QED
  BY <1>1, <1>2, MirrorNext, Invariance, OnceInvariance, PTL DEF Spec

-----------------------------------------------------------------------------
(* What a dry run knows of the documents and files nobody else touched. *)

\* The entry of a document in the manifest of the source.
Listed(d) == store[d] \in Fingerprints /\ InScope(store[d], call.source)

\* What is going to be deleted is in the manifest.
GoneListedInv ==
  pc = "list" \/ call.dry => \A d \in gone \cap docsStill : Listed(d)

\* What counts as fresh is...
FreshTrueInv ==
  call.dry => \A u \in fresh : u.doc \in docsStill =>
    Listed(u.doc) /\ IsFresh(store[u.doc]) /\ store[u.doc].content = u.content

\* ...and what is counts, unless it is ahead of the cursor.
FreshAllInv ==
  call.dry => \A d \in docsStill :
    Listed(d) /\ IsFresh(store[d]) =>
      /\ pc = "plan" =>
           d > cursor \/ [doc |-> d, content |-> store[d].content] \in fresh
      /\ pc = "replied" => [doc |-> d, content |-> store[d].content] \in fresh

\* A dry run writes nothing, and counts what it has found.
CountInv ==
  /\ pc = "apply" => ~call.dry
  /\ pc = "replied" /\ call.dry =>
       /\ tally.indexed = Cardinality(scanned) - Cardinality(scanned \cap fresh)
       /\ tally.deleted = Cardinality(gone)

DryInv == GoneListedInv /\ FreshTrueInv /\ FreshAllInv /\ CountInv

\* Steps that leave the call alone, or take documents out of what it answers for.
LEMMA DryKept ==
  ASSUME DryInv, UNCHANGED <<call, profile, scanned, gone, fresh, tally, pc, cursor>>,
         docsStill' \subseteq docsStill,
         \A d \in docsStill' : store'[d] = store[d]
  PROVE  DryInv'
<1>1. \A d \in docsStill' : d \in docsStill /\ (Listed(d)' <=> Listed(d))
                            /\ store'[d] = store[d]
  BY DEF Listed
<1>2. GoneListedInv' /\ CountInv'
  BY <1>1 DEF DryInv, GoneListedInv, CountInv
<1>3. FreshTrueInv'
  BY <1>1 DEF DryInv, FreshTrueInv, IsFresh
<1>4. FreshAllInv'
  BY <1>1 DEF DryInv, FreshAllInv, IsFresh
<1> QED
  BY <1>2, <1>3, <1>4 DEF DryInv

LEMMA DryFresh ==
  ASSUME NEW p, NEW at \in {"idle", "walk"}, Fresh(p, at)
  PROVE  DryInv'
<1>1. gone' = {} /\ fresh' = {} /\ pc' \in {"idle", "walk"}
  BY DEF Fresh
<1> QED
  BY <1>1 DEF DryInv, GoneListedInv, FreshTrueInv, FreshAllInv, CountInv

LEMMA DryWalk == ASSUME IInv, DryInv, NEW d \in Docs, WalkStep(d) PROVE DryInv'
<1>1. /\ UNCHANGED <<store, profile, pc, call, gone, fresh, docsStill>>
      /\ pc = "walk"
  BY DEF WalkStep
<1> QED
  BY <1>1 DEF DryInv, GoneListedInv, FreshTrueInv, FreshAllInv, CountInv, Listed, IsFresh

\* A dry run begins to compare at the first entry.
LEMMA DryEndWalk == ASSUME IInv, MirrorInv, DryInv, EndWalk PROVE DryInv'
<1>1. /\ UNCHANGED <<store, profile, call, gone, fresh, cursor, docsStill>>
      /\ gone = {} /\ cursor = 0 /\ pc' \in {"list", AfterList}
  BY DEF EndWalk, IInv, WalkInv, MirrorInv, PhaseInv
<1>2. \A d \in docsStill' : d \in Docs /\ d > cursor'
  BY <1>1, SyncAssumption DEF IInv, TypeOK
<1> QED
  BY <1>1, <1>2 DEF DryInv, GoneListedInv, FreshTrueInv, FreshAllInv, CountInv, Listed,
     IsFresh, AfterList

\* What a page lists is in the manifest, and a comparison starts again at the
\* first entry.
LEMMA DryList == ASSUME IInv, DryInv, ListPage PROVE DryInv'
<1>1. /\ UNCHANGED <<store, profile, call, scanned, fresh, docsStill>>
      /\ pc = "list"
      /\ gone' = gone \cup (Page \ ScannedDocs)
      /\ pc' \in {"list", AfterList}
      /\ pc' # "list" => cursor' = 0
  BY DEF ListPage, Turn, AfterList
<1>2. \A d \in Page : Listed(d)
  BY PageType DEF Listed, InManifest, IInv
<1>3. GoneListedInv'
  BY <1>1, <1>2 DEF DryInv, GoneListedInv, Listed
<1>4. FreshTrueInv'
  BY <1>1 DEF DryInv, FreshTrueInv, Listed, IsFresh
<1>5. \A d \in docsStill' : d \in Docs /\ d > 0
  BY <1>1, SyncAssumption DEF IInv, TypeOK
<1>6. FreshAllInv'
  BY <1>1, <1>5 DEF FreshAllInv, AfterList
<1>7. CountInv'
  BY <1>1 DEF CountInv, AfterList
<1> QED
  BY <1>3, <1>4, <1>6, <1>7 DEF DryInv

\* What a page compares is fresh or not, and the last one counts.
LEMMA DryPlan == ASSUME IInv, DryInv, PlanPage PROVE DryInv'
<1>1. /\ UNCHANGED <<store, profile, call, scanned, gone, docsStill>>
      /\ pc = "plan" /\ pc' \in {"plan", "replied"}
      /\ Turn("replied")
  BY DEF PlanPage, Turn
<1> DEFINE entry(d) == [doc |-> d, content |-> store[d].content]
           seen == {entry(d) : d \in {e \in Page : IsFresh(store[e])}}
<1>2. fresh' = fresh \cup seen
  BY DEF PlanPage
<1>3. \A d \in Docs : entry(d).doc = d /\ entry(d).content = store[d].content
  OBVIOUS
<1>4. \A d \in Page : d \in Docs /\ Listed(d)
  BY PageType DEF Listed, InManifest, IInv
<1>5. \A u \in seen : /\ u.doc \in Page /\ IsFresh(store[u.doc])
                      /\ u.content = store[u.doc].content
  BY <1>3, <1>4
<1>6. GoneListedInv'
  BY <1>1 DEF DryInv, GoneListedInv, Listed
<1>7. FreshTrueInv'
  <2> HIDE DEF seen
  <2>1. ASSUME call.dry, NEW u \in fresh', u.doc \in docsStill
        PROVE  Listed(u.doc) /\ IsFresh(store[u.doc]) /\ store[u.doc].content = u.content
    BY <1>2, <1>4, <1>5, <2>1 DEF DryInv, FreshTrueInv
  <2> QED
    BY <1>1, <2>1 DEF FreshTrueInv, Listed, IsFresh
<1>8. FreshAllInv'
  <2>1. ASSUME call.dry, NEW d \in docsStill, Listed(d), IsFresh(store[d])
        PROVE  entry(d) \in fresh' \/ (pc' = "plan" /\ d > cursor')
    <3>1. CASE entry(d) \in fresh
      BY <1>2, <3>1
    <3>2. CASE entry(d) \notin fresh
      <4>1. d > cursor /\ d \in Docs
        BY <1>1, <2>1, <3>2 DEF DryInv, FreshAllInv, IInv, TypeOK
      <4>2. d \in Rest
        BY <2>1, <4>1, StatesDiffer DEF Rest, InManifest, Sentinels, Listed
      <4>3. d \in Page \/ (pc' = pc /\ d > cursor')
        BY <1>1, <4>2, PageCovers DEF IInv
      <4> QED
        BY <1>1, <1>2, <2>1, <4>3
    <3> QED
      BY <3>1, <3>2
  <2> HIDE DEF seen
  <2> QED
    BY <1>1, <2>1 DEF FreshAllInv, Listed, IsFresh
<1>9. CountInv'
  <2>1. pc' = "replied" => Page = Rest
    BY <1>1 DEF Turn
  <2> DEFINE same == Cardinality(scanned \cap fresh')
  <2>2. Page = Rest =>
          tally' = [NoTally EXCEPT !.indexed = Cardinality(scanned) - same,
                                   !.unchanged = same,
                                   !.deleted = Cardinality(gone)]
    BY DEF PlanPage
  <2> HIDE DEF same
  <2>3. Page = Rest => tally'.indexed = Cardinality(scanned) - same
                       /\ tally'.deleted = Cardinality(gone)
    BY <2>2 DEF NoTally
  <2> QED
    BY <1>1, <2>1, <2>3 DEF CountInv, same
<1> QED
  BY <1>6, <1>7, <1>8, <1>9 DEF DryInv

\* The batches and their reply are not steps of a dry run.
LEMMA DryApply == ASSUME DryInv, UpsertBatch \/ PruneBatch \/ Reply PROVE DryInv'
<1>1. pc = "apply" /\ call' = call /\ pc' \in {"apply", "replied"}
  BY DEF UpsertBatch, PruneBatch, Reply
<1>2. ~call.dry
  BY <1>1 DEF DryInv, CountInv
<1> QED
  BY <1>1, <1>2 DEF DryInv, GoneListedInv, FreshTrueInv, FreshAllInv, CountInv

LEMMA DryNext == IInv /\ MirrorInv /\ DryInv /\ [Next]_vars => DryInv'
<1> SUFFICES ASSUME IInv, MirrorInv, DryInv, [Next]_vars PROVE DryInv'
  OBVIOUS
<1>1. CASE Step
  <2>1. CASE WalkExceeds \/ Return \/ Fail
    BY <2>1, DryFresh DEF WalkExceeds, Return, Fail, Abort
  <2> QED
    BY <1>1, <2>1, DryWalk, DryEndWalk, DryList, DryPlan, DryApply DEF Step
<1>2. ASSUME NEW p \in Calls, Call(p) PROVE DryInv'
  BY <1>2, DryFresh DEF Call
<1>3. CASE Restart
  BY <1>3, DryFresh DEF Restart
<1>4. ASSUME NEW d \in Docs, NEW fp \in InitialDocs, OtherWrite(d, fp) PROVE DryInv'
  <2>1. /\ UNCHANGED <<call, profile, scanned, gone, fresh, tally, pc, cursor>>
        /\ docsStill' = docsStill \ {d}
        /\ \A e \in docsStill' : store'[e] = store[e]
    BY <1>4 DEF OtherWrite, IInv, TypeOK
  <2> QED
    BY <2>1, DryKept
<1>5. ASSUME NEW d \in Docs, NEW f \in InitialFiles, FileChange(d, f) PROVE DryInv'
  BY <1>5, DryKept DEF FileChange
<1>6. CASE UNCHANGED vars
  BY <1>6, DryKept
<1> QED
  BY <1>1, <1>2, <1>3, <1>4, <1>5, <1>6 DEF Next

\* A file would be written exactly if the manifest has no fresh entry for it,
\* but for one that is written again because its fingerprint is not found.
LEMMA WouldIndex ==
  ASSUME IInv, DryInv, pc = "replied", call.dry, docsStill = Docs, NEW u \in scanned,
         StatusOf(u) # "skipped_scope_mismatch"
  PROVE  StatusOf(u) = "indexed" /\ u \notin WrittenAgain <=> u \notin fresh
<1> DEFINE r == Batch(<<u>>, {})
           fp == store[u.doc]
           found == DocFingerprint(store, u.doc)
<1>1. r.skip /\ r.ups[1] = u /\ r.scope = call.source
  BY DEF Batch
<1>2. /\ u.doc \in Docs /\ u.content \in Contents /\ u = [doc |-> u.doc, content |-> u.content]
      /\ fp \in Fingerprints \cup {Absent}
  BY DEF IInv, TypeOK
<1>3. StatusOf(u) = UpsertStatus(found, r, 1, profile)
  BY DEF StatusOf
<1>4. u.doc \in InManifest <=> Listed(u.doc)
  BY <1>2, StatesDiffer DEF InManifest, Sentinels, Listed
<1>5. ASSUME u \in fresh PROVE ShouldSkipUpsert(fp, u.content, profile) /\ Listed(u.doc)
  BY <1>2, <1>5, StatesDiffer DEF DryInv, FreshTrueInv, Listed, IsFresh, ShouldSkipUpsert
<1>6. ASSUME ShouldSkipUpsert(fp, u.content, profile), Listed(u.doc) PROVE u \in fresh
  <2>1. fp # Absent /\ fp.content = u.content /\ fp.profile = profile
    BY <1>6 DEF ShouldSkipUpsert
  <2>2. IsFresh(fp)
    BY <1>2, <2>1, DataAssumption DEF IsFresh
  <2>3. [doc |-> u.doc, content |-> fp.content] \in fresh
    BY <1>2, <1>6, <2>2 DEF DryInv, FreshAllInv
  <2> QED
    BY <1>2, <2>1, <2>3
<1>7. u \in WrittenAgain <=> /\ StatusOf(u) = "indexed"
                            /\ Listed(u.doc) /\ found = Absent
                            /\ ShouldSkipUpsert(fp, u.content, profile)
  BY <1>4 DEF WrittenAgain, WouldWrite, Unseen
<1>8. CASE found = Absent
  <2>1. StatusOf(u) = "indexed"
    BY <1>1, <1>3, <1>8 DEF UpsertStatus, ShouldSkipUpsert
  <2> QED
    BY <1>5, <1>6, <1>7, <1>8, <2>1
<1>9. CASE found # Absent
  <2>1. found = fp
    BY <1>2, <1>9, Fingerprinted DEF IInv
  <2>2. Listed(u.doc)
    BY <1>1, <1>2, <1>3, <1>9, <2>1 DEF UpsertStatus, Listed
  <2>3. StatusOf(u) = "indexed" <=> ~ShouldSkipUpsert(fp, u.content, profile)
    BY <1>1, <1>3, <2>1 DEF UpsertStatus
  <2> QED
    BY <1>5, <1>6, <1>7, <1>9, <2>2, <2>3
<1> QED
  BY <1>8, <1>9

\* The documents a pruning call would delete, and those it would not find, are
\* those it lists without a file.
LEMMA WouldPrune ==
  ASSUME IInv, MirrorInv, DryInv, pc = "replied", call.dry, call.prune, ~errors,
         filesStill = Docs, docsStill = Docs
  PROVE  WouldDelete \cup {d \in Unseen : ~Wanted(call, files[d])} = gone
<1>1. call.source # NoSource
  BY DEF MirrorInv, PhaseInv
<1>2. ASSUME NEW d \in gone PROVE d \in InManifest /\ ~Wanted(call, files[d])
  <2>1. d \in Docs /\ Listed(d)
    BY DEF DryInv, GoneListedInv, IInv, TypeOK
  <2>2. ~Wanted(call, files[d])
    BY <2>1 DEF IInv, GoneInv
  <2> QED
    BY <2>1, <2>2, StatesDiffer DEF Listed, InManifest, Sentinels
<1>3. ASSUME NEW d \in InManifest, ~Wanted(call, files[d]) PROVE d \in gone
  <2>1. d \in Docs /\ store[d] # Absent /\ store[d].source = call.source
    BY <1>1 DEF InManifest, Sentinels, InScope
  <2>2. Stray(d)
    BY <1>3, <2>1, Zenon DEF Stray
  <2> QED
    BY <2>1, <2>2 DEF MirrorInv, StrayInv, Missed, Still
<1>4. ASSUME NEW d \in InManifest, d \notin Unseen
      PROVE  DeleteStatus(DocFingerprint(store, d), Batch(<<>>, {d})) = "deleted"
  <2>1. d \in Docs /\ InScope(store[d], call.source)
    BY DEF InManifest, Sentinels
  <2>2. DocFingerprint(store, d) # Absent /\ DocFingerprint(store, d) = store[d]
    BY <1>4, <2>1, Fingerprinted DEF Unseen, IInv
  <2>3. Batch(<<>>, {d}).scope = call.source
    BY DEF Batch
  <2> QED
    BY <2>1, <2>2, <2>3 DEF DeleteStatus
<1>5. WouldDelete \subseteq gone /\ {d \in Unseen : ~Wanted(call, files[d])} \subseteq gone
  BY <1>3 DEF WouldDelete, Unseen
<1>6. gone \subseteq WouldDelete \cup {d \in Unseen : ~Wanted(call, files[d])}
  BY <1>2, <1>4 DEF WouldDelete
<1> QED
  BY <1>5, <1>6

\* What a dry run announces is what the batches would write and delete, but for
\* documents of the manifest whose fingerprint the batches do not find, for any directory, collection, page size and limits, if nobody touched them
\* since it began and no file has the id of a document of another source.
THEOREM DryRunsTellTheTruth == Spec => []DryRunTells
<1>1. Init => MirrorInv /\ DryInv
  <2> SUFFICES ASSUME Init PROVE MirrorInv /\ DryInv
    OBVIOUS
  <2>1. ~NoCall.prune /\ ~NoCall.dry
    BY Zenon DEF NoCall
  <2>2. MirrorInv
    BY <2>1 DEF Init, MirrorInv, PhaseInv, ReadInv, OwedInv, StrayInv, Still
  <2>3. DryInv
    BY <2>1 DEF Init, DryInv, GoneListedInv, FreshTrueInv, FreshAllInv, CountInv
  <2> QED
    BY <2>2, <2>3
<1>2. IInv /\ MirrorInv /\ DryInv => DryRunTells
  <2> DEFINE new == WouldWrite \ WrittenAgain
             same == scanned \cap fresh
             pruned == WouldDelete \cup {d \in Unseen : ~Wanted(call, files[d])}
  <2> SUFFICES ASSUME IInv, MirrorInv, DryInv, pc = "replied", call.dry,
                      filesStill = Docs, docsStill = Docs,
                      \A u \in scanned : StatusOf(u) # "skipped_scope_mismatch"
               PROVE  /\ tally.indexed = Cardinality(new)
                      /\ call.prune /\ ~errors => tally.deleted = Cardinality(pruned)
    BY DEF DryRunTells, DryRunHolds
  <2>1. new = scanned \ same
    BY WouldIndex DEF WouldWrite
  <2>2. IsFiniteSet(scanned) /\ scanned \cap same = same
    BY DEF IInv, FiniteInv
  <2>3. tally.indexed = Cardinality(scanned) - Cardinality(same)
    BY DEF DryInv, CountInv
  <2>4. call.prune /\ ~errors => tally.deleted = Cardinality(pruned)
    BY WouldPrune DEF DryInv, CountInv
  <2> HIDE DEF new, same, pruned
  <2>5. Cardinality(scanned \ same) = Cardinality(scanned) - Cardinality(same)
    BY <2>2, FS_Difference
  <2> QED
    BY <2>1, <2>3, <2>4, <2>5
<1> QED
  BY <1>1, <1>2, MirrorNext, DryNext, Invariance, OnceInvariance, PTL DEF Spec
=============================================================================
