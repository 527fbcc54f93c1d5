--------------------------- MODULE ConsolidateProofs ---------------------------
(***************************************************************************)
(* Theorems about Consolidate, for every collection, every text, every     *)
(* choice of thresholds and any number of clients: what a consolidating    *)
(* client never does to the digest it replaces, whatever the others        *)
(* consolidate, remember, forget or delete between its calls and whichever *)
(* reads fail; that groups are components, that what is digested is not    *)
(* selected again, and that digests fit.                                   *)
(***************************************************************************)
EXTENDS Consolidate, FiniteSetTheorems, WellFoundedInduction, TLAPS

USE DEF local, vars

Working(c) == pc[c] \in {"prepared", "distilled", "checked"}

\* The functions of the state are indexed by clients and keys, every version is
\* a number, and no read is blind that was not made.
ShapeInv ==
  /\ pc \in [Clients -> PCs]
  /\ DOMAIN digests = Keys
  /\ DOMAIN candidates = Clients /\ DOMAIN input = Clients /\ DOMAIN distilled = Clients
  /\ DOMAIN blind = Clients
  /\ \A c \in Clients : blind[c] \subseteq Reads(c)
  /\ \A k \in Keys : digests[k] # NoDigest => digests[k].version \in Nat
  /\ \A c \in Clients : Working(c) /\ input[c].key \in Keys => input[c].next \in Nat

\* A group has members, and so has what is made of it.
MembersInv ==
  /\ \A c \in Clients : \A cand \in candidates[c] : cand.members # {}
  /\ \A c \in Clients : Working(c) => input[c].members # {}
  /\ \A k \in Keys : digests[k] # NoDigest => digests[k].members # {}

\* The version a client prepared is above the one it would replace, unless it
\* is blind to that...
VersionInv ==
  \A c \in Clients : \A k \in Keys :
    Working(c) /\ k = input[c].key /\ digests[k] # NoDigest /\ "version" \notin blind[c] =>
      input[c].next > digests[k].version

\* ...and the guard it passed still holds when it writes.
GuardInv ==
  \A c \in Clients : \A k \in Keys :
    pc[c] = "checked" /\ k = input[c].key /\ "guard" \notin blind[c] =>
      ~Disjoint(k, input[c].members, FALSE)

IInv == ShapeInv /\ MembersInv /\ VersionInv /\ GuardInv

-----------------------------------------------------------------------------
(* The operators of the model. *)

\* Whatever the union-find computes, no group is empty.
LEMMA GroupsNotEmpty == \A S : \A g \in Groups(S) : g # {}
  BY DEF Groups

LEMMA CandidatesHaveMembers ==
  \A S, D, now : \A cand \in AllCandidates(S, D, now) : cand.members # {}
<1> SUFFICES ASSUME NEW S, NEW D, NEW now, NEW cand \in AllCandidates(S, D, now)
             PROVE  cand.members # {}
  OBVIOUS
<1>1. PICK g \in Eligible(S) : cand.members = g
  BY DEF AllCandidates
<1>2. g \in Groups(S)
  BY DEF Eligible
<1> QED
  BY <1>1, <1>2, GroupsNotEmpty

\* The next version is above the one there is, if that could be read.
LEMMA NextIsAbove ==
  ASSUME ShapeInv, NEW k \in Keys, NEW lost \in BOOLEAN
  PROVE  /\ NextVersion(k, lost) \in Nat
         /\ digests[k] # NoDigest /\ ~lost => NextVersion(k, lost) > digests[k].version
  BY DEF ShapeInv, NextVersion

-----------------------------------------------------------------------------
(* The steps. *)

LEMMA InitInv == Init => IInv
  BY DEF Init, IInv, ShapeInv, MembersInv, VersionInv, GuardInv, Working, Reads, PCs

\* A step that writes nothing keeps the invariant, if no client gets further
\* in its work than it was, and none regains its sight.
LEMMA QuietStep ==
  ASSUME IInv, UNCHANGED digests, pc' \in [Clients -> PCs],
         DOMAIN candidates' = Clients, DOMAIN input' = Clients, DOMAIN distilled' = Clients,
         DOMAIN blind' = Clients, \A b \in Clients : blind'[b] \subseteq Reads(b)',
         \A b \in Clients : \A cand \in candidates'[b] : cand.members # {},
         \A b \in Clients : pc'[b] \in {"prepared", "distilled", "checked"} =>
           /\ Working(b)
           /\ input'[b] = input[b]
           /\ blind[b] \subseteq blind'[b]
           /\ pc'[b] = "checked" => pc[b] = "checked"
  PROVE  IInv'
<1>1. ShapeInv'
  BY DEF IInv, ShapeInv, Working
<1>2. MembersInv'
  BY DEF IInv, MembersInv, Working
<1>3. VersionInv'
  BY DEF IInv, VersionInv, Working
<1>4. GuardInv'
  BY DEF IInv, GuardInv, Disjoint
<1> QED
  BY <1>1, <1>2, <1>3, <1>4 DEF IInv

LEMMA SelectStep ==
  ASSUME IInv, NEW c \in Clients, ListManifest(c) \/ SelectCandidates(c)
  PROVE  IInv'
<1>1. /\ UNCHANGED <<digests, input, distilled, blind>>
      /\ pc[c] \in {"idle", "listed"} /\ pc'[c] \in {"idle", "listed", "chosen"}
      /\ \A b \in Clients \ {c} : pc'[b] = pc[b] /\ candidates'[b] = candidates[b]
      /\ pc' \in [Clients -> PCs]
      /\ DOMAIN candidates' = Clients
  BY DEF ListManifest, SelectCandidates, IInv, ShapeInv, PCs
<1>2. \A cand \in candidates'[c] : cand.members # {}
  <2>1. CASE ListManifest(c)
    BY <2>1 DEF ListManifest, IInv, MembersInv
  <2>2. CASE SelectCandidates(c)
    <3>0. PICK lost \in SUBSET Existing(digests) :
            \E some \in Truncations(AllCandidates(Corpus(c), Found(c), Without(lost))) :
              candidates' = [candidates EXCEPT ![c] = some]
      BY <2>2 DEF SelectCandidates
    <3>1. PICK some \in Truncations(AllCandidates(Corpus(c), Found(c), Without(lost))) :
            candidates' = [candidates EXCEPT ![c] = some]
      BY <3>0
    <3>2. \A cand \in some : cand.members # {}
      BY <3>1, CandidatesHaveMembers DEF Truncations
    <3> QED
      BY <3>1, <3>2 DEF IInv, ShapeInv
  <2> QED
    BY <2>1, <2>2
<1>3. \A b \in Clients : \A cand \in candidates'[b] : cand.members # {}
  BY <1>1, <1>2 DEF IInv, MembersInv
<1>4. \A b \in Clients : blind'[b] \subseteq Reads(b)'
  BY <1>1 DEF IInv, ShapeInv, Reads
<1> QED
  BY <1>1, <1>3, <1>4, QuietStep DEF IInv, ShapeInv, Working

\* A client that is done works on nothing.
LEMMA DoneStep ==
  ASSUME IInv, NEW c \in Clients, NEW left \in SUBSET candidates[c], Done(c, left),
         UNCHANGED digests, DOMAIN blind' = Clients,
         \A b \in Clients : blind'[b] = IF b = c THEN {} ELSE blind[b]
  PROVE  IInv'
<1> USE DEF IInv, ShapeInv
<1>1. /\ \A b \in Clients \ {c} : pc'[b] = pc[b] /\ input'[b] = input[b]
      /\ pc'[c] \in {"idle", "chosen"}
      /\ pc' \in [Clients -> PCs]
      /\ \A b \in Clients : candidates'[b] \subseteq candidates[b]
      /\ DOMAIN candidates' = Clients /\ DOMAIN input' = Clients /\ DOMAIN distilled' = Clients
  BY DEF Done, PCs
<1>2. \A b \in Clients : \A cand \in candidates'[b] : cand.members # {}
  BY <1>1 DEF MembersInv
<1>3. \A b \in Clients : blind'[b] \subseteq Reads(b)'
  BY <1>1 DEF Reads
<1> QED
  BY <1>1, <1>2, <1>3, QuietStep DEF Working

LEMMA PrepareFailsStep ==
  ASSUME IInv, NEW c \in Clients, NEW cand \in candidates[c], PrepareFails(c, cand)
  PROVE  IInv'
<1>1. blind[c] = {} /\ UNCHANGED blind
  BY DEF PrepareFails, IInv, ShapeInv, Reads
<1> QED
  BY <1>1, DoneStep DEF PrepareFails, IInv, ShapeInv

LEMMA GiveUpStep ==
  ASSUME IInv, NEW c \in Clients, GiveUp(c)
  PROVE  IInv'
<1>1. DOMAIN blind' = Clients /\ \A b \in Clients : blind'[b] = IF b = c THEN {} ELSE blind[b]
  BY DEF GiveUp, IInv, ShapeInv
<1> QED
  BY <1>1, DoneStep DEF GiveUp

\* The version is counted from the digest that is there, or blindly.
LEMMA PrepareStep ==
  ASSUME IInv, NEW c \in Clients, NEW cand \in candidates[c], NEW lost \in BOOLEAN,
         Prepare(c, cand, lost)
  PROVE  IInv'
<1> USE DEF IInv
<1> DEFINE next == NextVersion(cand.key, lost)
<1>1. /\ UNCHANGED <<digests, distilled>>
      /\ \A b \in Clients \ {c} : pc'[b] = pc[b] /\ input'[b] = input[b] /\ blind'[b] = blind[b]
      /\ pc'[c] = "prepared"
      /\ pc' \in [Clients -> PCs]
      /\ \A b \in Clients : candidates'[b] \subseteq candidates[b]
      /\ DOMAIN candidates' = Clients /\ DOMAIN input' = Clients /\ DOMAIN blind' = Clients
      /\ input'[c].key = cand.key
      /\ input'[c].members = cand.members
      /\ input'[c].next = next
      /\ blind'[c] = Blinded("version", lost)
  BY DEF Prepare, PCs, ShapeInv
<1>2. /\ Blinded("version", lost) \subseteq {"version"}
      /\ "version" \notin Blinded("version", lost) => ~lost
  BY DEF Blinded
<1>3. \A k \in Keys : digests[k] # NoDigest /\ k = cand.key /\ ~lost => next > digests[k].version
  BY NextIsAbove
<1>4. (cand.key \in Keys => next \in Nat) /\ cand.members # {}
  BY NextIsAbove DEF ShapeInv, MembersInv
<1> HIDE DEF next
<1>5. \A b \in Clients : blind'[b] \subseteq Reads(b)'
  BY <1>1, <1>2 DEF ShapeInv, Reads
<1>6. ShapeInv'
  BY <1>1, <1>4, <1>5 DEF ShapeInv, Working
<1>7. MembersInv'
  BY <1>1, <1>4 DEF MembersInv, Working
<1>8. VersionInv'
  BY <1>1, <1>2, <1>3 DEF VersionInv, Working
<1>9. GuardInv'
  BY <1>1 DEF GuardInv, Disjoint
<1> QED
  BY <1>6, <1>7, <1>8, <1>9

LEMMA DistillStep == ASSUME IInv, NEW c \in Clients, Distill(c) PROVE IInv'
<1> USE DEF IInv, ShapeInv
<1>1. /\ UNCHANGED <<digests, candidates, input, blind>>
      /\ \A b \in Clients \ {c} : pc'[b] = pc[b]
      /\ pc[c] = "prepared" /\ pc'[c] = "distilled"
      /\ pc' \in [Clients -> PCs] /\ DOMAIN distilled' = Clients
  BY DEF Distill, PCs
<1>2. \A b \in Clients : blind'[b] \subseteq Reads(b)'
  BY <1>1 DEF Reads
<1> QED
  BY <1>1, <1>2, QuietStep DEF Working, MembersInv

\* The guard of commit is checked against the digest that is there, or blindly.
LEMMA CheckStep ==
  ASSUME IInv, NEW c \in Clients, NEW lost \in BOOLEAN, Check(c, lost)
  PROVE  IInv'
<1> USE DEF IInv
<1>1. /\ UNCHANGED <<digests, candidates, input, distilled>>
      /\ \A b \in Clients \ {c} : pc'[b] = pc[b] /\ blind'[b] = blind[b]
      /\ pc[c] = "distilled" /\ pc'[c] = "checked"
      /\ pc' \in [Clients -> PCs] /\ DOMAIN blind' = Clients
      /\ blind'[c] = blind[c] \cup Blinded("guard", lost)
  BY DEF Check, PCs, ShapeInv
<1>2. /\ Blinded("guard", lost) \subseteq {"guard"}
      /\ "guard" \notin Blinded("guard", lost) => ~lost
  BY DEF Blinded
<1>3. ~lost => ~Disjoint(input[c].key, input[c].members, FALSE)
  BY DEF Check, MayCommit, Disjoint
<1>4. \A b \in Clients : blind'[b] \subseteq Reads(b)'
  BY <1>1, <1>2 DEF ShapeInv, Reads
<1>5. ShapeInv'
  BY <1>1, <1>4 DEF ShapeInv, Working
<1>6. MembersInv'
  BY <1>1 DEF MembersInv, Working
<1>7. VersionInv'
  BY <1>1 DEF VersionInv, Working
<1>8. GuardInv'
  BY <1>1, <1>2, <1>3 DEF GuardInv, Disjoint
<1> QED
  BY <1>5, <1>6, <1>7, <1>8

\* A client writes, is done, and blinds those that work on the same digest.
LEMMA WriteStep == ASSUME IInv, NEW c \in Clients, Write(c) PROVE IInv'
<1> USE DEF IInv
<1>1. /\ pc'[c] \in {"idle", "chosen"} /\ pc' \in [Clients -> PCs]
      /\ \A b \in Clients \ {c} : pc'[b] = pc[b] /\ input'[b] = input[b]
      /\ \A b \in Clients : candidates'[b] = candidates[b]
      /\ DOMAIN candidates' = Clients
      /\ DOMAIN input' = Clients /\ DOMAIN distilled' = Clients
      /\ DOMAIN digests' = Keys
      /\ \A k \in Keys : digests'[k] = IF k = input[c].key THEN DigestOf(c) ELSE digests[k]
  BY DEF Write, Done, PCs, ShapeInv
<1>2. /\ DOMAIN blind' = Clients
      /\ blind'[c] = {}
      /\ \A b \in Clients \ {c} :
           blind'[b] = IF input[b].key = input[c].key THEN Reads(b) ELSE blind[b]
  BY DEF Write
<1>3. Working(c) /\ DigestOf(c).version = input[c].next /\ DigestOf(c).members = input[c].members
  BY DEF Write, Working, DigestOf
<1>4. \A b \in Clients : blind'[b] \subseteq Reads(b)'
  BY <1>1, <1>2 DEF ShapeInv, Reads
<1>5. ASSUME NEW b \in Clients, b # c, Working(b), input[b].key = input[c].key
      PROVE  "version" \in blind'[b] /\ (pc[b] = "checked" => "guard" \in blind'[b])
  BY <1>2, <1>5 DEF Working, Reads
<1>6. ShapeInv'
  BY <1>1, <1>2, <1>3, <1>4 DEF ShapeInv, Working
<1>7. MembersInv'
  BY <1>1, <1>3 DEF MembersInv, Working
<1>8. VersionInv'
  <2> SUFFICES ASSUME NEW b \in Clients, NEW k \in Keys, Working(b)', k = input'[b].key,
                      digests'[k] # NoDigest, "version" \notin blind'[b]
               PROVE  input'[b].next > digests'[k].version
    BY DEF VersionInv
  <2>1. b # c /\ Working(b) /\ input'[b] = input[b]
    BY <1>1 DEF Working
  <2>2. input[b].key # input[c].key
    BY <1>5, <2>1
  <2>3. digests'[k] = digests[k] /\ blind'[b] = blind[b]
    BY <1>1, <1>2, <2>1, <2>2
  <2> QED
    BY <2>1, <2>3 DEF VersionInv
<1>9. GuardInv'
  <2> SUFFICES ASSUME NEW b \in Clients, NEW k \in Keys, pc'[b] = "checked", k = input'[b].key,
                      "guard" \notin blind'[b]
               PROVE  ~Disjoint(k, input[b].members, FALSE)' /\ input'[b] = input[b]
    BY DEF GuardInv, Disjoint
  <2>1. b # c /\ pc[b] = "checked" /\ input'[b] = input[b] /\ Working(b)
    BY <1>1 DEF Working
  <2>2. input[b].key # input[c].key
    BY <1>5, <2>1
  <2>3. digests'[k] = digests[k] /\ blind'[b] = blind[b]
    BY <1>1, <1>2, <2>1, <2>2
  <2> QED
    BY <2>1, <2>3 DEF GuardInv, Disjoint
<1> QED
  BY <1>6, <1>7, <1>8, <1>9

LEMMA OthersStep ==
  ASSUME IInv, (\E d \in Docs : Remember(d) \/ Forget(d)) \/ (\E k \in Keys : DeleteDigest(k))
  PROVE  IInv'
<1> USE DEF IInv, ShapeInv
<1>1. /\ UNCHANGED local
      /\ DOMAIN digests' = Keys
      /\ \A k \in Keys : digests'[k] = digests[k] \/ digests'[k] = NoDigest
  BY DEF Remember, Forget, DeleteDigest
<1> QED
  BY <1>1 DEF Working, Reads, MembersInv, VersionInv, GuardInv, Disjoint

LEMMA NextInv == IInv /\ [Next]_vars => IInv'
<1> SUFFICES ASSUME IInv, [Next]_vars PROVE IInv'
  OBVIOUS
<1>1. ASSUME NEW c \in Clients, Step(c) PROVE IInv'
  <2>1. CASE ListManifest(c) \/ SelectCandidates(c)
    BY <2>1, SelectStep
  <2>2. CASE \E cand \in candidates[c], lost \in BOOLEAN : Prepare(c, cand, lost)
    BY <2>2, PrepareStep
  <2>3. CASE \E cand \in candidates[c] : PrepareFails(c, cand)
    BY <2>3, PrepareFailsStep
  <2>4. CASE Distill(c)
    BY <2>4, DistillStep
  <2>5. CASE \E lost \in BOOLEAN : Check(c, lost)
    BY <2>5, CheckStep
  <2>6. CASE BackendFails(c) \/ Refuse(c) \/ WriteFails(c)
    BY <2>6, GiveUpStep DEF BackendFails, Refuse, WriteFails
  <2>7. CASE Write(c)
    BY <2>7, WriteStep
  <2> QED
    BY <1>1, <2>1, <2>2, <2>3, <2>4, <2>5, <2>6, <2>7 DEF Step
<1>2. CASE UNCHANGED vars
  BY <1>2 DEF IInv, ShapeInv, Working, Reads, MembersInv, VersionInv, GuardInv, Disjoint
<1> QED
  BY <1>1, <1>2, OthersStep DEF Next

-----------------------------------------------------------------------------
\* The inductive invariant, for any number of consolidating clients.
THEOREM Invariance == Spec => []IInv
  BY InitInv, NextInv, PTL DEF Spec

\* A digest only changes when a client writes it, and then into what the client
\* prepared.
LEMMA OnlyWriteReplaces ==
  ASSUME IInv, [Next]_vars, NEW k \in Keys,
         digests[k] # NoDigest, digests'[k] # NoDigest, digests'[k] # digests[k]
  PROVE  \E c \in Clients : /\ pc[c] = "checked" /\ pc'[c] # pc[c] /\ k = input[c].key
                            /\ digests'[k] = DigestOf(c)
<1>1. CASE UNCHANGED digests
  BY <1>1
<1>2. ASSUME NEW l \in Keys, DeleteDigest(l) PROVE FALSE
  BY <1>2 DEF IInv, ShapeInv, DeleteDigest
<1>3. ASSUME NEW c \in Clients, Write(c)
      PROVE  pc[c] = "checked" /\ pc'[c] # pc[c] /\ k = input[c].key /\ digests'[k] = DigestOf(c)
  BY <1>3 DEF IInv, ShapeInv, Write, Done
<1>4. UNCHANGED digests \/ (\E l \in Keys : DeleteDigest(l)) \/ (\E c \in Clients : Write(c))
  <2>1. ASSUME NEW c \in Clients, Step(c) PROVE UNCHANGED digests \/ Write(c)
    BY <2>1 DEF Step, ListManifest, SelectCandidates, Prepare, PrepareFails, Distill,
                BackendFails, Check, Refuse, WriteFails, GiveUp
  <2>2. ASSUME NEW d \in Docs, Remember(d) \/ Forget(d) PROVE UNCHANGED digests
    BY <2>2 DEF Remember, Forget
  <2> QED
    BY <2>1, <2>2 DEF Next
<1> QED
  BY <1>1, <1>2, <1>3, <1>4

\* "Versioning stays monotonic", for any number of clients and whatever is
\* remembered, forgotten or deleted between prepare and commit: the digest
\* written has a higher version than the one it replaces, unless the version
\* was counted from a read that failed or that another client has overtaken.
THEOREM VersionsOnlyGrow == Spec => VersionsGrow
<1>1. IInv /\ [Next]_vars =>
        [\A k \in Keys :
           digests[k] # NoDigest /\ digests'[k] # NoDigest /\ digests'[k] # digests[k]
             => digests'[k].version > digests[k].version \/ WritesBlind("version")]_vars
  <2> SUFFICES ASSUME IInv, [Next]_vars, NEW k \in Keys,
                      digests[k] # NoDigest, digests'[k] # NoDigest, digests'[k] # digests[k]
               PROVE  digests'[k].version > digests[k].version \/ WritesBlind("version")
    OBVIOUS
  <2>1. PICK c \in Clients : /\ pc[c] = "checked" /\ pc'[c] # pc[c] /\ k = input[c].key
                             /\ digests'[k] = DigestOf(c)
    BY OnlyWriteReplaces
  <2> QED
    BY <2>1 DEF IInv, VersionInv, Working, DigestOf, WritesBlind
<1> QED
  BY <1>1, Invariance, PTL DEF Spec, VersionsGrow

\* What the collision guard of commit is worth, for any number of clients,
\* though it is not checked in the write itself: a digest is never replaced by
\* one that shares no member with it, unless the guard failed to read it or
\* another client wrote it after the guard had looked.
THEOREM LineageIsKept == Spec => LineageKept
<1>1. IInv /\ [Next]_vars =>
        [\A k \in Keys :
           digests[k] # NoDigest /\ digests'[k] # NoDigest /\ digests'[k] # digests[k]
             => digests'[k].members \cap digests[k].members # {} \/ WritesBlind("guard")]_vars
  <2> SUFFICES ASSUME IInv, [Next]_vars, NEW k \in Keys,
                      digests[k] # NoDigest, digests'[k] # NoDigest, digests'[k] # digests[k]
               PROVE  digests'[k].members \cap digests[k].members # {} \/ WritesBlind("guard")
    OBVIOUS
  <2>1. PICK c \in Clients : /\ pc[c] = "checked" /\ pc'[c] # pc[c] /\ k = input[c].key
                             /\ digests'[k] = DigestOf(c)
    BY OnlyWriteReplaces
  <2> QED
    BY <2>1 DEF IInv, MembersInv, GuardInv, Disjoint, DigestOf, WritesBlind
<1> QED
  BY <1>1, Invariance, PTL DEF Spec, LineageKept

-----------------------------------------------------------------------------
(* Induction: over numbers, and over the subsets of a finite set. *)

\* A set of numbers that holds 0 and every successor holds all numbers.
LEMMA EveryNumber ==
  ASSUME NEW Q, 0 \in Q, \A n \in Nat : n \in Q => n + 1 \in Q
  PROVE  \A n \in Nat : n \in Q
<1> DEFINE R == OpToRel(<, Nat)
<1>1. \A x, y \in Nat : x < y => <<x, y>> \in R
  BY DEF OpToRel
<1>2. IsWellFoundedOn(R, Nat)
  BY NatLessThanWellFounded
<1> HIDE DEF R
<1> SUFFICES ASSUME Nat \ Q # {} PROVE FALSE
  OBVIOUS
<1>3. PICK x \in Nat \ Q : \A y \in Nat \ Q : <<y, x>> \notin R
  BY <1>2, WFMin
<1>4. x - 1 \in Nat /\ x - 1 < x /\ x = (x - 1) + 1
  BY <1>3
<1> QED
  BY <1>1, <1>3, <1>4

\* A set of sets that holds {} and every subset of X it holds all smaller ones of
\* holds X.
LEMMA EverySubset ==
  ASSUME NEW X, IsFiniteSet(X), NEW Q, {} \in Q,
         \A s \in SUBSET X : s # {} /\ (\A x \in s : s \ {x} \in Q) => s \in Q
  PROVE  X \in Q
<1> DEFINE R == StrictSubsetOrdering(X)
           F == FiniteSubsetsOf(X)
<1>1. \A s, t \in SUBSET X : s \subseteq t /\ s # t => <<s, t>> \in R
  BY DEF StrictSubsetOrdering
<1>2. IsWellFoundedOn(R, F)
  BY FS_StrictSubsetOrderingWellFounded
<1>3. F = SUBSET X
  BY FS_Subset DEF FiniteSubsetsOf
<1> HIDE DEF R, F
<1> SUFFICES ASSUME X \notin Q PROVE FALSE
  OBVIOUS
<1>4. PICK s \in F \ Q : \A t \in F \ Q : <<t, s>> \notin R
  <2> DEFINE T == F \ Q
  <2>1. T # {} /\ T \subseteq F
    BY <1>3
  <2> HIDE DEF T
  <2>2. \E s \in T : \A t \in T : ~ (<<t, s>> \in R)
    BY <1>2, <2>1, WFMin
  <2> QED
    BY <2>2, Zenon DEF T
<1>5. \A x \in s : s \ {x} \in Q
  <2> TAKE x \in s
  <2> DEFINE t == s \ {x}
  <2>1. t \in SUBSET X /\ s \in SUBSET X /\ t \subseteq s /\ t # s
    BY <1>3, <1>4
  <2> HIDE DEF t
  <2>2. <<t, s>> \in R
    BY <1>1, <2>1
  <2> QED
    BY <1>3, <1>4, <2>1, <2>2 DEF t
<1> QED
  BY <1>3, <1>4, <1>5

-----------------------------------------------------------------------------
(* The union-find. *)

\* f is a way to the roots.
Finds(f, parent) == f = [x \in DOMAIN parent |-> IF parent[x] = x THEN x ELSE f[parent[x]]]

\* From every node of the forest a root is reached, in one way only.
Forest(S, parent, f) ==
  /\ parent \in [S -> S] /\ f \in [S -> S]
  /\ Finds(f, parent)
  /\ \A g : Finds(g, parent) => g = f
  /\ \A x \in S : parent[f[x]] = f[x]

\* The trees hold together what a pair relates, and nothing more.
Joined(S, f, pairs) ==
  /\ \A p \in pairs : f[p[1]] = f[p[2]]
  /\ \A T \in SUBSET S :
       (\A p \in pairs : p[1] \in T <=> p[2] \in T) =>
         \A x, y \in S : f[x] = f[y] => (x \in T <=> y \in T)

LEMMA RootFound ==
  ASSUME NEW S, NEW parent, NEW f, Forest(S, parent, f)
  PROVE  Root(parent) = f
<1>1. Root(parent) = CHOOSE g : Finds(g, parent)
  BY DEF Root, Finds
<1>2. Finds(f, parent)
  BY DEF Forest
<1>3. Finds(CHOOSE g : Finds(g, parent), parent)
  BY <1>2
<1> QED
  BY <1>1, <1>3 DEF Forest

\* The way to the roots once a root r hangs below another.
LEMMA UnionForest ==
  ASSUME NEW S, NEW parent, NEW f, Forest(S, parent, f),
         NEW r \in S, NEW q \in S, f[r] = r, f[q] = q, parent[r] = r, parent[q] = q, r # q
  PROVE  Forest(S, [parent EXCEPT ![r] = q], [x \in S |-> IF f[x] = r THEN q ELSE f[x]])
<1> DEFINE after == [parent EXCEPT ![r] = q]
           h == [x \in S |-> IF f[x] = r THEN q ELSE f[x]]
<1>0. /\ parent \in [S -> S] /\ f \in [S -> S]
      /\ \A x \in S : f[x] = IF parent[x] = x THEN x ELSE f[parent[x]]
      /\ \A x \in S : parent[f[x]] = f[x]
      /\ \A g : Finds(g, parent) => g = f
  <2>1. parent \in [S -> S] /\ f = [x \in DOMAIN parent |-> IF parent[x] = x THEN x ELSE f[parent[x]]]
    BY DEF Forest, Finds
  <2> QED
    BY <2>1 DEF Forest
<1>1. after \in [S -> S] /\ h \in [S -> S] /\ DOMAIN after = S /\ DOMAIN parent = S
  BY <1>0
<1>2. /\ after[r] = q
      /\ \A x \in S : x # r => after[x] = parent[x]
      /\ \A x \in S : h[x] = IF f[x] = r THEN q ELSE f[x]
  BY <1>0
<1> HIDE DEF after, h
<1>3. \A x \in S : h[x] = IF after[x] = x THEN x ELSE h[after[x]]
  <2> TAKE x \in S
  <2>1. CASE x = r
    BY <1>2, <2>1
  <2>2. CASE x # r /\ parent[x] = x
    BY <1>0, <1>2, <2>2
  <2>3. CASE x # r /\ parent[x] # x
    BY <1>0, <1>2, <2>3
  <2> QED
    BY <2>1, <2>2, <2>3
<1>4. Finds(h, after)
  <2>1. h = [x \in S |-> h[x]]
    BY <1>1
  <2> QED
    BY <1>1, <1>3, <2>1 DEF Finds
<1>5. \A x \in S : after[h[x]] = h[x]
  BY <1>0, <1>1, <1>2
<1>6. ASSUME NEW g, Finds(g, after) PROVE g = h
  <2>1. /\ g = [x \in S |-> IF after[x] = x THEN x ELSE g[after[x]]]
        /\ \A x \in S : g[x] = IF after[x] = x THEN x ELSE g[after[x]]
    BY <1>1, <1>6 DEF Finds
  <2>2. g[r] = q /\ g[q] = q
    BY <1>2, <2>1
  <2> DEFINE j == [x \in S |-> IF f[x] = r THEN r ELSE g[x]]
             k == [x \in S |-> IF f[x] = r THEN (IF g[x] = q THEN r ELSE q) ELSE f[x]]
  <2>3. \A x \in S : j[x] = IF parent[x] = x THEN x ELSE j[parent[x]]
    <3> TAKE x \in S
    <3>1. parent[x] \in S
      BY <1>0
    <3>2. j[x] = (IF f[x] = r THEN r ELSE g[x]) /\ j[parent[x]] = IF f[parent[x]] = r THEN r ELSE g[parent[x]]
      BY <3>1
    <3> HIDE DEF j
    <3>3. CASE parent[x] = x
      <4>1. f[x] = x
        BY <1>0, <3>3
      <4>2. x # r => g[x] = x
        BY <1>2, <2>1, <3>3
      <4> QED
        BY <3>2, <3>3, <4>1, <4>2
    <3>4. CASE parent[x] # x
      <4>1. f[x] = f[parent[x]] /\ x # r
        BY <1>0, <3>4
      <4>2. g[x] = g[parent[x]]
        BY <1>2, <2>1, <3>4, <4>1
      <4> QED
        BY <3>2, <3>4, <4>1, <4>2
    <3> QED
      BY <3>3, <3>4
  <2>4. j = f
    <3>1. j = [x \in S |-> j[x]]
      OBVIOUS
    <3> HIDE DEF j
    <3>2. Finds(j, parent)
      BY <1>1, <2>3, <3>1 DEF Finds
    <3> QED
      BY <1>0, <3>2
  <2>5. \A x \in S : k[x] = IF parent[x] = x THEN x ELSE k[parent[x]]
    <3> TAKE x \in S
    <3>1. parent[x] \in S
      BY <1>0
    <3>2. /\ k[x] = IF f[x] = r THEN (IF g[x] = q THEN r ELSE q) ELSE f[x]
          /\ k[parent[x]] = IF f[parent[x]] = r THEN (IF g[parent[x]] = q THEN r ELSE q) ELSE f[parent[x]]
      BY <3>1
    <3> HIDE DEF k
    <3>3. CASE parent[x] = x
      <4>1. f[x] = x
        BY <1>0, <3>3
      <4> QED
        BY <2>2, <3>2, <3>3, <4>1
    <3>4. CASE parent[x] # x
      <4>1. f[x] = f[parent[x]] /\ x # r
        BY <1>0, <3>4
      <4>2. g[x] = g[parent[x]]
        BY <1>2, <2>1, <3>4, <4>1
      <4> QED
        BY <3>2, <3>4, <4>1, <4>2
    <3> QED
      BY <3>3, <3>4
  <2>6. k = f
    <3>1. k = [x \in S |-> k[x]]
      OBVIOUS
    <3> HIDE DEF k
    <3>2. Finds(k, parent)
      BY <1>1, <2>5, <3>1 DEF Finds
    <3> QED
      BY <1>0, <3>2
  <2>7. \A x \in S : g[x] = h[x]
    <3> TAKE x \in S
    <3>1. CASE f[x] = r
      <4>1. k[x] = IF g[x] = q THEN r ELSE q
        BY <3>1
      <4>2. k[x] = r
        BY <2>6, <3>1
      <4> HIDE DEF k
      <4> QED
        BY <1>2, <3>1, <4>1, <4>2
    <3>2. CASE f[x] # r
      <4>1. j[x] = g[x]
        BY <3>2
      <4>2. j[x] = f[x]
        BY <2>4
      <4> HIDE DEF j
      <4> QED
        BY <1>2, <3>2, <4>1, <4>2
    <3> QED
      BY <3>1, <3>2
  <2>8. g = [x \in S |-> g[x]] /\ h = [x \in S |-> h[x]]
    BY <1>1, <2>1
  <2> QED
    BY <2>7, <2>8
<1> QED
  BY <1>1, <1>4, <1>5, <1>6 DEF Forest, after, h

\* One union adds one pair.
LEMMA UnionJoins ==
  ASSUME NEW S, NEW parent, NEW f, NEW pairs \in SUBSET (S \X S),
         Forest(S, parent, f), Joined(S, f, pairs),
         NEW p \in S \X S
  PROVE  \E h : Forest(S, Union(p, parent), h) /\ Joined(S, h, pairs \cup {p})
<1> DEFINE r == f[p[1]]
           q == f[p[2]]
           h == [x \in S |-> IF f[x] = r THEN q ELSE f[x]]
<1>0. /\ parent \in [S -> S] /\ f \in [S -> S] /\ p[1] \in S /\ p[2] \in S
      /\ \A x \in S : parent[f[x]] = f[x]
      /\ \A x \in S : f[x] = IF parent[x] = x THEN x ELSE f[parent[x]]
  <2>1. parent \in [S -> S] /\ f = [x \in DOMAIN parent |-> IF parent[x] = x THEN x ELSE f[parent[x]]]
    BY DEF Forest, Finds
  <2> QED
    BY <2>1 DEF Forest
<1>1. r \in S /\ q \in S /\ f[r] = r /\ f[q] = q /\ parent[r] = r /\ parent[q] = q
  BY <1>0
<1>2. Union(p, parent) = [parent EXCEPT ![r] = q]
  BY RootFound DEF Union
<1>3. Forest(S, Union(p, parent), h)
  <2>1. CASE r = q
    <3>1. [parent EXCEPT ![r] = q] = parent
      BY <1>0, <1>1, <2>1
    <3>2. h = f
      BY <1>0, <2>1
    <3> HIDE DEF r, q, h
    <3> QED
      BY <1>2, <3>1, <3>2
  <2>2. CASE r # q
    <3> DEFINE a == [parent EXCEPT ![r] = q]
    <3>1. Union(p, parent) = a
      BY <1>2
    <3>2. Forest(S, [parent EXCEPT ![r] = q], [x \in S |-> IF f[x] = r THEN q ELSE f[x]])
      <4> HIDE DEF r, q
      <4> QED
        BY <1>1, <2>2, UnionForest
    <3> HIDE DEF a
    <3> QED
      BY <3>1, <3>2 DEF a
  <2> QED
    BY <2>1, <2>2
<1>4. \A x \in S : h[x] = IF f[x] = r THEN q ELSE f[x]
  OBVIOUS
<1> HIDE DEF h
<1>5. \A e \in pairs \cup {p} : h[e[1]] = h[e[2]]
  <2>1. ASSUME NEW e \in pairs PROVE h[e[1]] = h[e[2]]
    <3>1. e[1] \in S /\ e[2] \in S /\ f[e[1]] = f[e[2]]
      BY DEF Joined
    <3> QED
      BY <1>4, <3>1
  <2>2. h[p[1]] = h[p[2]]
    BY <1>0, <1>1, <1>4
  <2> QED
    BY <2>1, <2>2
<1>6. ASSUME NEW T \in SUBSET S, \A e \in pairs \cup {p} : e[1] \in T <=> e[2] \in T,
             NEW x \in S, NEW y \in S, h[x] = h[y]
      PROVE  x \in T <=> y \in T
  <2>1. \A u, v \in S : f[u] = f[v] => (u \in T <=> v \in T)
    BY <1>6 DEF Joined
  <2>2. p[1] \in T <=> p[2] \in T
    BY <1>6
  <2>3. f[p[1]] = r /\ f[p[2]] = q
    OBVIOUS
  <2>4. f[x] = f[y] \/ (f[x] = r /\ f[y] = q) \/ (f[x] = q /\ f[y] = r)
    BY <1>4, <1>6
  <2> HIDE DEF r, q
  <2> QED
    BY <1>0, <2>1, <2>2, <2>3, <2>4
<1>7. Joined(S, h, pairs \cup {p})
  BY <1>5, <1>6 DEF Joined
<1> QED
  BY <1>3, <1>7

\* g is what the fold of the pairs over the scanned memories computes.
Unites(g, S, pairs) ==
  g = [s \in SUBSET pairs |->
         IF s = {} THEN [d \in S |-> d]
         ELSE Union(CHOOSE p \in s : TRUE, g[s \ {CHOOSE p \in s : TRUE}])]

\* So far it is right for the sets of no more than n pairs.
UnitesTo(g, S, pairs, n) ==
  /\ g = [s \in SUBSET pairs |-> g[s]]
  /\ \A s \in SUBSET pairs :
       Cardinality(s) <= n =>
         g[s] = IF s = {} THEN [d \in S |-> d]
                ELSE Union(CHOOSE p \in s : TRUE, g[s \ {CHOOSE p \in s : TRUE}])

LEMMA UnitesFurther ==
  ASSUME NEW S, NEW pairs, IsFiniteSet(pairs), NEW n \in Nat, NEW g, UnitesTo(g, S, pairs, n)
  PROVE  \E h : UnitesTo(h, S, pairs, n + 1)
<1> DEFINE one(s) == CHOOSE p \in s : TRUE
           h == [s \in SUBSET pairs |->
                   IF s = {} THEN [d \in S |-> d] ELSE Union(one(s), g[s \ {one(s)}])]
<1>1. \A s \in SUBSET pairs : Cardinality(s) <= n => h[s] = g[s]
  BY Zenon DEF UnitesTo
<1>2. ASSUME NEW s \in SUBSET pairs, Cardinality(s) <= n + 1, s # {}
      PROVE  h[s] = Union(one(s), h[s \ {one(s)}])
  <2>1. one(s) \in s
    BY <1>2
  <2>2. IsFiniteSet(s)
    BY FS_Subset
  <2>3. /\ s \ {one(s)} \in SUBSET pairs
        /\ Cardinality(s \ {one(s)}) = Cardinality(s) - 1 /\ Cardinality(s) \in Nat
    BY <2>1, <2>2, FS_RemoveElement, FS_CardinalityType
  <2>4. h[s] = Union(one(s), g[s \ {one(s)}])
    BY <1>2
  <2>5. Cardinality(s \ {one(s)}) <= n
    BY <1>2, <2>3
  <2>6. h[s \ {one(s)}] = g[s \ {one(s)}]
    BY <1>1, <2>3, <2>5
  <2> QED
    BY <2>4, <2>6
<1>3. h[{}] = [d \in S |-> d]
  OBVIOUS
<1>4. h = [s \in SUBSET pairs |-> h[s]]
  OBVIOUS
<1> HIDE DEF h
<1>5. UnitesTo(h, S, pairs, n + 1)
  BY <1>2, <1>3, <1>4, Zenon DEF UnitesTo
<1> QED
  BY <1>5

LEMMA UnitesExists ==
  ASSUME NEW S, NEW pairs, IsFiniteSet(pairs)
  PROVE  \E g : Unites(g, S, pairs)
<1> DEFINE Q == {n \in Nat : \E g : UnitesTo(g, S, pairs, n)}
<1>1. 0 \in Q
  <2> DEFINE g == [s \in SUBSET pairs |-> [d \in S |-> d]]
  <2>1. \A s \in SUBSET pairs : Cardinality(s) <= 0 => s = {}
    <3> TAKE s \in SUBSET pairs
    <3>1. IsFiniteSet(s) /\ Cardinality(s) \in Nat
      BY FS_Subset, FS_CardinalityType
    <3> QED
      BY <3>1, FS_EmptySet
  <2>2. g = [s \in SUBSET pairs |-> g[s]] /\ g[{}] = [d \in S |-> d]
    OBVIOUS
  <2> HIDE DEF g
  <2>3. UnitesTo(g, S, pairs, 0)
    BY <2>1, <2>2 DEF UnitesTo
  <2> QED
    BY <2>3
<1>2. \A n \in Nat : n \in Q => n + 1 \in Q
  BY UnitesFurther
<1>3. Cardinality(pairs) \in Nat
  BY FS_CardinalityType
<1>4. Cardinality(pairs) \in Q
  <2> HIDE DEF Q
  <2> QED
    BY <1>1, <1>2, <1>3, EveryNumber
<1>5. PICK g : UnitesTo(g, S, pairs, Cardinality(pairs))
  BY <1>4
<1>6. \A s \in SUBSET pairs : Cardinality(s) <= Cardinality(pairs)
  BY FS_Subset
<1>7. g = [s \in SUBSET pairs |->
             IF s = {} THEN [d \in S |-> d]
             ELSE Union(CHOOSE p \in s : TRUE, g[s \ {CHOOSE p \in s : TRUE}])]
  BY <1>5, <1>6 DEF UnitesTo
<1> QED
  BY <1>7 DEF Unites

\* The union-find of a scan: its trees are joined by the related pairs.
LEMMA PairsUnited ==
  ASSUME NEW S, IsFiniteSet(S)
  PROVE  \E f : /\ Root(FoldSet(Union, [d \in S |-> d], Related(S))) = f
                /\ f \in [S -> S] /\ Joined(S, f, Related(S))
<1> DEFINE pairs == Related(S)
           g == CHOOSE h : Unites(h, S, pairs)
           Q == {s \in SUBSET pairs : \E f : Forest(S, g[s], f) /\ Joined(S, f, s)}
<1>1. pairs \subseteq S \X S /\ IsFiniteSet(pairs)
  <2>1. pairs \subseteq S \X S
    BY DEF Related
  <2> QED
    BY <2>1, FS_Product, FS_Subset
<1>2. Unites(g, S, pairs)
  BY <1>1, UnitesExists
<1>3. FoldSet(Union, [d \in S |-> d], pairs) = g[pairs]
  BY DEF FoldSet, MapThenFoldSet, Unites
<1> HIDE DEF g, pairs
<1>4. \A s \in SUBSET pairs :
        g[s] = IF s = {} THEN [d \in S |-> d]
               ELSE Union(CHOOSE p \in s : TRUE, g[s \ {CHOOSE p \in s : TRUE}])
  BY <1>2, Zenon DEF Unites
<1>5. {} \in Q
  <2> DEFINE id == [d \in S |-> d]
  <2>1. id \in [S -> S] /\ \A x \in S : id[x] = x
    OBVIOUS
  <2>2. Finds(id, id)
    BY DEF Finds
  <2>3. ASSUME NEW k, Finds(k, id) PROVE k = id
    BY <2>3 DEF Finds
  <2>4. g[{}] = id
    BY <1>4
  <2> HIDE DEF id
  <2>5. Forest(S, id, id)
    BY <2>1, <2>2, <2>3 DEF Forest
  <2>6. Joined(S, id, {})
    BY <2>1 DEF Joined
  <2> QED
    BY <2>4, <2>5, <2>6
<1>6. ASSUME NEW s \in SUBSET pairs, s # {}, \A x \in s : s \ {x} \in Q PROVE s \in Q
  <2> DEFINE p == CHOOSE e \in s : TRUE
             rest == s \ {p}
  <2>1. p \in s
    BY <1>6
  <2>2. g[s] = Union(p, g[rest])
    BY <1>4, <1>6, Zenon
  <2> HIDE DEF p
  <2>3. rest \in Q
    BY <1>6, <2>1
  <2>4. PICK f : Forest(S, g[rest], f) /\ Joined(S, f, rest)
    BY <2>3
  <2>5. rest \subseteq S \X S /\ p \in S \X S /\ rest \cup {p} = s
    BY <1>1, <2>1
  <2> HIDE DEF rest
  <2>6. \E h : Forest(S, Union(p, g[rest]), h) /\ Joined(S, h, rest \cup {p})
    BY <2>4, <2>5, UnionJoins
  <2> QED
    BY <2>2, <2>5, <2>6
<1>7. pairs \in Q
  <2> HIDE DEF Q
  <2> QED
    BY <1>1, <1>5, <1>6, EverySubset
<1>8. PICK f : Forest(S, g[pairs], f) /\ Joined(S, f, pairs)
  BY <1>7
<1>9. Root(FoldSet(Union, [d \in S |-> d], pairs)) = f /\ f \in [S -> S]
  BY <1>3, <1>8, RootFound DEF Forest
<1> QED
  BY <1>8, <1>9 DEF pairs

Apart(pairs, g, h) ==
  \A p \in pairs : ~(p[1] \in g /\ p[2] \in h) /\ ~(p[1] \in h /\ p[2] \in g)

\* The groups of a scan are the connected components of its related pairs.
LEMMA ComponentsFound ==
  ASSUME NEW S, IsFiniteSet(S)
  PROVE  /\ UNION Groups(S) = S
         /\ \A g, h \in Groups(S) : g # h => g \cap h = {} /\ Apart(Related(S), g, h)
         /\ \A g \in Groups(S) : \A h \in (SUBSET g) \ {{}, g} : ~Apart(Related(S), h, g \ h)
<1> DEFINE pairs == Related(S)
<1>1. PICK f : /\ Root(FoldSet(Union, [d \in S |-> d], Related(S))) = f
               /\ f \in [S -> S] /\ Joined(S, f, Related(S))
  BY PairsUnited
<1> DEFINE tree(r) == {d \in S : f[d] = r}
<1>2. Groups(S) = {tree(r) : r \in {f[d] : d \in S}}
  BY <1>1 DEF Groups
<1>3. pairs \subseteq S \X S
  BY DEF Related
<1>4. Joined(S, f, pairs)
  BY <1>1
<1> HIDE DEF pairs
<1>5. UNION Groups(S) = S
  BY <1>2
<1>6. ASSUME NEW g \in Groups(S), NEW h \in Groups(S), g # h
      PROVE  g \cap h = {} /\ Apart(pairs, g, h)
  <2>1. PICK r, q : g = tree(r) /\ h = tree(q)
    BY <1>2
  <2>2. r # q
    BY <1>6, <2>1
  <2>3. \A p \in pairs : p[1] \in S /\ p[2] \in S /\ f[p[1]] = f[p[2]]
    BY <1>3, <1>4 DEF Joined
  <2> QED
    BY <2>1, <2>2, <2>3 DEF Apart
<1>7. ASSUME NEW g \in Groups(S), NEW h \in (SUBSET g) \ {{}, g}, Apart(pairs, h, g \ h)
      PROVE  FALSE
  <2>1. PICK r : g = tree(r)
    BY <1>2
  <2>0. h # {} /\ h \subseteq g /\ h # g
    BY <1>7, Zenon
  <2>2. PICK x : x \in h
    BY <2>0
  <2>6. PICK y : y \in g \ h
    BY <2>0
  <2>3. f[x] = f[y] /\ x \in S /\ y \in S /\ h \in SUBSET S
    BY <2>0, <2>1, <2>2, <2>6
  <2>4. \A p \in pairs : p[1] \in h <=> p[2] \in h
    <3> TAKE p \in pairs
    <3>1. p[1] \in S /\ p[2] \in S /\ f[p[1]] = f[p[2]]
      BY <1>3, <1>4 DEF Joined
    <3>2. p[1] \in g <=> p[2] \in g
      BY <2>1, <3>1
    <3> QED
      BY <1>7, <3>2 DEF Apart
  <2>5. x \in h <=> y \in h
    BY <1>4, <2>3, <2>4 DEF Joined
  <2> QED
    BY <2>2, <2>5, <2>6
<1> QED
  BY <1>5, <1>6, <1>7 DEF pairs

-----------------------------------------------------------------------------
(* The keys of digests, in lexicographic order. *)

LEMMA LeastOf ==
  ASSUME NEW s \in SUBSET Nat, s # {}
  PROVE  Min(s) \in s /\ \A t \in s : Min(s) <= t
<1> DEFINE R == OpToRel(<, Nat)
<1>1. \A x, y \in Nat : x < y => <<x, y>> \in R
  BY DEF OpToRel
<1>2. IsWellFoundedOn(R, Nat)
  BY NatLessThanWellFounded
<1> HIDE DEF R
<1>3. PICK m \in s : \A t \in s : <<t, m>> \notin R
  BY <1>2, WFMin
<1>4. ASSUME NEW t \in s PROVE m <= t
  <2>1. ~(t < m)
    BY <1>1, <1>3
  <2> QED
    BY <2>1
<1>5. \A x \in s : (\A t \in s : x <= t) => x = m
  BY <1>4
<1> QED
  BY <1>4, <1>5 DEF Min

\* The least term in which two keys differ decides.
LEMMA FirstDifference ==
  ASSUME NEW k \in SUBSET Nat, NEW l \in SUBSET Nat, k # l
  PROVE  \E m \in Nat :
           /\ m \in k <=> m \notin l
           /\ \A t \in Nat : t < m => (t \in k <=> t \in l)
           /\ KeyBelow(k, l) <=> IF m \in k THEN \E t \in l : t > m ELSE \A t \in k : t < m
           /\ KeyBelow(l, k) <=> IF m \in l THEN \E t \in k : t > m ELSE \A t \in l : t < m
<1> DEFINE d == (k \ l) \cup (l \ k)
           e == (l \ k) \cup (k \ l)
<1>1. d = e /\ d \in SUBSET Nat /\ d # {}
  OBVIOUS
<1>2. KeyBelow(k, l) <=> IF Min(d) \in k THEN \E t \in l : t > Min(d) ELSE \A t \in k : t < Min(d)
  BY DEF KeyBelow
<1>3. KeyBelow(l, k) <=> IF Min(e) \in l THEN \E t \in k : t > Min(e) ELSE \A t \in l : t < Min(e)
  BY DEF KeyBelow
<1> DEFINE m == Min(d)
<1>4. m \in d /\ \A t \in d : m <= t
  BY <1>1, LeastOf
<1>5. Min(e) = m
  BY <1>1
<1> HIDE DEF m
<1>6. m \in Nat /\ (m \in k <=> m \notin l)
  BY <1>4
<1>7. \A t \in Nat : t < m => (t \in k <=> t \in l)
  BY <1>4, <1>6
<1> QED
  BY <1>2, <1>3, <1>5, <1>6, <1>7 DEF m

LEMMA KeysCompare ==
  ASSUME NEW k \in SUBSET Nat, NEW l \in SUBSET Nat, k # l
  PROVE  KeyBelow(k, l) \/ KeyBelow(l, k)
<1>1. PICK m \in Nat :
           /\ m \in k <=> m \notin l
           /\ \A t \in Nat : t < m => (t \in k <=> t \in l)
           /\ KeyBelow(k, l) <=> IF m \in k THEN \E t \in l : t > m ELSE \A t \in k : t < m
           /\ KeyBelow(l, k) <=> IF m \in l THEN \E t \in k : t > m ELSE \A t \in l : t < m
  BY FirstDifference
<1>2. CASE m \in k /\ m \notin l
  <2>1. (\E t \in l : t > m) \/ (\A t \in l : t < m)
    BY <1>2
  <2> QED
    BY <1>1, <1>2, <2>1
<1>3. CASE m \in l /\ m \notin k
  <2>1. (\E t \in k : t > m) \/ (\A t \in k : t < m)
    BY <1>3
  <2> QED
    BY <1>1, <1>3, <2>1
<1> QED
  BY <1>1, <1>2, <1>3

LEMMA KeysTransitive ==
  ASSUME NEW k \in SUBSET Nat, NEW l \in SUBSET Nat, NEW n \in SUBSET Nat,
         k # l, l # n, k # n, KeyBelow(k, l), KeyBelow(l, n)
  PROVE  KeyBelow(k, n)
<1>1. PICK a \in Nat :
           /\ a \in k <=> a \notin l
           /\ \A t \in Nat : t < a => (t \in k <=> t \in l)
           /\ IF a \in k THEN \E t \in l : t > a ELSE \A t \in k : t < a
  BY FirstDifference
<1>2. PICK b \in Nat :
           /\ b \in l <=> b \notin n
           /\ \A t \in Nat : t < b => (t \in l <=> t \in n)
           /\ IF b \in l THEN \E t \in n : t > b ELSE \A t \in l : t < b
  BY FirstDifference
<1>3. PICK c \in Nat :
           /\ c \in k <=> c \notin n
           /\ \A t \in Nat : t < c => (t \in k <=> t \in n)
           /\ KeyBelow(k, n) <=> IF c \in k THEN \E t \in n : t > c ELSE \A t \in k : t < c
  BY FirstDifference
<1>4. CASE a < b
  <2>1. c = a
    BY <1>1, <1>2, <1>3, <1>4
  <2>2. \E t \in n : t > a
    BY <1>2, <1>4
  <2> QED
    BY <1>1, <1>3, <2>1, <2>2
<1>5. CASE b < a
  <2>1. c = b
    BY <1>1, <1>2, <1>3, <1>5
  <2>2. b \in l
    BY <1>1, <1>2, <1>5
  <2> QED
    BY <1>1, <1>2, <1>3, <1>5, <2>1, <2>2
<1>6. CASE a = b
  <2>1. a \notin k /\ a \in l /\ a \notin n
    BY <1>1, <1>2, <1>6
  <2>2. (\A t \in k : t < a) /\ c >= a
    BY <1>1, <1>2, <1>3, <1>6, <2>1
  <2> QED
    BY <1>3, <2>2
<1> QED
  BY <1>4, <1>5, <1>6

\* A key with the greater overlap goes first, then the lower key.
Beats(overlap, k, l) ==
  \/ overlap[k] > overlap[l]
  \/ overlap[k] = overlap[l] /\ KeyBelow(k, l)

LEMMA BestKey ==
  ASSUME NEW L \in SUBSET SUBSET Nat, IsFiniteSet(L), L # {}, NEW overlap \in [L -> Nat]
  PROVE  \E k \in L : \A l \in L \ {k} : Beats(overlap, k, l)
<1> DEFINE best(s) == \E k \in s : \A l \in s \ {k} : Beats(overlap, k, l)
           Q == {s \in SUBSET L : s = {} \/ best(s)}
<1>1. \A k, l, n \in L : k # l /\ l # n /\ k # n /\ Beats(overlap, k, l) /\ Beats(overlap, l, n)
                           => Beats(overlap, k, n)
  BY KeysTransitive DEF Beats
<1>2. \A k, l \in L : k # l => Beats(overlap, k, l) \/ Beats(overlap, l, k)
  BY KeysCompare DEF Beats
<1>3. ASSUME NEW s \in SUBSET L, s # {}, \A x \in s : s \ {x} \in Q PROVE s \in Q
  <2>1. PICK x : x \in s
    BY <1>3
  <2>2. s \ {x} = {} \/ best(s \ {x})
    BY <1>3, <2>1
  <2>3. CASE s \ {x} = {}
    BY <2>1, <2>3
  <2>4. CASE best(s \ {x})
    <3>1. PICK k \in s \ {x} : \A l \in (s \ {x}) \ {k} : Beats(overlap, k, l)
      BY <2>4
    <3>2. CASE Beats(overlap, k, x)
      <4>1. \A l \in s \ {k} : Beats(overlap, k, l)
        BY <3>1, <3>2
      <4> QED
        BY <4>1
    <3>3. CASE Beats(overlap, x, k)
      <4>1. \A l \in s \ {x} : Beats(overlap, x, l)
        BY <1>1, <2>1, <3>1, <3>3
      <4> QED
        BY <2>1, <4>1
    <3> QED
      BY <1>2, <2>1, <3>1, <3>2, <3>3
  <2> QED
    BY <2>2, <2>3, <2>4
<1>4. L \in Q
  <2>1. {} \in Q
    OBVIOUS
  <2> HIDE DEF Q
  <2> QED
    BY <1>3, <2>1, EverySubset
<1> QED
  BY <1>4

-----------------------------------------------------------------------------
(* What is selected. *)

\* The lineage a group inherits is one of its lineages, and none of them has more
\* of the members of the group.
LEMMA InheritedIsBest ==
  ASSUME NEW D, NEW g, Lineages(g, D) # {},
         \A k \in Existing(D) : IsFiniteSet(D[k].members)
  PROVE  /\ Inherited(g, D) \in Lineages(g, D)
         /\ \A k \in Lineages(g, D) :
              Cardinality(D[Inherited(g, D)].members \cap g) >= Cardinality(D[k].members \cap g)
<1> DEFINE L == Lineages(g, D)
           overlap == [k \in L |-> Cardinality(D[k].members \cap g)]
           best(k) == \A l \in L \ {k} :
                        \/ Cardinality(D[k].members \cap g) > Cardinality(D[l].members \cap g)
                        \/ /\ Cardinality(D[k].members \cap g) = Cardinality(D[l].members \cap g)
                           /\ KeyBelow(k, l)
<1>1. L \subseteq Existing(D) /\ L \in SUBSET SUBSET Nat /\ IsFiniteSet(L)
  <2>1. L \subseteq Existing(D) /\ Existing(D) \subseteq SUBSET Terms
    BY DEF Lineages, Existing, Keys
  <2>2. IsFiniteSet(SUBSET Terms) /\ Terms \subseteq Nat
    BY FS_SUBSET, ConsolidateAssumption
  <2> HIDE DEF L
  <2>3. IsFiniteSet(L)
    BY <2>1, <2>2, FS_Subset
  <2> QED
    BY <2>1, <2>2, <2>3
<1>2. \A k \in L : Cardinality(D[k].members \cap g) \in Nat
  <2> TAKE k \in L
  <2>1. IsFiniteSet(D[k].members)
    BY <1>1
  <2>2. IsFiniteSet(D[k].members \cap g)
    BY <2>1, FS_Subset
  <2> QED
    BY <2>2, FS_CardinalityType
<1>3. Inherited(g, D) = CHOOSE k \in L : best(k)
  BY DEF Inherited
<1>4. L # {}
  OBVIOUS
<1> HIDE DEF L
<1>5. overlap \in [L -> Nat] /\ \A k \in L : overlap[k] = Cardinality(D[k].members \cap g)
  BY <1>2
<1> HIDE DEF overlap
<1>6. PICK k \in L : \A l \in L \ {k} : Beats(overlap, k, l)
  BY <1>1, <1>4, <1>5, BestKey
<1>7. best(k)
  BY <1>5, <1>6 DEF Beats
<1>8. Inherited(g, D) \in L /\ best(Inherited(g, D))
  <2> HIDE DEF best
  <2> QED
    BY <1>3, <1>7
<1> DEFINE i == Inherited(g, D)
<1>9. \A l \in L : Cardinality(D[i].members \cap g) >= Cardinality(D[l].members \cap g)
  <2> HIDE DEF i
  <2>1. i \in L /\ best(i)
    BY <1>8 DEF i
  <2> TAKE l \in L
  <2>2. CASE l = i
    BY <1>2, <2>2
  <2>3. CASE l # i
    <3>1. \/ Cardinality(D[i].members \cap g) > Cardinality(D[l].members \cap g)
          \/ Cardinality(D[i].members \cap g) = Cardinality(D[l].members \cap g)
      BY <2>1, <2>3
    <3> QED
      BY <1>2, <2>1, <3>1
  <2> QED
    BY <2>2, <2>3
<1> QED
  BY <1>8, <1>9 DEF L

\* A group some digest has as its members is fresh, whatever key it inherits.
LEMMA DigestedIsFresh ==
  ASSUME NEW S, NEW D, NEW now, NEW cand \in AllCandidates(S, D, now), IsFiniteSet(S),
         \A k \in Existing(D) : now[k] = D[k] /\ IsFiniteSet(D[k].members),
         NEW k \in Existing(D)
  PROVE  D[k].members # cand.members
<1> SUFFICES ASSUME D[k].members = cand.members PROVE FALSE
  OBVIOUS
<1>1. PICK g \in Eligible(S) : /\ cand.members = g
                               /\ ~Fresh(g, KeyOf(g, S, D), now)
  BY DEF AllCandidates
<1>2. g # {} /\ IsFiniteSet(g) /\ D[k].members = g
  <2>1. g \in Groups(S)
    BY DEF Eligible
  <2>2. g \subseteq S
    BY <2>1, ComponentsFound
  <2> QED
    BY <1>1, <2>1, <2>2, FS_Subset, GroupsNotEmpty
<1>3. Cardinality(g) \in Nat
  BY <1>2, FS_CardinalityType
<1>4. k \in Lineages(g, D)
  <2>1. D[k].members \cap g = g
    BY <1>2
  <2>2. 2 * Cardinality(g) >= Cardinality(g)
    BY <1>3
  <2> QED
    BY <1>2, <2>1, <2>2 DEF Lineages
<1> DEFINE i == Inherited(g, D)
           m == D[i].members
<1>5. i \in Lineages(g, D) /\ Cardinality(m \cap g) >= Cardinality(g)
  <2>1. D[k].members \cap g = g
    BY <1>2
  <2> QED
    BY <1>4, <2>1, InheritedIsBest
<1>6. i \in Existing(D) /\ KeyOf(g, S, D) = i
  BY <1>4, <1>5 DEF Lineages, KeyOf
<1>7. now[i] = D[i] /\ now[i] # NoDigest /\ IsFiniteSet(m)
  BY <1>6 DEF Existing
<1> HIDE DEF i, m
<1>8. Cardinality(m) >= Cardinality(g) /\ Cardinality(m) \in Nat
  <2>1. Cardinality(m \cap g) <= Cardinality(m) /\ IsFiniteSet(m \cap g)
    BY <1>7, FS_Subset
  <2>2. Cardinality(m \cap g) \in Nat /\ Cardinality(m) \in Nat
    BY <1>7, <2>1, FS_CardinalityType
  <2> QED
    BY <1>3, <1>5, <2>1, <2>2
<1>9. Fresh(g, i, now)
  <2>1. StaleMargin \in Nat
    BY ConsolidateAssumption
  <2>2. Cardinality(g) <= Cardinality(m) + StaleMargin
    BY <1>3, <1>8, <2>1
  <2> QED
    BY <1>7, <2>2 DEF Fresh, m
<1> QED
  BY <1>1, <1>6, <1>9

\* There are no memories but those of Docs: none is listed, none is a member.
KnownInv ==
  /\ store \subseteq Docs
  /\ DOMAIN digests = Keys /\ DOMAIN listed = Clients
  /\ DOMAIN candidates = Clients /\ DOMAIN input = Clients
  /\ \A c \in Clients : listed[c].docs \subseteq Docs
  /\ \A c \in Clients : \A cand \in candidates[c] : cand.members \subseteq Docs
  /\ \A c \in Clients : input[c].members \subseteq Docs
  /\ \A k \in Keys : digests[k] # NoDigest => digests[k].members \subseteq Docs

LEMMA KnownCandidates ==
  ASSUME NEW S \in SUBSET Docs, NEW D, NEW now, NEW cand \in AllCandidates(S, D, now)
  PROVE  cand.members \subseteq Docs
<1>1. PICK g \in Eligible(S) : cand.members = g
  BY DEF AllCandidates
<1>2. IsFiniteSet(S)
  BY ConsolidateAssumption, FS_Subset
<1> QED
  BY <1>1, <1>2, ComponentsFound DEF Eligible

LEMMA KnownDone ==
  ASSUME KnownInv, NEW c \in Clients, NEW left \in SUBSET candidates[c], Done(c, left),
         UNCHANGED store, DOMAIN digests' = Keys,
         \A k \in Keys : digests'[k] # NoDigest => digests'[k].members \subseteq Docs
  PROVE  KnownInv'
<1>1. /\ listed' = listed
      /\ DOMAIN candidates' = Clients /\ DOMAIN input' = Clients
      /\ \A b \in Clients : candidates'[b] \subseteq candidates[b]
      /\ \A b \in Clients : input'[b] = input[b] \/ input'[b].members = {}
  BY DEF Done, KnownInv, NoInput
<1> QED
  BY <1>1 DEF KnownInv

LEMMA KnownStep ==
  ASSUME KnownInv, [Next]_vars
  PROVE  KnownInv'
<1>1. ASSUME NEW c \in Clients, ListManifest(c) PROVE KnownInv'
  BY <1>1 DEF ListManifest, KnownInv
<1>2. ASSUME NEW c \in Clients, SelectCandidates(c) PROVE KnownInv'
  <2>1. Corpus(c) \in SUBSET Docs
    BY DEF Corpus, KnownInv
  <2>0. PICK lost \in SUBSET Existing(digests) :
          \E some \in Truncations(AllCandidates(Corpus(c), Found(c), Without(lost))) :
            candidates' = [candidates EXCEPT ![c] = some]
    BY <1>2 DEF SelectCandidates
  <2>2. PICK some \in Truncations(AllCandidates(Corpus(c), Found(c), Without(lost))) :
          candidates' = [candidates EXCEPT ![c] = some]
    BY <2>0
  <2>3. \A cand \in some : cand.members \subseteq Docs
    BY <2>1, <2>2, KnownCandidates DEF Truncations
  <2>4. listed' = [listed EXCEPT ![c] = Nothing] /\ Nothing.docs = {}
        /\ UNCHANGED <<store, digests, input>>
    BY <1>2 DEF SelectCandidates, Nothing
  <2> QED
    BY <2>2, <2>3, <2>4 DEF KnownInv
<1>3. ASSUME NEW c \in Clients, NEW cand \in candidates[c], NEW lost \in BOOLEAN,
             Prepare(c, cand, lost)
      PROVE  KnownInv'
  <2>1. /\ UNCHANGED <<store, digests, listed>>
        /\ \E r : input' = [input EXCEPT ![c] = r] /\ r.members = cand.members
        /\ candidates' = [candidates EXCEPT ![c] = @ \ {cand}]
    <3> DEFINE r == [key |-> cand.key, members |-> cand.members,
                     text |-> MemberText(cand.members), next |-> NextVersion(cand.key, lost)]
    <3>1. r.members = cand.members
      OBVIOUS
    <3>2. input' = [input EXCEPT ![c] = r] /\ UNCHANGED <<store, digests, listed>>
          /\ candidates' = [candidates EXCEPT ![c] = @ \ {cand}]
      BY <1>3 DEF Prepare
    <3> HIDE DEF r
    <3> QED
      BY <3>1, <3>2
  <2> QED
    BY <2>1 DEF KnownInv
<1>4. ASSUME NEW c \in Clients, NEW cand \in candidates[c], PrepareFails(c, cand) PROVE KnownInv'
  BY <1>4, KnownDone DEF PrepareFails, KnownInv
<1>5. ASSUME NEW c \in Clients, Distill(c) \/ \E lost \in BOOLEAN : Check(c, lost) PROVE KnownInv'
  BY <1>5 DEF Distill, Check, KnownInv
<1>6. ASSUME NEW c \in Clients, BackendFails(c) \/ Refuse(c) \/ WriteFails(c) PROVE KnownInv'
  BY <1>6, KnownDone DEF BackendFails, Refuse, WriteFails, GiveUp, KnownInv
<1>7. ASSUME NEW c \in Clients, Write(c) PROVE KnownInv'
  <2>1. /\ DOMAIN digests' = Keys /\ Done(c, candidates[c]) /\ UNCHANGED store
        /\ \A k \in Keys : digests'[k] = digests[k] \/ digests'[k].members = input[c].members
    BY <1>7 DEF Write, DigestOf, KnownInv
  <2> QED
    BY <2>1, KnownDone DEF KnownInv
<1>8. ASSUME NEW d \in Docs, Remember(d) \/ Forget(d) PROVE KnownInv'
  BY <1>8 DEF Remember, Forget, KnownInv
<1>9. ASSUME NEW k \in Keys, DeleteDigest(k) PROVE KnownInv'
  BY <1>9 DEF DeleteDigest, KnownInv
<1>10. CASE UNCHANGED vars
  BY <1>10 DEF KnownInv
<1> QED
  BY <1>1, <1>2, <1>3, <1>4, <1>5, <1>6, <1>7, <1>8, <1>9, <1>10 DEF Next, Step

LEMMA KnownInvariance == Spec => []KnownInv
<1>1. Init => KnownInv
  BY DEF Init, KnownInv, Nothing, NoInput
<1> QED
  BY <1>1, KnownStep, PTL DEF Spec

\* Whatever the clients do, the union-find computes the connected components of
\* the related memories.
THEOREM GroupsAreTheComponents == Spec => []GroupsAreComponents
<1>1. KnownInv => GroupsAreComponents
  <2> SUFFICES ASSUME store \subseteq Docs, NEW c \in {b \in Selecting : Corpus(b) = store}
               PROVE  LET S == Corpus(c)
                          pairs == Related(S)
                          groups == Groups(S)
                          apart(g, h) == \A p \in pairs : ~(p[1] \in g /\ p[2] \in h)
                                                       /\ ~(p[1] \in h /\ p[2] \in g)
                      IN  /\ UNION groups = S
                          /\ \A g, h \in groups : g # h => g \cap h = {} /\ apart(g, h)
                          /\ \A g \in groups : \A h \in (SUBSET g) \ {{}, g} : ~apart(h, g \ h)
    BY DEF GroupsAreComponents, KnownInv
  <2>1. IsFiniteSet(Corpus(c))
    BY ConsolidateAssumption, FS_Subset
  <2> DEFINE S == Corpus(c)
  <2>2. /\ UNION Groups(S) = S
        /\ \A g, h \in Groups(S) : g # h => g \cap h = {} /\ Apart(Related(S), g, h)
        /\ \A g \in Groups(S) : \A h \in (SUBSET g) \ {{}, g} : ~Apart(Related(S), h, g \ h)
    <3> HIDE DEF S
    <3>1. IsFiniteSet(S)
      BY <2>1 DEF S
    <3> QED
      BY <3>1, ComponentsFound
  <2> QED
    BY <2>2 DEF Apart
<1> QED
  BY <1>1, KnownInvariance, PTL

\* A group that is the members of a digest is not selected, whatever happened
\* between the listing and the selection.
THEOREM DigestedIsNotSelected == Spec => []DigestedNotSelected
<1>1. KnownInv => DigestedNotSelected
  <2> SUFFICES ASSUME KnownInv, NEW c \in Selecting,
                      NEW cand \in AllCandidates(Corpus(c), Found(c), digests),
                      NEW k \in Existing(Found(c))
               PROVE  digests[k].members # cand.members
    BY DEF DigestedNotSelected
  <2>1. Corpus(c) \subseteq Docs /\ IsFiniteSet(Docs)
    BY ConsolidateAssumption DEF Corpus, KnownInv
  <2>2. IsFiniteSet(Corpus(c))
    BY <2>1, FS_Subset
  <2> DEFINE D == Found(c)
  <2>3. \A l \in Existing(D) : l \in Keys /\ digests[l] = D[l] /\ D[l] # NoDigest
    BY DEF Existing, Found
  <2>4. \A l \in Existing(D) : IsFiniteSet(D[l].members)
    BY <2>1, <2>3, FS_Subset DEF KnownInv
  <2> HIDE DEF D
  <2>5. cand \in AllCandidates(Corpus(c), D, digests) /\ k \in Existing(D)
    BY DEF D
  <2>6. D[k].members # cand.members
    BY <2>2, <2>3, <2>4, <2>5, DigestedIsFresh
  <2> QED
    BY <2>3, <2>5, <2>6
<1> QED
  BY <1>1, KnownInvariance, PTL

-----------------------------------------------------------------------------
(* Sums of lengths. *)

\* g adds up the lengths of the sentences at any of the places X.
Sums(g, text, X) ==
  g = [s \in SUBSET X |->
         IF s = {} THEN 0
         ELSE text[CHOOSE i \in s : TRUE].len + g[s \ {CHOOSE i \in s : TRUE}]]

\* So far it is right for no more than n places.
SumsTo(g, text, X, n) ==
  /\ g = [s \in SUBSET X |-> g[s]]
  /\ \A s \in SUBSET X :
       Cardinality(s) <= n =>
         g[s] = IF s = {} THEN 0
                ELSE text[CHOOSE i \in s : TRUE].len + g[s \ {CHOOSE i \in s : TRUE}]

LEMMA SumsFurther ==
  ASSUME NEW text, NEW X, IsFiniteSet(X), NEW n \in Nat, NEW g, SumsTo(g, text, X, n)
  PROVE  \E h : SumsTo(h, text, X, n + 1)
<1> DEFINE one(s) == CHOOSE i \in s : TRUE
           h == [s \in SUBSET X |->
                   IF s = {} THEN 0 ELSE text[one(s)].len + g[s \ {one(s)}]]
<1>1. \A s \in SUBSET X : Cardinality(s) <= n => h[s] = g[s]
  BY Zenon DEF SumsTo
<1>2. ASSUME NEW s \in SUBSET X, Cardinality(s) <= n + 1, s # {}
      PROVE  h[s] = text[one(s)].len + h[s \ {one(s)}]
  <2>1. one(s) \in s
    BY <1>2
  <2>2. IsFiniteSet(s)
    BY FS_Subset
  <2>3. /\ s \ {one(s)} \in SUBSET X
        /\ Cardinality(s \ {one(s)}) = Cardinality(s) - 1 /\ Cardinality(s) \in Nat
    BY <2>1, <2>2, FS_RemoveElement, FS_CardinalityType
  <2>4. h[s] = text[one(s)].len + g[s \ {one(s)}]
    BY <1>2
  <2>5. Cardinality(s \ {one(s)}) <= n
    BY <1>2, <2>3
  <2>6. h[s \ {one(s)}] = g[s \ {one(s)}]
    BY <1>1, <2>3, <2>5
  <2> QED
    BY <2>4, <2>6
<1>3. h[{}] = 0
  OBVIOUS
<1>4. h = [s \in SUBSET X |-> h[s]]
  OBVIOUS
<1> HIDE DEF h
<1>5. SumsTo(h, text, X, n + 1)
  BY <1>2, <1>3, <1>4, Zenon DEF SumsTo
<1> QED
  BY <1>5

LEMMA SumsExist ==
  ASSUME NEW text, NEW X, IsFiniteSet(X)
  PROVE  \E g : Sums(g, text, X)
<1> DEFINE Q == {n \in Nat : \E g : SumsTo(g, text, X, n)}
<1>1. 0 \in Q
  <2> DEFINE g == [s \in SUBSET X |-> 0]
  <2>1. \A s \in SUBSET X : Cardinality(s) <= 0 => s = {}
    <3> TAKE s \in SUBSET X
    <3>1. IsFiniteSet(s) /\ Cardinality(s) \in Nat
      BY FS_Subset, FS_CardinalityType
    <3> QED
      BY <3>1, FS_EmptySet
  <2>2. g = [s \in SUBSET X |-> g[s]] /\ g[{}] = 0
    OBVIOUS
  <2> HIDE DEF g
  <2>3. SumsTo(g, text, X, 0)
    BY <2>1, <2>2 DEF SumsTo
  <2> QED
    BY <2>3
<1>2. \A n \in Nat : n \in Q => n + 1 \in Q
  BY SumsFurther
<1>3. Cardinality(X) \in Nat
  BY FS_CardinalityType
<1>4. Cardinality(X) \in Q
  <2> HIDE DEF Q
  <2> QED
    BY <1>1, <1>2, <1>3, EveryNumber
<1>5. PICK g : SumsTo(g, text, X, Cardinality(X))
  BY <1>4
<1>6. \A s \in SUBSET X : Cardinality(s) <= Cardinality(X)
  BY FS_Subset
<1>7. g = [s \in SUBSET X |->
             IF s = {} THEN 0
             ELSE text[CHOOSE i \in s : TRUE].len + g[s \ {CHOOSE i \in s : TRUE}]]
  BY <1>5, <1>6 DEF SumsTo
<1> QED
  BY <1>7 DEF Sums

LEMMA SumsAreNumbers ==
  ASSUME NEW text, NEW X, IsFiniteSet(X), NEW g, Sums(g, text, X),
         \A i \in X : text[i].len \in Nat
  PROVE  \A s \in SUBSET X : g[s] \in Nat
<1> SUFFICES ASSUME NEW t \in SUBSET X PROVE g[t] \in Nat
  OBVIOUS
<1> DEFINE Q == {s \in SUBSET X : g[s] \in Nat}
<1>1. \A s \in SUBSET X :
        g[s] = IF s = {} THEN 0
               ELSE text[CHOOSE i \in s : TRUE].len + g[s \ {CHOOSE i \in s : TRUE}]
  BY Zenon DEF Sums
<1>2. {} \in Q
  <2>1. {} \in SUBSET X
    OBVIOUS
  <2>2. g[{}] = 0
    BY <1>1, <2>1, Zenon
  <2> QED
    BY <2>1, <2>2
<1>3. ASSUME NEW s \in SUBSET t, s # {}, \A x \in s : s \ {x} \in Q PROVE s \in Q
  <2> DEFINE c == CHOOSE i \in s : TRUE
  <2>1. c \in s /\ s \in SUBSET X
    BY <1>3
  <2>2. g[s] = text[c].len + g[s \ {c}]
    BY <1>1, <1>3, <2>1, Zenon
  <2> HIDE DEF c
  <2>3. g[s \ {c}] \in Nat /\ text[c].len \in Nat
    BY <1>3, <2>1
  <2> QED
    BY <2>1, <2>2, <2>3
<1>4. t \in Q
  <2>1. IsFiniteSet(t)
    BY FS_Subset
  <2> HIDE DEF Q
  <2> QED
    BY <1>2, <1>3, <2>1, EverySubset
<1> QED
  BY <1>4

\* The order in which the places are chosen does not matter.
LEMMA SumsAdd ==
  ASSUME NEW text, NEW X, IsFiniteSet(X), NEW g, Sums(g, text, X),
         \A i \in X : text[i].len \in Nat
  PROVE  /\ g[X] \in Nat
         /\ \A x \in X : g[X] = text[x].len + g[X \ {x}]
<1> DEFINE Q == {s \in SUBSET X : g[s] \in Nat /\ \A x \in s : g[s] = text[x].len + g[s \ {x}]}
<1>1. \A s \in SUBSET X :
        g[s] = IF s = {} THEN 0
               ELSE text[CHOOSE i \in s : TRUE].len + g[s \ {CHOOSE i \in s : TRUE}]
  BY Zenon DEF Sums
<1>2. {} \in Q
  <2>1. {} \in SUBSET X
    OBVIOUS
  <2>2. g[{}] = 0
    BY <1>1, <2>1, Zenon
  <2> QED
    BY <2>1, <2>2
<1>3. ASSUME NEW s \in SUBSET X, s # {}, \A x \in s : s \ {x} \in Q PROVE s \in Q
  <2> DEFINE c == CHOOSE i \in s : TRUE
  <2>1. c \in s
    BY <1>3
  <2>2. g[s] = text[c].len + g[s \ {c}]
    BY <1>1, <1>3, Zenon
  <2> HIDE DEF c
  <2>3. g[s \ {c}] \in Nat /\ \A x \in s \ {c} : g[s \ {c}] = text[x].len + g[(s \ {c}) \ {x}]
    BY <1>3, <2>1
  <2>4. g[s] \in Nat
    BY SumsAreNumbers
  <2>5. ASSUME NEW x \in s, x # c PROVE g[s] = text[x].len + g[s \ {x}]
    <3>1. c \in s \ {x} /\ x \in s \ {c} /\ (s \ {x}) \ {c} = (s \ {c}) \ {x}
      BY <2>1, <2>5
    <3>2. g[s \ {x}] \in Nat /\ g[s \ {x}] = text[c].len + g[(s \ {x}) \ {c}]
      BY <1>3, <3>1
    <3>3. g[s \ {c}] = text[x].len + g[(s \ {c}) \ {x}]
      BY <2>3, <3>1
    <3>4. g[(s \ {c}) \ {x}] \in Nat /\ text[x].len \in Nat /\ text[c].len \in Nat
      BY <2>1, SumsAreNumbers
    <3> DEFINE lc == text[c].len
               lx == text[x].len
               rest == g[(s \ {c}) \ {x}]
    <3>5. rest \in Nat /\ lc \in Nat /\ lx \in Nat
      BY <3>4
    <3>6. g[s] = lc + g[s \ {c}] /\ g[s \ {c}] = lx + rest /\ g[s \ {x}] = lc + rest
      BY <2>2, <3>1, <3>2, <3>3
    <3> HIDE DEF lc, lx, rest
    <3>7. g[s] = lx + g[s \ {x}]
      BY <3>5, <3>6
    <3> QED
      BY <3>7 DEF lx
  <2> QED
    BY <2>2, <2>4, <2>5
<1>4. X \in Q
  <2> HIDE DEF Q
  <2> QED
    BY <1>2, <1>3, EverySubset
<1> QED
  BY <1>4

LEMMA SumsAgree ==
  ASSUME NEW text, NEW X, NEW Y \in SUBSET X, IsFiniteSet(X),
         NEW g, Sums(g, text, X), NEW h, Sums(h, text, Y)
  PROVE  g[Y] = h[Y]
<1> DEFINE Q == {s \in SUBSET Y : g[s] = h[s]}
<1>1. \A s \in SUBSET X :
        g[s] = IF s = {} THEN 0
               ELSE text[CHOOSE i \in s : TRUE].len + g[s \ {CHOOSE i \in s : TRUE}]
  BY Zenon DEF Sums
<1>2. \A s \in SUBSET Y :
        h[s] = IF s = {} THEN 0
               ELSE text[CHOOSE i \in s : TRUE].len + h[s \ {CHOOSE i \in s : TRUE}]
  BY Zenon DEF Sums
<1>3. {} \in Q
  BY <1>1, <1>2
<1>4. ASSUME NEW s \in SUBSET Y, s # {}, \A x \in s : s \ {x} \in Q PROVE s \in Q
  <2> DEFINE c == CHOOSE i \in s : TRUE
  <2>1. c \in s /\ s \in SUBSET X
    BY <1>4
  <2>2. g[s] = text[c].len + g[s \ {c}] /\ h[s] = text[c].len + h[s \ {c}]
    BY <1>1, <1>2, <1>4, <2>1, Zenon
  <2> HIDE DEF c
  <2>3. g[s \ {c}] = h[s \ {c}]
    BY <1>4, <2>1
  <2> QED
    BY <2>2, <2>3
<1>5. Y \in Q
  <2>1. IsFiniteSet(Y)
    BY FS_Subset
  <2> HIDE DEF Q
  <2> QED
    BY <1>3, <1>4, <2>1, EverySubset
<1> QED
  BY <1>5

\* The length of the first n sentences.
Sum(text, n) == MapThenSumSet(LAMBDA i : text[i].len, 1..n)

LEMMA SumOfFirst ==
  ASSUME NEW text \in Seq(Sentences)
  PROVE  /\ Sum(text, 0) = 0
         /\ \A n \in 0..Len(text) : Sum(text, n) \in Nat
         /\ \A n \in 1..Len(text) : Sum(text, n) = Sum(text, n - 1) + text[n].len
<1> DEFINE g(n) == CHOOSE h : Sums(h, text, 1..n)
<1>1. \A n \in Nat : Sums(g(n), text, 1..n)
  <2> TAKE n \in Nat
  <2>1. IsFiniteSet(1..n)
    BY FS_Interval
  <2> QED
    BY <2>1, SumsExist
<1>2. \A n \in Nat : Sum(text, n) = g(n)[1..n]
  BY DEF Sum, MapThenSumSet, MapThenFoldSet, Sums
<1> HIDE DEF g
<1>3. \A n \in 0..Len(text) : n \in Nat /\ \A i \in 1..n : text[i].len \in Nat
  <2>1. \A i \in 1..Len(text) : text[i] \in Sentences
    OBVIOUS
  <2>2. \A i \in 1..Len(text) : text[i].len \in Nat
    BY <2>1 DEF Sentences
  <2> QED
    BY <2>2
<1>4. Sum(text, 0) = 0
  <2>1. 1..0 = {} /\ Sums(g(0), text, 1..0)
    BY <1>1
  <2>2. g(0)[1..0] = 0
    BY <2>1 DEF Sums
  <2> QED
    BY <1>2, <2>2
<1>5. ASSUME NEW n \in 0..Len(text) PROVE Sum(text, n) \in Nat
  <2>1. IsFiniteSet(1..n)
    BY FS_Interval
  <2> QED
    BY <1>1, <1>2, <1>3, <2>1, SumsAdd
<1>6. ASSUME NEW n \in 1..Len(text) PROVE Sum(text, n) = Sum(text, n - 1) + text[n].len
  <2>1. /\ n \in Nat /\ n - 1 \in Nat /\ n \in 1..n /\ (1..n) \ {n} = 1..(n - 1)
        /\ 1..(n - 1) \in SUBSET (1..n) /\ n \in 0..Len(text) /\ n - 1 \in 0..Len(text)
    OBVIOUS
  <2>2. IsFiniteSet(1..n) /\ IsFiniteSet(1..(n - 1))
    BY <2>1, FS_Interval
  <2>3. g(n)[1..n] = text[n].len + g(n)[1..(n - 1)]
    <3>1. Sums(g(n), text, 1..n) /\ \A i \in 1..n : text[i].len \in Nat
      BY <1>1, <1>3, <2>1
    <3> DEFINE X == 1..n
               k == g(n)
    <3>2. n \in X /\ IsFiniteSet(X) /\ Sums(k, text, X) /\ \A i \in X : text[i].len \in Nat
      BY <2>1, <2>2, <3>1
    <3> HIDE DEF X, k
    <3>3. k[X] = text[n].len + k[X \ {n}]
      BY <3>2, SumsAdd
    <3> QED
      BY <2>1, <3>3 DEF X, k
  <2>4. g(n - 1)[1..(n - 1)] \in Nat /\ text[n].len \in Nat
    BY <1>1, <1>3, <2>1, <2>2, SumsAdd
  <2>5. Sums(g(n), text, 1..n) /\ Sums(g(n - 1), text, 1..(n - 1))
    BY <1>1, <2>1
  <2>6. g(n)[1..(n - 1)] = g(n - 1)[1..(n - 1)]
    BY <2>1, <2>2, <2>5, SumsAgree
  <2> QED
    BY <1>2, <2>1, <2>3, <2>4, <2>6
<1> QED
  BY <1>4, <1>5, <1>6

-----------------------------------------------------------------------------
(* Texts that are cut. *)

\* A set of places that has no gap is a beginning.
LEMMA NoGap ==
  ASSUME NEW n \in Nat, NEW K \in SUBSET (1..n), \A i \in K : i > 1 => i - 1 \in K
  PROVE  \E m \in 0..n : K = 1..m /\ Cardinality(K) = m
<1> DEFINE D == (1..(n + 1)) \ K
           m == Min(D) - 1
<1>1. D \in SUBSET Nat /\ n + 1 \in D
  OBVIOUS
<1>2. Min(D) \in D /\ \A t \in D : Min(D) <= t
  BY <1>1, LeastOf
<1>3. m \in 0..n /\ m + 1 \notin K /\ \A t \in D : m + 1 <= t
  BY <1>1, <1>2
<1>4. \A t \in 1..m : t \in K
  BY <1>3
<1> HIDE DEF m
<1>5. ASSUME NEW t \in K, t > m PROVE FALSE
  <2> DEFINE A == {e \in K : e > m}
  <2>0. K \subseteq Nat
    OBVIOUS
  <2>1. A \in SUBSET Nat /\ A # {}
    BY <1>5, <2>0
  <2>2. Min(A) \in A /\ \A e \in A : Min(A) <= e
    BY <2>1, LeastOf
  <2> DEFINE a == Min(A)
  <2>3. a \in K /\ a > m /\ a \in Nat /\ m \in Nat
    <3>1. a \in A
      BY <2>2
    <3>2. m \in Nat
      BY <1>3
    <3> HIDE DEF a
    <3> QED
      BY <2>0, <3>1, <3>2
  <2> HIDE DEF a
  <2>4. a # m + 1 /\ a > m + 1
    BY <1>3, <2>3
  <2>5. a - 1 \in K /\ a - 1 > m
    BY <2>3, <2>4
  <2>6. a <= a - 1
    BY <2>2, <2>5 DEF a
  <2> QED
    BY <2>3, <2>6
<1>6. K = 1..m
  <2>1. ASSUME NEW t \in K PROVE t \in 1..m
    <3>1. ~(t > m) /\ t \in 1..n /\ m \in Nat
      BY <1>3, <1>5
    <3> QED
      BY <3>1
  <2> QED
    BY <1>4, <2>1
<1>7. Cardinality(1..m) = m
  BY <1>3, FS_Interval
<1> QED
  BY <1>3, <1>6, <1>7

LEMMA LesserOf ==
  ASSUME NEW a \in Nat, NEW b \in Nat
  PROVE  Min({a, b}) = IF a <= b THEN a ELSE b
<1> DEFINE s == {a, b}
<1>1. s \in SUBSET Nat /\ s # {}
  OBVIOUS
<1>2. Min(s) \in s /\ \A t \in s : Min(s) <= t
  BY <1>1, LeastOf
<1> QED
  BY <1>2

LEMMA CharsAreSums ==
  ASSUME NEW text \in Seq(Sentences)
  PROVE  /\ Chars(text, 1) = Sum(text, Len(text)) + Len(text) - 1
         /\ \A i \in 1..Len(text), sep \in {0, 1} : Start(text, i, sep) = Sum(text, i - 1) + sep * (i - 1)
<1>1. DOMAIN text = 1..Len(text) /\ Len(text) \in Nat
  OBVIOUS
<1>2. MapThenSumSet(LAMBDA i : text[i].len, DOMAIN text) = Sum(text, Len(text))
  BY <1>1 DEF Sum, MapThenSumSet, MapThenFoldSet
<1>3. Sum(text, Len(text)) \in Nat
  BY <1>1, SumOfFirst
<1>4. Chars(text, 1) = MapThenSumSet(LAMBDA i : text[i].len, DOMAIN text) + 1 * (Len(text) - 1)
  BY DEF Chars
<1>5. \A i \in 1..Len(text), sep \in {0, 1} : Start(text, i, sep) = Sum(text, i - 1) + sep * (i - 1)
  BY DEF Start, Sum, MapThenSumSet, MapThenFoldSet
<1> QED
  BY <1>1, <1>2, <1>3, <1>4, <1>5

LEMMA StartsGrow ==
  ASSUME NEW text \in Seq(Sentences), NEW sep \in {0, 1}
  PROVE  /\ \A i \in 1..Len(text) : Start(text, i, sep) \in Nat
         /\ \A i \in 2..Len(text) : Start(text, i - 1, sep) < Start(text, i, sep)
<1>1. ASSUME NEW i \in 1..Len(text) PROVE Start(text, i, sep) \in Nat
  <2>1. Sum(text, i - 1) \in Nat /\ i - 1 \in Nat
    BY SumOfFirst
  <2>2. Start(text, i, sep) = Sum(text, i - 1) + sep * (i - 1)
    BY CharsAreSums
  <2>3. sep = 0 \/ sep = 1
    OBVIOUS
  <2> QED
    BY <2>1, <2>2, <2>3
<1>2. ASSUME NEW i \in 2..Len(text) PROVE Start(text, i - 1, sep) < Start(text, i, sep)
  <2> DEFINE j == i - 1
  <2>1. j \in 1..Len(text) /\ i \in 1..Len(text)
    OBVIOUS
  <2> HIDE DEF j
  <2>2. Sum(text, j) = Sum(text, j - 1) + text[j].len /\ Sum(text, j - 1) \in Nat
    BY <2>1, SumOfFirst
  <2>3. text[j].len \in Nat \ {0}
    <3>1. text[j] \in Sentences
      BY <2>1
    <3> QED
      BY <3>1 DEF Sentences
  <2>4. Start(text, j, sep) = Sum(text, j - 1) + sep * (j - 1)
    BY <2>1, CharsAreSums
  <2>5. Start(text, i, sep) = Sum(text, i - 1) + sep * (i - 1)
    BY <2>1, CharsAreSums
  <2>6. i - 1 = j /\ j \in Nat
    BY DEF j
  <2>7. sep = 0 \/ sep = 1
    OBVIOUS
  <2> DEFINE l == text[j].len
             s == Sum(text, j - 1)
  <2>8. Sum(text, j) = s + l
    BY <2>2
  <2> HIDE DEF l, s
  <2>9. l \in Nat \ {0} /\ s \in Nat
    BY <2>2, <2>3 DEF l, s
  <2>10. Start(text, j, sep) = s + sep * (j - 1) /\ Start(text, i, sep) = s + l + sep * j
    BY <2>4, <2>5, <2>6, <2>8 DEF s
  <2>11. s + sep * (j - 1) < s + l + sep * j
    BY <2>6, <2>7, <2>9
  <2> QED
    BY <2>6, <2>10, <2>11
<1> QED
  BY <1>1, <1>2

\* The sentences a cut keeps are the first ones.
LEMMA TakeKeeps ==
  ASSUME NEW text \in Seq(Sentences), NEW budget \in Nat, NEW sep \in {0, 1}
  PROVE  \E m \in 0..Len(text) :
           /\ {i \in DOMAIN text : Start(text, i, sep) < budget} = 1..m
           /\ Take(text, budget, sep) \in Seq(Sentences)
           /\ Len(Take(text, budget, sep)) = m
           /\ \A i \in 1..m :
                /\ Start(text, i, sep) < budget
                /\ Take(text, budget, sep)[i] =
                     [text[i] EXCEPT !.len = Min({@, budget - Start(text, i, sep)})]
<1> DEFINE kept == {i \in DOMAIN text : Start(text, i, sep) < budget}
           cut(i) == [text[i] EXCEPT !.len = Min({@, budget - Start(text, i, sep)})]
           r == Take(text, budget, sep)
<1>1. kept \in SUBSET (1..Len(text)) /\ Len(text) \in Nat
  OBVIOUS
<1>2. \A i \in kept : i > 1 => i - 1 \in kept
  <2> SUFFICES ASSUME NEW i \in kept, i > 1 PROVE i - 1 \in kept
    OBVIOUS
  <2>1. i \in 1..Len(text) /\ i \in 2..Len(text) /\ i - 1 \in 1..Len(text)
    OBVIOUS
  <2>2. /\ Start(text, i - 1, sep) < Start(text, i, sep) /\ Start(text, i, sep) < budget
        /\ Start(text, i - 1, sep) \in Nat /\ Start(text, i, sep) \in Nat
    BY <2>1, StartsGrow
  <2> QED
    BY <2>1, <2>2
<1>3. PICK m \in 0..Len(text) : kept = 1..m /\ Cardinality(kept) = m
  <2> HIDE DEF kept
  <2> QED
    BY <1>1, <1>2, NoGap
<1>4. r = [i \in 1..m |-> cut(i)]
  BY <1>3 DEF Take
<1>5. \A i \in 1..m : i \in 1..Len(text) /\ Start(text, i, sep) < budget
  BY <1>3
<1>6. ASSUME NEW i \in 1..m PROVE cut(i) \in Sentences
  <2> DEFINE left == budget - Start(text, i, sep)
             l == text[i].len
  <2>1. left \in Nat \ {0}
    BY <1>5, StartsGrow
  <2>2. text[i] \in Sentences /\ l \in 1..MaxLen /\ MaxLen \in Nat
    <3>1. text[i] \in Sentences
      BY <1>5
    <3> QED
      BY <3>1, ConsolidateAssumption DEF Sentences
  <2> HIDE DEF left, l
  <2>3. Min({l, left}) \in 1..MaxLen
    BY <2>1, <2>2, LesserOf
  <2>4. cut(i) = [text[i] EXCEPT !.len = Min({l, left})]
    BY DEF left, l
  <2> HIDE DEF cut
  <2> QED
    BY <2>2, <2>3, <2>4 DEF Sentences
<1> HIDE DEF cut, kept
<1>7. m \in Nat /\ r \in Seq(Sentences) /\ Len(r) = m
  BY <1>3, <1>4, <1>6
<1>8. \A i \in 1..m : r[i] = cut(i)
  BY <1>4
<1> HIDE DEF r
<1> QED
  BY <1>3, <1>5, <1>7, <1>8, Zenon DEF r, cut, kept

\* What a cut leaves fits the budget.
LEMMA TakeFits ==
  ASSUME NEW text \in Seq(Sentences), NEW budget \in Nat
  PROVE  Chars(Take(text, budget, 1), 1) <= budget
<1> DEFINE r == Take(text, budget, 1)
<1>1. PICK m \in 0..Len(text) :
           /\ r \in Seq(Sentences)
           /\ Len(r) = m
           /\ \A i \in 1..m :
                /\ Start(text, i, 1) < budget
                /\ r[i] = [text[i] EXCEPT !.len = Min({@, budget - Start(text, i, 1)})]
  BY TakeKeeps
<1> HIDE DEF r
<1>2. ASSUME NEW i \in 1..m
      PROVE  /\ r[i].len \in Nat /\ text[i].len \in Nat
             /\ r[i].len <= text[i].len
             /\ r[i].len <= budget - (Sum(text, i - 1) + (i - 1))
  <2> DEFINE st == Start(text, i, 1)
             l == text[i].len
  <2>1. i \in 1..Len(text) /\ i \in Nat
    BY <1>1
  <2>2. text[i] \in Sentences /\ st \in Nat /\ st < budget
    <3>1. st \in Nat
      BY <2>1, StartsGrow
    <3>2. st < budget
      BY <1>1
    <3> HIDE DEF st
    <3> QED
      BY <2>1, <3>1, <3>2
  <2>3. l \in Nat
    BY <2>2 DEF Sentences
  <2>4. r[i].len = Min({l, budget - st})
    BY <1>1, <2>2 DEF Sentences
  <2>5. st = Sum(text, i - 1) + 1 * (i - 1)
    BY <2>1, CharsAreSums
  <2>6. Sum(text, i - 1) \in Nat /\ i - 1 \in Nat
    BY <2>1, SumOfFirst
  <2> HIDE DEF st, l
  <2>7. budget - st \in Nat
    BY <2>2
  <2>8. Min({l, budget - st}) = IF l <= budget - st THEN l ELSE budget - st
    BY <2>3, <2>7, LesserOf
  <2>9. budget - st = budget - (Sum(text, i - 1) + (i - 1))
    BY <2>5, <2>6
  <2>10. r[i].len \in Nat /\ l \in Nat /\ r[i].len <= l /\ r[i].len <= budget - st
    BY <2>3, <2>4, <2>7, <2>8
  <2> QED
    BY <2>9, <2>10 DEF l
<1> DEFINE Q == {k \in Nat : k <= m => Sum(r, k) <= Sum(text, k)}
<1>3. 0 \in Q
  <2>1. Sum(r, 0) = 0 /\ Sum(text, 0) = 0
    BY <1>1, SumOfFirst
  <2> QED
    BY <2>1
<1>4. ASSUME NEW k \in Nat, k \in Q PROVE k + 1 \in Q
  <2> SUFFICES ASSUME k + 1 <= m PROVE Sum(r, k + 1) <= Sum(text, k + 1)
    OBVIOUS
  <2> DEFINE n == k + 1
  <2>1. n \in 1..m /\ n \in 1..Len(text) /\ n - 1 = k /\ k \in 0..m /\ k \in 0..Len(text)
    BY <1>1
  <2> HIDE DEF n
  <2>2. Sum(r, n) = Sum(r, k) + r[n].len /\ Sum(r, k) \in Nat
    BY <1>1, <2>1, SumOfFirst
  <2>3. Sum(text, n) = Sum(text, k) + text[n].len /\ Sum(text, k) \in Nat
    BY <2>1, SumOfFirst
  <2>4. Sum(r, k) <= Sum(text, k)
    BY <1>1, <1>4, <2>1
  <2> QED
    BY <1>2, <2>1, <2>2, <2>3, <2>4 DEF n
<1>5. \A k \in Nat : k \in Q
  <2> HIDE DEF Q
  <2> QED
    BY <1>3, <1>4, EveryNumber
<1>6. Chars(r, 1) = Sum(r, m) + m - 1
  BY <1>1, CharsAreSums
<1>7. CASE m = 0
  <2>1. Sum(r, m) = 0
    BY <1>1, <1>7, SumOfFirst
  <2> QED
    BY <1>6, <1>7, <2>1 DEF r
<1>8. CASE m > 0
  <2>1. m \in 1..m /\ m - 1 \in 0..m /\ m - 1 \in Nat /\ m \in 1..Len(text) /\ m - 1 \in 0..Len(text)
    BY <1>1, <1>8
  <2>2. Sum(r, m) = Sum(r, m - 1) + r[m].len /\ Sum(r, m - 1) \in Nat
    BY <1>1, <2>1, SumOfFirst
  <2>3. Sum(text, m - 1) \in Nat
    BY <2>1, SumOfFirst
  <2>4. Sum(r, m - 1) <= Sum(text, m - 1)
    <3>1. m - 1 \in Q
      BY <1>5, <2>1
    <3> QED
      BY <2>1, <3>1
  <2>5. r[m].len \in Nat /\ r[m].len <= budget - (Sum(text, m - 1) + (m - 1))
    BY <1>2, <2>1
  <2>6. Sum(r, m) + m - 1 <= budget
    <3> DEFINE a == Sum(r, m - 1)
               b == Sum(text, m - 1)
               l == r[m].len
    <3>1. a \in Nat /\ b \in Nat /\ l \in Nat /\ a <= b /\ l <= budget - (b + (m - 1)) /\ Sum(r, m) = a + l
      BY <2>2, <2>3, <2>4, <2>5
    <3> HIDE DEF a, b, l
    <3> QED
      BY <2>1, <3>1
  <2> QED
    BY <1>6, <2>6 DEF r
<1> QED
  BY <1>1, <1>7, <1>8

\* A text that fits is not cut.
LEMMA FitsIsKept ==
  ASSUME NEW text \in Seq(Sentences), NEW budget \in Nat, text = <<>> \/ Chars(text, 1) <= budget
  PROVE  Take(text, budget, 1) = text
<1> DEFINE n == Len(text)
           r == Take(text, budget, 1)
           e(i) == Sum(text, i) + i
<1>0. n \in Nat /\ text = [i \in 1..n |-> text[i]]
  OBVIOUS
<1>1. ASSUME NEW i \in 1..n
      PROVE  /\ Sum(text, i - 1) \in Nat /\ Sum(text, i) \in Nat /\ i \in Nat
             /\ text[i].len \in Nat \ {0} /\ Sum(text, i) = Sum(text, i - 1) + text[i].len
             /\ text[i] \in Sentences
  <2>1. text[i] \in Sentences
    OBVIOUS
  <2>2. text[i].len \in Nat \ {0}
    BY <2>1 DEF Sentences
  <2>3. i \in 0..n /\ i - 1 \in 0..n
    BY <1>0
  <2> QED
    BY <2>1, <2>2, <2>3, SumOfFirst
\* The text ends no earlier than any of its sentences.
<1> DEFINE Q == {k \in Nat : k < n => e(n - k) <= e(n)}
<1>2. 0 \in Q
  <2>1. CASE n = 0
    BY <2>1
  <2>2. CASE n > 0
    <3>1. n \in 1..n /\ n - 0 = n
      BY <1>0, <2>2
    <3>2. e(n) \in Nat
      BY <1>1, <3>1
    <3> QED
      BY <3>1, <3>2
  <2> QED
    BY <1>0, <2>1, <2>2
<1>3. ASSUME NEW k \in Nat, k \in Q PROVE k + 1 \in Q
  <2> SUFFICES ASSUME k + 1 < n PROVE e(n - (k + 1)) <= e(n)
    OBVIOUS
  <2> DEFINE i == n - k
  <2>1. i \in 1..n /\ i - 1 \in 1..n /\ n \in 1..n /\ n - (k + 1) = i - 1 /\ e(i) <= e(n)
    BY <1>0, <1>3
  <2> HIDE DEF i
  <2>2. e(i - 1) \in Nat /\ e(i) \in Nat /\ e(n) \in Nat
    <3>1. \A j \in 1..n : e(j) \in Nat
      BY <1>1
    <3> HIDE DEF e
    <3> QED
      BY <2>1, <3>1
  <2>3. e(i - 1) <= e(i)
    <3> DEFINE a == Sum(text, i - 1)
               l == text[i].len
    <3>1. a \in Nat /\ l \in Nat /\ Sum(text, i) = a + l /\ i \in Nat
      BY <1>1, <2>1
    <3> HIDE DEF a, l
    <3>2. a + (i - 1) <= (a + l) + i
      BY <3>1
    <3> QED
      BY <3>1, <3>2 DEF a
  <2> HIDE DEF e
  <2>4. e(i - 1) <= e(n)
    BY <2>1, <2>2, <2>3
  <2> QED
    BY <2>1, <2>4
<1>4. \A k \in Nat : k \in Q
  <2> HIDE DEF Q
  <2> QED
    BY <1>2, <1>3, EveryNumber
<1>5. ASSUME NEW i \in 1..n PROVE Sum(text, i) + i - 1 <= budget
  <2>1. n - i \in Nat /\ n - i < n /\ n - (n - i) = i /\ n \in 1..n
    BY <1>0
  <2>2. e(i) <= e(n)
    <3>1. n - i \in Q
      BY <1>4, <2>1
    <3> QED
      BY <2>1, <3>1
  <2>3. Sum(text, n) + n - 1 <= budget
    <3>1. text # <<>>
      OBVIOUS
    <3> QED
      BY <3>1, CharsAreSums
  <2>4. Sum(text, i) \in Nat /\ Sum(text, n) \in Nat
    BY <1>1, <2>1
  <2> QED
    BY <1>0, <2>2, <2>3, <2>4
<1>6. ASSUME NEW i \in 1..n
      PROVE  /\ Start(text, i, 1) < budget
             /\ Min({text[i].len, budget - Start(text, i, 1)}) = text[i].len
  <2> DEFINE a == Sum(text, i - 1)
             l == text[i].len
             st == Start(text, i, 1)
  <2>1. st = a + 1 * (i - 1)
    BY CharsAreSums
  <2>2. a \in Nat /\ l \in Nat \ {0} /\ a + l + i - 1 <= budget /\ i \in Nat \ {0}
    BY <1>1, <1>5
  <2> HIDE DEF a, l, st
  <2>3. st < budget /\ l <= budget - st /\ budget - st \in Nat
    BY <2>1, <2>2
  <2>4. Min({l, budget - st}) = l
    BY <2>2, <2>3, LesserOf
  <2> QED
    BY <2>3, <2>4 DEF l, st
<1>7. PICK m \in 0..n :
           /\ {i \in DOMAIN text : Start(text, i, 1) < budget} = 1..m
           /\ r \in Seq(Sentences)
           /\ Len(r) = m
           /\ \A i \in 1..m :
                /\ Start(text, i, 1) < budget
                /\ r[i] = [text[i] EXCEPT !.len = Min({@, budget - Start(text, i, 1)})]
  BY TakeKeeps
<1> HIDE DEF r
<1>8. m = n
  <2>1. \A i \in 1..n : i \in 1..m
    <3> TAKE i \in 1..n
    <3>1. i \in DOMAIN text /\ Start(text, i, 1) < budget
      <4>1. DOMAIN text = 1..n
        OBVIOUS
      <4>2. Start(text, i, 1) < budget
        BY <1>6
      <4> QED
        BY <4>1, <4>2
    <3>2. i \in {j \in DOMAIN text : Start(text, j, 1) < budget}
      BY <3>1
    <3> QED
      BY <1>7, <3>2
  <2>2. n > 0 => n \in 1..m
    BY <1>0, <2>1
  <2> QED
    BY <1>0, <1>7, <2>2
<1>9. ASSUME NEW i \in 1..n PROVE r[i] = text[i]
  <2>1. r[i] = [text[i] EXCEPT !.len = Min({text[i].len, budget - Start(text, i, 1)})]
    BY <1>7, <1>8
  <2>2. r[i] = [text[i] EXCEPT !.len = text[i].len]
    BY <1>6, <2>1
  <2> QED
    BY <1>1, <2>2 DEF Sentences
<1>10. r = [i \in 1..n |-> r[i]]
  BY <1>7, <1>8
<1>11. r = text
  BY <1>0, <1>9, <1>10
<1> QED
  BY <1>11 DEF r

-----------------------------------------------------------------------------
(* Going through a text: DeterministicConcatBackend and sanitize_detail. *)

NoText == [out |-> <<>>, full |-> FALSE]

NoLines == [out |-> <<>>, pem |-> FALSE, fence |-> FALSE, kept |-> 0]

\* The two ways to go through a text, and where each begins.
Ways == {"concat", "sanitize"}

Along(w, max, acc, s) == IF w = "concat" THEN ConcatStep(max, acc, s) ELSE SanitizeStep(acc, s)

From(w) == IF w = "concat" THEN NoText ELSE NoLines

\* g computes the fold of a text, over the first k of its n sentences.
GoesTo(g, w, text, max, n, k) ==
  /\ g = [s \in SUBSET (1..n) |-> g[s]]
  /\ \A s \in SUBSET (1..n) :
       s \subseteq 1..k =>
         g[s] = IF s = {} THEN From(w) ELSE Along(w, max, g[s \ {Max(s)}], text[Max(s)])

LEMMA GreatestOf ==
  ASSUME NEW s, NEW m \in s, s \subseteq Nat, \A e \in s : e <= m
  PROVE  Max(s) = m
<1>1. m \in s /\ \A e \in s : m >= e
  OBVIOUS
<1>2. ASSUME NEW x \in s, \A e \in s : x >= e PROVE x = m
  BY <1>2
<1> QED
  BY <1>1, <1>2 DEF Max

LEMMA GoesFurther ==
  ASSUME NEW w, NEW text, NEW max, NEW n \in Nat, NEW k \in Nat, k < n, NEW g, GoesTo(g, w, text, max, n, k)
  PROVE  \E h : GoesTo(h, w, text, max, n, k + 1)
<1> DEFINE step(f, s) == IF s = {} THEN From(w) ELSE Along(w, max, f[s \ {Max(s)}], text[Max(s)])
           h == [s \in SUBSET (1..n) |-> step(g, s)]
<1>1. \A s \in SUBSET (1..n) : s \subseteq 1..k => h[s] = g[s]
  BY Zenon DEF GoesTo
<1>2. ASSUME NEW s \in SUBSET (1..n), s \subseteq 1..(k + 1) PROVE h[s] = step(h, s)
  <2>1. s \ {Max(s)} \in SUBSET (1..n)
    OBVIOUS
  <2>2. s \ {Max(s)} \subseteq 1..k
    <3>1. CASE k + 1 \in s
      <4>1. s \subseteq Nat /\ \A e \in s : e <= k + 1
        BY <1>2
      <4>2. Max(s) = k + 1
        BY <3>1, <4>1, GreatestOf
      <4> QED
        BY <1>2, <4>2
    <3>2. CASE k + 1 \notin s
      <4>1. \A e \in s : e \in 1..k
        BY <1>2, <3>2
      <4> QED
        BY <4>1
    <3> QED
      BY <3>1, <3>2
  <2>3. h[s \ {Max(s)}] = g[s \ {Max(s)}]
    BY <1>1, <2>1, <2>2
  <2>4. h[s] = step(g, s)
    OBVIOUS
  <2> HIDE DEF h
  <2> QED
    BY <2>3, <2>4
<1>3. h = [s \in SUBSET (1..n) |-> h[s]]
  OBVIOUS
<1> HIDE DEF h
<1>4. GoesTo(h, w, text, max, n, k + 1)
  BY <1>2, <1>3, Zenon DEF GoesTo
<1> QED
  BY <1>4

LEMMA GoesThrough ==
  ASSUME NEW w, NEW text, NEW max, NEW n \in Nat
  PROVE  \E g : GoesTo(g, w, text, max, n, n)
<1> DEFINE Q == {k \in Nat : k <= n => \E g : GoesTo(g, w, text, max, n, k)}
<1>1. 0 \in Q
  <2> DEFINE g == [s \in SUBSET (1..n) |-> From(w)]
  <2>1. \A s \in SUBSET (1..n) : s \subseteq 1..0 => s = {}
    OBVIOUS
  <2>2. g = [s \in SUBSET (1..n) |-> g[s]] /\ g[{}] = From(w)
    OBVIOUS
  <2> HIDE DEF g
  <2>3. GoesTo(g, w, text, max, n, 0)
    BY <2>1, <2>2 DEF GoesTo
  <2> QED
    BY <2>3
<1>2. ASSUME NEW k \in Nat, k \in Q PROVE k + 1 \in Q
  BY <1>2, GoesFurther
<1>3. n \in Q
  <2> HIDE DEF Q
  <2> QED
    BY <1>1, <1>2, EveryNumber
<1> QED
  BY <1>3

\* What is kept after each sentence.
LEMMA StepByStep ==
  ASSUME NEW w \in Ways, NEW text \in Seq(Sentences), NEW max
  PROVE  \E acc : /\ acc[0] = From(w)
                  /\ \A i \in 1..Len(text) : acc[i] = Along(w, max, acc[i - 1], text[i])
                  /\ w = "concat" => Concat(text, max) = acc[Len(text)].out
                  /\ w = "sanitize" => Sanitize(text) = acc[Len(text)].out
<1> DEFINE n == Len(text)
           good(h) == h = [s \in SUBSET (1..n) |->
                             IF s = {} THEN From(w)
                             ELSE Along(w, max, h[s \ {Max(s)}], text[Max(s)])]
           g == CHOOSE h : good(h)
           acc == [i \in 0..n |-> g[1..i]]
<1>1. n \in Nat /\ DOMAIN text = 1..n
  OBVIOUS
<1>2. good(g)
  <2>1. PICK h : GoesTo(h, w, text, max, n, n)
    BY <1>1, GoesThrough
  <2>2. good(h)
    BY <2>1 DEF GoesTo
  <2> HIDE DEF good
  <2> QED
    BY <2>2
<1>3. /\ w = "concat" => Concat(text, max) = g[1..n].out
      /\ w = "sanitize" => Sanitize(text) = g[1..n].out
  <2>1. CASE w = "concat"
    BY <1>1, <2>1 DEF Concat, FoldLeft, MapThenFoldSet, NoText, From, Along
  <2>2. CASE w = "sanitize"
    BY <1>1, <2>2 DEF Sanitize, FoldLeft, MapThenFoldSet, NoLines, From, Along
  <2> QED
    BY <2>1, <2>2 DEF Ways
<1> HIDE DEF g
<1>4. \A s \in SUBSET (1..n) :
        g[s] = IF s = {} THEN From(w) ELSE Along(w, max, g[s \ {Max(s)}], text[Max(s)])
  BY <1>2, Zenon
<1>5. acc[0] = From(w)
  <2>1. 1..0 = {} /\ {} \in SUBSET (1..n)
    OBVIOUS
  <2>2. g[{}] = From(w)
    BY <1>4, <2>1, Zenon
  <2> QED
    BY <1>1, <2>1, <2>2
<1>6. ASSUME NEW i \in 1..n PROVE acc[i] = Along(w, max, acc[i - 1], text[i])
  <2>1. i \in 1..i /\ 1..i \subseteq Nat /\ \A e \in 1..i : e <= i
    OBVIOUS
  <2>2. Max(1..i) = i
    BY <2>1, GreatestOf
  <2>3. 1..i \in SUBSET (1..n) /\ 1..i # {}
    <3>1. \A e \in 1..i : e \in 1..n
      BY <1>1
    <3> QED
      BY <2>1, <3>1
  <2>4. (1..i) \ {i} = 1..(i - 1) /\ i - 1 \in 0..n /\ i \in 0..n
    BY <1>1
  <2>5. g[1..i] = Along(w, max, g[(1..i) \ {Max(1..i)}], text[Max(1..i)])
    BY <1>4, <2>3, Zenon
  <2> QED
    BY <2>2, <2>4, <2>5
<1>7. acc[n] = g[1..n]
  BY <1>1
<1> HIDE DEF acc
<1> QED
  BY <1>3, <1>5, <1>6, <1>7

\* Nothing twice, and never more than the budget.
Concise(out, max) ==
  /\ out \in Seq(Sentences)
  /\ IsInjective([j \in DOMAIN out |-> Norm[out[j]]])
  /\ out = <<>> \/ Chars(out, 1) <= max

\* What the backend holds between two sentences.
Holds(a, max) == a \in [out : Seq(Sentences), full : BOOLEAN] /\ Concise(a.out, max)

LEMMA ConcatFits ==
  ASSUME NEW text \in Seq(Sentences), NEW max \in Nat
  PROVE  Concise(Concat(text, max), max)
<1>1. PICK acc : /\ acc[0] = NoText
                 /\ \A i \in 1..Len(text) : acc[i] = ConcatStep(max, acc[i - 1], text[i])
                 /\ Concat(text, max) = acc[Len(text)].out
  BY StepByStep DEF Ways, From, Along
<1> DEFINE Q == {i \in Nat : i <= Len(text) => Holds(acc[i], max)}
<1>2. 0 \in Q
  <2>1. <<>> \in Seq(Sentences) /\ IsInjective([j \in DOMAIN <<>> |-> Norm[<<>>[j]]])
    BY DEF IsInjective
  <2>2. NoText \in [out : Seq(Sentences), full : BOOLEAN] /\ NoText.out = <<>>
    BY DEF NoText
  <2>3. Holds(NoText, max)
    BY <2>1, <2>2 DEF Concise, Holds
  <2> QED
    BY <1>1, <2>3
<1>3. ASSUME NEW i \in Nat, i \in Q PROVE i + 1 \in Q
  <2> SUFFICES ASSUME i + 1 <= Len(text) PROVE Holds(acc[i + 1], max)
    OBVIOUS
  <2> DEFINE s == text[i + 1]
  <2>1. /\ acc[i + 1] = ConcatStep(max, acc[i], s) /\ s \in Sentences
        /\ Holds(acc[i], max)
    <3>1. i + 1 \in 1..Len(text) /\ (i + 1) - 1 = i /\ i <= Len(text)
      OBVIOUS
    <3> QED
      BY <1>1, <1>3, <3>1
  <2> DEFINE a == acc[i]
             b == acc[i + 1]
             out == a.out
             longer == Append(out, s)
  <2>2. a \in [out : Seq(Sentences), full : BOOLEAN] /\ out \in Seq(Sentences) /\ Concise(out, max)
    BY <2>1 DEF Holds
  <2> DEFINE said == Norm[s] \in {0} \cup {Norm[t] : t \in ToSet(out)}
  <2>3. b = IF a.full \/ said THEN a
            ELSE IF Fits(longer, max) THEN [a EXCEPT !.out = longer]
            ELSE [a EXCEPT !.full = TRUE]
    BY <2>1 DEF ConcatStep
  <2> HIDE DEF s, a, b
  <2>4. longer \in Seq(Sentences)
    BY <2>1, <2>2
  <2> HIDE DEF longer
  <2>5. CASE ~said /\ Fits(longer, max)
    <3>1. longer \in Seq(Sentences) /\ Len(longer) = Len(out) + 1 /\ longer[Len(out) + 1] = s
          /\ \A j \in 1..Len(out) : longer[j] = out[j]
      BY <2>1, <2>2 DEF longer
    <3>2. \A j \in 1..Len(out) : Norm[out[j]] # Norm[s]
      BY <2>2, <2>5 DEF ToSet, Concise
    <3>3. \A j, k \in 1..Len(out) : Norm[out[j]] = Norm[out[k]] => j = k
      BY <2>2 DEF Concise, IsInjective
    <3>4. IsInjective([j \in DOMAIN longer |-> Norm[longer[j]]])
      <4>1. Len(out) \in Nat /\ DOMAIN longer = 1..(Len(out) + 1)
        BY <2>2, <3>1 DEF Concise
      <4>2. \A j \in DOMAIN longer : j \in 1..Len(out) \/ j = Len(out) + 1
        BY <4>1
      <4> QED
        BY <3>1, <3>2, <3>3, <4>2 DEF IsInjective
    <3>5. Concise(longer, max)
      BY <2>5, <3>1, <3>4 DEF Concise, Fits
    <3>6. [a EXCEPT !.out = longer] \in [out : Seq(Sentences), full : BOOLEAN]
          /\ [a EXCEPT !.out = longer].out = longer
      BY <2>2, <2>4
    <3>7. Holds(b, max)
      BY <2>2, <2>3, <2>5, <3>5, <3>6 DEF Holds
    <3> QED
      BY <3>7 DEF b
  <2>6. CASE ~(~said /\ Fits(longer, max))
    <3>1. [a EXCEPT !.full = TRUE] \in [out : Seq(Sentences), full : BOOLEAN]
          /\ [a EXCEPT !.full = TRUE].out = out
      BY <2>2
    <3>2. Holds(b, max)
      BY <2>2, <2>3, <2>6, <3>1 DEF Holds
    <3> QED
      BY <3>2 DEF b
  <2> QED
    BY <2>5, <2>6
<1>4. Len(text) \in Q
  <2>1. Len(text) \in Nat
    OBVIOUS
  <2> HIDE DEF Q
  <2> QED
    BY <1>2, <1>3, <2>1, EveryNumber
<1>5. Holds(acc[Len(text)], max)
  <2>1. Len(text) <= Len(text)
    OBVIOUS
  <2> QED
    BY <1>4, <2>1
<1> QED
  BY <1>1, <1>5 DEF Holds

-----------------------------------------------------------------------------
(* sanitize_detail. *)

\* What the sanitizer holds between two lines.
Lines == [out : Seq(Sentences), pem : BOOLEAN, fence : BOOLEAN, kept : Nat]

LEMMA RedactKeeps == \A s \in Sentences : Redact(s) \in Sentences
<1> TAKE s \in Sentences
<1>1. Redacted[s] \in 1..MaxLen
  BY ConsolidateAssumption
<1> QED
  BY <1>1 DEF Redact, Sentences

LEMMA SanitizeKeeps ==
  ASSUME NEW a \in Lines, NEW s \in Sentences
  PROVE  SanitizeStep(a, s) \in Lines
<1> DEFINE r == Redact(s)
<1>1. r \in Sentences /\ KeyBlock \in Sentences /\ FenceTruncated \in Sentences
  BY RedactKeeps, ConsolidateAssumption
<1>2. /\ Append(a.out, r) \in Seq(Sentences)
      /\ Append(a.out, KeyBlock) \in Seq(Sentences)
      /\ Append(a.out, FenceTruncated) \in Seq(Sentences)
  <2>1. a.out \in Seq(Sentences)
    BY DEF Lines
  <2> HIDE DEF r
  <2> QED
    BY <1>1, <2>1
<1>3. MaxFenceLines \in Nat /\ a.kept \in Nat
  BY ConsolidateAssumption DEF Lines
<1> HIDE DEF r
<1>4. SanitizeStep(a, s) \in
        { [a EXCEPT !.pem = Kind[s] # "end"],
          [a EXCEPT !.pem = TRUE, !.out = Append(a.out, KeyBlock)],
          [a EXCEPT !.fence = ~a.fence, !.kept = 0, !.out = Append(a.out, r)],
          [a EXCEPT !.kept = MaxFenceLines + 1, !.out = Append(a.out, FenceTruncated)],
          [a EXCEPT !.kept = MaxFenceLines + 1, !.out = a.out],
          [a EXCEPT !.kept = a.kept + 1, !.out = Append(a.out, r)],
          [a EXCEPT !.kept = a.kept, !.out = Append(a.out, r)] }
  BY DEF SanitizeStep, r
<1>5. /\ [a EXCEPT !.pem = Kind[s] # "end"] \in Lines
      /\ [a EXCEPT !.pem = TRUE, !.out = Append(a.out, KeyBlock)] \in Lines
      /\ [a EXCEPT !.fence = ~a.fence, !.kept = 0, !.out = Append(a.out, r)] \in Lines
  BY <1>2 DEF Lines
<1>6. /\ [a EXCEPT !.kept = MaxFenceLines + 1, !.out = Append(a.out, FenceTruncated)] \in Lines
      /\ [a EXCEPT !.kept = MaxFenceLines + 1, !.out = a.out] \in Lines
      /\ [a EXCEPT !.kept = a.kept + 1, !.out = Append(a.out, r)] \in Lines
      /\ [a EXCEPT !.kept = a.kept, !.out = Append(a.out, r)] \in Lines
  <2> DEFINE m == MaxFenceLines + 1
             k == a.kept + 1
             l == a.kept
  <2>1. m \in Nat /\ k \in Nat /\ l \in Nat
    BY <1>3
  <2> HIDE DEF m, k, l
  <2>2. [a EXCEPT !.kept = m, !.out = Append(a.out, FenceTruncated)] \in Lines
    BY <1>2, <2>1 DEF Lines
  <2>3. [a EXCEPT !.kept = m, !.out = a.out] \in Lines
    BY <1>2, <2>1 DEF Lines
  <2>4. [a EXCEPT !.kept = k, !.out = Append(a.out, r)] \in Lines
    BY <1>2, <2>1 DEF Lines
  <2>5. [a EXCEPT !.kept = l, !.out = Append(a.out, r)] \in Lines
    BY <1>2, <2>1 DEF Lines
  <2> QED
    BY <2>2, <2>3, <2>4, <2>5 DEF m, k, l
<1> QED
  BY <1>4, <1>5, <1>6

LEMMA SanitizedIsText ==
  ASSUME NEW text \in Seq(Sentences)
  PROVE  Sanitize(text) \in Seq(Sentences)
<1>1. PICK acc : /\ acc[0] = NoLines
                 /\ \A i \in 1..Len(text) : acc[i] = SanitizeStep(acc[i - 1], text[i])
                 /\ Sanitize(text) = acc[Len(text)].out
  BY StepByStep DEF Ways, From, Along
<1> DEFINE Q == {i \in Nat : i <= Len(text) => acc[i] \in Lines}
<1>2. 0 \in Q
  <2>1. NoLines \in Lines
    BY DEF NoLines, Lines
  <2> QED
    BY <1>1, <2>1
<1>3. ASSUME NEW i \in Nat, i \in Q PROVE i + 1 \in Q
  <2> SUFFICES ASSUME i + 1 <= Len(text) PROVE acc[i + 1] \in Lines
    OBVIOUS
  <2>1. i + 1 \in 1..Len(text) /\ (i + 1) - 1 = i /\ i <= Len(text) /\ text[i + 1] \in Sentences
    OBVIOUS
  <2>2. acc[i + 1] = SanitizeStep(acc[i], text[i + 1]) /\ acc[i] \in Lines
    BY <1>1, <1>3, <2>1
  <2> QED
    BY <2>1, <2>2, SanitizeKeeps
<1>4. Len(text) \in Q
  <2>1. Len(text) \in Nat
    OBVIOUS
  <2> HIDE DEF Q
  <2> QED
    BY <1>2, <1>3, <2>1, EveryNumber
<1> QED
  BY <1>1, <1>4 DEF Lines

\* Lines that open no block and hold nothing to redact are left as they are.
LEMMA PlainIsKept ==
  ASSUME NEW text \in Seq(Sentences),
         \A i \in DOMAIN text : Kind[text[i]] = "plain" /\ Redact(text[i]) = text[i]
  PROVE  Sanitize(text) = text
<1>1. PICK acc : /\ acc[0] = NoLines
                 /\ \A i \in 1..Len(text) : acc[i] = SanitizeStep(acc[i - 1], text[i])
                 /\ Sanitize(text) = acc[Len(text)].out
  BY StepByStep DEF Ways, From, Along
<1> DEFINE plain(i) == [out |-> SubSeq(text, 1, i), pem |-> FALSE, fence |-> FALSE, kept |-> 0]
           Q == {i \in Nat : i <= Len(text) => acc[i] = plain(i)}
<1>2. 0 \in Q
  <2>1. SubSeq(text, 1, 0) = <<>>
    OBVIOUS
  <2> QED
    BY <1>1, <2>1 DEF NoLines
<1>3. ASSUME NEW i \in Nat, i \in Q PROVE i + 1 \in Q
  <2> SUFFICES ASSUME i + 1 <= Len(text) PROVE acc[i + 1] = plain(i + 1)
    OBVIOUS
  <2> DEFINE s == text[i + 1]
             first == SubSeq(text, 1, i)
             a == acc[i]
  <2>1. /\ i + 1 \in 1..Len(text) /\ (i + 1) - 1 = i /\ i <= Len(text)
        /\ i + 1 \in DOMAIN text
    OBVIOUS
  <2>2. acc[i + 1] = SanitizeStep(a, s) /\ a = plain(i)
    BY <1>1, <1>3, <2>1
  <2>3. Kind[s] = "plain" /\ Redact(s) = s
    BY <2>1
  <2>4. SubSeq(text, 1, i + 1) = Append(first, s)
    BY <2>1
  <2> HIDE DEF s, first
  <2>5. plain(i) = [out |-> first, pem |-> FALSE, fence |-> FALSE, kept |-> 0]
    BY DEF first
  <2> HIDE DEF a, plain
  <2>6. a.pem = FALSE /\ a.fence = FALSE /\ a.kept = 0 /\ a.out = first
    BY <2>2, <2>5
  <2>7. SanitizeStep(a, s) = [a EXCEPT !.kept = a.kept, !.out = Append(a.out, Redact(s))]
    BY <2>3, <2>6 DEF SanitizeStep
  <2>8. acc[i + 1] = [out |-> Append(first, s), pem |-> FALSE, fence |-> FALSE, kept |-> 0]
    BY <2>2, <2>3, <2>5, <2>6, <2>7
  <2> QED
    BY <2>4, <2>8 DEF plain
<1>4. Len(text) \in Q /\ Len(text) \in Nat
  <2>1. Len(text) \in Nat
    OBVIOUS
  <2> HIDE DEF Q
  <2> QED
    BY <1>2, <1>3, <2>1, EveryNumber
<1>5. SubSeq(text, 1, Len(text)) = text
  OBVIOUS
<1> QED
  BY <1>1, <1>4, <1>5

-----------------------------------------------------------------------------
(* The text of a group. *)

\* A finite set of numbers can be enumerated in order.
LEMMA OrderExists ==
  ASSUME NEW g \in SUBSET Nat, IsFiniteSet(g)
  PROVE  \E s \in [1..Cardinality(g) -> g] :
           \A i, j \in 1..Cardinality(g) : i < j => s[i] < s[j]
<1> DEFINE ordered(h) == \E s \in [1..Cardinality(h) -> h] :
                           \A i, j \in 1..Cardinality(h) : i < j => s[i] < s[j]
           Q == {h \in SUBSET g : ordered(h)}
<1>1. {} \in Q
  <2>1. Cardinality({}) = 0 /\ 1..0 = {}
    BY FS_EmptySet
  <2> DEFINE s == [i \in {} |-> i]
  <2>2. s \in [{} -> {}]
    OBVIOUS
  <2> QED
    BY <2>1, <2>2
<1>2. ASSUME NEW h \in SUBSET g, h # {}, \A x \in h : h \ {x} \in Q PROVE h \in Q
  <2> DEFINE m == Min(h)
             rest == h \ {m}
             n == Cardinality(rest)
  <2>1. m \in h /\ \A t \in h : m <= t
    BY <1>2, LeastOf
  <2>2. /\ n \in Nat /\ Cardinality(h) = n + 1
    <3>1. IsFiniteSet(h)
      BY FS_Subset
    <3>2. IsFiniteSet(rest) /\ n = Cardinality(h) - 1 /\ Cardinality(h) \in Nat
      BY <2>1, <3>1, FS_RemoveElement, FS_CardinalityType
    <3>3. n \in Nat
      BY <3>2, FS_CardinalityType
    <3> QED
      BY <3>2, <3>3
  <2>3. rest \in Q
    BY <1>2, <2>1
  <2> HIDE DEF m
  <2>4. PICK r \in [1..n -> rest] : \A i, j \in 1..n : i < j => r[i] < r[j]
    BY <2>3
  <2>5. rest \subseteq Nat /\ rest \subseteq h /\ m \in Nat /\ \A t \in rest : m < t
    BY <2>1
  <2> HIDE DEF n, rest
  <2> DEFINE s == [i \in 1..(n + 1) |-> IF i = 1 THEN m ELSE r[i - 1]]
  <2>6. \A i \in 1..(n + 1) : i # 1 => i - 1 \in 1..n /\ r[i - 1] \in rest
    BY <2>2, <2>4
  <2>7. s \in [1..(n + 1) -> h]
    BY <2>1, <2>5, <2>6
  <2>8. ASSUME NEW i \in 1..(n + 1), NEW j \in 1..(n + 1), i < j PROVE s[i] < s[j]
    <3>1. j # 1 /\ s[j] = r[j - 1] /\ j - 1 \in 1..n /\ r[j - 1] \in rest
      BY <2>2, <2>6, <2>8
    <3>2. CASE i = 1
      BY <2>5, <3>1, <3>2
    <3>3. CASE i # 1
      <4>1. s[i] = r[i - 1] /\ i - 1 \in 1..n /\ i - 1 < j - 1
        BY <2>2, <2>6, <2>8, <3>3
      <4> HIDE DEF s
      <4> QED
        BY <2>4, <3>1, <4>1
    <3> QED
      BY <3>2, <3>3
  <2> HIDE DEF s
  <2>9. ordered(h)
    BY <2>2, <2>7, <2>8
  <2> QED
    BY <2>9
<1>3. g \in Q
  <2> HIDE DEF Q
  <2> QED
    BY <1>1, <1>2, EverySubset
<1> QED
  BY <1>3

\* f concatenates the first k texts.
JoinsTo(f, seqs, n, k) ==
  /\ f = [i \in 1..n |-> f[i]]
  /\ \A i \in 1..n : i <= k => f[i] = IF i = 1 THEN seqs[i] ELSE f[i - 1] \o seqs[i]

LEMMA JoinExists ==
  ASSUME NEW seqs, NEW n \in Nat
  PROVE  \E f : f = [i \in 1..n |-> IF i = 1 THEN seqs[i] ELSE f[i - 1] \o seqs[i]]
<1> DEFINE Q == {k \in Nat : \E f : JoinsTo(f, seqs, n, k)}
<1>1. 0 \in Q
  <2> DEFINE f == [i \in 1..n |-> i]
  <2>0. f = [i \in 1..n |-> f[i]] /\ \A i \in 1..n : ~ (i <= 0)
    OBVIOUS
  <2> HIDE DEF f
  <2>1. JoinsTo(f, seqs, n, 0)
    BY <2>0 DEF JoinsTo
  <2> QED
    BY <2>1
<1>2. ASSUME NEW k \in Nat, k \in Q PROVE k + 1 \in Q
  <2>1. PICK f : JoinsTo(f, seqs, n, k)
    BY <1>2
  <2> DEFINE h == [i \in 1..n |-> IF i = 1 THEN seqs[i] ELSE f[i - 1] \o seqs[i]]
  <2>2. \A i \in 1..n : i <= k => h[i] = f[i]
    BY <2>1 DEF JoinsTo
  <2>3. h = [i \in 1..n |-> h[i]]
    OBVIOUS
  <2>4. \A i \in 1..n : i # 1 => i - 1 \in 1..n /\ (i <= k + 1 => i - 1 <= k)
    OBVIOUS
  <2>5. \A i \in 1..n : h[i] = IF i = 1 THEN seqs[i] ELSE f[i - 1] \o seqs[i]
    OBVIOUS
  <2> HIDE DEF h
  <2>6. \A i \in 1..n : i <= k + 1 => h[i] = IF i = 1 THEN seqs[i] ELSE h[i - 1] \o seqs[i]
    BY <2>2, <2>4, <2>5
  <2>7. JoinsTo(h, seqs, n, k + 1)
    BY <2>3, <2>6 DEF JoinsTo
  <2> QED
    BY <2>7
<1>3. n \in Q
  <2> HIDE DEF Q
  <2> QED
    BY <1>1, <1>2, EveryNumber
<1>4. PICK f : JoinsTo(f, seqs, n, n)
  BY <1>3
<1>5. \A i \in 1..n : i <= n
  OBVIOUS
<1>6. f = [i \in 1..n |-> IF i = 1 THEN seqs[i] ELSE f[i - 1] \o seqs[i]]
  BY <1>4, <1>5 DEF JoinsTo
<1> QED
  BY <1>6

LEMMA FlatIsText ==
  ASSUME NEW n \in Nat, NEW seqs \in [1..n -> Seq(Sentences)]
  PROVE  FlattenSeq(seqs) \in Seq(Sentences)
<1> DEFINE joins(h) == h = [i \in 1..n |-> IF i = 1 THEN seqs[i] ELSE h[i - 1] \o seqs[i]]
           f == CHOOSE h : joins(h)
<1>1. Len(seqs) = n
  OBVIOUS
<1>2. CASE n = 0
  <2>1. FlattenSeq(seqs) = seqs
    BY <1>1, <1>2 DEF FlattenSeq
  <2>2. 1..n = {}
    BY <1>2
  <2>3. seqs \in [1..0 -> Sentences]
    BY <1>2, <2>2
  <2> QED
    BY <2>1, <2>3
<1>3. CASE n # 0
  <2>1. joins(f)
    BY JoinExists
  <2>2. FlattenSeq(seqs) = f[n]
    BY <1>1, <1>3 DEF FlattenSeq
  <2> HIDE DEF f
  <2>3. \A i \in 1..n : f[i] = IF i = 1 THEN seqs[i] ELSE f[i - 1] \o seqs[i]
    BY <2>1, Zenon
  <2> DEFINE Q == {k \in Nat : k + 1 <= n => f[k + 1] \in Seq(Sentences)}
  <2>4. 0 \in Q
    BY <1>3, <2>3
  <2>5. ASSUME NEW k \in Nat, k \in Q PROVE k + 1 \in Q
    <3> SUFFICES ASSUME (k + 1) + 1 <= n PROVE f[(k + 1) + 1] \in Seq(Sentences)
      OBVIOUS
    <3> DEFINE i == (k + 1) + 1
    <3>1. i \in 1..n /\ i # 1 /\ i - 1 = k + 1 /\ k + 1 <= n
      OBVIOUS
    <3> HIDE DEF i
    <3>2. f[i] = f[k + 1] \o seqs[i] /\ f[k + 1] \in Seq(Sentences) /\ seqs[i] \in Seq(Sentences)
      BY <2>3, <2>5, <3>1
    <3>3. f[k + 1] \o seqs[i] \in Seq(Sentences)
      BY <3>2
    <3> QED
      BY <3>2, <3>3 DEF i
  <2>6. n - 1 \in Q
    <3>1. n - 1 \in Nat
      BY <1>3
    <3> HIDE DEF Q
    <3> QED
      BY <2>4, <2>5, <3>1, EveryNumber
  <2>7. (n - 1) + 1 = n
    OBVIOUS
  <2> QED
    BY <2>2, <2>6, <2>7
<1> QED
  BY <1>2, <1>3

LEMMA MemberTextIsText ==
  ASSUME NEW g \in SUBSET Docs
  PROVE  MemberText(g) \in Seq(Sentences)
<1> DEFINE n == Cardinality(g)
           o == Ordered(g)
           seqs == [i \in 1..n |-> Text[o[i]]]
<1>1. IsFiniteSet(g) /\ g \in SUBSET Nat
  BY ConsolidateAssumption, FS_Subset
<1>2. n \in Nat
  BY <1>1, FS_CardinalityType
<1>3. o \in [1..n -> g]
  BY <1>1, OrderExists DEF Ordered
<1> HIDE DEF o
<1>4. seqs \in [1..n -> Seq(Sentences)]
  <2>1. \A i \in 1..n : o[i] \in Docs
    BY <1>3
  <2>2. \A d \in Docs : Text[d] \in Seq(Sentences)
    BY ConsolidateAssumption
  <2> QED
    BY <2>1, <2>2
<1>5. MemberText(g) = Take(FlattenSeq(seqs), MaxMemberChars, 0)
  BY DEF MemberText, o
<1> HIDE DEF n, seqs
<1>6. FlattenSeq(seqs) \in Seq(Sentences)
  BY <1>2, <1>4, FlatIsText
<1>7. MaxMemberChars \in Nat
  BY ConsolidateAssumption
<1> QED
  BY <1>5, <1>6, <1>7, TakeKeeps

-----------------------------------------------------------------------------
(* The texts that are under way. *)

TextsInv ==
  /\ DOMAIN distilled = Clients
  /\ \A c \in Clients : input[c].text \in Seq(Sentences) /\ distilled[c] \in Seq(Sentences)

LEMMA TextsDone ==
  ASSUME KnownInv, TextsInv, NEW c \in Clients, NEW left, Done(c, left)
  PROVE  TextsInv'
<1>1. <<>> \in Seq(Sentences) /\ NoInput.text = <<>>
  BY DEF NoInput
<1>2. \A b \in Clients : /\ input'[b] = input[b] \/ input'[b] = NoInput
                         /\ distilled'[b] = distilled[b] \/ distilled'[b] = <<>>
  BY DEF Done, KnownInv, TextsInv
<1>3. DOMAIN distilled' = Clients
  BY DEF Done, TextsInv
<1> QED
  BY <1>1, <1>2, <1>3 DEF TextsInv

LEMMA TextsStep ==
  ASSUME KnownInv, TextsInv, [Next]_vars
  PROVE  TextsInv'
<1>1. ASSUME NEW c \in Clients,
             ListManifest(c) \/ SelectCandidates(c) \/ \E lost \in BOOLEAN : Check(c, lost)
      PROVE  TextsInv'
  BY <1>1 DEF ListManifest, SelectCandidates, Check, TextsInv
<1>2. ASSUME NEW c \in Clients, NEW cand \in candidates[c], NEW lost \in BOOLEAN,
             Prepare(c, cand, lost)
      PROVE  TextsInv'
  <2>1. /\ input' = [input EXCEPT ![c] = [key |-> cand.key, members |-> cand.members,
                     text |-> MemberText(cand.members), next |-> NextVersion(cand.key, lost)]]
        /\ UNCHANGED distilled
    BY <1>2 DEF Prepare
  <2>2. MemberText(cand.members) \in Seq(Sentences)
    BY MemberTextIsText DEF KnownInv
  <2>3. \A b \in Clients : input'[b].text = IF b = c THEN MemberText(cand.members) ELSE input[b].text
    BY <2>1 DEF KnownInv
  <2> QED
    BY <2>1, <2>2, <2>3 DEF TextsInv
<1>3. ASSUME NEW c \in Clients, NEW cand \in candidates[c], PrepareFails(c, cand) PROVE TextsInv'
  BY <1>3, TextsDone DEF PrepareFails
<1>4. ASSUME NEW c \in Clients, Distill(c) PROVE TextsInv'
  <2>1. PICK text \in Answers(c) : distilled' = [distilled EXCEPT ![c] = text]
    BY <1>4 DEF Distill
  <2>2. text \in Seq(Sentences)
    <3>1. Concat(input[c].text, DigestMaxChars) \in Seq(Sentences)
      BY ConsolidateAssumption, ConcatFits DEF TextsInv, Concise
    <3> QED
      BY <3>1, ConsolidateAssumption DEF Answers
  <2>3. UNCHANGED input
    BY <1>4 DEF Distill
  <2> QED
    BY <2>1, <2>2, <2>3 DEF TextsInv
<1>5. ASSUME NEW c \in Clients, BackendFails(c) \/ Refuse(c) \/ Write(c) \/ WriteFails(c)
      PROVE  TextsInv'
  BY <1>5, TextsDone DEF BackendFails, Refuse, Write, WriteFails, GiveUp
<1>6. ASSUME (\E d \in Docs : Remember(d) \/ Forget(d)) \/ (\E k \in Keys : DeleteDigest(k))
      PROVE  TextsInv'
  BY <1>6 DEF Remember, Forget, DeleteDigest, TextsInv
<1>7. CASE UNCHANGED vars
  BY <1>7 DEF TextsInv
<1> QED
  BY <1>1, <1>2, <1>3, <1>4, <1>5, <1>6, <1>7 DEF Next, Step

\* Whatever the texts and the model's answers, a digest keeps to its budget;
\* what the concatenating backend makes of a candidate says nothing twice and
\* keeps to it as well, and where none of it opens a code or key block and
\* nothing of it is redacted, commit neither cuts nor changes it.
THEOREM DigestsFit == Spec => []DigestFits
<1>1. Init => TextsInv
  <2>1. <<>> \in Seq(Sentences) /\ NoInput.text = <<>>
    BY DEF NoInput
  <2> QED
    BY <2>1 DEF Init, TextsInv
<1>2. KnownInv /\ TextsInv /\ [Next]_vars => TextsInv'
  BY TextsStep
<1>3. TextsInv => DigestFits
  <2> SUFFICES ASSUME TextsInv, NEW c \in Clients
               PROVE  /\ Chars(DigestText(c), 1) <= DigestMaxChars
                      /\ LET text == Concat(input[c].text, DigestMaxChars)
                             said == [i \in DOMAIN text |-> Norm[text[i]]]
                         IN  /\ IsInjective(said) /\ (text # <<>> => Fits(text, DigestMaxChars))
                             /\ (\A i \in DOMAIN text :
                                   Kind[text[i]] = "plain" /\ Redact(text[i]) = text[i])
                                  => Committed(text) = text
    BY DEF DigestFits
  <2>1. DigestMaxChars \in Nat /\ input[c].text \in Seq(Sentences) /\ distilled[c] \in Seq(Sentences)
    BY ConsolidateAssumption DEF TextsInv
  <2>2. Chars(DigestText(c), 1) <= DigestMaxChars
    <3> DEFINE clean == Sanitize(distilled[c])
    <3>1. clean \in Seq(Sentences)
      BY <2>1, SanitizedIsText
    <3>2. DigestText(c) = Take(clean, DigestMaxChars, 1)
      BY DEF DigestText, Committed
    <3> HIDE DEF clean
    <3> QED
      BY <2>1, <3>1, <3>2, TakeFits
  <2> DEFINE text == Concat(input[c].text, DigestMaxChars)
  <2>3. Concise(text, DigestMaxChars)
    BY <2>1, ConcatFits
  <2> HIDE DEF text
  <2>4. IsInjective([i \in DOMAIN text |-> Norm[text[i]]]) /\ (text # <<>> => Fits(text, DigestMaxChars))
    BY <2>3 DEF Concise, Fits
  <2>5. ASSUME \A i \in DOMAIN text : Kind[text[i]] = "plain" /\ Redact(text[i]) = text[i]
        PROVE  Committed(text) = text
    <3>1. text \in Seq(Sentences) /\ (text = <<>> \/ Chars(text, 1) <= DigestMaxChars)
      BY <2>3 DEF Concise
    <3>2. Sanitize(text) = text
      BY <2>5, <3>1, PlainIsKept
    <3>3. Take(text, DigestMaxChars, 1) = text
      BY <2>1, <3>1, FitsIsKept
    <3> QED
      BY <3>2, <3>3 DEF Committed
  <2> QED
    BY <2>2, <2>4, <2>5 DEF text
<1> QED
  BY <1>1, <1>2, <1>3, KnownInvariance, PTL DEF Spec
=============================================================================
