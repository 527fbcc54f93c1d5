----------------------------- MODULE Consolidate ------------------------------
(***************************************************************************)
(* Consolidation: groups of related memories distilled into digests.  A    *)
(* client selects candidates, prepares one, has it distilled and commits   *)
(* it; other clients remember and forget meanwhile, and no lock is held    *)
(* from one call to the next, nor between the guard of a commit and its    *)
(* write.  A document that cannot be read is taken for one that is not     *)
(* there, wherever the code reads one to see whether it exists.            *)
(*                                                                         *)
(* A memory is a number, its rank by creation time and id; its text never  *)
(* changes (a rewritten memory is another one).  A text is the number of   *)
(* times it uses each term, and a sequence of sentences; between the       *)
(* sentences of a digest are line ends, and blank lines are left out.  A   *)
(* digest id is its key: the hash of the key is taken to be injective.     *)
(***************************************************************************)
EXTENDS Integers, FiniteSets, SequencesExt, FiniteSetsExt

CONSTANTS
  Clients,        \* the callers of the library
  Docs,           \* the memories there can be
  Terms,          \* the terms of their texts, in alphabetical order
  Uses,           \* [Docs -> [Terms -> Nat]], how often a text uses a term
  Session,        \* the session a memory is attributed to (session_of)
  Text,           \* [Docs -> Seq(Sentences)], the redacted text
  ModelTexts,     \* what a model may answer when asked to distill
  Ids, MaxLen,    \* the sentences there can be, and their length
  Norm,           \* [Sentences -> Nat], the letters and digits of it, 0 if none
  Kind,           \* [Sentences -> Kinds], what a line of it is to the sanitizer
  Redacted,       \* [Sentences -> 1..MaxLen], how long redact_line leaves it
  KeyBlock,       \* [redacted] key block
  FenceTruncated, \* FENCE_TRUNCATED
  MaxFenceLines,  \* MAX_FENCE_LINES
  TopTermsPerDoc, MaxTermDf, MinSharedTerms, MinMembers, MinSessions,
  StaleMargin, MaxCandidates, MaxMemberChars, DigestMaxChars,
  MaxVersion,     \* bound: no digest gets a higher version
  NoDigest        \* no digest of that key

\* A sentence, or what a cut left of it.
Sentences == [id : Ids, len : 1..MaxLen]

\* A line between code, the first or last line of a key block, or anything else.
Kinds == {"fence", "begin", "end", "plain"}

ASSUME ConsolidateAssumption ==
  /\ Docs \subseteq Nat /\ IsFiniteSet(Docs)
  /\ Terms \subseteq Nat /\ IsFiniteSet(Terms)
  /\ Uses \in [Docs -> [Terms -> Nat]]
  /\ DOMAIN Session = Docs
  /\ Text \in [Docs -> Seq(Sentences)]
  /\ ModelTexts \subseteq Seq(Sentences)
  /\ Norm \in [Sentences -> Nat]
  /\ Kind \in [Sentences -> Kinds]
  /\ Redacted \in [Sentences -> 1..MaxLen]
  /\ {KeyBlock, FenceTruncated} \subseteq Sentences
  /\ {TopTermsPerDoc, MaxTermDf, MinSharedTerms, MinMembers, MinSessions,
      StaleMargin, MaxCandidates, MaxMemberChars, DigestMaxChars, MaxVersion,
      MaxLen, MaxFenceLines} \subseteq Nat

VARIABLES
  store,      \* the memories in the collection, a subset of Docs
  digests,    \* its digests: by key, NoDigest or [members, version]; the text of
              \* a digest is not read again
  pc,         \* where each client is
  listed,     \* what its scan of the manifest found: memories and digest keys
  candidates, \* those it has not consolidated yet: [key, members, stale]
  input,      \* the DistillInput it works on: [key, members, text, next version]
  distilled,  \* the text the backend made of it
  blind       \* history: which of its two reads of the digest it is to replace,
              \* "version" and "guard", no longer tells what is there: it failed,
              \* or another client has written that digest since

local == <<pc, listed, candidates, input, distilled, blind>>
vars  == <<store, digests, local>>

PCs == {"idle", "listed", "chosen", "prepared", "distilled", "checked"}

Keys == {k \in SUBSET Terms : k # {} /\ Cardinality(k) <= 4}

Nothing  == [docs |-> {}, keys |-> {}]
NoInput  == [key |-> {}, members |-> {}, text |-> <<>>, next |-> 0]

Existing(D) == {k \in Keys : D[k] # NoDigest}

-----------------------------------------------------------------------------
(* Texts *)

Chars(text, sep) == MapThenSumSet(LAMBDA i : text[i].len, DOMAIN text) + sep * (Len(text) - 1)

\* Where a sentence starts, in a text with sep characters between sentences.
Start(text, i, sep) == MapThenSumSet(LAMBDA j : text[j].len, 1..(i - 1)) + sep * (i - 1)

\* text.chars().take(budget): the last sentence it reaches may be cut.  In a
\* memory the character that ends a sentence counts as part of it (sep = 0).
Take(text, budget, sep) ==
  LET kept == {i \in DOMAIN text : Start(text, i, sep) < budget}
  IN  [i \in 1..Cardinality(kept) |->
         [text[i] EXCEPT !.len = Min({@, budget - Start(text, i, sep)})]]

Fits(text, max) == Chars(text, 1) <= max

\* DeterministicConcatBackend: each sentence that has letters or digits, once,
\* until one does not fit.
ConcatStep(max, acc, s) ==
  LET longer == Append(acc.out, s)
  IN  IF acc.full \/ Norm[s] \in {0} \cup {Norm[t] : t \in ToSet(acc.out)} THEN acc
      ELSE IF Fits(longer, max) THEN [acc EXCEPT !.out = longer]
      ELSE [acc EXCEPT !.full = TRUE]

Concat(text, max) ==
  FoldLeft(LAMBDA acc, s : ConcatStep(max, acc, s), [out |-> <<>>, full |-> FALSE], text).out

Redact(s) == [s EXCEPT !.len = Redacted[s]]

\* sanitize_detail, line by line; kept is counted no further than is told apart.
SanitizeStep(acc, s) ==
  CASE acc.pem ->
         [acc EXCEPT !.pem = Kind[s] # "end"]
    [] ~acc.pem /\ Kind[s] = "begin" ->
         [acc EXCEPT !.pem = TRUE, !.out = Append(@, KeyBlock)]
    [] ~acc.pem /\ Kind[s] = "fence" ->
         [acc EXCEPT !.fence = ~acc.fence, !.kept = 0, !.out = Append(@, Redact(s))]
    [] ~acc.pem /\ Kind[s] \in {"plain", "end"} /\ acc.fence /\ acc.kept >= MaxFenceLines ->
         [acc EXCEPT !.kept = MaxFenceLines + 1,
                     !.out = IF acc.kept = MaxFenceLines THEN Append(@, FenceTruncated) ELSE @]
    [] OTHER ->
         [acc EXCEPT !.kept = IF acc.fence THEN @ + 1 ELSE @, !.out = Append(@, Redact(s))]

Sanitize(text) ==
  FoldLeft(SanitizeStep, [out |-> <<>>, pem |-> FALSE, fence |-> FALSE, kept |-> 0], text).out

\* What commit makes of a distilled text.
Committed(text) == Take(Sanitize(text), DigestMaxChars, 1)

-----------------------------------------------------------------------------
(* Groups of related memories.  S is the corpus the scan found. *)

Df(S, t) == Cardinality({d \in S : Uses[d][t] > 0})

\* TF-IDF, c * ln(n / df), compared without logarithms; then the term.
Outranks(S, d, t, u) ==
  LET n == Cardinality(S)
      a == n ^ Uses[d][t] * Df(S, u) ^ Uses[d][u]
      b == n ^ Uses[d][u] * Df(S, t) ^ Uses[d][t]
  IN  a > b \/ (a = b /\ t < u)

TopTerms(S, d) ==
  LET scored == {t \in Terms : Uses[d][t] > 0 /\ Df(S, t) \in 2..MaxTermDf}
  IN  {t \in scored :
         Cardinality({u \in scored : Outranks(S, d, u, t)}) < TopTermsPerDoc}

\* The pairs that share enough top terms.
Related(S) ==
  LET top == [d \in S |-> TopTerms(S, d)]
      shared(p) == top[p[1]] \cap top[p[2]]
  IN  {p \in S \X S : /\ p[1] < p[2]
                      /\ shared(p) # {}
                      /\ Cardinality(shared(p)) >= MinSharedTerms}

\* Variant: find looks one step up only.
RootNear(parent) == [x \in DOMAIN parent |-> parent[x]]

\* UnionFind::find.  Its path halving shortens the way to a root, not the root.
Root(parent) ==
  LET root[x \in DOMAIN parent] == IF parent[x] = x THEN x ELSE root[parent[x]]
  IN  root

Union(pair, parent) == [parent EXCEPT ![Root(parent)[pair[1]]] = Root(parent)[pair[2]]]

Groups(S) ==
  LET root == Root(FoldSet(Union, [d \in S |-> d], Related(S)))
  IN  {{d \in S : root[d] = r} : r \in {root[d] : d \in S}}

-----------------------------------------------------------------------------
(* Candidates.  D are the digests the scan found, now those there are. *)

\* Lexicographic order of the sorted terms of two keys.
KeyBelow(k, l) ==
  LET m == Min((k \ l) \cup (l \ k))
  IN  IF m \in k THEN \E t \in l : t > m ELSE \A t \in k : t < m

\* The keys whose digest has at least half of its members in the group.
Lineages(g, D) ==
  {k \in Existing(D) : /\ D[k].members # {}
                       /\ 2 * Cardinality(D[k].members \cap g) >= Cardinality(D[k].members)}

Inherited(g, D) ==
  LET overlap(k) == Cardinality(D[k].members \cap g)
  IN  CHOOSE k \in Lineages(g, D) :
        \A l \in Lineages(g, D) \ {k} :
          \/ overlap(k) > overlap(l)
          \/ overlap(k) = overlap(l) /\ KeyBelow(k, l)

\* The four terms that are top terms of the most members.
FreshKey(g, S) ==
  LET top == [d \in g |-> TopTerms(S, d)]
      uses(t) == Cardinality({d \in g : t \in top[d]})
      used == {t \in Terms : uses(t) > 0}
      before(t, u) == uses(t) > uses(u) \/ (uses(t) = uses(u) /\ t < u)
  IN  {t \in used : Cardinality({u \in used : before(u, t)}) < 4}

KeyOf(g, S, D) == IF Lineages(g, D) # {} THEN Inherited(g, D) ELSE FreshKey(g, S)

SessionsOf(g) == {Session[d] : d \in g}

Eligible(S) ==
  {g \in Groups(S) : /\ Cardinality(g) >= MinMembers
                     /\ Cardinality(SessionsOf(g)) >= MinSessions}

\* Variant: a digest with as many members as the group already counts as behind.
FreshBelow(g, k, now) ==
  now[k] # NoDigest /\ Cardinality(g) < Cardinality(now[k].members) + StaleMargin

\* The digest of the key is not behind the group by more than the margin.
Fresh(g, k, now) ==
  now[k] # NoDigest /\ Cardinality(g) <= Cardinality(now[k].members) + StaleMargin

AllCandidates(S, D, now) ==
  LET cand(g) == LET k == KeyOf(g, S, D)
                 IN  [key |-> k, members |-> g, stale |-> k # {} /\ now[k] # NoDigest]
  IN  IF Cardinality(S) < MinMembers THEN {}
      ELSE {cand(g) : g \in {h \in Eligible(S) :
              LET k == KeyOf(h, S, D) IN k # {} /\ ~Fresh(h, k, now)}}

\* Stale first, then larger groups, then the key.
Before(c, d) ==
  \/ c.stale /\ ~d.stale
  \/ c.stale = d.stale /\ Cardinality(c.members) > Cardinality(d.members)
  \/ /\ c.stale = d.stale /\ Cardinality(c.members) = Cardinality(d.members)
     /\ c.key # d.key /\ KeyBelow(c.key, d.key)

\* The first MaxCandidates of them; equal ones come in the order of a hash map.
Truncations(cands) ==
  {some \in SUBSET cands :
     /\ Cardinality(some) = Min({MaxCandidates, Cardinality(cands)})
     /\ \A c \in some, d \in cands \ some : ~Before(d, c)}

-----------------------------------------------------------------------------
(* select_candidates: the manifest, then every document it lists, then the *)
(* digest of every key.                                                    *)

Init == /\ store = {}
        /\ digests = [k \in Keys |-> NoDigest]
        /\ pc = [c \in Clients |-> "idle"]
        /\ listed = [c \in Clients |-> Nothing]
        /\ candidates = [c \in Clients |-> {}]
        /\ input = [c \in Clients |-> NoInput]
        /\ distilled = [c \in Clients |-> <<>>]
        /\ blind = [c \in Clients |-> {}]

\* A digest it is not going to be able to fetch is as if it were not listed; a
\* memory it cannot fetch is as if it were gone for the moment.
ListManifest(c) ==
  /\ pc[c] = "idle"
  /\ pc' = [pc EXCEPT ![c] = "listed"]
  /\ \E keys \in SUBSET Existing(digests) :
       listed' = [listed EXCEPT ![c] = [docs |-> store, keys |-> keys]]
  /\ UNCHANGED <<store, digests, candidates, input, distilled, blind>>

\* What it fetches of the listing: a document that is gone by now is skipped.
Corpus(c) == listed[c].docs \cap store

Found(c) == [k \in Keys |-> IF k \in listed[c].keys THEN digests[k] ELSE NoDigest]

\* The digests as a client reads them that fails to read those of some keys.
Without(lost) == [k \in Keys |-> IF k \in lost THEN NoDigest ELSE digests[k]]

SelectCandidates(c) ==
  /\ pc[c] = "listed"
  /\ \E lost \in SUBSET Existing(digests) :
     \E some \in Truncations(AllCandidates(Corpus(c), Found(c), Without(lost))) :
       /\ candidates' = [candidates EXCEPT ![c] = some]
       /\ pc' = [pc EXCEPT ![c] = IF some = {} THEN "idle" ELSE "chosen"]
  /\ listed' = [listed EXCEPT ![c] = Nothing]
  /\ UNCHANGED <<store, digests, input, distilled, blind>>

-----------------------------------------------------------------------------
(* prepare *)

\* The client is done with a candidate; it may have others.
Done(c, left) ==
  /\ candidates' = [candidates EXCEPT ![c] = left]
  /\ pc' = [pc EXCEPT ![c] = IF left = {} THEN "idle" ELSE "chosen"]
  /\ input' = [input EXCEPT ![c] = NoInput]
  /\ distilled' = [distilled EXCEPT ![c] = <<>>]
  /\ UNCHANGED listed

\* A read of the digest of k; what is not there cannot be lost.
Loses(k, lost) == lost => digests[k] # NoDigest

Blinded(read, lost) == IF lost THEN {read} ELSE {}

Ordered(g) ==
  CHOOSE s \in [1..Cardinality(g) -> g] : \A i, j \in 1..Cardinality(g) : i < j => s[i] < s[j]

\* The members it fetches: it stops as soon as the budget is spent.
Fetched(g) ==
  LET size(d) == MapThenSumSet(LAMBDA i : Text[d][i].len, DOMAIN Text[d])
  IN  {d \in g : \/ d = Min(g)
                 \/ MapThenSumSet(size, {e \in g : e < d}) < MaxMemberChars}

MemberText(g) ==
  Take(FlattenSeq([i \in 1..Cardinality(g) |-> Text[Ordered(g)[i]]]), MaxMemberChars, 0)

\* Variant: every digest is a first version.
NextVersionFirst(k, lost) == 1

NextVersion(k, lost) ==
  IF lost \/ digests[k] = NoDigest THEN 1 ELSE digests[k].version + 1

Prepare(c, cand, lost) ==
  /\ pc[c] = "chosen"
  /\ cand \in candidates[c]
  /\ Loses(cand.key, lost)
  /\ NextVersion(cand.key, lost) <= MaxVersion
  /\ Fetched(cand.members) \subseteq store
  /\ input' = [input EXCEPT ![c] =
       [key |-> cand.key, members |-> cand.members,
        text |-> MemberText(cand.members), next |-> NextVersion(cand.key, lost)]]
  /\ candidates' = [candidates EXCEPT ![c] = @ \ {cand}]
  /\ pc' = [pc EXCEPT ![c] = "prepared"]
  /\ blind' = [blind EXCEPT ![c] = Blinded("version", lost)]
  /\ UNCHANGED <<store, digests, listed, distilled>>

\* A member is gone or cannot be read: prepare returns the error of fetch_doc.
PrepareFails(c, cand) ==
  /\ pc[c] = "chosen"
  /\ cand \in candidates[c]
  /\ Done(c, candidates[c] \ {cand})
  /\ UNCHANGED <<store, digests, blind>>

-----------------------------------------------------------------------------
(* The backend, outside the library, and commit. *)

Answers(c) == ModelTexts \cup {Concat(input[c].text, DigestMaxChars)}

Distill(c) ==
  /\ pc[c] = "prepared"
  /\ \E text \in Answers(c) : distilled' = [distilled EXCEPT ![c] = text]
  /\ pc' = [pc EXCEPT ![c] = "distilled"]
  /\ UNCHANGED <<store, digests, listed, candidates, input, blind>>

\* The call ends without a digest.
GiveUp(c) ==
  /\ Done(c, candidates[c])
  /\ blind' = [blind EXCEPT ![c] = {}]
  /\ UNCHANGED <<store, digests>>

BackendFails(c) == pc[c] = "prepared" /\ GiveUp(c)

\* The collision guard; a digest it cannot read does not collide.
Disjoint(k, members, lost) ==
  /\ ~lost
  /\ digests[k] # NoDigest
  /\ digests[k].members # {}
  /\ digests[k].members \cap members = {}

\* Variant: the text is not cut.
DigestTextWhole(c) == Sanitize(distilled[c])

DigestText(c) == Committed(distilled[c])

\* Variant: the collision guard is left out.
MayCommitOver(c, lost) == DigestText(c) # <<>>

MayCommit(c, lost) ==
  /\ DigestText(c) # <<>>
  /\ ~ Disjoint(input[c].key, input[c].members, lost)

\* commit checks the text and the digest that is there, then writes.
Check(c, lost) ==
  /\ pc[c] = "distilled"
  /\ Loses(input[c].key, lost)
  /\ MayCommit(c, lost)
  /\ pc' = [pc EXCEPT ![c] = "checked"]
  /\ blind' = [blind EXCEPT ![c] = @ \cup Blinded("guard", lost)]
  /\ UNCHANGED <<store, digests, listed, candidates, input, distilled>>

Refuse(c) ==
  /\ pc[c] = "distilled"
  /\ ~ MayCommit(c, FALSE)
  /\ GiveUp(c)

DigestOf(c) == [members |-> input[c].members,
                version |-> input[c].next]

\* The reads a client has behind it.
Reads(c) ==
  CASE pc[c] \in {"prepared", "distilled"} -> {"version"}
    [] pc[c] = "checked" -> {"version", "guard"}
    [] OTHER -> {}

\* index_document replaces the document of that id.
Write(c) ==
  /\ pc[c] = "checked"
  /\ digests' = [digests EXCEPT ![input[c].key] = DigestOf(c)]
  /\ blind' = [b \in Clients |-> IF b = c THEN {}
                                 ELSE IF input[b].key = input[c].key THEN Reads(b)
                                 ELSE blind[b]]
  /\ Done(c, candidates[c])
  /\ UNCHANGED store

WriteFails(c) == pc[c] = "checked" /\ GiveUp(c)

-----------------------------------------------------------------------------
(* The other clients of the collection. *)

Remember(d) ==
  /\ d \notin store
  /\ store' = store \cup {d}
  /\ UNCHANGED <<digests, local>>

Forget(d) ==
  /\ d \in store
  /\ store' = store \ {d}
  /\ UNCHANGED <<digests, local>>

DeleteDigest(k) ==
  /\ digests[k] # NoDigest
  /\ digests' = [digests EXCEPT ![k] = NoDigest]
  /\ UNCHANGED <<store, local>>

Step(c) ==
  \/ ListManifest(c)
  \/ SelectCandidates(c)
  \/ \E cand \in candidates[c], lost \in BOOLEAN : Prepare(c, cand, lost)
  \/ \E cand \in candidates[c] : PrepareFails(c, cand)
  \/ Distill(c)
  \/ BackendFails(c)
  \/ \E lost \in BOOLEAN : Check(c, lost)
  \/ Refuse(c)
  \/ Write(c)
  \/ WriteFails(c)

Next ==
  \/ \E c \in Clients : Step(c)
  \/ \E d \in Docs : Remember(d) \/ Forget(d)
  \/ \E k \in Keys : DeleteDigest(k)

Spec == Init /\ [][Next]_vars

-----------------------------------------------------------------------------
(* Properties *)

Selecting == {c \in Clients : pc[c] = "listed"}

\* The union-find of select_candidates computes the connected components of
\* "shares enough top terms": related memories are in one group, and no group
\* falls into two parts without a related pair between them.  (Asked of a scan
\* that found the whole collection.)
GroupsAreComponents ==
  \A c \in {b \in Selecting : Corpus(b) = store} :
    LET S == Corpus(c)
        pairs == Related(S)
        groups == Groups(S)
        apart(g, h) == \A p \in pairs : ~(p[1] \in g /\ p[2] \in h) /\ ~(p[1] \in h /\ p[2] \in g)
    IN  /\ UNION groups = S
        /\ \A g, h \in groups : g # h => g \cap h = {} /\ apart(g, h)
        /\ \A g \in groups : \A h \in (SUBSET g) \ {{}, g} : ~apart(h, g \ h)

\* A group that a digest has as its members is not selected again, whatever
\* key that digest was written by and whatever other digests the scan failed to
\* read: a pass over an unchanged collection consolidates nothing.  (Asked of a
\* client that can read the digest of the key it finds.)
DigestedNotSelected ==
  \A c \in Selecting :
    \A cand \in AllCandidates(Corpus(c), Found(c), digests) :
      \A k \in Existing(Found(c)) : digests[k].members # cand.members

\* A digest keeps to its budget.  What the concatenating backend makes of a
\* candidate says nothing twice and keeps to it as well; where none of it opens
\* a code or key block and nothing of it is redacted, commit neither cuts nor
\* changes it.
DigestFits ==
  \A c \in Clients :
    /\ pc[c] = "checked" => Chars(DigestText(c), 1) <= DigestMaxChars
    /\ pc[c] = "prepared" =>
         LET text == Concat(input[c].text, DigestMaxChars)
             said == [i \in DOMAIN text |-> Norm[text[i]]]
         IN  /\ IsInjective(said) /\ (text # <<>> => Fits(text, DigestMaxChars))
             /\ (\A i \in DOMAIN text : Kind[text[i]] = "plain" /\ Redact(text[i]) = text[i])
                  => Committed(text) = text

\* The client that writes a digest in this step, with a read of it gone blind.
WritesBlind(read) == \E c \in Clients : pc[c] = "checked" /\ pc'[c] # pc[c] /\ read \in blind[c]

\* A digest is only replaced by one it shares a member with, as the collision
\* guard of commit means it, whatever others consolidate, forget or delete,
\* unless the guard could not read it or another client wrote it behind the
\* guard's back...
LineageKept ==
  [][\A k \in Keys :
       digests[k] # NoDigest /\ digests'[k] # NoDigest /\ digests'[k] # digests[k]
         => digests'[k].members \cap digests[k].members # {} \/ WritesBlind("guard")]_vars

\* ...and of a higher version ("versioning stays monotonic"), unless the version
\* was counted without it in the same way.
VersionsGrow ==
  [][\A k \in Keys :
       digests[k] # NoDigest /\ digests'[k] # NoDigest /\ digests'[k] # digests[k]
         => digests'[k].version > digests[k].version \/ WritesBlind("version")]_vars
=============================================================================
