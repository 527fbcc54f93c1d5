------------------------------ MODULE IndexData ------------------------------
(***************************************************************************)
(* What one collection stores, and the pure decisions apply_delta takes    *)
(* about it: fingerprints, the manifest digest, the classification of an   *)
(* upsert and of a delete, and what a batch does to the collection.        *)
(*                                                                         *)
(* A document is its fingerprint: the content hash of its text and user    *)
(* metadata, the index profile (chunking and embedding identity) it was    *)
(* indexed under and the source that owns it.  Hashes are taken to be      *)
(* injective, so a hash is the thing hashed.  Whatever is not a document   *)
(* is Absent, or Torn: chunk records of a document whose sentinel record   *)
(* was never written.                                                      *)
(***************************************************************************)
EXTENDS Integers, Sequences, FiniteSets

CONSTANTS
  Docs,          \* document ids
  Contents,      \* content hashes
  Oversized,     \* contents whose sentinel is not among a document's first 1024 records
  Sources,       \* source_id values, the scopes of a write
  Profiles,      \* index_profile_hash values
  Requests,      \* the write requests clients send
  MaxBatchDocs,  \* caps.max_docs
  NoSource,      \* source_id = None
  NoHash,        \* a hash that is missing, or not asked for
  Absent,        \* no record of the document
  Torn           \* chunk records without a sentinel

Fingerprints == [content : Contents \cup {NoHash},
                 profile : Profiles \cup {NoHash},
                 source  : Sources \cup {NoSource}]

\* A document of a collection that predates fingerprints.
Legacy == [content |-> NoHash, profile |-> NoHash, source |-> NoSource]

DocStates == Fingerprints \cup {Absent, Torn}

(***************************************************************************)
(* A write request.  op tells apply_delta, index_documents and             *)
(* delete_document apart; the last two take no options.  guarded says that *)
(* the client passes if_manifest_digest, profile is if_index_profile_hash. *)
(***************************************************************************)
RequestType == [op      : {"delta", "index", "delete"},
                ups     : Seq([doc : Docs, content : Contents]),
                dels    : SUBSET Docs,
                skip    : BOOLEAN,
                scope   : Sources \cup {NoSource},
                guarded : BOOLEAN,
                profile : Profiles \cup {NoHash}]

ASSUME DataAssumption ==
  /\ Absent # Torn
  /\ {Absent, Torn} \cap Fingerprints = {}
  /\ NoHash \notin Contents \cup Profiles
  /\ NoSource \notin Sources
  /\ Oversized \subseteq Contents
  /\ MaxBatchDocs \in Nat

ASSUME RequestAssumption ==
  /\ Requests \subseteq RequestType
  /\ \A r \in Requests :
       /\ r.op = "index" => r.dels = {}
       /\ r.op = "delete" => r.ups = <<>>
       /\ r.op # "delta" => r.scope = NoSource /\ r.profile = NoHash /\ ~r.guarded

-----------------------------------------------------------------------------
(* Reading a collection C \in [Docs -> DocStates]. *)

\* A read or a write of scope NoSource concerns every document.
InScope(fp, scope) == scope = NoSource \/ fp.source = scope

\* The documents that have a sentinel record: what stats and manifest scan.
Sentinels(C) == {d \in Docs : C[d] \notin {Absent, Torn}}

\* manifest_digest: every document of the scope with its content hash.  It
\* covers neither the profile nor the owner.
Digest(C, scope) ==
  [d \in {e \in Sentinels(C) : InScope(C[e], scope)} |-> C[d].content]

Digests == UNION {[D -> Contents \cup {NoHash}] : D \in SUBSET Docs}

\* doc_fingerprint looks for the sentinel among the first 1024 records only; it
\* is the last record written, by a writer whose heap allows one thread.
DocFingerprint(C, d) ==
  IF d \in Sentinels(C) /\ C[d].content \notin Oversized THEN C[d] ELSE Absent

NoDigest == Digest([d \in Docs |-> Absent], NoSource)

\* What a client of r read in the manifest, if it guards its write.
Expected(C, r) == IF r.guarded THEN Digest(C, r.scope) ELSE NoDigest

-----------------------------------------------------------------------------
(* Classifying a batch. *)

\* The checks made before the delta lock is taken.
Accepted(r) ==
  r.op = "delta" => /\ Len(r.ups) + Cardinality(r.dels) <= MaxBatchDocs
                    /\ \A i \in DOMAIN r.ups : r.ups[i].doc \notin r.dels

\* The optimistic preconditions, against the collection C and the profile p.
Preconditions(C, p, r, want) ==
  /\ r.profile # NoHash => r.profile = p
  /\ r.guarded => want = Digest(C, r.scope)

\* Variant: skip-unchanged that compares the content alone.
ShouldSkipSameContent(fp, content, p) == fp # Absent /\ fp.content = content

ShouldSkipUpsert(fp, content, p) ==
  fp # Absent /\ fp.content = content /\ fp.profile = p

\* Variant: an upsert that does not look at the owner.
UpsertStatusUnscoped(fp, r, i, p) ==
  IF r.skip /\ ShouldSkipUpsert(fp, r.ups[i].content, p) THEN "unchanged" ELSE "indexed"

\* The scope is checked before skip-unchanged.
UpsertStatus(fp, r, i, p) ==
  IF fp # Absent /\ ~InScope(fp, r.scope) THEN "skipped_scope_mismatch"
  ELSE IF r.skip /\ ShouldSkipUpsert(fp, r.ups[i].content, p) THEN "unchanged"
  ELSE "indexed"

DeleteStatus(fp, r) ==
  IF fp = Absent THEN "not_found"
  ELSE IF InScope(fp, r.scope) THEN "deleted"
  ELSE "skipped_scope_mismatch"

UpsertsWith(status, C, p, r) ==
  {i \in DOMAIN r.ups : UpsertStatus(DocFingerprint(C, r.ups[i].doc), r, i, p) = status}

\* What a batch is going to do: the upserts to stage, those reported as
\* unchanged, and the deletes that take effect.
Classify(C, p, r) ==
  [index     |-> UpsertsWith("indexed", C, p, r),
   unchanged |-> UpsertsWith("unchanged", C, p, r),
   delete    |-> {d \in r.dels : DeleteStatus(DocFingerprint(C, d), r) = "deleted"}]

\* index_documents and delete_document look at nothing first.
Unconditional(r) ==
  [index |-> DOMAIN r.ups, unchanged |-> {}, delete |-> r.dels]

PlanFor(C, p, r) == IF r.op = "delta" THEN Classify(C, p, r) ELSE Unconditional(r)

Plans == [index : SUBSET Nat, unchanged : SUBSET Nat, delete : SUBSET Docs]

-----------------------------------------------------------------------------
(* What a batch writes. *)

\* The fingerprint stage_document writes into the sentinel of upsert i.
Written(r, i, p) ==
  [content |-> r.ups[i].content, profile |-> p, source |-> r.scope]

\* Upserts are staged in order, each replacing the document: the last one wins.
Latest(I) == CHOOSE i \in I : \A j \in I : j <= i

UpsertsOf(r, I, d) == {i \in I : r.ups[i].doc = d}

\* The collection after the deletes of plan and then its upserts.
Effect(C, p, r, plan) ==
  [d \in Docs |->
     LET I == UpsertsOf(r, plan.index, d)
     IN  IF I # {} THEN Written(r, Latest(I), p)
         ELSE IF d \in plan.delete THEN Absent
         ELSE C[d]]
=============================================================================
