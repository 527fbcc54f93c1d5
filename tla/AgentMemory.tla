----------------------------- MODULE AgentMemory ------------------------------
(***************************************************************************)
(* remember and forget, clients of a collection whose writes take effect   *)
(* as AtomicIndex says.  Both list the collection first and write later,   *)
(* and hold no lock in between.                                            *)
(*                                                                         *)
(* The content of a memory is the raw text it was made from (metadata key  *)
(* _raw_content_hash).  A document id is its rank in the order of ids.     *)
(* Memories are written without an embedder, so under one index profile.   *)
(***************************************************************************)
EXTENDS IndexData

CONSTANTS
  Threads,    \* the calls that can be in progress at once
  Unembedded, \* the index profile of a process without an embedder
  LowSignal,  \* the texts the low-signal gate rejects unless forced
  PageLimit,  \* the most entries a manifest page has
  NoDoc       \* no document id

ASSUME MemoryAssumption ==
  /\ Docs \subseteq Nat
  /\ IsFiniteSet(Docs)
  /\ Unembedded \in Profiles
  /\ LowSignal \subseteq Contents
  /\ PageLimit \in Nat \ {0}
  /\ NoDoc \notin Docs

VARIABLES
  store,     \* the documents, [Docs -> DocStates]
  used,      \* the ids ever given to a memory
  pc,        \* where each call is
  call,      \* its arguments
  page,      \* the ids it has listed and not looked at yet
  standing,  \* history: the documents it is about that nobody has touched since
             \* it listed, but for those it then failed to fetch
  crowded    \* history: a page did not hold the whole listing

local == <<pc, call, page, crowded>>
vars  == <<store, used, standing, local>>

PCs == {"idle", "scan", "write", "delete"}

Calls == [doc : Docs \cup {NoDoc}, text : Contents \cup {NoHash}, source : Sources \cup {NoSource}]

NoCall == [doc |-> NoDoc, text |-> NoHash, source |-> NoSource]

Init == /\ store = [d \in Docs |-> Absent]
        /\ used = {}
        /\ pc = [t \in Threads |-> "idle"]
        /\ call = [t \in Threads |-> NoCall]
        /\ page = [t \in Threads |-> {}]
        /\ standing = [t \in Threads |-> {}]
        /\ crowded = [t \in Threads |-> FALSE]

-----------------------------------------------------------------------------
(* Requests to the collection. *)

Batch(ups, dels, scope) ==
  [op |-> "delta", ups |-> ups, dels |-> dels, skip |-> FALSE,
   scope |-> scope, guarded |-> FALSE, profile |-> NoHash]

RememberBatch(c) == Batch(<<[doc |-> c.doc, content |-> c.text]>>, {}, c.source)

\* Variant: the delete of a forget is not scoped to the source.
ForgetBatchUnscoped(ds, source) == Batch(<<>>, ds, NoSource)

ForgetBatch(ds, source) == Batch(<<>>, ds, source)

\* The collection after apply_delta.
Applied(r) == Effect(store, Unembedded, r, PlanFor(store, Unembedded, r))

\* The first page of the manifest of a scope, in the order of ids.
InManifest(scope) == {d \in Sentinels(store) : InScope(store[d], scope)}

FirstPage(S) == {d \in S : Cardinality({e \in S : e < d}) < PageLimit}

\* A write to the collection; t, which makes it, is done.
Put(t, C) ==
  /\ store' = C
  /\ standing' = [s \in Threads |->
       IF s = t THEN {} ELSE {d \in standing[s] : C[d] = store[d]}]

Return(t) ==
  /\ pc' = [pc EXCEPT ![t] = "idle"]
  /\ call' = [call EXCEPT ![t] = NoCall]
  /\ page' = [page EXCEPT ![t] = {}]
  /\ crowded' = [crowded EXCEPT ![t] = FALSE]

\* A call lists a scope of the collection; match are the documents it is about.
List(t, label, c, scope, match) ==
  /\ pc' = [pc EXCEPT ![t] = label]
  /\ call' = [call EXCEPT ![t] = c]
  /\ page' = [page EXCEPT ![t] = FirstPage(InManifest(scope))]
  /\ standing' = [standing EXCEPT ![t] = match]
  /\ crowded' = [crowded EXCEPT ![t] = Cardinality(InManifest(scope)) > PageLimit]
  /\ UNCHANGED <<store, used>>

-----------------------------------------------------------------------------
(* remember *)

\* The low-signal gate; a call it rejects returns at once.
Passes(text, force) == text \notin LowSignal \/ force

\* With a doc_id there is no deduplication.
RememberAs(t, d, text, source, force) ==
  /\ pc[t] = "idle"
  /\ Passes(text, force)
  /\ pc' = [pc EXCEPT ![t] = "write"]
  /\ call' = [call EXCEPT ![t] = [doc |-> d, text |-> text, source |-> source]]
  /\ used' = used \cup {d}
  /\ UNCHANGED <<store, page, standing, crowded>>

Holding(text) == {d \in Sentinels(store) : store[d].content = text}

\* Without one, find_by_content_hash lists the whole collection.
RememberNew(t, text, source, force) ==
  /\ pc[t] = "idle"
  /\ Passes(text, force)
  /\ List(t, "scan", [doc |-> NoDoc, text |-> text, source |-> source], NoSource, Holding(text))

NextInPage(t, d) == d \in page[t] /\ \A e \in page[t] : d <= e

\* Variant: a memory of another source does not count as a duplicate.
SameMemoryOfSource(fp, c) == fp.content = c.text /\ fp.source = c.source

SameMemory(fp, c) == fp.content = c.text

\* fetch_doc finds the sentinel among the first 1024 records of a document, or
\* not at all.
Found(t, d) ==
  /\ DocFingerprint(store, d) # Absent
  /\ SameMemory(store[d], call[t])

\* The listed documents are fetched one by one.
Scan(t, d) ==
  /\ pc[t] = "scan"
  /\ NextInPage(t, d)
  /\ Found(t, d)
  /\ Return(t)
  /\ standing' = [standing EXCEPT ![t] = {}]
  /\ UNCHANGED <<store, used>>

PassOver(t, d) ==
  /\ pc[t] = "scan"
  /\ NextInPage(t, d)
  /\ page' = [page EXCEPT ![t] = @ \ {d}]
  /\ UNCHANGED <<store, used, pc, call, crowded>>

\* Another memory, one that is gone by now, or one whose sentinel is not found.
ScanOther(t, d) == ~Found(t, d) /\ PassOver(t, d) /\ UNCHANGED standing

\* Any other error of a fetch is passed over as well.
ScanFails(t, d) == PassOver(t, d) /\ standing' = [standing EXCEPT ![t] = @ \ {d}]

\* Nothing found: generate_doc_id.
Generate(t, d) ==
  /\ pc[t] = "scan"
  /\ page[t] = {}
  /\ d \notin used
  /\ used' = used \cup {d}
  /\ call' = [call EXCEPT ![t].doc = d]
  /\ pc' = [pc EXCEPT ![t] = "write"]
  /\ UNCHANGED <<store, page, standing, crowded>>

\* apply_delta; what it says of the document is not looked at.
Write(t) ==
  /\ pc[t] = "write"
  /\ Put(t, Applied(RememberBatch(call[t])))
  /\ Return(t)
  /\ UNCHANGED used

-----------------------------------------------------------------------------
(* forget *)

\* msa_forget with a doc_id deletes whatever has it, and answers one.
ForgetDoc(t, d) ==
  /\ pc[t] = "idle"
  /\ Put(t, [store EXCEPT ![d] = Absent])
  /\ Return(t)
  /\ UNCHANGED used

\* forget_by_source_id lists one page of the source; nothing there, nothing to do.
ForgetSource(t, source) ==
  /\ pc[t] = "idle"
  /\ InManifest(source) # {}
  /\ List(t, "delete", [NoCall EXCEPT !.source = source], source, InManifest(source))

Delete(t) ==
  /\ pc[t] = "delete"
  /\ Put(t, Applied(ForgetBatch(page[t], call[t].source)))
  /\ Return(t)
  /\ UNCHANGED used

-----------------------------------------------------------------------------
\* apply_delta fails: nothing is written.
Fails(t) ==
  /\ pc[t] \in {"write", "delete"}
  /\ Return(t)
  /\ standing' = [standing EXCEPT ![t] = {}]
  /\ UNCHANGED <<store, used>>

\* The process ends, and its calls with it; the collection stays.
Crash ==
  /\ \E t \in Threads : pc[t] # "idle"
  /\ pc' = [t \in Threads |-> "idle"]
  /\ call' = [t \in Threads |-> NoCall]
  /\ page' = [t \in Threads |-> {}]
  /\ standing' = [t \in Threads |-> {}]
  /\ crowded' = [t \in Threads |-> FALSE]
  /\ UNCHANGED <<store, used>>

Next ==
  \/ \E t \in Threads :
       \/ \E text \in Contents, force \in BOOLEAN :
            \E source \in Sources \cup {NoSource} :
              \/ RememberNew(t, text, source, force)
              \/ \E d \in Docs : RememberAs(t, d, text, source, force)
       \/ \E d \in Docs :
            Scan(t, d) \/ ScanOther(t, d) \/ ScanFails(t, d) \/ Generate(t, d) \/ ForgetDoc(t, d)
       \/ \E source \in Sources : ForgetSource(t, source)
       \/ Write(t) \/ Delete(t) \/ Fails(t)
  \/ Crash

Spec == Init /\ [][Next]_vars

-----------------------------------------------------------------------------
(* Properties *)

\* The type invariant; every memory keeps the hash of its text.
TypeOK == /\ store \in [Docs -> DocStates]
          /\ \A d \in Sentinels(store) : store[d].content \in Contents /\ d \in used
          /\ used \subseteq Docs
          /\ pc \in [Threads -> PCs]
          /\ call \in [Threads -> Calls]
          /\ \A t \in Threads : pc[t] = "write" => call[t].doc \in used /\ call[t].text \in Contents
          /\ page \in [Threads -> SUBSET Docs]
          /\ standing \in [Threads -> SUBSET Docs]
          /\ crowded \in [Threads -> BOOLEAN]

Generated(t) == pc[t] = "write" /\ standing[t] # {}

\* Whatever other calls do meanwhile, remember stores a second memory of a text
\* that is in the collection throughout its call only if one page did not list
\* the whole collection, if it failed to fetch every copy that is there (none
\* of them is then standing), or if the text has so many chunks that no fetch
\* finds it.
NoSecondCopy ==
  \A t \in Threads : Generated(t) => crowded[t] \/ call[t].text \in Oversized

\* forget_by_source_id deletes every memory of its source that was there when
\* it listed and is there still, if one page lists them all, but for those with
\* too many chunks to be found, and none that belongs to another source by then.
ForgetsItsSource ==
  [][\A t \in Threads : Delete(t) =>
       /\ crowded[t] \/ \A d \in standing[t] :
                          store[d].content \notin Oversized => store'[d] = Absent
       /\ \A d \in Sentinels(store) :
            store[d].source # call[t].source => store'[d] = store[d]]_vars
=============================================================================
