------------------------------- MODULE SyncPath -------------------------------
(***************************************************************************)
(* msa_sync_path: one call that makes the documents of a source mirror the *)
(* files under a directory.  It walks the directory, lists the documents   *)
(* that have no file any more page by page, and then writes batch by       *)
(* batch; each batch takes effect as AtomicIndex says.  Nothing holds the  *)
(* files or the collection still in between: files change, other clients   *)
(* write, a batch fails, the process dies.                                 *)
(*                                                                         *)
(* The order of the walk is that of the directory, which is any order.     *)
(*                                                                         *)
(* A document id is its rank in the order of ids, and stands for the path  *)
(* it is made from.  The content of a file is the hash of its text and of  *)
(* the metadata taken from its path and its modification time.             *)
(***************************************************************************)
EXTENDS IndexData, SequencesExt, FiniteSetsExt

CONSTANTS
  Calls,            \* the calls clients make
  Enabled,          \* [sync].enabled
  AllowedRoots,     \* [sync].allowed_roots
  FollowSymlinks,   \* [sync].follow_symlinks
  MaxFiles,         \* [sync].max_files
  PageLimit,        \* MAX_MANIFEST_LIMIT
  MaxEdits,         \* bound: changes others make, and restarts
  InitialDocs,      \* what a document can be at first
  InitialFiles,     \* what a file can be at first
  Broken,           \* too large, not UTF-8, or unreadable
  Escaping,         \* a link to a file outside the directory
  Unmatched         \* a file the globs leave out

\* What is at a path; Absent when there is no file.
FileStates == Contents \cup {Absent, Broken, Escaping, Unmatched}

CallType == [root : STRING, source : Sources \cup {NoSource},
             prune : BOOLEAN, dry : BOOLEAN, follow : BOOLEAN]

ASSUME SyncAssumption ==
  /\ Docs \subseteq Nat \ {0} /\ IsFiniteSet(Docs)
  /\ Calls \subseteq CallType
  /\ MaxBatchDocs # 0 /\ PageLimit \in Nat \ {0}
  /\ {MaxFiles, MaxEdits} \subseteq Nat
  /\ {Broken, Escaping, Unmatched, Absent} \cap Contents = {}
  /\ Cardinality({Broken, Escaping, Unmatched, Absent}) = 4
  /\ InitialDocs \subseteq Fingerprints \cup {Absent}
  /\ InitialFiles \subseteq FileStates

VARIABLES
  store,      \* the documents of the collection
  files,      \* the files of the directory
  profile,    \* the index profile of the process
  pc,         \* where the call is
  call,       \* its parameters
  left,       \* the paths the walk has not reached
  scanned,    \* the files it has read, and then those not yet upserted
  errors,     \* a file could not be read
  met,        \* the number of files it has met
  cursor,     \* the last id of the previous page, 0 for none
  gone,       \* prune_ids, then those not yet deleted
  fresh,      \* plan_counts: the fresh entries of the manifest, with their content
  tally,      \* the counts of the response
  filesStill, \* history: the paths whose file did not change during the call
  docsStill,  \* history: the documents nobody else wrote during the call
  edits       \* the number of changes others made, and restarts

local == <<pc, call, left, scanned, errors, met, cursor, gone, fresh, tally>>
vars  == <<store, files, profile, local, filesStill, docsStill, edits>>

NoCall == [root |-> "", source |-> NoSource, prune |-> FALSE, dry |-> FALSE, follow |-> FALSE]

NoTally == [indexed |-> 0, unchanged |-> 0, deleted |-> 0, batches |-> 0]

\* What a call starts with.
Fresh(p, at) ==
  /\ pc' = at
  /\ call' = p
  /\ left' = IF at = "walk" THEN Docs ELSE {}
  /\ scanned' = {}
  /\ errors' = FALSE
  /\ met' = 0
  /\ cursor' = 0
  /\ gone' = {}
  /\ fresh' = {}
  /\ tally' = NoTally
  /\ filesStill' = left'
  /\ docsStill' = left'

Init == /\ store \in [Docs -> InitialDocs]
        /\ files \in [Docs -> InitialFiles]
        /\ profile \in Profiles
        /\ pc = "idle"
        /\ call = NoCall
        /\ left = {}
        /\ scanned = {}
        /\ errors = FALSE
        /\ met = 0
        /\ cursor = 0
        /\ gone = {}
        /\ fresh = {}
        /\ tally = NoTally
        /\ filesStill = {}
        /\ docsStill = {}
        /\ edits = 0

-----------------------------------------------------------------------------
(* The call and its walk. *)

\* The checks before anything is read; a refused call does nothing.
Accepts(p) ==
  /\ Enabled
  /\ p.prune => p.source # NoSource
  /\ p.root \in AllowedRoots

Call(p) ==
  /\ pc = "idle"
  /\ Accepts(p)
  /\ Fresh(p, "walk")
  /\ UNCHANGED <<store, files, profile, edits>>

\* The call returns an error, or its response.
Abort ==
  /\ Fresh(NoCall, "idle")
  /\ UNCHANGED <<files, profile, edits>>

\* A request can only tighten the symlink policy.
Follows(p) == FollowSymlinks /\ p.follow

\* Without following, a link is not a file to the walk.
IsFile(p, f) == f # Absent /\ (f = Escaping => Follows(p))

Fails(p, f) == f = Broken \/ (f = Escaping /\ Follows(p))

HasRoom == met < MaxFiles

WalkStep(d) ==
  /\ pc = "walk"
  /\ d \in left
  /\ IsFile(call, files[d]) => HasRoom
  /\ left' = left \ {d}
  /\ met' = IF IsFile(call, files[d]) THEN met + 1 ELSE met
  /\ errors' = (errors \/ Fails(call, files[d]))
  /\ scanned' = IF files[d] \in Contents
                THEN scanned \cup {[doc |-> d, content |-> files[d]]} ELSE scanned
  /\ UNCHANGED <<store, files, profile, pc, call, cursor, gone, fresh, tally,
                 filesStill, docsStill, edits>>

\* The scan exceeds max_files.
WalkExceeds ==
  /\ pc = "walk"
  /\ ~HasRoom
  /\ \E d \in left : IsFile(call, files[d])
  /\ Abort
  /\ UNCHANGED store

\* Variant: errors of the scan do not block the pruning.
MayPruneAnyway == call.prune /\ call.source # NoSource

MayPrune == call.prune /\ call.source # NoSource /\ ~errors

AfterList == IF call.dry THEN "plan" ELSE "apply"

EndWalk ==
  /\ pc = "walk"
  /\ left = {}
  /\ pc' = IF MayPrune THEN "list" ELSE AfterList
  /\ UNCHANGED <<store, files, profile, call, left, scanned, errors, met, cursor, gone,
                 fresh, tally, filesStill, docsStill, edits>>

-----------------------------------------------------------------------------
(* The manifest, page by page. *)

ScannedDocs == {u.doc : u \in scanned}

InManifest == {d \in Sentinels(store) : InScope(store[d], call.source)}

\* Variant: the cursor is the first id of the next page, but still exclusive.
NextCursorAhead(rest, page) == Min(rest \ page)

\* Variant: the cursor stays where it is.
NextCursorStuck(rest, page) == cursor

NextCursor(rest, page) == Max(page)

\* The entries after the cursor, those of this page, and where the next begins.
Rest == {d \in InManifest : d > cursor}

Page == {d \in Rest : Cardinality({e \in Rest : e < d}) < PageLimit}

Turn(after) ==
  IF Page = Rest
  THEN pc' = after /\ cursor' = 0
  ELSE pc' = pc /\ cursor' = NextCursor(Rest, Page)

\* The documents of the source that have no file.
ListPage ==
  /\ pc = "list"
  /\ gone' = gone \cup (Page \ ScannedDocs)
  /\ Turn(AfterList)
  /\ UNCHANGED <<store, files, profile, call, left, scanned, errors, met, fresh, tally,
                 filesStill, docsStill, edits>>

\* Variant: entries of another index profile count as fresh.
IsFreshAnyProfile(fp) == fp.content # NoHash

\* hash_state = Ok
IsFresh(fp) == fp.content # NoHash /\ fp.profile = profile

\* plan_counts: the counts of a dry run.
PlanPage ==
  /\ pc = "plan"
  /\ fresh' = fresh \cup {[doc |-> d, content |-> store[d].content] :
                            d \in {e \in Page : IsFresh(store[e])}}
  /\ Turn("replied")
  /\ LET same == Cardinality(scanned \cap fresh')
     IN  tally' = IF Page = Rest
                  THEN [NoTally EXCEPT !.indexed = Cardinality(scanned) - same,
                                       !.unchanged = same,
                                       !.deleted = Cardinality(gone)]
                  ELSE tally
  /\ UNCHANGED <<store, files, profile, call, left, scanned, errors, met, gone,
                 filesStill, docsStill, edits>>

-----------------------------------------------------------------------------
(* The writes. *)

Batch(ups, dels) ==
  [op |-> "delta", ups |-> ups, dels |-> dels, skip |-> ups # <<>>,
   scope |-> call.source, guarded |-> FALSE, profile |-> NoHash]

\* apply_delta of a batch.
Apply(r) ==
  LET plan == PlanFor(store, profile, r)
  IN  /\ store' = Effect(store, profile, r, plan)
      /\ tally' = [indexed   |-> tally.indexed + Cardinality(plan.index),
                   unchanged |-> tally.unchanged + Cardinality(plan.unchanged),
                   deleted   |-> tally.deleted + Cardinality(plan.delete),
                   batches   |-> tally.batches + 1]

\* The files in the order of the walk, max_docs at a time.
Chunks ==
  LET n == Min({MaxBatchDocs, Cardinality(scanned)})
  IN  {ups \in [1..n -> scanned] : IsInjective(ups)}

UpsertBatch ==
  /\ pc = "apply"
  /\ scanned # {}
  /\ \E ups \in Chunks :
       /\ Apply(Batch(ups, {}))
       /\ scanned' = scanned \ Range(ups)
  /\ UNCHANGED <<files, profile, pc, call, left, errors, met, cursor, gone, fresh,
                 filesStill, docsStill, edits>>

PruneBatch ==
  LET some == {d \in gone : Cardinality({e \in gone : e < d}) < MaxBatchDocs}
  IN  /\ pc = "apply"
      /\ scanned = {}
      /\ gone # {}
      /\ Apply(Batch(<<>>, some))
      /\ gone' = gone \ some
      /\ UNCHANGED <<files, profile, pc, call, left, scanned, errors, met, cursor, fresh,
                     filesStill, docsStill, edits>>

\* The response, with the digest of the manifest as it is by now.
Reply ==
  /\ pc = "apply"
  /\ scanned = {}
  /\ gone = {}
  /\ pc' = "replied"
  /\ UNCHANGED <<store, files, profile, call, left, scanned, errors, met, cursor, gone,
                 fresh, tally, filesStill, docsStill, edits>>

\* The response is sent.
Return ==
  /\ pc = "replied"
  /\ Abort
  /\ UNCHANGED store

\* A page cannot be read, or a batch fails: the batches before it stay.
Fail ==
  /\ pc \in {"list", "plan", "apply"}
  /\ Abort
  /\ UNCHANGED store

-----------------------------------------------------------------------------
(* The others. *)

OtherWrite(d, fp) ==
  /\ edits < MaxEdits
  /\ store' = [store EXCEPT ![d] = fp]
  /\ docsStill' = docsStill \ {d}
  /\ edits' = edits + 1
  /\ UNCHANGED <<files, profile, local, filesStill>>

FileChange(d, f) ==
  /\ edits < MaxEdits
  /\ files' = [files EXCEPT ![d] = f]
  /\ filesStill' = filesStill \ {d}
  /\ edits' = edits + 1
  /\ UNCHANGED <<store, profile, local, docsStill>>

\* The process dies and comes back, maybe with another configuration.
Restart ==
  /\ edits < MaxEdits
  /\ Fresh(NoCall, "idle")
  /\ profile' \in Profiles
  /\ edits' = edits + 1
  /\ UNCHANGED <<store, files>>

Step ==
  \/ \E d \in Docs : WalkStep(d)
  \/ WalkExceeds
  \/ EndWalk
  \/ ListPage
  \/ PlanPage
  \/ UpsertBatch
  \/ PruneBatch
  \/ Reply
  \/ Return
  \/ Fail

Next ==
  \/ \E p \in Calls : Call(p)
  \/ Step
  \/ \E d \in Docs, fp \in InitialDocs : OtherWrite(d, fp)
  \/ \E d \in Docs, f \in InitialFiles : FileChange(d, f)
  \/ Restart

Spec == Init /\ [][Next]_vars

-----------------------------------------------------------------------------
(* Properties *)

\* The call wants the file, though it may fail to read it.
Wanted(p, f) == f \in Contents \/ Fails(p, f)

\* What the batches would do now with a file, and with the documents of the
\* source that have none; those of the manifest they would not find.
StatusOf(u) == UpsertStatus(DocFingerprint(store, u.doc), Batch(<<u>>, {}), 1, profile)

WouldWrite == {u \in scanned : StatusOf(u) = "indexed"}

WouldDelete ==
  {d \in InManifest : /\ DeleteStatus(DocFingerprint(store, d), Batch(<<>>, {d})) = "deleted"
                      /\ ~Wanted(call, files[d])}

Unseen == {d \in InManifest : DocFingerprint(store, d) = Absent}

WrittenAgain ==
  {u \in WouldWrite : u.doc \in Unseen /\ ShouldSkipUpsert(store[u.doc], u.content, profile)}

\* Every variable holds a value of its type.
TypeOK ==
  /\ store \in [Docs -> Fingerprints \cup {Absent}]
  /\ files \in [Docs -> FileStates]
  /\ profile \in Profiles
  /\ pc \in {"idle", "walk", "list", "plan", "apply", "replied"}
  /\ call \in Calls \cup {NoCall}
  /\ left \subseteq Docs
  /\ scanned \subseteq [doc : Docs, content : Contents]
  /\ errors \in BOOLEAN
  /\ met \in 0..MaxFiles
  /\ cursor \in Docs \cup {0}
  /\ gone \subseteq Docs
  /\ fresh \subseteq [doc : Docs, content : Contents]
  /\ tally \in [indexed : Nat, unchanged : Nat, deleted : Nat, batches : Nat]
  /\ filesStill \subseteq Docs
  /\ docsStill \subseteq Docs
  /\ edits \in 0..MaxEdits

\* No synchronisation deletes a document whose file was there all along, not
\* even one it could not read ("prune never runs if any file errored"), nor a
\* document of another source, whatever others write meanwhile.
FilesSurvive ==
  [][pc' = pc /\ local' # local =>
       \A d \in Docs :
         store[d] # Absent /\ store'[d] = Absent =>
           /\ store[d].source = call.source
           /\ d \in filesStill => ~Wanted(call, files[d])]_vars

\* After a synchronisation that met no error, a document whose file did not
\* change and that nobody else wrote mirrors its file, however the pages and
\* batches were cut and whatever happened to the other documents; only a
\* document of another source is left as it was, and one without a file whose
\* fingerprint the prune does not find.
Mirrored ==
  pc = "replied" /\ ~call.dry =>
    \A d \in filesStill \cap docsStill :
      LET fp == store[d]
      IN  /\ files[d] \in Contents =>
               /\ fp # Absent
               /\ InScope(fp, call.source) =>
                    fp.content = files[d] /\ fp.profile = profile
          /\ call.prune /\ ~errors /\ ~Wanted(call, files[d]) =>
               fp = Absent \/ fp.source # call.source \/ fp.content \in Oversized

\* Nothing changed since the dry run began, no file it read has the id of a
\* document of another source.
DryRunHolds ==
  /\ pc = "replied" /\ call.dry
  /\ filesStill = Docs /\ docsStill = Docs
  /\ \A u \in scanned : StatusOf(u) # "skipped_scope_mismatch"

\* What a dry run says would be written and deleted is what the batches would
\* write and delete, but for the documents of the manifest whose fingerprint the
\* batches do not find: that those are written again although unchanged it does
\* not say, and that they would be deleted it says wrongly.
DryRunTells ==
  DryRunHolds =>
    /\ tally.indexed = Cardinality(WouldWrite \ WrittenAgain)
    /\ call.prune /\ ~errors =>
         tally.deleted = Cardinality(WouldDelete \cup {d \in Unseen : ~Wanted(call, files[d])})

\* Steps a call has left at most: paths to walk, ids to list or compare,
\* documents to write.
Remaining ==
  LET n == Cardinality(Docs)
      after == Cardinality({d \in Docs : d > cursor})
  IN  CASE pc = "walk"    -> 4 + 3 * n + Cardinality(left)
        [] pc = "list"    -> 3 + 2 * n + after
        [] pc = "plan"    -> 2 + after
        [] pc = "apply"   -> 2 + Cardinality(scanned) + Cardinality(gone)
        [] pc = "replied" -> 1
        [] pc = "idle"    -> 0

\* Every step of a call brings it nearer to its end, and nothing others write
\* between two of its pages or batches takes it further away: a
\* synchronisation ends however busy the collection is.
CallEnds ==
  [][(pc # "idle" /\ local' # local => Remaining' < Remaining)
     /\ (local' = local => Remaining' = Remaining)]_vars
=============================================================================
