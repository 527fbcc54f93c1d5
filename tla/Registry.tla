------------------------------- MODULE Registry -------------------------------
(***************************************************************************)
(* CollectionRegistry and the handles it gives out, for one collection     *)
(* name: a write opens the collection, classifies, commits and lets its    *)
(* handle go; a drop evicts the handle, releases its writer and renames    *)
(* the directory away under the registry mutex.                            *)
(*                                                                         *)
(* A handle keeps a path, not a directory.  Every operation of the index   *)
(* library behind it goes to whatever directory is at that path then, and  *)
(* the library's writer lock is a lock on a file of the directory in which *)
(* the writer was created.  Directories that were ever at the path are     *)
(* numbered; a document stands for the request that writes it.             *)
(***************************************************************************)
EXTENDS Naturals, FiniteSets

CONSTANTS
  Threads,        \* the requests that can be in progress at once, their documents
  Handles,        \* MsaIndex values
  Nobody,         \* no thread
  NoHandle,       \* no handle
  MaxDirectories  \* bound: how many times the collection is created

ASSUME RegistryAssumption ==
  /\ Nobody \notin Threads
  /\ NoHandle \notin Handles
  /\ MaxDirectories \in Nat

VARIABLES
  live,         \* the directory at the collection's path, 0 if there is none
  made,         \* the directories made so far
  content,      \* the documents that can be read in the directory at the path
  kept,         \* the documents whose commit into that directory succeeded
  entry,        \* the handle the registry holds
  regLock,      \* the thread that holds the registry mutex
  opened,       \* the directory each handle was opened on, 0 for a free handle
  deltaLock,    \* the thread that holds each handle's delta_lock
  writerLock,   \* the thread that holds each handle's writer mutex
  writer,       \* the directory whose lock file each handle's writer holds, or 0
  base,         \* the documents of the segments each writer lists in a commit
  pc,           \* where each thread is
  handle,       \* the Arc<MsaIndex> it holds
  orphaned      \* history: a writer outlived the directory it was created in

disk    == <<live, made, content, kept>>
locks   == <<regLock, deltaLock, writerLock>>
writers == <<writer, base>>
threads == <<pc, handle>>
vars    == <<disk, entry, opened, locks, writers, threads, orphaned>>

Directories == 0 .. MaxDirectories

PCs == {"idle", "lock", "read", "writer", "commit", "return", "release", "rename"}

Init == /\ live = 0 /\ made = 0
        /\ content = {} /\ kept = {}
        /\ entry = NoHandle
        /\ regLock = Nobody
        /\ opened = [h \in Handles |-> 0]
        /\ deltaLock = [h \in Handles |-> Nobody]
        /\ writerLock = [h \in Handles |-> Nobody]
        /\ writer = [h \in Handles |-> 0]
        /\ base = [h \in Handles |-> {}]
        /\ pc = [t \in Threads |-> "idle"]
        /\ handle = [t \in Threads |-> NoHandle]
        /\ orphaned = FALSE

\* Nobody but t holds an Arc of h: letting it go drops the MsaIndex.
LastHolder(t, h) == entry # h /\ \A s \in Threads \ {t} : handle[s] # h

-----------------------------------------------------------------------------
(* open_or_create_with_heap runs entirely under the registry mutex.        *)

OpenRegistered(t) ==
  /\ pc[t] = "idle"
  /\ regLock = Nobody
  /\ entry # NoHandle
  /\ handle' = [handle EXCEPT ![t] = entry]
  /\ pc' = [pc EXCEPT ![t] = "lock"]
  /\ UNCHANGED <<disk, entry, opened, locks, writers, orphaned>>

\* Variant: the index in the directory is created again when it is opened.
OpenDirectoryAfresh == live # 0 /\ content' = {} /\ UNCHANGED <<live, made, kept>>

OpenDirectory == live # 0 /\ UNCHANGED disk

CreateDirectory ==
  /\ live = 0 /\ made < MaxDirectories
  /\ made' = made + 1 /\ live' = made + 1
  /\ content' = {} /\ kept' = {}

OpenOrCreate(t, h) ==
  /\ pc[t] = "idle"
  /\ regLock = Nobody
  /\ entry = NoHandle
  /\ opened[h] = 0
  /\ OpenDirectory \/ CreateDirectory
  /\ entry' = h
  /\ opened' = [opened EXCEPT ![h] = live']
  /\ handle' = [handle EXCEPT ![t] = h]
  /\ pc' = [pc EXCEPT ![t] = "lock"]
  /\ UNCHANGED <<locks, writers, orphaned>>

-----------------------------------------------------------------------------
(* A write through a handle.                                               *)

\* Only apply_delta reads before it writes.
LockDelta(t) ==
  /\ pc[t] = "lock"
  /\ deltaLock[handle[t]] = Nobody
  /\ deltaLock' = [deltaLock EXCEPT ![handle[t]] = t]
  /\ \E next \in {"read", "writer"} : pc' = [pc EXCEPT ![t] = next]
  /\ UNCHANGED <<disk, entry, opened, regLock, writerLock, writers, handle, orphaned>>

\* The committed state is read at the path.
Read(t) ==
  /\ pc[t] = "read"
  /\ live # 0
  /\ pc' = [pc EXCEPT ![t] = "writer"]
  /\ UNCHANGED <<disk, entry, opened, locks, writers, handle, orphaned>>

\* The library gives out one writer per lock file.
LockFileFree == live # 0 /\ \A h \in Handles : writer[h] # live

\* with_writer: the writer of the handle, or a new one at the path.
TakeWriter(t) ==
  LET h == handle[t]
  IN  /\ pc[t] = "writer"
      /\ writerLock[h] = Nobody
      /\ \/ writer[h] # 0 /\ UNCHANGED writers
         \/ /\ writer[h] = 0 /\ LockFileFree
            /\ writer' = [writer EXCEPT ![h] = live]
            /\ base' = [base EXCEPT ![h] = content]
      /\ writerLock' = [writerLock EXCEPT ![h] = t]
      /\ pc' = [pc EXCEPT ![t] = "commit"]
      /\ UNCHANGED <<disk, entry, opened, regLock, deltaLock, handle, orphaned>>

\* The directory is gone, or another writer holds its lock file, or the
\* library fails: Err, rolled back, nothing committed.
WriteFails(t) ==
  LET h == handle[t]
  IN  /\ \/ pc[t] = "read"
         \/ pc[t] = "writer" /\ writerLock[h] = Nobody /\ writer[h] = 0
         \/ pc[t] = "commit"
      /\ deltaLock' = [deltaLock EXCEPT ![h] = Nobody]
      /\ writerLock' = IF pc[t] = "commit" THEN [writerLock EXCEPT ![h] = Nobody] ELSE writerLock
      /\ pc' = [pc EXCEPT ![t] = "return"]
      /\ UNCHANGED <<disk, entry, opened, regLock, writers, handle, orphaned>>

\* What can be read once h has committed document t at the path: the segments
\* its writer lists are in the directory the writer was created in.
Published(h, t) ==
  IF writer[h] = live \/ base[h] = {} THEN base[h] \cup {t} ELSE {}

\* A commit writes the segment list of the directory at the path.
Commit(t) ==
  LET h == handle[t]
  IN  /\ pc[t] = "commit"
      /\ live # 0
      /\ content' = Published(h, t)
      /\ kept' = kept \cup {t}
      /\ base' = [base EXCEPT ![h] = @ \cup {t}]
      /\ deltaLock' = [deltaLock EXCEPT ![h] = Nobody]
      /\ writerLock' = [writerLock EXCEPT ![h] = Nobody]
      /\ pc' = [pc EXCEPT ![t] = "return"]
      /\ UNCHANGED <<live, made, entry, opened, regLock, writer, handle, orphaned>>

\* The request ends; the last reference drops the MsaIndex and its writer.
Return(t) ==
  LET h == handle[t]
  IN  /\ pc[t] = "return"
      /\ IF LastHolder(t, h)
         THEN /\ opened' = [opened EXCEPT ![h] = 0]
              /\ writer' = [writer EXCEPT ![h] = 0]
              /\ base' = [base EXCEPT ![h] = {}]
         ELSE UNCHANGED <<opened, writers>>
      /\ handle' = [handle EXCEPT ![t] = NoHandle]
      /\ pc' = [pc EXCEPT ![t] = "idle"]
      /\ UNCHANGED <<disk, entry, locks, orphaned>>

-----------------------------------------------------------------------------
(* drop_collection holds the registry mutex from eviction to rename.       *)

\* Variant: the registry mutex is not held once the handle is evicted.
HoldRegistryBriefly(t) == UNCHANGED regLock

HoldRegistry(t) == regLock' = t

\* guard.remove(name): the drop now holds the registry's Arc, if there is one.
Evict(t) ==
  /\ pc[t] = "idle"
  /\ regLock = Nobody
  /\ HoldRegistry(t)
  /\ entry' = NoHandle
  /\ handle' = [handle EXCEPT ![t] = entry]
  /\ pc' = [pc EXCEPT ![t] = IF entry = NoHandle THEN "rename" ELSE "release"]
  /\ UNCHANGED <<disk, opened, deltaLock, writerLock, writers, orphaned>>

\* release_writer waits for the writer mutex of the handle; then drop(idx).
ReleaseWriter(t) ==
  LET h == handle[t]
  IN  /\ pc[t] = "release"
      /\ writerLock[h] = Nobody
      /\ writer' = [writer EXCEPT ![h] = 0]
      /\ base' = [base EXCEPT ![h] = {}]
      /\ opened' = IF LastHolder(t, h) THEN [opened EXCEPT ![h] = 0] ELSE opened
      /\ handle' = [handle EXCEPT ![t] = NoHandle]
      /\ pc' = [pc EXCEPT ![t] = "rename"]
      /\ UNCHANGED <<disk, entry, locks, orphaned>>

\* Variant: a drop that finds no directory returns with the mutex locked.
UnlockRegistryIfRenamed == regLock' = IF live = 0 THEN regLock ELSE Nobody

\* The guard goes out of scope on every return.
UnlockRegistry == regLock' = Nobody

\* The directory is renamed into quarantine, to be removed later; or there is
\* none, and nothing to do.
Rename(t) ==
  /\ pc[t] = "rename"
  /\ live' = 0
  /\ content' = {} /\ kept' = {}
  /\ orphaned' = (orphaned \/ \E h \in Handles : live # 0 /\ writer[h] = live)
  /\ UnlockRegistry
  /\ pc' = [pc EXCEPT ![t] = "idle"]
  /\ UNCHANGED <<made, entry, opened, deltaLock, writerLock, writers, handle>>

\* The rename fails: Err, with the handle evicted and the directory in place.
RenameFails(t) ==
  /\ pc[t] = "rename"
  /\ live # 0
  /\ UnlockRegistry
  /\ pc' = [pc EXCEPT ![t] = "idle"]
  /\ UNCHANGED <<disk, entry, opened, deltaLock, writerLock, writers, handle, orphaned>>

-----------------------------------------------------------------------------
\* The process dies: the directory stays, and lock files are let go.
Crash == /\ entry' = NoHandle
         /\ regLock' = Nobody
         /\ opened' = [h \in Handles |-> 0]
         /\ deltaLock' = [h \in Handles |-> Nobody]
         /\ writerLock' = [h \in Handles |-> Nobody]
         /\ writer' = [h \in Handles |-> 0]
         /\ base' = [h \in Handles |-> {}]
         /\ pc' = [t \in Threads |-> "idle"]
         /\ handle' = [t \in Threads |-> NoHandle]
         /\ UNCHANGED <<disk, orphaned>>

\* What a thread does once its request is begun.
Step(t) == \/ LockDelta(t)
           \/ Read(t)
           \/ TakeWriter(t)
           \/ WriteFails(t)
           \/ Commit(t)
           \/ Return(t)
           \/ ReleaseWriter(t)
           \/ Rename(t)
           \/ RenameFails(t)

Next == \/ \E t \in Threads : \/ OpenRegistered(t)
                              \/ \E h \in Handles : OpenOrCreate(t, h)
                              \/ Evict(t)
                              \/ Step(t)
        \/ Crash

Spec == Init /\ [][Next]_vars

\* A begun request runs to its end on a thread of its own.
FairSpec == Spec /\ \A t \in Threads : WF_vars(Step(t))

-----------------------------------------------------------------------------
(* Properties *)

\* The type invariant; a handle that a request holds is open on a directory.
TypeOK == /\ {live, made} \subseteq Directories
          /\ {content, kept} \subseteq SUBSET Threads
          /\ entry \in Handles \cup {NoHandle}
          /\ regLock \in Threads \cup {Nobody}
          /\ {opened, writer} \subseteq [Handles -> Directories]
          /\ {deltaLock, writerLock} \subseteq [Handles -> Threads \cup {Nobody}]
          /\ base \in [Handles -> SUBSET Threads]
          /\ pc \in [Threads -> PCs]
          /\ handle \in [Threads -> Handles \cup {NoHandle}]
          /\ \A t \in Threads : handle[t] # NoHandle => opened[handle[t]] # 0
          /\ orphaned \in BOOLEAN

\* Whatever drops and opens interleave, the registry never gives out a handle
\* that was opened on a directory that has since been renamed away: "a
\* concurrent open_or_create cannot re-open the live directory and re-insert
\* the collection in the gap between evict and rename" (registry.rs).
RegistryCurrent == entry # NoHandle => live # 0 /\ opened[entry] = live

\* A document whose commit succeeded can be read until the collection is
\* dropped, through crashes and failed drops, even when a request of before a
\* drop commits into the collection created after it.  Stated of histories in
\* which no drop renamed a directory under an open writer.
KeptReadable == ~orphaned => kept \subseteq content

\* "tantivy itself disallows more than one writer per index" (write.rs).
OneWriter ==
  \A g, h \in Handles : writer[g] # 0 /\ writer[h] # 0 => g = h

\* A drop waits for the writer mutex while it holds the registry mutex, that
\* every open needs; it always gets it, and gives the registry back.
RegistryReleased == \A t \in Threads : (regLock = t) ~> (regLock # t)
=============================================================================
