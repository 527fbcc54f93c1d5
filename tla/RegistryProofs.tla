---------------------------- MODULE RegistryProofs ----------------------------
(***************************************************************************)
(* Theorems about Registry, for every number of requests and handles.      *)
(***************************************************************************)
EXTENDS Registry, TLAPS

USE DEF disk, locks, writers, threads, vars

\* Directories are numbered as they are made.
NumberInv == live <= made /\ \A h \in Handles : writer[h] <= made

\* A drop holds the registry mutex, and the registry is empty meanwhile.
MutexInv ==
  /\ \A t \in Threads : pc[t] \in {"release", "rename"} <=> regLock = t
  /\ regLock # Nobody => entry = NoHandle

\* A request in progress holds a handle.
HandleInv ==
  \A t \in Threads :
    pc[t] \in {"lock", "read", "writer", "commit", "return", "release"} => handle[t] \in Handles

\* A commit runs under the writer mutex of a handle whose writer is open.
CommitInv ==
  \A t \in Threads :
    pc[t] = "commit" => writerLock[handle[t]] = t /\ writer[handle[t]] # 0

\* A lock file is held by one writer.
LockFileInv ==
  \A g, h \in Handles : writer[g] # 0 /\ writer[g] = writer[h] => g = h

\* Until a drop renames a directory under an open writer, an open writer is one
\* of the directory at the path and knows its documents.
WriterInv ==
  ~orphaned => \A h \in Handles : writer[h] # 0 => writer[h] = live /\ base[h] = content

IInv == TypeOK /\ NumberInv /\ MutexInv /\ HandleInv /\ CommitInv /\ LockFileInv /\ WriterInv
               /\ RegistryCurrent /\ KeptReadable

-----------------------------------------------------------------------------
\* Initially there is no directory, no handle and no request.
LEMMA InitInv == Init => IInv
<1> SUFFICES ASSUME Init PROVE IInv
  OBVIOUS
<1> USE RegistryAssumption DEF Init
<1>1. TypeOK
  <2>1. 0 \in Directories
    BY DEF Directories
  <2>2. /\ [h \in Handles |-> 0] \in [Handles -> Directories]
        /\ [h \in Handles |-> Nobody] \in [Handles -> Threads \cup {Nobody}]
    BY <2>1
  <2>3. pc \in [Threads -> PCs] /\ handle \in [Threads -> Handles \cup {NoHandle}]
    BY DEF PCs
  <2> QED
    BY <2>1, <2>2, <2>3 DEF TypeOK
<1>2. NumberInv /\ MutexInv /\ HandleInv /\ CommitInv /\ LockFileInv
  BY DEF NumberInv, MutexInv, HandleInv, CommitInv, LockFileInv
<1>3. WriterInv /\ RegistryCurrent /\ KeptReadable
  BY DEF WriterInv, RegistryCurrent, KeptReadable
<1> QED
  BY <1>1, <1>2, <1>3 DEF IInv

\* Opening a registered collection only takes a reference.
LEMMA OpenRegisteredStep ==
  ASSUME IInv, NEW t \in Threads, OpenRegistered(t)
  PROVE  IInv'
<1> USE RegistryAssumption DEF IInv, OpenRegistered, TypeOK, Directories, PCs
<1>1. TypeOK'
  BY DEF RegistryCurrent
<1>2. NumberInv' /\ LockFileInv' /\ WriterInv' /\ RegistryCurrent' /\ KeptReadable'
  BY DEF NumberInv, LockFileInv, WriterInv, RegistryCurrent, KeptReadable
<1>3. MutexInv' /\ CommitInv'
  BY DEF MutexInv, CommitInv
<1>4. HandleInv'
  BY DEF HandleInv, RegistryCurrent
<1> QED
  BY <1>1, <1>2, <1>3, <1>4

\* Opening a collection anew registers a handle on the directory at the path.
LEMMA OpenOrCreateStep ==
  ASSUME IInv, NEW t \in Threads, NEW h \in Handles, OpenOrCreate(t, h)
  PROVE  IInv'
<1> USE RegistryAssumption DEF IInv, OpenOrCreate, TypeOK, Directories, PCs
<1>1. /\ live' \in Directories \ {0} /\ made' \in Directories /\ live' <= made' /\ made <= made'
      /\ content' \in SUBSET Threads /\ kept' \in SUBSET Threads
  BY DEF OpenDirectory, CreateDirectory, NumberInv
<1>2. TypeOK'
  BY <1>1
<1>3. NumberInv' /\ LockFileInv'
  BY <1>1 DEF NumberInv, LockFileInv
<1>4. MutexInv' /\ CommitInv'
  BY DEF MutexInv, CommitInv
<1>5. HandleInv'
  BY <1>1 DEF HandleInv
<1>6. WriterInv' /\ KeptReadable'
  BY DEF OpenDirectory, CreateDirectory, WriterInv, KeptReadable
<1>7. RegistryCurrent'
  BY <1>1 DEF RegistryCurrent
<1> QED
  BY <1>2, <1>3, <1>4, <1>5, <1>6, <1>7

\* A write up to its commit opens at most one writer, at the path.
LEMMA WriteStep ==
  ASSUME IInv, NEW t \in Threads, LockDelta(t) \/ Read(t) \/ TakeWriter(t) \/ WriteFails(t)
  PROVE  IInv'
<1> USE RegistryAssumption
    DEF IInv, LockDelta, Read, TakeWriter, WriteFails, LockFileFree, TypeOK, Directories, PCs
<1>1. handle[t] \in Handles
  BY DEF HandleInv
<1>2. TypeOK'
  BY <1>1
<1>3. NumberInv' /\ LockFileInv'
  BY <1>1 DEF NumberInv, LockFileInv
<1>4. MutexInv' /\ HandleInv'
  BY DEF MutexInv, HandleInv
<1>5. CommitInv'
  BY <1>1 DEF CommitInv, HandleInv
<1>6. WriterInv' /\ KeptReadable' /\ RegistryCurrent'
  BY <1>1 DEF WriterInv, KeptReadable, RegistryCurrent
<1> QED
  BY <1>2, <1>3, <1>4, <1>5, <1>6

\* A commit adds its document to those its writer knows.
LEMMA CommitStep ==
  ASSUME IInv, NEW t \in Threads, Commit(t)
  PROVE  IInv'
<1> USE RegistryAssumption DEF IInv, Commit, Published, TypeOK, Directories, PCs
<1>1. handle[t] \in Handles
  BY DEF HandleInv
<1>2. TypeOK'
  BY <1>1
<1>3. NumberInv' /\ LockFileInv' /\ RegistryCurrent'
  BY DEF NumberInv, LockFileInv, RegistryCurrent
<1>4. MutexInv' /\ HandleInv'
  BY DEF MutexInv, HandleInv
<1>5. CommitInv'
  BY <1>1 DEF CommitInv, HandleInv
<1>6. ~orphaned => writer[handle[t]] = live /\ base[handle[t]] = content
  BY <1>1 DEF WriterInv, CommitInv
<1>7. WriterInv'
  BY <1>1, <1>6 DEF WriterInv, LockFileInv
<1>8. KeptReadable'
  BY <1>6 DEF KeptReadable
<1> QED
  BY <1>2, <1>3, <1>4, <1>5, <1>7, <1>8

\* The last reference takes an idle writer with it.
LEMMA ReturnStep ==
  ASSUME IInv, NEW t \in Threads, Return(t)
  PROVE  IInv'
<1> USE RegistryAssumption DEF IInv, Return, LastHolder, TypeOK, Directories, PCs
<1>1. handle[t] \in Handles
  BY DEF HandleInv
<1>2. TypeOK'
  BY <1>1
<1>3. NumberInv' /\ LockFileInv' /\ RegistryCurrent'
  BY DEF NumberInv, LockFileInv, RegistryCurrent
<1>4. MutexInv' /\ HandleInv'
  BY DEF MutexInv, HandleInv
<1>5. CommitInv'
  BY DEF CommitInv, HandleInv
<1>6. WriterInv' /\ KeptReadable'
  BY DEF WriterInv, KeptReadable
<1> QED
  BY <1>2, <1>3, <1>4, <1>5, <1>6

\* A drop gives up the registry's handle and its writer.
LEMMA EvictStep ==
  ASSUME IInv, NEW t \in Threads, Evict(t) \/ ReleaseWriter(t)
  PROVE  IInv'
<1> USE RegistryAssumption
    DEF IInv, Evict, HoldRegistry, ReleaseWriter, LastHolder, TypeOK, Directories, PCs
<1>1. pc[t] = "release" => handle[t] \in Handles
  BY DEF HandleInv
<1>2. TypeOK'
  BY <1>1 DEF RegistryCurrent
<1>3. NumberInv' /\ LockFileInv' /\ RegistryCurrent'
  BY DEF NumberInv, LockFileInv, RegistryCurrent, MutexInv
<1>4. MutexInv'
  BY DEF MutexInv
<1>5. HandleInv'
  BY DEF HandleInv, RegistryCurrent
<1>6. CommitInv'
  BY <1>1 DEF CommitInv, HandleInv
<1>7. WriterInv' /\ KeptReadable'
  BY DEF WriterInv, KeptReadable
<1> QED
  BY <1>2, <1>3, <1>4, <1>5, <1>6, <1>7

\* The rename leaves no directory, and no writer unless it was orphaned.
LEMMA RenameStep ==
  ASSUME IInv, NEW t \in Threads, Rename(t) \/ RenameFails(t)
  PROVE  IInv'
<1> USE RegistryAssumption
    DEF IInv, Rename, RenameFails, UnlockRegistry, TypeOK, Directories, PCs
<1>1. TypeOK'
  <2>1. orphaned' \in BOOLEAN
    BY Zenon
  <2> QED
    BY <2>1
<1>2. NumberInv' /\ LockFileInv'
  BY DEF NumberInv, LockFileInv
<1>3. MutexInv' /\ HandleInv' /\ CommitInv'
  BY DEF MutexInv, HandleInv, CommitInv
<1>4. WriterInv' /\ KeptReadable'
  BY DEF WriterInv, KeptReadable
<1>5. RegistryCurrent'
  BY DEF RegistryCurrent, MutexInv
<1> QED
  BY <1>1, <1>2, <1>3, <1>4, <1>5

\* A new process has no handle, no writer and no request.
LEMMA CrashStep == IInv /\ Crash => IInv'
<1> SUFFICES ASSUME IInv, Crash PROVE IInv'
  OBVIOUS
<1> USE RegistryAssumption DEF IInv, Crash, TypeOK, Directories, PCs
<1>1. TypeOK'
  OBVIOUS
<1>2. NumberInv' /\ MutexInv' /\ HandleInv' /\ CommitInv' /\ LockFileInv'
  BY DEF NumberInv, MutexInv, HandleInv, CommitInv, LockFileInv
<1>3. WriterInv' /\ RegistryCurrent' /\ KeptReadable'
  BY DEF WriterInv, RegistryCurrent, KeptReadable
<1> QED
  BY <1>1, <1>2, <1>3

\* The invariant is inductive.
LEMMA IInvStep == IInv /\ [Next]_vars => IInv'
<1> SUFFICES ASSUME IInv, [Next]_vars PROVE IInv'
  OBVIOUS
<1>1. CASE UNCHANGED vars
  BY <1>1
  DEF IInv, TypeOK, NumberInv, MutexInv, HandleInv, CommitInv, LockFileInv, WriterInv,
      RegistryCurrent, KeptReadable
<1>2. CASE Next
  BY <1>2, OpenRegisteredStep, OpenOrCreateStep, WriteStep, CommitStep, ReturnStep, EvictStep,
     RenameStep, CrashStep
  DEF Next, Step
<1> QED
  BY <1>1, <1>2

-----------------------------------------------------------------------------
(* Theorems *)

\* It holds in every state of the system.
THEOREM Invariance == Spec => []IInv
BY InitInv, IInvStep, PTL DEF Spec

\* Type correctness of the registry.
THEOREM TypeCorrect == Spec => []TypeOK
<1>1. IInv => TypeOK
  BY DEF IInv
<1> QED
  BY <1>1, Invariance, PTL

\* The registry never gives out a handle on a directory that was dropped.
THEOREM RegistryStaysCurrent == Spec => []RegistryCurrent
<1>1. IInv => RegistryCurrent
  BY DEF IInv
<1> QED
  BY <1>1, Invariance, PTL

\* Committed documents stay readable until a drop, unless a drop renamed the
\* directory under an open writer.
THEOREM KeptStaysReadable == Spec => []KeptReadable
<1>1. IInv => KeptReadable
  BY DEF IInv
<1> QED
  BY <1>1, Invariance, PTL
=============================================================================
