------------------------------ MODULE MCSyncPath ------------------------------
(***************************************************************************)
(* SyncPath for TLC: three documents of two sources, pages of one entry    *)
(* and batches of one document; the stored documents may be of an older    *)
(* index profile, or too large for its fingerprint to be found.            *)
(***************************************************************************)
EXTENDS SyncPath

CONSTANTS c1, big, p1, p2, s1, s2

FP(c, p, s) == [content |-> c, profile |-> p, source |-> s]

MCInitialDocs == {Absent, FP(c1, p1, s1), FP(c1, p1, s2), FP(big, p1, s1)}

MCInitialFiles == {Absent, c1, big, Escaping}

MCCall(s, dry) ==
  [root |-> "notes", source |-> s, prune |-> s # NoSource, dry |-> dry, follow |-> ~dry]

MCCalls == {MCCall(s1, FALSE), MCCall(s1, TRUE), MCCall(NoSource, FALSE)}
=============================================================================
