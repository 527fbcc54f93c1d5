----------------------------- MODULE MCMsaIndex ------------------------------
(***************************************************************************)
(* MsaIndex for TLC: two documents, two sources, requests chosen so that   *)
(* they compete for the same documents.                                    *)
(***************************************************************************)
EXTENDS MsaIndex, TLC

CONSTANTS d1, d2, a, big, s1, s2, p1, p2

Delta(ups, dels, skip, scope, guarded, prof) ==
  [op |-> "delta", ups |-> ups, dels |-> dels, skip |-> skip,
   scope |-> scope, guarded |-> guarded, profile |-> prof]

Up(d, c) == [doc |-> d, content |-> c]

Plain(op, ups, dels) ==
  [op |-> op, ups |-> ups, dels |-> dels, skip |-> FALSE,
   scope |-> NoSource, guarded |-> FALSE, profile |-> NoHash]

\* A synchronising client of each source, one of them guarded by the digest of
\* its scope; an unscoped guarded batch; a batch that names a document twice;
\* an oversized document; a profile precondition; the single-document tools.
AllRequests ==
  { Delta(<<Up(d1, a), Up(d2, big)>>, {}, TRUE, s1, TRUE, NoHash),
    Delta(<<Up(d1, a)>>, {d2}, TRUE, s2, FALSE, NoHash),
    Delta(<<Up(d2, a)>>, {d1}, FALSE, NoSource, TRUE, p1),
    Plain("index", <<Up(d1, a)>>, {}),
    Plain("delete", <<>>, {d2}),
    Delta(<<Up(d1, a), Up(d1, big)>>, {}, TRUE, s1, FALSE, NoHash),
    Delta(<<Up(d1, a)>>, {d1}, TRUE, s1, FALSE, NoHash) }

ThreadSymmetry == Permutations(Threads)
=============================================================================
