\* One synchronisation at a time among clients that write and files that change.
CONSTANTS
  c1 = c1
  big = big
  p1 = p1
  p2 = p2
  s1 = s1
  s2 = s2
  Docs = {1, 2, 3}
  Contents = {c1, big}
  Oversized = {big}
  Sources = {s1, s2}
  Profiles = {p1, p2}
  Requests = {}
  MaxBatchDocs = 1
  NoSource = NoSource
  NoHash = NoHash
  Absent = Absent
  Torn = Torn
  Calls <- MCCalls
  Enabled = TRUE
  AllowedRoots = {"notes"}
  FollowSymlinks = TRUE
  MaxFiles = 2
  PageLimit = 1
  MaxEdits = 1
  InitialDocs <- MCInitialDocs
  InitialFiles <- MCInitialFiles
  Broken = Broken
  Escaping = Escaping
  Unmatched = Unmatched
SPECIFICATION Spec
INVARIANTS Mirrored DryRunTells
PROPERTIES FilesSurvive CallEnds
