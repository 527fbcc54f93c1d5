\* The scope protection of delta.rs without the exception for long documents.
CONSTANTS
  d1 = d1
  d2 = d2
  a = a
  big = big
  s1 = s1
  s2 = s2
  p1 = p1
  p2 = p2
  Docs = {d1, d2}
  Contents = {a, big}
  Oversized = {big}
  Sources = {s1, s2}
  Profiles = {p1, p2}
  Requests <- AllRequests
  MaxBatchDocs = 2
  NoSource = NoSource
  NoHash = NoHash
  Absent = Absent
  Torn = Torn
  Threads = {t1, t2}
  Nobody = Nobody
  NoRequest = NoRequest
  Keep = Keep
SPECIFICATION Spec
SYMMETRY ThreadSymmetry

PROPERTY ScopeNeverCrossed
