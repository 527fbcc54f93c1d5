\* Two calls over three memories listed two at a time.
CONSTANTS
  Docs = {1, 2, 3}
  Contents = {a, long}
  Oversized = {long}
  Sources = {s1, s2}
  Profiles = {plain}
  Requests = {}
  MaxBatchDocs = 2
  NoSource = NoSource
  NoHash = NoHash
  Absent = Absent
  Torn = Torn
  Threads = {t1, t2}
  Unembedded = plain
  LowSignal = {long}
  PageLimit = 2
  NoDoc = NoDoc
SPECIFICATION Spec
SYMMETRY Symmetry
INVARIANTS NoSecondCopy
PROPERTY ForgetsItsSource
