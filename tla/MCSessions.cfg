\* Three calls over three sessions, three documents shown up to two at a time.
CONSTANTS
  Threads = {t1, t2, t3}
  Ids = {i1, i2, i3}
  Docs = {d1, d2, d3}
  Collections = {c1, c2}
  Ttl = 2
  TopK = 2
  NoSession = NoSession
SPECIFICATION Spec
SYMMETRY Symmetry
INVARIANTS OnePlace NothingForgotten DropIsFinal
PROPERTY ExpiredNotResumed
