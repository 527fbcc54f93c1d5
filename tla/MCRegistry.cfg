\* Two requests, up to three creations of the collection; no symmetry, since a
\* liveness property is checked.
CONSTANTS
  Threads = {t1, t2}
  Handles = {h1, h2}
  Nobody = Nobody
  NoHandle = NoHandle
  MaxDirectories = 3
SPECIFICATION FairSpec
INVARIANTS RegistryCurrent KeptReadable
PROPERTY RegistryReleased
