\* The library's exclusion of a second writer, against the drop's rename.
CONSTANTS
  Threads = {t1, t2, t3}
  Handles = {h1, h2, h3}
  Nobody = Nobody
  NoHandle = NoHandle
  MaxDirectories = 2
SPECIFICATION Spec
SYMMETRY Symmetry
INVARIANT OneWriter
