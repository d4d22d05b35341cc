\* Two requests at a time over one key, two datasets and three versions.
SPECIFICATION Spec
CONSTANTS
  t1 = t1  t2 = t2  d1 = d1  d2 = d2  v1 = v1  v2 = v2  v3 = v3
  k1 = k1  m1 = m1
  None = None
  Threads = {t1, t2}
  Datasets = {d1, d2}
  Ids = {v1, v2, v3}
  Keys = {k1}
  Members = {m1}
  MaxVersions = 3
SYMMETRY IdSymmetry
\* Requests stop when every id has been drawn.
CHECK_DEADLOCK FALSE
INVARIANTS ArtifactsFaithful DenseNumbers OneVersionPerKey ResultsFaithful
PROPERTIES ImplementsHistory
