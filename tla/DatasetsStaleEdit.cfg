\* A recipe made from version 1 is applied after version 2 was published.
SPECIFICATION Spec
CONSTANTS
  t1 = t1  t2 = t2  d1 = d1  d2 = d2  v1 = v1  v2 = v2  v3 = v3
  k1 = k1  m1 = m1
  None = None
  Threads = {t1}
  Datasets = {d1}
  Ids = {v1, v2, v3}
  Keys = {}
  Members = {}
  MaxVersions = 3
\* Requests stop when every id has been drawn.
CHECK_DEADLOCK FALSE
PROPERTIES StaleEditsFail
