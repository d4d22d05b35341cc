\* Two requests at a time: fetches and posts, two rows, two schemas.
SPECIFICATION Spec
CONSTANTS
  t1 = t1  t2 = t2  s1 = s1  s2 = s2  k1 = k1  k2 = k2  k3 = k3  k4 = k4
  None = None
  Threads = {t1, t2}
  Rows = {1, 2}
  Times = {1, 2}
  Shapes = {s1, s2}
  Keys = {k1, k2}
  PageSize = 1
  MaxPages = 2
SYMMETRY SyncSymmetry
\* Requests stop when every key is used.
CHECK_DEADLOCK FALSE
INVARIANTS CheckpointCovers OneSchemaStored
PROPERTIES CheckpointAdvances
