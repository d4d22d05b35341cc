\* Two requests at a time on a report and a dashboard with up to three versions.
SPECIFICATION Spec
CONSTANTS
  t1 = t1  t2 = t2  r1 = r1  d1 = d1  x = x  y = y  a = a  b = b
  None = None
  Threads = {t1, t2}
  Reports = {r1}
  Dashboards = {d1}
  Titles = {x, y}
  Blocks = {a, b}
  Drafts <- SomeDrafts
  Updates <- SomeUpdates
  Patches <- SomePatches
  MaxVersions = 3
  MaxFiles = 1
SYMMETRY ThreadSymmetry
INVARIANTS ChangesKept HeadCurrent ShownWhole ExportsFaithful
PROPERTIES ImplementsLog
