\* Two workers on PostgreSQL; the API may die once; processes start at any time.
SPECIFICATION Spec
CONSTANTS
  w1 = w1  w2 = w2  api = api  c1 = c1  c2 = c2  u1 = u1  u2 = u2
  k1 = k1  refresh = refresh  export = export
  None = None
  API = api
  Workers = {w1, w2}
  Clients = {c1}
  Users = {u1}
  Privileged = {}
  Keys = {}
  Requests = {refresh}
  Refreshes = {refresh}
  MaxJobs = 2
  MaxAttempts = 2
  MaxCrashes <- CrashApi
  RowLocking = TRUE
  PromptRestart = TRUE
SYMMETRY WorkerSymmetry
INVARIANTS TypeOK AttemptFencing ResultBacked
PROPERTIES NoAttemptAfterCancel AuthorizedPublication ImplementsLedger
