\* A cancellation commits between a claim and its final commit (PostgreSQL).
SPECIFICATION Spec
CONSTANTS
  w1 = w1  w2 = w2  api = api  c1 = c1  c2 = c2  u1 = u1  u2 = u2
  k1 = k1  refresh = refresh  export = export
  None = None
  API = api
  Workers = {w1}
  Clients = {c1}
  Users = {u1}
  Privileged = {}
  Keys = {}
  Requests = {refresh}
  Refreshes = {refresh}
  MaxJobs = 1
  MaxAttempts = 2
  MaxCrashes <- CrashNone
  RowLocking = TRUE
  PromptRestart = TRUE
PROPERTIES CancelledIsFinal
