\* One worker on SQLite that may die twice; restarts take five minutes.
SPECIFICATION FairSpec
CONSTANTS
  w1 = w1  w2 = w2  api = api  c1 = c1  c2 = c2  u1 = u1  u2 = u2
  k1 = k1  refresh = refresh  export = export
  None = None
  API = api
  Workers = {w1}
  Clients = {c1}
  Users = {u1}
  Privileged = {}
  Keys = {k1}
  Requests = {refresh, export}
  Refreshes = {refresh}
  MaxJobs = 2
  MaxAttempts = 2
  MaxCrashes <- CrashWorkersTwice
  RowLocking = FALSE
  PromptRestart = FALSE
INVARIANTS AttemptsBounded
PROPERTIES EveryJobEnds
