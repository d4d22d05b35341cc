SPECIFICATION Spec
CONSTANTS
  Calls = {"a1", "a2", "b1"}
  TabOf <- MCTabOf
  Ending = {"b1"}
  MaxSessions = 2
  MaxOpen = 2
  MaxWork = 4
  Clients = {"c"}
  Paths = {"query", "login"}
  LoginLimit = 1
  ApiLimit = 2
  ExpensiveCap = 1
  Window = 2
  MaxBuckets = 1
  MaxTicks = 8
  Requests = {"r1", "r2"}
  KeyIds = {"k1", "k2"}
  Values = {"v", "w"}
  MaxRows = 2
  MaxRestarts = 1
  Questions = {"q1", "q2"}
  Users = {"u", "w"}
  Departments = {"sales"}
  Uploads = {"file"}
  UploadedBy <- MCUploadedBy
  MaxChanges = 1
  MaxFacts = 1
  Objects = {1, 2, 3}
  MaxRuns = 3
INVARIANTS
  CallsOnce
  LogoutFinal
  LimitsHonoured
  CredentialsConfirmed
  AnswersAuthorized
  QuestionsSettle
  RestoresWhole
PROPERTIES
  CallsEnd
\* The calls, questions, clock and script runs of a behaviour are bounded.
CHECK_DEADLOCK FALSE
