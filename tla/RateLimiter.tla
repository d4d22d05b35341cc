------------------------------ MODULE RateLimiter ------------------------------
(***************************************************************************)
(* The fixed-window request limiter of the HTTP middleware (main.py,       *)
(* create_app).  Its lock makes the decision one step; the clock           *)
(* (time.monotonic) moves by halves of a second between requests, while    *)
(* windows and the Retry-After header are whole seconds.                   *)
(***************************************************************************)
EXTENDS FiniteSetsExt, Integers

CONSTANTS
  Clients,      \* client hosts
  Paths,        \* request paths: "login", "query" (an expensive one), "read"
  LoginLimit,   \* login_rate_limit
  ApiLimit,     \* api_rate_limit
  ExpensiveCap, \* the cap on the expensive paths, 12 in the code
  Window,       \* rate_limit_window_seconds
  MaxBuckets,   \* the table size above which it is pruned, 10000 in the code
  MaxTicks      \* bound on the clock, in half seconds

ASSUME LimiterAssumption ==
  /\ Window \in Nat \ {0} /\ LoginLimit \in Nat \ {0}
  /\ ApiLimit \in Nat \ {0} /\ ExpensiveCap \in Nat \ {0}

VARIABLES
  clock,    \* half seconds
  buckets,  \* rate_buckets: (client, bucket) -> [started, count]
  passed,   \* the requests let through: <<key, when, the how manieth at that time>>
  told      \* the last refusal of each key: [started, until]

limiterVars == <<clock, buckets, passed, told>>

Ticks(seconds) == 2 * seconds
BucketOf(path) == CASE path = "login" -> "login" [] path = "query" -> "expensive" [] OTHER -> "api"
Keys == Clients \X {BucketOf(p) : p \in Paths}

Limit(bucket) ==
  CASE bucket = "login" -> LoginLimit
    [] bucket = "expensive" -> Min({ApiLimit, ExpensiveCap})
    [] OTHER -> ApiLimit

Expired(started) == clock - started >= Ticks(Window)

\* What is kept of an overfull table: all but the buckets whose window is over.
LatestKept(table, key) == [k \in {key} |-> table[k]]
Pruned(table, key) == [k \in {k \in DOMAIN table : ~Expired(table[k].started)} |-> table[k]]

\* Seconds, rounded up, until the window that began at `started` ends.
RetryAfter(started) == Max({1, (Ticks(Window) - (clock - started) + 1) \div 2})

-----------------------------------------------------------------------------
LimiterInit == clock = 0 /\ buckets = <<>> /\ passed = {} /\ told = <<>>

Handle(client, path) ==
  LET key == <<client, BucketOf(path)>>
      found == IF key \in DOMAIN buckets THEN buckets[key] ELSE [started |-> clock, count |-> 0]
      current == IF Expired(found.started) THEN [started |-> clock, count |-> 0] ELSE found
      limited == current.count >= Limit(key[2])
      stored == [k \in DOMAIN buckets \cup {key} |->
                   IF k # key THEN buckets[k]
                   ELSE [current EXCEPT !.count = @ + (IF limited THEN 0 ELSE 1)]]
  IN /\ buckets' = IF Cardinality(DOMAIN stored) > MaxBuckets THEN Pruned(stored, key) ELSE stored
     /\ IF limited
        THEN /\ told' = [k \in DOMAIN told \cup {key} |->
                           IF k # key THEN told[k]
                           ELSE [started |-> current.started,
                                 until |-> clock + Ticks(RetryAfter(current.started))]]
             /\ UNCHANGED passed
        ELSE /\ passed' = passed \cup
                  {<<key, clock, Cardinality({p \in passed : p[1] = key /\ p[2] = clock}) + 1>>}
             /\ UNCHANGED told
     /\ UNCHANGED clock

Tick == clock < MaxTicks /\ clock' = clock + 1 /\ UNCHANGED <<buckets, passed, told>>

LimiterNext == Tick \/ \E client \in Clients, path \in Paths : Handle(client, path)

-----------------------------------------------------------------------------
(* What a client and an operator may count on.  In any stretch of one      *)
(* window's length at most twice the limit passes (a fixed window lets a   *)
(* burst end one window and another begin the next, never a third), and a  *)
(* client that waits out its Retry-After finds a window that is over,      *)
(* unless a request of its own key opened another one meanwhile.           *)
PassedIn(key, from) ==
  {p \in passed : p[1] = key /\ from <= p[2] /\ p[2] < from + Ticks(Window)}

LimitsHonoured ==
  \A key \in Keys :
    /\ \A from \in 0..clock : Cardinality(PassedIn(key, from)) <= 2 * Limit(key[2])
    /\ key \in DOMAIN told /\ clock >= told[key].until =>
         \/ key \notin DOMAIN buckets
         \/ buckets[key].started # told[key].started
         \/ Expired(buckets[key].started)
=============================================================================
