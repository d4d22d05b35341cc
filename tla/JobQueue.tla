------------------------------ MODULE JobQueue ------------------------------
(***************************************************************************)
(* The durable job queue of services/api/baseera/jobs.py, as it is used by *)
(* the request threads of the API (main.py) and by the worker processes    *)
(* (worker.py).  The only shared state is the database; every actor works  *)
(* on a copy of the row it SELECTed earlier (sessions are built with       *)
(* expire_on_commit=False and no version column), and a commit writes back *)
(* only the columns the actor assigned.  So an action that ends a          *)
(* read-then-commit sequence decides from the copy and writes to the row   *)
(* as it is by then.                                                       *)
(*                                                                         *)
(* Columns no decision reads (error, progress, started_at, finished_at,    *)
(* timestamps) are left out; heartbeat_at is kept as "none", "fresh" or    *)
(* "stale" (older than the five minutes of recover_interrupted_jobs).      *)
(***************************************************************************)
EXTENDS Naturals

CONSTANTS
  Workers,        \* worker processes
  API,            \* the API process
  Clients,        \* request threads of the API process
  Users,          \* job owners
  Privileged,     \* users whose role may cancel anybody's job
  Keys,           \* values of the Idempotency-Key header
  Requests,       \* (kind, payload) pairs create_job accepts
  Refreshes,      \* those _refresh_metric can compute
  None,           \* SQL NULL
  MaxJobs,        \* bound: rows of the jobs table
  MaxAttempts,    \* Job.max_attempts
  MaxCrashes,     \* bound: deaths of each process
  RowLocking,     \* TRUE on PostgreSQL, FALSE on SQLite
  PromptRestart   \* TRUE if a dead process may restart within five minutes

ASSUME QueueAssumption ==
  /\ API \notin Workers
  /\ Privileged \subseteq Users /\ Refreshes \subseteq Requests
  /\ None \notin Users \cup Keys \cup Requests \cup (Users \X Requests)
  /\ MaxJobs \in Nat /\ MaxAttempts \in Nat \ {0}
  /\ MaxCrashes \in [Workers \cup {API} -> Nat]
  /\ None \notin 1..MaxJobs
  /\ RowLocking \in BOOLEAN /\ PromptRestart \in BOOLEAN

VARIABLES
  jobs,     \* the jobs table
  results,  \* ids of the rows of metric_results that jobs published
  access,   \* each user's membership: may write artifacts, or not (any more)
  up,       \* life-cycle phase of each process
  plan,     \* what a recovering process will write for each job
  exec,     \* what each worker holds in its session
  client,   \* what each request thread holds in its session
  crashes   \* deaths of each process so far

vars == <<jobs, results, access, up, plan, exec, client, crashes>>

-----------------------------------------------------------------------------
Processes == Workers \cup {API}
JobIds    == 1..MaxJobs
Terminal  == {"completed", "failed", "cancelled"}

\* A metric result is identified by a hash of its owner, scope and value.
Results == Users \X Requests

Row == [status    : {"absent", "queued", "running"} \cup Terminal,
        attempt   : Nat,
        cancel    : BOOLEAN,
        heartbeat : {"none", "fresh", "stale"},
        result    : Results \cup {None},
        user      : Users \cup {None},
        key       : Keys \cup {None},
        request   : Requests \cup {None}]

NoRow == [status |-> "absent", attempt |-> 0, cancel |-> FALSE,
          heartbeat |-> "none", result |-> None,
          user |-> None, key |-> None, request |-> None]

ResultOf(j) == <<jobs[j].user, jobs[j].request>>

\* A worker's session.  "cleared" is a history variable: the owner's access
\* was sufficient at some moment since this attempt was claimed.
Execution == [pc      : {"idle", "claiming", "dropping", "claimed", "refreshed"},
              job     : JobIds \cup {None},
              attempt : Nat,
              loaded  : Results \cup {None},
              outcome : {"none", "insert", "found", "failed"},
              cleared : BOOLEAN]

Idle == [pc |-> "idle", job |-> None, attempt |-> 0, loaded |-> None,
         outcome |-> "none", cleared |-> FALSE]

Session == [pc      : {"idle", "inserting", "cancelling"},
            user    : Users \cup {None},
            key     : Keys \cup {None},
            request : Requests \cup {None},
            job     : JobIds \cup {None},
            queued  : BOOLEAN]

NoRequest == [pc |-> "idle", user |-> None, key |-> None, request |-> None,
              job |-> None, queued |-> FALSE]

Verdicts == {"skip", "cancelled", "queued", "failed"}
NoPlan   == [j \in JobIds |-> "skip"]

Executing(w, j) == exec[w].job = j /\ exec[w].pc \in {"claimed", "refreshed"}

TypeOK ==
  /\ jobs \in [JobIds -> Row]
  /\ results \subseteq Results
  /\ access \in [Users -> {"writer", "reader"}]
  /\ up \in [Processes -> {"down", "recovering", "up"}]
  /\ plan \in [Processes -> [JobIds -> Verdicts]]
  /\ exec \in [Workers -> Execution]
  /\ client \in [Clients -> Session]
  /\ crashes \in [Processes -> Nat]

Init ==
  /\ jobs = [j \in JobIds |-> NoRow]
  /\ results = {}
  /\ access = [u \in Users |-> "writer"]
  /\ up = [p \in Processes |-> "down"]
  /\ plan = [p \in Processes |-> NoPlan]
  /\ exec = [w \in Workers |-> Idle]
  /\ client = [c \in Clients |-> NoRequest]
  /\ crashes = [p \in Processes |-> 0]

-----------------------------------------------------------------------------
(* Request threads: create_job and cancel_job.                             *)

\* get_auth_context and require_csrf: an active membership that may write.
SignedIn(u) == up[API] = "up" /\ access[u] = "writer"

\* The SELECT of create_job finds no job under the key.  (When it finds one
\* the handler answers with it, or with 409, and writes nothing.)
SubmitLookup(c, u, k, r) ==
  /\ client[c].pc = "idle" /\ SignedIn(u)
  /\ k # None => \A j \in JobIds : <<jobs[j].user, jobs[j].key>> # <<u, k>>
  /\ client' = [client EXCEPT ![c] = [NoRequest EXCEPT
                  !.pc = "inserting", !.user = u, !.key = k, !.request = r]]
  /\ UNCHANGED <<jobs, results, access, up, plan, exec, crashes>>

\* The INSERT and commit of create_job; rows get ids in created_at order.
SubmitInsert(c) ==
  /\ client[c].pc = "inserting"
  /\ \E j \in JobIds :
       /\ jobs[j].status = "absent"
       /\ \A i \in 1..(j - 1) : jobs[i].status # "absent"
       /\ jobs' = [jobs EXCEPT ![j] = [NoRow EXCEPT
                     !.status = "queued", !.user = client[c].user,
                     !.key = client[c].key, !.request = client[c].request]]
  /\ client' = [client EXCEPT ![c] = NoRequest]
  /\ UNCHANGED <<results, access, up, plan, exec, crashes>>

\* cancel_job_endpoint loads the row; a terminal job is returned as it is.
CancelRead(c, u, j) ==
  /\ client[c].pc = "idle" /\ SignedIn(u)
  /\ u \in Privileged \cup {jobs[j].user}
  /\ jobs[j].status \in {"queued", "running"}
  /\ client' = [client EXCEPT ![c] = [NoRequest EXCEPT
                  !.pc = "cancelling", !.job = j,
                  !.queued = (jobs[j].status = "queued")]]
  /\ UNCHANGED <<jobs, results, access, up, plan, exec, crashes>>

\* The commit of cancel_job.
CancelWrite(c) ==
  /\ client[c].pc = "cancelling"
  /\ LET j == client[c].job IN
       jobs' = [jobs EXCEPT ![j] = [jobs[j] EXCEPT
                  !.cancel = TRUE,
                  !.status = IF client[c].queued THEN "cancelled" ELSE @]]
  /\ client' = [client EXCEPT ![c] = NoRequest]
  /\ UNCHANGED <<results, access, up, plan, exec, crashes>>

-----------------------------------------------------------------------------
(* Worker processes: claim_next_job and execute_job.                       *)

\* An UPDATE of row j by somebody else may hold its lock right now.
Updating(j) ==
  \/ \E c \in Clients : client[c].pc = "cancelling" /\ client[c].job = j
  \/ \E p \in Processes : plan[p][j] # "skip"

\* Oldest queued row first; SKIP LOCKED passes over the locked ones.
NextQueued(j) ==
  /\ jobs[j].status = "queued"
  /\ \A i \in 1..(j - 1) :
       jobs[i].status = "queued" => RowLocking /\ Updating(i)

Free(w) == up[w] = "up" /\ exec[w].pc = "idle"

\* Mutant of Begin: job.attempt is not advanced.
UncountedBegin(w, j, n) ==
  /\ jobs' = [jobs EXCEPT ![j] = [jobs[j] EXCEPT
                !.status = "running", !.heartbeat = "fresh"]]
  /\ exec' = [exec EXCEPT ![w] = [pc |-> "claimed", job |-> j, attempt |-> n,
                loaded |-> jobs[j].result, outcome |-> "none",
                cleared |-> access[jobs[j].user] = "writer"]]

\* The writes of a claim, by worker w on job j, from attempt count n.
Begin(w, j, n) ==
  /\ jobs' = [jobs EXCEPT ![j] = [jobs[j] EXCEPT
                !.status = "running", !.attempt = n + 1, !.heartbeat = "fresh"]]
  /\ exec' = [exec EXCEPT ![w] = [pc |-> "claimed", job |-> j,
                attempt |-> n + 1, loaded |-> jobs[j].result, outcome |-> "none",
                cleared |-> access[jobs[j].user] = "writer"]]

Drop(j) == jobs' = [jobs EXCEPT ![j].status = "cancelled"]

\* Mutant of Claim: cancellation_requested is not tested.
UncheckedClaim(w, j) ==
  /\ RowLocking /\ Free(w) /\ NextQueued(j)
  /\ Begin(w, j, jobs[j].attempt)
  /\ UNCHANGED <<results, access, up, plan, client, crashes>>

\* PostgreSQL: FOR UPDATE holds the row from the SELECT to the commit.
Claim(w, j) ==
  /\ RowLocking /\ Free(w) /\ NextQueued(j)
  /\ IF jobs[j].cancel THEN Drop(j) /\ UNCHANGED exec
                       ELSE Begin(w, j, jobs[j].attempt)
  /\ UNCHANGED <<results, access, up, plan, client, crashes>>

\* SQLite: the SELECT holds nothing, the commit writes what it decided.
ClaimRead(w, j) ==
  /\ ~RowLocking /\ Free(w) /\ NextQueued(j)
  /\ exec' = [exec EXCEPT ![w] = [Idle EXCEPT
                !.pc = IF jobs[j].cancel THEN "dropping" ELSE "claiming",
                !.job = j, !.attempt = jobs[j].attempt]]
  /\ UNCHANGED <<jobs, results, access, up, plan, client, crashes>>

ClaimWrite(w) ==
  LET j == exec[w].job IN
  /\ \/ exec[w].pc = "claiming" /\ Begin(w, j, exec[w].attempt)
     \/ exec[w].pc = "dropping" /\ Drop(j) /\ exec' = [exec EXCEPT ![w] = Idle]
  /\ UNCHANGED <<results, access, up, plan, client, crashes>>

\* Mutant of Refresh: the owner's membership is not looked up again.
TrustingRefresh(w) ==
  LET j == exec[w].job IN
  /\ exec[w].pc = "claimed"
  /\ exec' = [exec EXCEPT ![w] = [exec[w] EXCEPT !.pc = "refreshed", !.outcome =
          IF jobs[j].request \notin Refreshes THEN "failed"
          ELSE IF ResultOf(j) \in results THEN "found" ELSE "insert"]]
  /\ UNCHANGED <<jobs, results, access, up, plan, client, crashes>>

\* execute_job up to its commit.  Its cancellation test reads the copy the
\* claim loaded, where the flag is still unset, so it never fires.
Refresh(w) ==
  LET j == exec[w].job IN
  /\ exec[w].pc = "claimed"
  /\ exec' = [exec EXCEPT ![w] = [exec[w] EXCEPT !.pc = "refreshed", !.outcome =
          IF access[jobs[j].user] # "writer" \/ jobs[j].request \notin Refreshes
          THEN "failed"
          ELSE IF ResultOf(j) \in results THEN "found" ELSE "insert"]]
  /\ UNCHANGED <<jobs, results, access, up, plan, client, crashes>>

\* Mutant of FinishFailed: the reference of the abandoned result is kept.
ReferringFinish(w) ==
  LET j == exec[w].job IN
  /\ exec[w].pc = "refreshed" /\ exec[w].outcome = "failed"
  /\ jobs' = [jobs EXCEPT ![j] = [jobs[j] EXCEPT
                !.status = "failed", !.heartbeat = "fresh", !.result = ResultOf(j)]]
  /\ exec' = [exec EXCEPT ![w] = Idle]
  /\ UNCHANGED <<results, access, up, plan, client, crashes>>

\* The final commit of a failed execution: result_ref = None is written only
\* if the loaded copy held a result.
FinishFailed(w) ==
  LET j == exec[w].job IN
  /\ exec[w].pc = "refreshed" /\ exec[w].outcome = "failed"
  /\ jobs' = [jobs EXCEPT ![j] = [jobs[j] EXCEPT
                !.status = "failed", !.heartbeat = "fresh",
                !.result = IF exec[w].loaded = None THEN @ ELSE None]]
  /\ exec' = [exec EXCEPT ![w] = Idle]
  /\ UNCHANGED <<results, access, up, plan, client, crashes>>

\* The final commit of a successful one: the metric result and the job row
\* in one transaction; result_ref is written only if it differs from the copy.
FinishCompleted(w) ==
  LET j == exec[w].job IN
  /\ exec[w].pc = "refreshed"
  /\ \/ exec[w].outcome = "found"
     \/ exec[w].outcome = "insert" /\ ResultOf(j) \notin results
  /\ results' = results \cup {ResultOf(j)}
  /\ jobs' = [jobs EXCEPT ![j] = [jobs[j] EXCEPT
                !.status = "completed", !.heartbeat = "fresh",
                !.result = IF exec[w].loaded = ResultOf(j) THEN @ ELSE ResultOf(j)]]
  /\ exec' = [exec EXCEPT ![w] = Idle]
  /\ UNCHANGED <<access, up, plan, client, crashes>>

Die(w) ==
  /\ exec' = [exec EXCEPT ![w] = Idle]
  /\ plan' = [plan EXCEPT ![w] = NoPlan]
  /\ up' = [up EXCEPT ![w] = "down"]

\* Somebody else inserted the result meanwhile: the unique key fails the
\* commit, nothing catches the IntegrityError, the worker process ends.
FinishConflict(w) ==
  /\ exec[w].pc = "refreshed" /\ exec[w].outcome = "insert"
  /\ ResultOf(exec[w].job) \in results
  /\ Die(w)
  /\ UNCHANGED <<jobs, results, access, client, crashes>>

-----------------------------------------------------------------------------
(* Process life cycle: start-up recovery, crashes, and the environment.    *)

Interrupted(j) == jobs[j].status = "running" /\ jobs[j].heartbeat # "fresh"

\* Mutants of Verdict: the interrupted job is left running; one attempt too
\* many is allowed; a job at the limit is left as it is.
ResumingVerdict(j) == IF Interrupted(j) THEN "running" ELSE "skip"

OffByOneVerdict(j) == IF ~Interrupted(j) THEN "skip"
                      ELSE IF jobs[j].cancel THEN "cancelled"
                      ELSE IF jobs[j].attempt <= MaxAttempts THEN "queued" ELSE "failed"

ForgetfulVerdict(j) == IF ~Interrupted(j) \/ jobs[j].attempt = MaxAttempts THEN "skip"
                       ELSE IF jobs[j].cancel THEN "cancelled" ELSE "queued"

Verdict(j) == IF ~Interrupted(j) THEN "skip"
              ELSE IF jobs[j].cancel THEN "cancelled"
              ELSE IF jobs[j].attempt < MaxAttempts THEN "queued" ELSE "failed"

\* A process starts; recover_interrupted_jobs SELECTs the stale running jobs.
RecoverRead(p) ==
  /\ up[p] = "down"
  /\ PromptRestart \/ \A j \in JobIds : jobs[j].status = "running" => Interrupted(j)
  /\ up' = [up EXCEPT ![p] = "recovering"]
  /\ plan' = [plan EXCEPT ![p] = [j \in JobIds |-> Verdict(j)]]
  /\ UNCHANGED <<jobs, results, access, exec, client, crashes>>

\* Mutant of RecoverWrite: the attempt count starts again.
RenumberingRecovery(p) ==
  /\ up[p] = "recovering"
  /\ jobs' = [j \in JobIds |->
                IF plan[p][j] = "skip" THEN jobs[j]
                ELSE [jobs[j] EXCEPT !.status = plan[p][j], !.attempt = 0, !.heartbeat = "none"]]
  /\ up' = [up EXCEPT ![p] = "up"]
  /\ plan' = [plan EXCEPT ![p] = NoPlan]
  /\ UNCHANGED <<results, access, exec, client, crashes>>

\* Its commit writes every loaded row; then the process serves or polls.
RecoverWrite(p) ==
  /\ up[p] = "recovering"
  /\ jobs' = [j \in JobIds |->
                IF plan[p][j] = "skip" THEN jobs[j]
                ELSE [jobs[j] EXCEPT !.status = plan[p][j], !.heartbeat = "none"]]
  /\ up' = [up EXCEPT ![p] = "up"]
  /\ plan' = [plan EXCEPT ![p] = NoPlan]
  /\ UNCHANGED <<results, access, exec, client, crashes>>

WorkerCrash(w) ==
  /\ up[w] # "down" /\ crashes[w] < MaxCrashes[w]
  /\ Die(w)
  /\ crashes' = [crashes EXCEPT ![w] = @ + 1]
  /\ UNCHANGED <<jobs, results, access, client>>

ApiCrash ==
  /\ up[API] # "down" /\ crashes[API] < MaxCrashes[API]
  /\ up' = [up EXCEPT ![API] = "down"]
  /\ plan' = [plan EXCEPT ![API] = NoPlan]
  /\ client' = [c \in Clients |-> NoRequest]
  /\ crashes' = [crashes EXCEPT ![API] = @ + 1]
  /\ UNCHANGED <<jobs, results, access, exec>>

\* Five minutes pass since heartbeat_at; nothing renews it during a run.
HeartbeatAges(j) ==
  /\ jobs[j].status = "running" /\ jobs[j].heartbeat = "fresh"
  /\ jobs' = [jobs EXCEPT ![j].heartbeat = "stale"]
  /\ UNCHANGED <<results, access, up, plan, exec, client, crashes>>

\* Memberships are edited outside this code.
ChangeAccess(u, a) ==
  /\ access[u] # a
  /\ access' = [access EXCEPT ![u] = a]
  /\ exec' = [w \in Workers |->
       IF exec[w].pc = "claimed" /\ jobs[exec[w].job].user = u /\ a = "writer"
       THEN [exec[w] EXCEPT !.cleared = TRUE] ELSE exec[w]]
  /\ UNCHANGED <<jobs, results, up, plan, client, crashes>>

-----------------------------------------------------------------------------
WorkerStep(w) ==
  \/ \E j \in JobIds : Claim(w, j) \/ ClaimRead(w, j)
  \/ ClaimWrite(w) \/ Refresh(w)
  \/ FinishFailed(w) \/ FinishCompleted(w) \/ FinishConflict(w)

ClientStep(c) ==
  \/ \E u \in Users, k \in Keys \cup {None}, r \in Requests : SubmitLookup(c, u, k, r)
  \/ \E u \in Users, j \in JobIds : CancelRead(c, u, j)
  \/ SubmitInsert(c) \/ CancelWrite(c)

Next ==
  \/ \E w \in Workers : WorkerStep(w) \/ WorkerCrash(w)
  \/ \E c \in Clients : ClientStep(c)
  \/ \E p \in Processes : RecoverRead(p) \/ RecoverWrite(p)
  \/ ApiCrash
  \/ \E j \in JobIds : HeartbeatAges(j)
  \/ \E u \in Users, a \in {"writer", "reader"} : ChangeAccess(u, a)

Spec == Init /\ [][Next]_vars

\* The supervisor restarts processes, workers poll and finish what they hold,
\* request threads finish, and time passes.  Nobody is obliged to submit.
Fairness ==
  /\ \A w \in Workers : WF_vars(WorkerStep(w))
  /\ \A p \in Processes : WF_vars(RecoverRead(p)) /\ WF_vars(RecoverWrite(p))
  /\ \A c \in Clients : WF_vars(SubmitInsert(c) \/ CancelWrite(c))
  /\ \A j \in JobIds : WF_vars(HeartbeatAges(j))

FairSpec == Spec /\ Fairness

-----------------------------------------------------------------------------
(* Properties.                                                             *)

\* Fencing: two workers that execute the same job (recovery can requeue a job
\* whose worker is slow, not dead) hold different attempt numbers, so every
\* attempt claim_next_job hands out is performed by one worker.
AttemptFencing ==
  \A w1, w2 \in Workers, j \in JobIds :
    w1 # w2 /\ Executing(w1, j) /\ Executing(w2, j)
      => exec[w1].attempt # exec[w2].attempt

\* Once cancellation_requested is stored, no further attempt of the job ever
\* begins: not by a claim, a retry, or a stale recovery that requeues it.
NoAttemptAfterCancel ==
  [][\A j \in JobIds : jobs[j].cancel => jobs'[j].attempt = jobs[j].attempt]_vars

\* A result_ref always names a stored metric result of the job's own owner
\* and request, whatever recoveries and double executions happened.
ResultBacked ==
  \A j \in JobIds :
    jobs[j].result # None => jobs[j].result \in results /\ jobs[j].result = ResultOf(j)

\* A metric result appears only through an execution during which its owner
\* was, at some moment, allowed to compute it: permission at submission, or in
\* an earlier attempt, does not count.
AuthorizedPublication ==
  [][\A r \in results' \ results :
       \E w \in Workers : exec[w].cleared /\ ResultOf(exec[w].job) = r]_vars

\* Retries are bounded by max_attempts, however often the worker dies.
AttemptsBounded == \A j \in JobIds : jobs[j].attempt <= MaxAttempts

\* A job whose cancellation was recorded as done stays cancelled.
CancelledIsFinal ==
  [][\A j \in JobIds : jobs[j].status = "cancelled" => jobs'[j].status = "cancelled"]_vars

\* Every accepted job reaches a terminal state.
EveryJobEnds ==
  \A j \in JobIds : jobs[j].status \in {"queued", "running"} ~> jobs[j].status \in Terminal

-----------------------------------------------------------------------------
(* The queue implements the ledger of module JobLedger.                    *)

Busy == {w \in Workers : exec[w].pc \in {"claimed", "refreshed"}}

OpenAttempts == {<<exec[w].job, exec[w].attempt>> : w \in Busy}

Wanted(j) == IF jobs[j].status = "absent" THEN None ELSE ResultOf(j)

Ledger == INSTANCE JobLedger WITH
  Jobs      <- JobIds,
  names     <- [j \in JobIds |-> Wanted(j)],
  attempt   <- [j \in JobIds |-> jobs[j].attempt],
  cancel    <- [j \in JobIds |-> jobs[j].cancel],
  open      <- OpenAttempts,
  published <- results

\* Every step of API threads, workers and recoveries is a step of the ledger:
\* no attempt is handed out twice or after a cancellation, and a result is
\* published only by an attempt that is still open.
ImplementsLedger == Ledger!Spec
=============================================================================
