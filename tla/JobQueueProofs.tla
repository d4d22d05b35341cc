--------------------------- MODULE JobQueueProofs ----------------------------
(***************************************************************************)
(* Safety of JobQueue for every number of workers, threads, jobs, attempts *)
(* and crashes; and what FOR UPDATE SKIP LOCKED buys (RowLocking, that is  *)
(* PostgreSQL): one worker per attempt, no attempt after a stored          *)
(* cancellation, and with them the refinement of the job ledger.  These    *)
(* three fail without it.  The bound on attempts needs a single worker and *)
(* an API that stays up, as TLC's instance has: a recovery decides from a  *)
(* copy of the rows, and must not overlap another process.                 *)
(***************************************************************************)
EXTENDS JobQueue, TLAPS

Inserted(j) == j \in JobIds /\ jobs[j].status # "absent"

\* Every session that refers to a job refers to an existing row.
ExecRefs == \A w \in Workers : exec[w].pc # "idle" => Inserted(exec[w].job)

ClientRefs ==
  \A c \in Clients :
    /\ client[c].pc = "cancelling" => Inserted(client[c].job)
    /\ client[c].pc = "inserting" => client[c].user \in Users /\ client[c].request \in Requests

PlanRefs == \A p \in Processes, j \in JobIds : plan[p][j] # "skip" => Inserted(j)

\* A row that is not inserted yet is blank; an inserted one is owned.
Rows ==
  \A j \in JobIds :
    IF jobs[j].status = "absent" THEN jobs[j] = NoRow
    ELSE jobs[j].user \in Users /\ jobs[j].request \in Requests

\* Type correctness needs them: a claim reads the owner of the row it holds.
TInv == TypeOK /\ Rows /\ ExecRefs /\ ClientRefs /\ PlanRefs

-----------------------------------------------------------------------------
\* What committing an UPDATE of job j preserves.
LEMMA RowUpdate ==
  ASSUME jobs \in [JobIds -> Row], Rows, NEW j \in JobIds, Inserted(j), NEW r \in Row,
         r.status # "absent", r.user = jobs[j].user, r.request = jobs[j].request,
         jobs' = [jobs EXCEPT ![j] = r]
  PROVE  /\ jobs' \in [JobIds -> Row] /\ Rows'
         /\ \A i \in JobIds : /\ Inserted(i) => Inserted(i)'
                              /\ jobs'[i].user = jobs[i].user
                              /\ jobs'[i].request = jobs[i].request
  BY DEF Rows, Inserted

\* What replacing the session of worker w preserves.
LEMMA ExecUpdate ==
  ASSUME exec \in [Workers -> Execution], ExecRefs, NEW w \in Workers, NEW e \in Execution,
         e.pc # "idle" => Inserted(e.job)',
         \A i \in JobIds : Inserted(i) => Inserted(i)',
         exec' = [exec EXCEPT ![w] = e]
  PROVE  exec' \in [Workers -> Execution] /\ ExecRefs'
  BY DEF ExecRefs, Inserted

LEMMA IdleTypes ==
  /\ Idle \in Execution /\ Idle.pc = "idle"
  /\ NoRequest \in Session /\ NoRequest.pc = "idle"
  /\ NoPlan \in [JobIds -> Verdicts] /\ \A j \in JobIds : NoPlan[j] = "skip"
  /\ NoRow \in Row /\ NoRow.status = "absent"
  BY DEF Idle, Execution, NoRequest, Session, NoPlan, Verdicts, NoRow, Row

LEMMA InitTInv == Init => TInv
  BY IdleTypes, QueueAssumption DEF Init, TInv, TypeOK, Rows, ExecRefs, ClientRefs, PlanRefs

\* The claim of job j by worker w, from a copy with attempt count n.
LEMMA BeginTInv ==
  ASSUME TInv, NEW w \in Workers, NEW j \in JobIds, Inserted(j), NEW n \in Nat,
         Begin(w, j, n), UNCHANGED <<results, access, up, plan, client, crashes>>
  PROVE  TInv'
<1> DEFINE r == [jobs[j] EXCEPT !.status = "running", !.attempt = n + 1,
                                !.heartbeat = "fresh"]
           e == [pc |-> "claimed", job |-> j, attempt |-> n + 1,
                 loaded |-> jobs[j].result, outcome |-> "none",
                 cleared |-> access[jobs[j].user] = "writer"]
<1>1. jobs[j] \in Row /\ n + 1 \in Nat
  BY DEF TInv, TypeOK
<1>2. r \in Row /\ r.status = "running" /\ r.user = jobs[j].user /\ r.request = jobs[j].request
  BY <1>1 DEF Row
<1>3. jobs' = [jobs EXCEPT ![j] = r]
  BY DEF Begin
<1>4. /\ jobs' \in [JobIds -> Row] /\ Rows'
      /\ \A i \in JobIds : Inserted(i) => Inserted(i)'
  BY <1>2, <1>3, RowUpdate DEF TInv, TypeOK
<1>5. e \in Execution
  BY <1>1 DEF Row, Execution
<1>6. exec' = [exec EXCEPT ![w] = e]
  BY DEF Begin
<1>7. exec' \in [Workers -> Execution] /\ ExecRefs'
  BY <1>4, <1>5, <1>6, ExecUpdate DEF TInv, TypeOK
<1> HIDE DEF r, e
<1> QED
  BY <1>4, <1>7 DEF TInv, TypeOK, ClientRefs, PlanRefs, Inserted

\* A final commit of worker w: job j's row becomes r, the session ends.
LEMMA EndTInv ==
  ASSUME TInv, NEW w \in Workers, NEW j \in JobIds, Inserted(j), NEW r \in Row,
         r.status # "absent", r.user = jobs[j].user, r.request = jobs[j].request,
         jobs' = [jobs EXCEPT ![j] = r], exec' = [exec EXCEPT ![w] = Idle],
         results' \subseteq Results, UNCHANGED <<access, up, plan, client, crashes>>
  PROVE  TInv'
<1>1. /\ jobs' \in [JobIds -> Row] /\ Rows'
      /\ \A i \in JobIds : Inserted(i) => Inserted(i)'
  BY RowUpdate DEF TInv, TypeOK
<1>2. exec' \in [Workers -> Execution] /\ ExecRefs'
  BY <1>1, IdleTypes, ExecUpdate DEF TInv, TypeOK
<1> QED
  BY <1>1, <1>2 DEF TInv, TypeOK, ClientRefs, PlanRefs, Inserted

LEMMA NextTInv == TInv /\ [Next]_vars => TInv'
<1> SUFFICES ASSUME TInv, [Next]_vars PROVE TInv'
  OBVIOUS
<1> USE QueueAssumption
<1>t. TypeOK /\ Rows /\ ExecRefs /\ ClientRefs /\ PlanRefs
  BY DEF TInv
<1>1. ASSUME NEW c \in Clients, NEW u \in Users, NEW k \in Keys \cup {None},
             NEW r \in Requests, SubmitLookup(c, u, k, r)
      PROVE  TInv'
  BY <1>t, <1>1 DEF SubmitLookup, NoRequest, Session, TInv, TypeOK, Rows, ExecRefs,
     ClientRefs, PlanRefs, Inserted
<1>2. ASSUME NEW c \in Clients, SubmitInsert(c) PROVE TInv'
  <2>1. client[c] \in Session /\ client[c].user \in Users /\ client[c].request \in Requests
    BY <1>t, <1>2 DEF SubmitInsert, TypeOK, ClientRefs
  <2> DEFINE r == [NoRow EXCEPT !.status = "queued", !.user = client[c].user,
                                !.key = client[c].key, !.request = client[c].request]
  <2>2. PICK j \in JobIds : jobs[j].status = "absent" /\ jobs' = [jobs EXCEPT ![j] = r]
    BY <1>2 DEF SubmitInsert
  <2>3. /\ r \in Row /\ r.status = "queued" /\ r.user \in Users /\ r.request \in Requests
    BY <2>1 DEF Session, NoRow, Row
  <2> HIDE DEF r
  <2>4. /\ jobs' \in [JobIds -> Row] /\ Rows'
        /\ \A i \in JobIds : Inserted(i) => Inserted(i)'
    BY <1>t, <2>2, <2>3 DEF TypeOK, Rows, Inserted
  <2>5. client' \in [Clients -> Session] /\ ClientRefs'
    BY <1>t, <1>2, <2>4, IdleTypes DEF SubmitInsert, TypeOK, ClientRefs, Inserted
  <2> QED
    BY <1>t, <1>2, <2>4, <2>5 DEF SubmitInsert, TInv, TypeOK, ExecRefs, PlanRefs, Inserted
<1>3. ASSUME NEW c \in Clients, NEW u \in Users, NEW j \in JobIds, CancelRead(c, u, j)
      PROVE  TInv'
  <2> DEFINE s == [NoRequest EXCEPT !.pc = "cancelling", !.job = j,
                                    !.queued = jobs[j].status = "queued"]
  <2>1. /\ client' = [client EXCEPT ![c] = s] /\ Inserted(j)
        /\ UNCHANGED <<jobs, results, access, up, plan, exec, crashes>>
    BY <1>3 DEF CancelRead, Inserted
  <2>2. s \in Session /\ s.pc = "cancelling" /\ s.job = j
    BY DEF NoRequest, Session
  <2> HIDE DEF s
  <2>3. client' \in [Clients -> Session] /\ ClientRefs'
    BY <1>t, <2>1, <2>2 DEF TInv, TypeOK, ClientRefs, Inserted
  <2> QED
    BY <1>t, <2>1, <2>3 DEF TInv, TypeOK, Rows, ExecRefs, PlanRefs, Inserted
<1>4. ASSUME NEW c \in Clients, CancelWrite(c) PROVE TInv'
  <2> DEFINE j == client[c].job
             r == [jobs[j] EXCEPT !.cancel = TRUE,
                     !.status = IF client[c].queued THEN "cancelled" ELSE @]
  <2>1. j \in JobIds /\ Inserted(j) /\ jobs[j] \in Row /\ jobs' = [jobs EXCEPT ![j] = r]
    BY <1>t, <1>4 DEF CancelWrite, TypeOK, ClientRefs, Inserted
  <2>2. /\ r \in Row /\ r.status # "absent"
        /\ r.user = jobs[j].user /\ r.request = jobs[j].request
    BY <2>1 DEF Row, Terminal, Inserted
  <2> HIDE DEF r, j
  <2>3. /\ jobs' \in [JobIds -> Row] /\ Rows'
        /\ \A i \in JobIds : Inserted(i) => Inserted(i)'
    BY <1>t, <2>1, <2>2, RowUpdate DEF TypeOK
  <2>4. client' \in [Clients -> Session] /\ ClientRefs'
    BY <1>t, <1>4, <2>3, IdleTypes DEF CancelWrite, TypeOK, ClientRefs, Inserted
  <2> QED
    BY <1>t, <1>4, <2>3, <2>4 DEF CancelWrite, TInv, TypeOK, ExecRefs, PlanRefs, Inserted
<1>5. ASSUME NEW w \in Workers, NEW j \in JobIds, jobs[j].status # "absent", Drop(j),
             exec' = exec \/ exec' = [exec EXCEPT ![w] = Idle],
             UNCHANGED <<results, access, up, plan, client, crashes>>
      PROVE  TInv'
  <2> DEFINE r == [jobs[j] EXCEPT !.status = "cancelled"]
  <2>1. Inserted(j) /\ jobs[j] \in Row /\ jobs' = [jobs EXCEPT ![j] = r]
    BY <1>t, <1>5 DEF Drop, TypeOK, Inserted
  <2>2. /\ r \in Row /\ r.status # "absent"
        /\ r.user = jobs[j].user /\ r.request = jobs[j].request
    BY <2>1 DEF Row, Terminal
  <2> HIDE DEF r
  <2>3. CASE exec' = [exec EXCEPT ![w] = Idle]
    BY <1>t, <1>5, <2>1, <2>2, <2>3, EndTInv DEF TypeOK
  <2>4. CASE exec' = exec
    <3>1. /\ jobs' \in [JobIds -> Row] /\ Rows'
          /\ \A i \in JobIds : Inserted(i) => Inserted(i)'
      BY <1>t, <2>1, <2>2, RowUpdate DEF TypeOK
    <3> QED
      BY <1>t, <1>5, <2>4, <3>1 DEF TInv, TypeOK, ExecRefs, ClientRefs, PlanRefs, Inserted
  <2> QED
    BY <1>5, <2>3, <2>4
<1>6. ASSUME NEW w \in Workers, NEW j \in JobIds, Claim(w, j) PROVE TInv'
  <2>1. jobs[j].status # "absent" /\ Inserted(j) /\ jobs[j].attempt \in Nat
    BY <1>t, <1>6 DEF Claim, NextQueued, Inserted, TypeOK, Row
  <2>2. CASE jobs[j].cancel
    BY <1>5, <1>6, <2>1, <2>2 DEF Claim
  <2>3. CASE ~jobs[j].cancel
    BY <1>6, <2>1, <2>3, BeginTInv DEF Claim
  <2> QED
    BY <2>2, <2>3
<1>7. ASSUME NEW w \in Workers, NEW j \in JobIds, ClaimRead(w, j) PROVE TInv'
  <2> DEFINE e == [Idle EXCEPT !.pc = IF jobs[j].cancel THEN "dropping" ELSE "claiming",
                               !.job = j, !.attempt = jobs[j].attempt]
  <2>1. jobs[j].status # "absent" /\ jobs[j] \in Row
    BY <1>t, <1>7 DEF ClaimRead, NextQueued, TypeOK
  <2>2. e \in Execution /\ e.job = j
    BY <2>1 DEF Idle, Execution, Row
  <2>3. exec' = [exec EXCEPT ![w] = e]
    BY <1>7 DEF ClaimRead
  <2> HIDE DEF e
  <2> QED
    BY <1>t, <1>7, <2>1, <2>2, <2>3 DEF ClaimRead, TInv, TypeOK, Rows, ExecRefs, ClientRefs,
       PlanRefs, Inserted
<1>8. ASSUME NEW w \in Workers, ClaimWrite(w) PROVE TInv'
  <2>1. exec[w].job \in JobIds /\ Inserted(exec[w].job) /\ exec[w].attempt \in Nat
    BY <1>t, <1>8 DEF ClaimWrite, TypeOK, ExecRefs, Inserted, Execution
  <2>2. CASE exec[w].pc = "claiming"
    BY <1>8, <2>1, <2>2, BeginTInv DEF ClaimWrite
  <2>3. CASE exec[w].pc = "dropping"
    BY <1>5, <1>8, <2>1, <2>3 DEF ClaimWrite, Inserted
  <2> QED
    BY <1>8, <2>2, <2>3 DEF ClaimWrite
<1>9. ASSUME NEW w \in Workers, Refresh(w) PROVE TInv'
  <2> DEFINE o == IF access[jobs[exec[w].job].user] # "writer"
                     \/ jobs[exec[w].job].request \notin Refreshes
                  THEN "failed"
                  ELSE IF ResultOf(exec[w].job) \in results THEN "found" ELSE "insert"
             e == [exec[w] EXCEPT !.pc = "refreshed", !.outcome = o]
  <2>1. exec[w] \in Execution /\ exec[w].pc # "idle" /\ o \in {"insert", "found", "failed"}
    BY <1>t, <1>9 DEF Refresh, TypeOK
  <2> HIDE DEF o
  <2>2. e \in Execution /\ e.job = exec[w].job
    BY <2>1 DEF Execution
  <2>3. exec' = [exec EXCEPT ![w] = e]
    BY <1>t, <1>9 DEF Refresh, TypeOK, o
  <2> HIDE DEF e
  <2> QED
    BY <1>t, <1>9, <2>1, <2>2, <2>3 DEF Refresh, TInv, TypeOK, Rows, ExecRefs, ClientRefs,
       PlanRefs, Inserted
<1>10. ASSUME NEW w \in Workers, FinishFailed(w) PROVE TInv'
  <2> DEFINE j == exec[w].job
             r == [jobs[j] EXCEPT !.status = "failed", !.heartbeat = "fresh",
                     !.result = IF exec[w].loaded = None THEN @ ELSE None]
  <2>1. j \in JobIds /\ Inserted(j) /\ jobs[j] \in Row
    BY <1>t, <1>10 DEF FinishFailed, TypeOK, ExecRefs, Inserted
  <2>2. /\ r \in Row /\ r.status # "absent"
        /\ r.user = jobs[j].user /\ r.request = jobs[j].request
    BY <2>1 DEF Row, Terminal
  <2>3. jobs' = [jobs EXCEPT ![j] = r] /\ exec' = [exec EXCEPT ![w] = Idle]
    BY <1>10 DEF FinishFailed
  <2>4. results' \subseteq Results /\ UNCHANGED <<access, up, plan, client, crashes>>
    BY <1>t, <1>10 DEF FinishFailed, TypeOK
  <2> HIDE DEF r, j
  <2> QED
    BY <2>1, <2>2, <2>3, <2>4, EndTInv
<1>11. ASSUME NEW w \in Workers, FinishCompleted(w) PROVE TInv'
  <2> DEFINE j == exec[w].job
             r == [jobs[j] EXCEPT !.status = "completed", !.heartbeat = "fresh",
                     !.result = IF exec[w].loaded = ResultOf(j) THEN @ ELSE ResultOf(j)]
  <2>1. j \in JobIds /\ Inserted(j) /\ jobs[j] \in Row
    BY <1>t, <1>11 DEF FinishCompleted, TypeOK, ExecRefs, Inserted
  <2>2. ResultOf(j) \in Results
    BY <1>t, <2>1 DEF ResultOf, Results, Rows, Inserted
  <2>3. /\ r \in Row /\ r.status # "absent"
        /\ r.user = jobs[j].user /\ r.request = jobs[j].request
    BY <2>1, <2>2 DEF Row, Terminal
  <2>4. /\ jobs' = [jobs EXCEPT ![j] = r] /\ exec' = [exec EXCEPT ![w] = Idle]
        /\ results' = results \cup {ResultOf(j)}
    BY <1>11 DEF FinishCompleted
  <2>5. results' \subseteq Results /\ UNCHANGED <<access, up, plan, client, crashes>>
    BY <1>t, <1>11, <2>2, <2>4 DEF FinishCompleted, TypeOK
  <2> HIDE DEF r, j
  <2> QED
    BY <2>1, <2>2, <2>3, <2>4, <2>5, EndTInv
<1>12. ASSUME NEW w \in Workers, Die(w), UNCHANGED <<jobs, results, access, client>>,
              crashes' \in [Processes -> Nat]
       PROVE  TInv'
  BY <1>t, <1>12, IdleTypes DEF Die, TInv, TypeOK, Rows, ExecRefs, ClientRefs, PlanRefs,
     Inserted, Processes
<1>13. ASSUME NEW w \in Workers, FinishConflict(w) PROVE TInv'
  BY <1>t, <1>12, <1>13 DEF FinishConflict, TypeOK
<1>14. ASSUME NEW w \in Workers, WorkerCrash(w) PROVE TInv'
  BY <1>t, <1>12, <1>14 DEF WorkerCrash, TypeOK, Processes
<1>15. ASSUME ApiCrash PROVE TInv'
  BY <1>t, <1>15, IdleTypes DEF ApiCrash, TInv, TypeOK, Rows, ExecRefs, ClientRefs, PlanRefs,
     Inserted, Processes
<1>16. ASSUME NEW p \in Processes, RecoverRead(p) PROVE TInv'
  <2>1. \A j \in JobIds : /\ Verdict(j) \in Verdicts
                          /\ Verdict(j) # "skip" => jobs[j].status # "absent"
    BY DEF Verdict, Verdicts, Interrupted
  <2> QED
    BY <1>t, <1>16, <2>1 DEF RecoverRead, TInv, TypeOK, Rows, ExecRefs, ClientRefs,
       PlanRefs, Inserted
<1>17. ASSUME NEW p \in Processes, RecoverWrite(p) PROVE TInv'
  <2>1. \A j \in JobIds : plan[p][j] \in Verdicts /\ jobs[j] \in Row
    BY <1>t DEF TypeOK
  <2>2. \A j \in JobIds : plan[p][j] # "skip" =>
          [jobs[j] EXCEPT !.status = plan[p][j], !.heartbeat = "none"] \in Row
    <3> SUFFICES ASSUME NEW j \in JobIds, plan[p][j] # "skip"
                 PROVE  [jobs[j] EXCEPT !.status = plan[p][j], !.heartbeat = "none"] \in Row
      OBVIOUS
    <3>1. jobs[j] \in Row /\ plan[p][j] \in {"cancelled", "queued", "failed"}
      BY <2>1 DEF Verdicts
    <3> QED
      BY <3>1 DEF Row, Terminal
  <2>3. jobs' \in [JobIds -> Row]
    BY <1>17, <2>1, <2>2 DEF RecoverWrite
  <2>4. ASSUME NEW j \in JobIds
        PROVE  /\ jobs'[j].user = jobs[j].user /\ jobs'[j].request = jobs[j].request
               /\ Inserted(j) <=> Inserted(j)'
               /\ ~Inserted(j) => jobs'[j] = jobs[j]
    <3>1. CASE plan[p][j] = "skip"
      BY <1>17, <3>1 DEF RecoverWrite, Inserted
    <3>2. CASE plan[p][j] # "skip"
      <4>1. /\ plan[p][j] \in {"cancelled", "queued", "failed"} /\ Inserted(j)
            /\ jobs'[j] = [jobs[j] EXCEPT !.status = plan[p][j], !.heartbeat = "none"]
        BY <1>t, <1>17, <2>1, <3>2 DEF RecoverWrite, Verdicts, PlanRefs
      <4> QED
        BY <2>1, <4>1 DEF Row, Inserted
    <3> QED
      BY <3>1, <3>2
  <2>5. Rows'
    BY <1>t, <2>4 DEF Rows, Inserted
  <2>6. ExecRefs' /\ ClientRefs'
    BY <1>t, <1>17, <2>4 DEF RecoverWrite, ExecRefs, ClientRefs, Inserted
  <2>7. PlanRefs'
    <3>1. ASSUME NEW q \in Processes, NEW j \in JobIds, plan'[q][j] # "skip"
          PROVE  plan[q][j] # "skip"
      <4>1. CASE q = p
        BY <1>t, <1>17, <3>1, <4>1, IdleTypes DEF RecoverWrite, TypeOK
      <4>2. CASE q # p
        BY <1>t, <1>17, <3>1, <4>2 DEF RecoverWrite, TypeOK
      <4> QED
        BY <4>1, <4>2
    <3> QED
      BY <1>t, <2>4, <3>1 DEF PlanRefs, Inserted
  <2> QED
    BY <1>t, <1>17, <2>3, <2>5, <2>6, <2>7, IdleTypes DEF RecoverWrite, TInv, TypeOK
<1>18. ASSUME NEW j \in JobIds, HeartbeatAges(j) PROVE TInv'
  <2> DEFINE r == [jobs[j] EXCEPT !.heartbeat = "stale"]
  <2>1. Inserted(j) /\ jobs[j] \in Row /\ jobs' = [jobs EXCEPT ![j] = r]
    BY <1>t, <1>18 DEF HeartbeatAges, TypeOK, Inserted
  <2>2. /\ r \in Row /\ r.status # "absent"
        /\ r.user = jobs[j].user /\ r.request = jobs[j].request
    BY <2>1 DEF Row, Inserted
  <2> HIDE DEF r
  <2>3. /\ jobs' \in [JobIds -> Row] /\ Rows'
        /\ \A i \in JobIds : Inserted(i) => Inserted(i)'
    BY <1>t, <2>1, <2>2, RowUpdate DEF TypeOK
  <2> QED
    BY <1>t, <1>18, <2>3 DEF HeartbeatAges, TInv, TypeOK, ExecRefs, ClientRefs, PlanRefs,
       Inserted
<1>19. ASSUME NEW u \in Users, NEW a \in {"writer", "reader"}, ChangeAccess(u, a)
       PROVE  TInv'
  <2>1. ASSUME NEW w \in Workers
        PROVE  /\ exec'[w] \in Execution
               /\ exec'[w].pc = exec[w].pc /\ exec'[w].job = exec[w].job
    <3>1. exec[w] \in Execution
      BY <1>t DEF TypeOK
    <3>2. exec'[w] = exec[w] \/ exec'[w] = [exec[w] EXCEPT !.cleared = TRUE]
      BY <1>19 DEF ChangeAccess
    <3> QED
      BY <3>1, <3>2 DEF Execution
  <2>2. exec' \in [Workers -> Execution]
    BY <1>19, <2>1 DEF ChangeAccess
  <2> QED
    BY <1>t, <1>19, <2>1, <2>2 DEF ChangeAccess, TInv, TypeOK, Rows, ExecRefs, ClientRefs,
       PlanRefs, Inserted
<1>20. CASE UNCHANGED vars
  BY <1>t, <1>20 DEF vars, TInv, TypeOK, Rows, ExecRefs, ClientRefs, PlanRefs, Inserted
<1> QED
  BY <1>1, <1>2, <1>3, <1>4, <1>6, <1>7, <1>8, <1>9, <1>10, <1>11, <1>13, <1>14, <1>15,
     <1>16, <1>17, <1>18, <1>19, <1>20 DEF Next, WorkerStep, ClientStep

\* Every reachable state is well typed, and no session ever refers to a row
\* that does not exist.
THEOREM TypeCorrect == Spec => []TInv
  BY InitTInv, NextTInv, PTL DEF Spec

\* The tables and the copies in sessions hold values of their types.
THEOREM QueueTyped == Spec => []TypeOK
<1>1. TInv => TypeOK
  BY DEF TInv
<1> QED
  BY <1>1, TypeCorrect, PTL

-----------------------------------------------------------------------------
(* Published results and the permission behind them.                       *)

\* An execution that found its result stored relies on it staying there.
FoundIsStored ==
  \A w \in Workers :
    exec[w].pc = "refreshed" /\ exec[w].outcome = "found" => ResultOf(exec[w].job) \in results

\* Before its permission check an attempt is cleared if the owner may compute
\* now; after it, if the check succeeded.
Clearance ==
  \A w \in Workers :
    /\ exec[w].pc = "claimed" /\ access[jobs[exec[w].job].user] = "writer" => exec[w].cleared
    /\ exec[w].pc = "refreshed" /\ exec[w].outcome # "failed" => exec[w].cleared

PInv == ResultBacked /\ FoundIsStored /\ Clearance

LEMMA InitPInv == Init => PInv
  BY DEF Init, PInv, ResultBacked, FoundIsStored, Clearance, NoRow, Idle

\* What a row may become: its owner and request stay, and its result is kept,
\* cleared, or set to its own stored result.
RowStep(j) ==
  /\ Inserted(j) => jobs'[j].user = jobs[j].user /\ jobs'[j].request = jobs[j].request
  /\ \/ jobs'[j].result \in {jobs[j].result, None}
     \/ Inserted(j) /\ jobs'[j].result = ResultOf(j) /\ ResultOf(j) \in results'

\* What a session may become: it is kept, holds no attempt, or holds one just
\* claimed with the owner's present permission.
SessionStep(w) ==
  \/ exec'[w] = exec[w]
  \/ exec'[w].pc \notin {"claimed", "refreshed"}
  \/ /\ exec'[w].pc = "claimed" /\ Inserted(exec'[w].job)
     /\ exec'[w].cleared = (access[jobs[exec'[w].job].user] = "writer")

\* Every step but the permission check and a change of permissions is of
\* these kinds, and they preserve the invariant.
LEMMA StepPInv ==
  ASSUME TInv, PInv, results \subseteq results', UNCHANGED access,
         \A j \in JobIds : RowStep(j), \A w \in Workers : SessionStep(w)
  PROVE  PInv'
<1>t. TypeOK /\ Rows /\ ExecRefs
  BY DEF TInv
<1>1. ResultBacked'
  <2> SUFFICES ASSUME NEW j \in JobIds, jobs'[j].result # None
               PROVE  jobs'[j].result \in results' /\ jobs'[j].result = ResultOf(j)'
    BY DEF ResultBacked
  <2>1. Inserted(j)
    BY <1>t DEF RowStep, Rows, NoRow, Inserted
  <2> QED
    BY <2>1 DEF PInv, ResultBacked, RowStep, ResultOf
<1>2. ASSUME NEW w \in Workers,
             exec'[w].pc = "refreshed" /\ exec'[w].outcome = "found"
      PROVE  ResultOf(exec[w].job)' \in results' /\ exec'[w] = exec[w]
  <2>1. exec'[w] = exec[w] /\ Inserted(exec[w].job) /\ ResultOf(exec[w].job) \in results
    BY <1>t, <1>2 DEF SessionStep, ExecRefs, PInv, FoundIsStored
  <2>2. ResultOf(exec[w].job)' = ResultOf(exec[w].job)
    BY <2>1 DEF RowStep, ResultOf, Inserted
  <2> QED
    BY <2>1, <2>2
<1>3. ASSUME NEW w \in Workers, exec'[w].pc \in {"claimed", "refreshed"}
      PROVE  /\ exec'[w].pc = "claimed" /\ access'[jobs'[exec'[w].job].user] = "writer"
                  => exec'[w].cleared
             /\ exec'[w].pc = "refreshed" /\ exec'[w].outcome # "failed" => exec'[w].cleared
  <2>1. Inserted(exec'[w].job)
    BY <1>t, <1>3 DEF SessionStep, ExecRefs
  <2>2. jobs'[exec'[w].job].user = jobs[exec'[w].job].user
    BY <2>1 DEF RowStep, Inserted
  <2>3. CASE exec'[w] = exec[w]
    BY <2>2, <2>3 DEF PInv, Clearance
  <2>4. CASE exec'[w] # exec[w]
    BY <1>3, <2>2, <2>4 DEF SessionStep
  <2> QED
    BY <2>3, <2>4
<1>4. FoundIsStored'
  BY <1>2 DEF FoundIsStored, ResultOf
<1> QED
  BY <1>1, <1>3, <1>4 DEF PInv, Clearance

LEMMA NextPInv == TInv /\ PInv /\ [Next]_vars => PInv'
<1> SUFFICES ASSUME TInv, PInv, [Next]_vars PROVE PInv'
  OBVIOUS
<1> USE QueueAssumption
<1>t. TypeOK /\ Rows /\ ExecRefs /\ ClientRefs /\ PlanRefs
  BY DEF TInv
<1>r. ASSUME UNCHANGED jobs PROVE \A j \in JobIds : RowStep(j)
  BY <1>r DEF RowStep
<1>s. ASSUME UNCHANGED exec PROVE \A w \in Workers : SessionStep(w)
  BY <1>s DEF SessionStep
<1>1. ASSUME NEW c \in Clients, NEW u \in Users, NEW k \in Keys \cup {None},
             NEW r \in Requests, SubmitLookup(c, u, k, r)
      PROVE  PInv'
  BY <1>1, <1>r, <1>s, StepPInv DEF SubmitLookup
<1>2. ASSUME NEW c \in Clients, SubmitInsert(c) PROVE PInv'
  <2>1. \A j \in JobIds : RowStep(j)
    BY <1>t, <1>2 DEF SubmitInsert, RowStep, Inserted, TypeOK, NoRow
  <2> QED
    BY <1>2, <1>s, <2>1, StepPInv DEF SubmitInsert
<1>3. ASSUME NEW c \in Clients, NEW u \in Users, NEW j \in JobIds, CancelRead(c, u, j)
      PROVE  PInv'
  BY <1>3, <1>r, <1>s, StepPInv DEF CancelRead
<1>4. ASSUME NEW c \in Clients, CancelWrite(c) PROVE PInv'
  <2>1. \A j \in JobIds : RowStep(j)
    BY <1>t, <1>4 DEF CancelWrite, RowStep, TypeOK, Row
  <2> QED
    BY <1>4, <1>s, <2>1, StepPInv DEF CancelWrite
<1>5. ASSUME NEW w \in Workers, NEW j \in JobIds, NEW n \in Nat, Inserted(j), Begin(w, j, n),
             UNCHANGED <<results, access>>
      PROVE  PInv'
  <2>1. \A i \in JobIds : RowStep(i)
    BY <1>t, <1>5 DEF Begin, RowStep, TypeOK, Row
  <2>2. \A v \in Workers : SessionStep(v)
    BY <1>t, <1>5 DEF Begin, SessionStep, TypeOK
  <2> QED
    BY <1>5, <2>1, <2>2, StepPInv
<1>6. ASSUME NEW w \in Workers, NEW j \in JobIds, Drop(j), UNCHANGED <<results, access>>,
             exec' = exec \/ exec' = [exec EXCEPT ![w] = Idle]
      PROVE  PInv'
  <2>1. \A i \in JobIds : RowStep(i)
    BY <1>t, <1>6 DEF Drop, RowStep, TypeOK, Row
  <2>2. \A v \in Workers : SessionStep(v)
    BY <1>t, <1>6, IdleTypes DEF SessionStep, TypeOK
  <2> QED
    BY <1>6, <2>1, <2>2, StepPInv
<1>7. ASSUME NEW w \in Workers, NEW j \in JobIds, Claim(w, j) PROVE PInv'
  <2>1. Inserted(j) /\ jobs[j].attempt \in Nat
    BY <1>t, <1>7 DEF Claim, NextQueued, Inserted, TypeOK, Row
  <2> QED
    BY <1>5, <1>6, <1>7, <2>1 DEF Claim
<1>8. ASSUME NEW w \in Workers, NEW j \in JobIds, ClaimRead(w, j) PROVE PInv'
  <2>1. \A v \in Workers : SessionStep(v)
    BY <1>t, <1>8 DEF ClaimRead, SessionStep, TypeOK, Idle
  <2> QED
    BY <1>8, <1>r, <2>1, StepPInv DEF ClaimRead
<1>9. ASSUME NEW w \in Workers, ClaimWrite(w) PROVE PInv'
  <2>1. Inserted(exec[w].job) /\ exec[w].job \in JobIds /\ exec[w].attempt \in Nat
    BY <1>t, <1>9 DEF ClaimWrite, TypeOK, ExecRefs, Inserted, Execution
  <2> QED
    BY <1>5, <1>6, <1>9, <2>1 DEF ClaimWrite
<1>10. ASSUME NEW w \in Workers, Refresh(w) PROVE PInv'
  <2> DEFINE j == exec[w].job
  <2>1. exec[w] \in Execution /\ exec[w].pc = "claimed" /\ UNCHANGED <<jobs, results, access>>
    BY <1>t, <1>10 DEF Refresh, TypeOK
  <2>2. /\ exec'[w].pc = "refreshed" /\ exec'[w].job = j /\ exec'[w].cleared = exec[w].cleared
        /\ exec'[w].outcome # "failed" => access[jobs[j].user] = "writer"
        /\ exec'[w].outcome = "found" => ResultOf(j) \in results
    BY <1>t, <1>10, <2>1 DEF Refresh, TypeOK, Execution
  <2>3. \A v \in Workers : v # w => exec'[v] = exec[v]
    BY <1>t, <1>10 DEF Refresh, TypeOK
  <2>4. FoundIsStored'
    BY <2>1, <2>2, <2>3 DEF PInv, FoundIsStored, ResultOf
  <2>5. Clearance'
    BY <2>1, <2>2, <2>3 DEF PInv, Clearance
  <2> QED
    BY <2>1, <2>4, <2>5 DEF PInv, ResultBacked, ResultOf
<1>11. ASSUME NEW w \in Workers, exec' = [exec EXCEPT ![w] = Idle]
       PROVE  \A v \in Workers : SessionStep(v)
  BY <1>t, <1>11, IdleTypes DEF SessionStep, TypeOK
<1>12. ASSUME NEW w \in Workers, FinishFailed(w) PROVE PInv'
  <2>1. \A i \in JobIds : RowStep(i)
    BY <1>t, <1>12 DEF FinishFailed, RowStep, TypeOK, Row
  <2> QED
    BY <1>11, <1>12, <2>1, StepPInv DEF FinishFailed
<1>13. ASSUME NEW w \in Workers, FinishCompleted(w) PROVE PInv'
  <2>1. Inserted(exec[w].job)
    BY <1>t, <1>13 DEF FinishCompleted, ExecRefs
  <2>2. \A i \in JobIds : RowStep(i)
    <3> SUFFICES ASSUME NEW i \in JobIds PROVE RowStep(i)
      OBVIOUS
    <3>1. jobs[i] \in Row /\ results' = results \cup {ResultOf(exec[w].job)}
      BY <1>t, <1>13 DEF FinishCompleted, TypeOK
    <3>2. CASE i # exec[w].job
      BY <1>t, <1>13, <3>2 DEF FinishCompleted, RowStep, TypeOK
    <3>3. CASE i = exec[w].job
      <4>1. jobs'[i] = [jobs[i] EXCEPT !.status = "completed", !.heartbeat = "fresh",
                          !.result = IF exec[w].loaded = ResultOf(i) THEN @ ELSE ResultOf(i)]
        BY <1>t, <1>13, <3>3 DEF FinishCompleted, TypeOK
      <4> QED
        BY <2>1, <3>1, <3>3, <4>1 DEF RowStep, Row
    <3> QED
      BY <3>2, <3>3
  <2> QED
    BY <1>11, <1>13, <2>2, StepPInv DEF FinishCompleted
<1>14. ASSUME NEW w \in Workers, FinishConflict(w) \/ WorkerCrash(w) PROVE PInv'
  BY <1>11, <1>14, <1>r, StepPInv DEF FinishConflict, WorkerCrash, Die
<1>15. ASSUME ApiCrash PROVE PInv'
  BY <1>15, <1>r, <1>s, StepPInv DEF ApiCrash
<1>16. ASSUME NEW p \in Processes, RecoverRead(p) PROVE PInv'
  BY <1>16, <1>r, <1>s, StepPInv DEF RecoverRead
<1>17. ASSUME NEW p \in Processes, RecoverWrite(p) PROVE PInv'
  <2>1. \A i \in JobIds : RowStep(i)
    <3> SUFFICES ASSUME NEW i \in JobIds PROVE RowStep(i)
      OBVIOUS
    <3>1. jobs[i] \in Row
      BY <1>t DEF TypeOK
    <3>2. \/ jobs'[i] = jobs[i]
          \/ jobs'[i] = [jobs[i] EXCEPT !.status = plan[p][i], !.heartbeat = "none"]
      BY <1>17 DEF RecoverWrite
    <3> QED
      BY <3>1, <3>2 DEF RowStep, Row
  <2> QED
    BY <1>17, <1>s, <2>1, StepPInv DEF RecoverWrite
<1>18. ASSUME NEW j \in JobIds, HeartbeatAges(j) PROVE PInv'
  <2>1. \A i \in JobIds : RowStep(i)
    BY <1>t, <1>18 DEF HeartbeatAges, RowStep, TypeOK, Row
  <2> QED
    BY <1>18, <1>s, <2>1, StepPInv DEF HeartbeatAges
<1>19. ASSUME NEW u \in Users, NEW a \in {"writer", "reader"}, ChangeAccess(u, a)
       PROVE  PInv'
  <2>1. UNCHANGED <<jobs, results>> /\ access' = [access EXCEPT ![u] = a]
    BY <1>19 DEF ChangeAccess
  <2>2. ASSUME NEW w \in Workers
        PROVE  /\ exec'[w].pc = exec[w].pc /\ exec'[w].job = exec[w].job
               /\ exec'[w].outcome = exec[w].outcome
               /\ exec[w].cleared => exec'[w].cleared
               /\ exec[w].pc = "claimed" /\ jobs[exec[w].job].user = u /\ a = "writer"
                    => exec'[w].cleared
    <3>1. exec[w] \in Execution
      BY <1>t DEF TypeOK
    <3> QED
      BY <1>19, <3>1 DEF ChangeAccess, Execution
  <2>3. Clearance'
    BY <1>t, <2>1, <2>2 DEF PInv, Clearance, TypeOK, ExecRefs, Rows, Inserted
  <2> QED
    BY <2>1, <2>2, <2>3 DEF PInv, ResultBacked, FoundIsStored, ResultOf
<1>20. CASE UNCHANGED vars
  BY <1>20, <1>r, <1>s, StepPInv DEF vars
<1> QED
  BY <1>1, <1>2, <1>3, <1>4, <1>7, <1>8, <1>9, <1>10, <1>12, <1>13, <1>14, <1>15,
     <1>16, <1>17, <1>18, <1>19, <1>20 DEF Next, WorkerStep, ClientStep

\* A result_ref names a stored result of the job's own owner and request.
THEOREM ResultsAreBacked == Spec => []ResultBacked
<1>1. TInv /\ PInv /\ [Next]_vars => (TInv /\ PInv)'
  BY NextTInv, NextPInv
<1>2. PInv => ResultBacked
  BY DEF PInv
<1> QED
  BY InitTInv, InitPInv, <1>1, <1>2, PTL DEF Spec

\* A result is published only by an execution during which its owner was
\* allowed to compute it.
THEOREM PublicationIsAuthorized == Spec => AuthorizedPublication
<1> DEFINE A == \A r \in results' \ results :
                  \E w \in Workers : exec[w].cleared /\ ResultOf(exec[w].job) = r
<1>1. TInv /\ PInv /\ [Next]_vars => [A]_vars
  <2> SUFFICES ASSUME TInv, PInv, Next, NEW r \in results' \ results
               PROVE  \E w \in Workers : exec[w].cleared /\ ResultOf(exec[w].job) = r
    BY DEF vars
  <2>1. PICK w \in Workers : FinishCompleted(w)
    BY DEF Next, WorkerStep, ClientStep, SubmitLookup, SubmitInsert, CancelRead, CancelWrite,
       Claim, ClaimRead, ClaimWrite, Refresh, FinishFailed, FinishConflict, WorkerCrash,
       ApiCrash, RecoverRead, RecoverWrite, HeartbeatAges, ChangeAccess
  <2>2. r = ResultOf(exec[w].job)
    BY <2>1 DEF FinishCompleted
  <2> QED
    BY <2>1, <2>2 DEF FinishCompleted, PInv, Clearance
<1>2. TInv /\ PInv /\ [Next]_vars => (TInv /\ PInv)'
  BY NextTInv, NextPInv
<1> QED
  BY InitTInv, InitPInv, <1>1, <1>2, PTL DEF Spec, AuthorizedPublication

-----------------------------------------------------------------------------
(* What row locking buys.                                                  *)

\* An attempt number in a session was handed out by the row it refers to, so
\* it never exceeds the row's count, which never decreases.
Numbered ==
  /\ \A w \in Workers : exec[w].pc \notin {"claiming", "dropping"}
  /\ \A w \in Busy : exec[w].attempt \in 1..jobs[exec[w].job].attempt

FInv == Numbered /\ AttemptFencing

LEMMA InitFInv == Init => FInv
  BY IdleTypes DEF Init, FInv, Numbered, AttemptFencing, Executing, Busy

\* A session that holds an attempt held the same one before.
Holds(w) ==
  /\ exec'[w].pc \notin {"claiming", "dropping"}
  /\ exec'[w].pc \in {"claimed", "refreshed"} =>
       /\ exec[w].pc \in {"claimed", "refreshed"}
       /\ exec'[w].job = exec[w].job /\ exec'[w].attempt = exec[w].attempt

\* The two columns an attempt depends on; a count only grows.
AttemptKept(j) == jobs'[j].attempt = jobs[j].attempt

LEMMA HoldFInv ==
  ASSUME TInv, FInv, \A j \in JobIds : AttemptKept(j), \A w \in Workers : Holds(w)
  PROVE  FInv'
<1>1. Numbered'
  BY DEF TInv, ExecRefs, Inserted, FInv, Numbered, Busy, Holds, AttemptKept
<1>2. AttemptFencing'
  BY DEF FInv, AttemptFencing, Executing, Holds
<1> QED
  BY <1>1, <1>2 DEF FInv

LEMMA ClaimFInv ==
  ASSUME TInv, FInv, NEW w \in Workers, NEW j \in JobIds, Begin(w, j, jobs[j].attempt)
  PROVE  FInv'
<1>1. jobs[j] \in Row /\ jobs[j].attempt \in Nat /\ jobs \in [JobIds -> Row]
  BY DEF TInv, TypeOK, Row
<1>2. /\ jobs'[j].attempt = jobs[j].attempt + 1
      /\ \A i \in JobIds : i # j => jobs'[i] = jobs[i]
  BY <1>1 DEF Begin, Row
<1>3. /\ exec'[w].pc = "claimed" /\ exec'[w].job = j /\ exec'[w].attempt = jobs[j].attempt + 1
      /\ \A v \in Workers : v # w => exec'[v] = exec[v]
  BY DEF Begin, TInv, TypeOK
<1>4. \A v \in Busy : /\ exec[v].job \in JobIds /\ jobs[exec[v].job].attempt \in Nat
                      /\ exec[v].attempt \in 1..jobs[exec[v].job].attempt
  BY DEF TInv, TypeOK, Row, ExecRefs, Inserted, FInv, Numbered, Busy
<1>5. Numbered'
  BY <1>1, <1>2, <1>3, <1>4 DEF FInv, Numbered, Busy
<1>6. AttemptFencing'
  <2> SUFFICES ASSUME NEW w1 \in Workers, NEW w2 \in Workers, NEW i \in JobIds, w1 # w2,
                      Executing(w1, i)', Executing(w2, i)'
               PROVE  exec'[w1].attempt # exec'[w2].attempt
    BY DEF AttemptFencing
  <2>1. CASE w1 # w /\ w2 # w
    BY <1>3, <2>1 DEF FInv, AttemptFencing, Executing
  <2>2. CASE w1 = w
    BY <1>1, <1>3, <1>4, <2>2 DEF Executing, Busy
  <2>3. CASE w2 = w
    BY <1>1, <1>3, <1>4, <2>3 DEF Executing, Busy
  <2> QED
    BY <2>1, <2>2, <2>3
<1> QED
  BY <1>5, <1>6 DEF FInv

\* Every step is a claim that begins an attempt, or leaves the attempt counts
\* alone and begins none.
Quiet == (\A j \in JobIds : AttemptKept(j)) /\ (\A w \in Workers : Holds(w))

Claims == \E w \in Workers, j \in JobIds :
            /\ exec[w].pc = "idle" /\ Inserted(j) /\ ~jobs[j].cancel
            /\ Begin(w, j, jobs[j].attempt) /\ UNCHANGED results

LEMMA StepKinds ==
  ASSUME RowLocking, TInv, FInv, [Next]_vars
  PROVE  Quiet \/ Claims
<1> USE QueueAssumption
<1>t. TypeOK /\ Rows /\ ExecRefs /\ ClientRefs /\ PlanRefs
  BY DEF TInv
<1>n. \A w \in Workers : exec[w].pc \notin {"claiming", "dropping"}
  BY DEF FInv, Numbered
<1>r. ASSUME UNCHANGED jobs PROVE \A j \in JobIds : AttemptKept(j)
  BY <1>r DEF AttemptKept
<1>s. ASSUME UNCHANGED exec PROVE \A w \in Workers : Holds(w)
  BY <1>s, <1>n DEF Holds
<1>i. ASSUME NEW w \in Workers, exec' = [exec EXCEPT ![w] = Idle]
      PROVE  \A v \in Workers : Holds(v)
  BY <1>t, <1>i, <1>n, IdleTypes DEF Holds, TypeOK
<1>u. ASSUME NEW j \in JobIds, NEW r \in Row, r.attempt = jobs[j].attempt,
             jobs' = [jobs EXCEPT ![j] = r]
      PROVE  \A i \in JobIds : AttemptKept(i)
  BY <1>t, <1>u DEF AttemptKept, TypeOK
<1>1. ASSUME NEW c \in Clients,
             \/ \E u \in Users, k \in Keys \cup {None}, r \in Requests : SubmitLookup(c, u, k, r)
             \/ \E u \in Users, j \in JobIds : CancelRead(c, u, j)
      PROVE  Quiet
  BY <1>1, <1>r, <1>s DEF SubmitLookup, CancelRead, Quiet
<1>2. ASSUME NEW c \in Clients, SubmitInsert(c) PROVE Quiet
  <2>1. \A j \in JobIds : AttemptKept(j)
    BY <1>t, <1>2 DEF SubmitInsert, AttemptKept, TypeOK, Rows, NoRow
  <2> QED
    BY <1>2, <1>s, <2>1 DEF SubmitInsert, Quiet
<1>3. ASSUME NEW c \in Clients, CancelWrite(c) PROVE Quiet
  <2>1. \A j \in JobIds : AttemptKept(j)
    BY <1>t, <1>3 DEF CancelWrite, AttemptKept, TypeOK, Row
  <2> QED
    BY <1>3, <1>s, <2>1 DEF CancelWrite, Quiet
<1>4. ASSUME NEW w \in Workers, NEW j \in JobIds, Claim(w, j) PROVE Quiet \/ Claims
  <2>1. CASE jobs[j].cancel
    <3>1. \A i \in JobIds : AttemptKept(i)
      BY <1>t, <1>4, <2>1 DEF Claim, Drop, AttemptKept, TypeOK, Row
    <3> QED
      BY <1>4, <1>s, <2>1, <3>1 DEF Claim, Quiet
  <2>2. CASE ~jobs[j].cancel
    BY <1>4, <2>2 DEF Claim, Claims, NextQueued, Free, Inserted
  <2> QED
    BY <2>1, <2>2
<1>5. ASSUME NEW w \in Workers, (\E j \in JobIds : ClaimRead(w, j)) \/ ClaimWrite(w)
      PROVE  FALSE
  BY <1>5, <1>n DEF ClaimRead, ClaimWrite
<1>6. ASSUME NEW w \in Workers, Refresh(w) PROVE Quiet
  <2>1. \A v \in Workers : Holds(v)
    BY <1>t, <1>n, <1>6 DEF Refresh, Holds, TypeOK, Execution
  <2> QED
    BY <1>6, <1>r, <2>1 DEF Refresh, Quiet
<1>7. ASSUME NEW w \in Workers, FinishFailed(w) PROVE Quiet
  <2>1. \A j \in JobIds : AttemptKept(j)
    BY <1>t, <1>7 DEF FinishFailed, AttemptKept, TypeOK, Row
  <2> QED
    BY <1>7, <1>i, <2>1 DEF FinishFailed, Quiet
<1>8. ASSUME NEW w \in Workers, FinishCompleted(w) PROVE Quiet
  <2>1. \A j \in JobIds : AttemptKept(j)
    BY <1>t, <1>8 DEF FinishCompleted, AttemptKept, TypeOK, Row
  <2> QED
    BY <1>8, <1>i, <2>1 DEF FinishCompleted, Quiet
<1>9. ASSUME NEW w \in Workers, FinishConflict(w) \/ WorkerCrash(w) PROVE Quiet
  BY <1>9, <1>i, <1>r DEF FinishConflict, WorkerCrash, Die, Quiet
<1>10. ASSUME ApiCrash \/ (\E p \in Processes : RecoverRead(p)) PROVE Quiet
  BY <1>10, <1>r, <1>s DEF ApiCrash, RecoverRead, Quiet
<1>11. ASSUME NEW p \in Processes, RecoverWrite(p) PROVE Quiet
  <2>1. ASSUME NEW j \in JobIds PROVE AttemptKept(j)
    <3>1. /\ jobs[j] \in Row
          /\ \/ jobs'[j] = jobs[j]
             \/ jobs'[j] = [jobs[j] EXCEPT !.status = plan[p][j], !.heartbeat = "none"]
      BY <1>t, <1>11 DEF RecoverWrite, TypeOK
    <3> QED
      BY <3>1 DEF AttemptKept, Row
  <2> QED
    BY <1>11, <1>s, <2>1 DEF RecoverWrite, Quiet
<1>12. ASSUME NEW j \in JobIds, HeartbeatAges(j) PROVE Quiet
  <2>1. \A i \in JobIds : AttemptKept(i)
    BY <1>t, <1>12 DEF HeartbeatAges, AttemptKept, TypeOK, Row
  <2> QED
    BY <1>12, <1>s, <2>1 DEF HeartbeatAges, Quiet
<1>13. ASSUME NEW u \in Users, NEW a \in {"writer", "reader"}, ChangeAccess(u, a)
       PROVE  Quiet
  <2>1. ASSUME NEW w \in Workers PROVE Holds(w)
    <3>1. exec[w] \in Execution
      BY <1>t DEF TypeOK
    <3> QED
      BY <1>13, <1>n, <3>1 DEF ChangeAccess, Holds, Execution
  <2> QED
    BY <1>13, <1>r, <2>1 DEF ChangeAccess, Quiet
<1>14. CASE UNCHANGED vars
  BY <1>14, <1>r, <1>s DEF vars, Quiet
<1>15. ASSUME NEW w \in Workers, WorkerStep(w) \/ WorkerCrash(w) PROVE Quiet \/ Claims
  BY <1>4, <1>5, <1>6, <1>7, <1>8, <1>9, <1>15 DEF WorkerStep
<1>16. ASSUME NEW c \in Clients, ClientStep(c) PROVE Quiet
  BY <1>1, <1>2, <1>3, <1>16 DEF ClientStep
<1> QED
  BY <1>10, <1>11, <1>12, <1>13, <1>14, <1>15, <1>16 DEF Next

LEMMA NextFInv == ASSUME RowLocking PROVE TInv /\ FInv /\ [Next]_vars => FInv'
<1> SUFFICES ASSUME TInv, FInv, [Next]_vars PROVE FInv'
  OBVIOUS
<1>1. CASE Quiet
  BY <1>1, HoldFInv DEF Quiet
<1>2. CASE Claims
  BY <1>2, ClaimFInv DEF Claims
<1> QED
  BY <1>1, <1>2, StepKinds

\* With row locking, two workers never perform the same attempt of a job.
THEOREM AttemptsAreFenced == ASSUME RowLocking PROVE Spec => []AttemptFencing
<1>1. TInv /\ FInv /\ [Next]_vars => (TInv /\ FInv)'
  BY NextTInv, NextFInv
<1>2. FInv => AttemptFencing
  BY DEF FInv
<1> QED
  BY InitTInv, InitFInv, <1>1, <1>2, PTL DEF Spec

\* With row locking, no attempt begins once a cancellation is stored.
THEOREM CancellationStopsAttempts == ASSUME RowLocking PROVE Spec => NoAttemptAfterCancel
<1> DEFINE A == \A j \in JobIds : jobs[j].cancel => jobs'[j].attempt = jobs[j].attempt
<1>1. TInv /\ FInv /\ [Next]_vars => [A]_vars
  <2> SUFFICES ASSUME TInv, FInv, [Next]_vars, NEW j \in JobIds, jobs[j].cancel
               PROVE  jobs'[j].attempt = jobs[j].attempt
    OBVIOUS
  <2>1. CASE Quiet
    BY <2>1 DEF Quiet, AttemptKept
  <2>2. CASE Claims
    BY <2>2 DEF Claims, Begin, TInv, TypeOK
  <2> QED
    BY <2>1, <2>2, StepKinds
<1>2. TInv /\ FInv /\ [Next]_vars => (TInv /\ FInv)'
  BY NextTInv, NextFInv
<1> QED
  BY InitTInv, InitFInv, <1>1, <1>2, PTL DEF Spec, NoAttemptAfterCancel

-----------------------------------------------------------------------------
(* The queue implements the ledger.                                        *)

\* What the ledger sees of a row does not change.
RowKept(j) ==
  /\ Inserted(j) <=> Inserted(j)'
  /\ jobs'[j].cancel = jobs[j].cancel /\ jobs'[j].attempt = jobs[j].attempt
  /\ jobs'[j].user = jobs[j].user /\ jobs'[j].request = jobs[j].request

LEMMA NamesKept ==
  ASSUME \A j \in JobIds : RowKept(j)
  PROVE  /\ UNCHANGED [j \in JobIds |-> Wanted(j)]
         /\ UNCHANGED [j \in JobIds |-> jobs[j].attempt]
         /\ UNCHANGED [j \in JobIds |-> jobs[j].cancel]
<1>1. \A j \in JobIds : Wanted(j)' = Wanted(j)
  BY DEF RowKept, Wanted, ResultOf, Inserted
<1> QED
  BY <1>1 DEF RowKept

\* No session begins or ends an attempt.
LEMMA OpenKept ==
  ASSUME \A w \in Workers : Holds(w), Busy \subseteq Busy'
  PROVE  UNCHANGED OpenAttempts
<1>1. Busy' = Busy /\ \A w \in Busy : exec'[w].job = exec[w].job /\ exec'[w].attempt = exec[w].attempt
  BY DEF Holds, Busy
<1> QED
  BY <1>1 DEF OpenAttempts

\* The session of w ends its attempt; fencing says nobody else holds it.
LEMMA OpenClosed ==
  ASSUME TInv, FInv, NEW w \in Busy, exec' = [exec EXCEPT ![w] = Idle]
  PROVE  /\ <<exec[w].job, exec[w].attempt>> \in OpenAttempts
         /\ OpenAttempts' = OpenAttempts \ {<<exec[w].job, exec[w].attempt>>}
         /\ exec[w].job \in JobIds /\ exec[w].attempt \in 1..jobs[exec[w].job].attempt
<1>1. exec[w].job \in JobIds /\ exec[w].attempt \in 1..jobs[exec[w].job].attempt
  BY DEF TInv, ExecRefs, Inserted, FInv, Numbered, Busy
<1>2. Busy' = Busy \ {w} /\ \A v \in Busy' : exec'[v] = exec[v]
  BY IdleTypes DEF TInv, TypeOK, Busy
<1>3. \A v \in Busy \ {w} :
        <<exec[v].job, exec[v].attempt>> # <<exec[w].job, exec[w].attempt>>
  BY <1>1 DEF FInv, AttemptFencing, Executing, Busy
<1>4. OpenAttempts' = {<<exec[v].job, exec[v].attempt>> : v \in Busy \ {w}}
  BY <1>2 DEF OpenAttempts
<1> QED
  BY <1>1, <1>3, <1>4 DEF OpenAttempts

\* An idle worker begins attempt n of job j.
LEMMA OpenBegun ==
  ASSUME TInv, NEW w \in Workers, NEW j \in JobIds, NEW n \in Nat,
         exec[w].pc = "idle", Begin(w, j, n)
  PROVE  OpenAttempts' = OpenAttempts \cup {<<j, n + 1>>}
<1>1. /\ exec'[w].pc = "claimed" /\ exec'[w].job = j /\ exec'[w].attempt = n + 1
      /\ \A v \in Workers : v # w => exec'[v] = exec[v]
  BY DEF Begin, TInv, TypeOK
<1>2. Busy' = Busy \cup {w} /\ w \notin Busy
  BY <1>1 DEF Busy
<1> QED
  BY <1>1, <1>2 DEF OpenAttempts, Busy

LEMMA LedgerInit == Init => Ledger!Init
<1> SUFFICES ASSUME Init PROVE Ledger!Init
  OBVIOUS
<1>1. OpenAttempts = {}
  BY IdleTypes DEF Init, OpenAttempts, Busy
<1>2. \A j \in JobIds : /\ Wanted(j) = None
                        /\ jobs[j].attempt = 0 /\ jobs[j].cancel = FALSE
  BY DEF Init, Wanted, NoRow
<1> QED
  BY <1>1, <1>2 DEF Init, Ledger!Init

LEMMA LedgerStutter ==
  ASSUME \A j \in JobIds : RowKept(j), UNCHANGED OpenAttempts, UNCHANGED results
  PROVE  UNCHANGED Ledger!ledger
  BY NamesKept DEF Ledger!ledger

LEMMA LedgerClose ==
  ASSUME TInv, FInv, \A j \in JobIds : RowKept(j), NEW w \in Busy,
         exec' = [exec EXCEPT ![w] = Idle],
         UNCHANGED results \/ results' = results \cup {ResultOf(exec[w].job)}
  PROVE  Ledger!Next
<1> DEFINE j == exec[w].job
           n == exec[w].attempt
<1>1. /\ <<j, n>> \in OpenAttempts /\ OpenAttempts' = OpenAttempts \ {<<j, n>>}
      /\ j \in JobIds /\ n \in 1..jobs[j].attempt
  BY OpenClosed
<1>2. Wanted(j) = ResultOf(j)
  BY DEF TInv, ExecRefs, Inserted, Wanted, Busy
<1> HIDE DEF j, n
<1>3. Ledger!Abandon(j, n) \/ Ledger!Publish(j, n)
  BY <1>1, <1>2, NamesKept DEF Ledger!Abandon, Ledger!Publish, j
<1> QED
  BY <1>1, <1>3 DEF Ledger!Next

LEMMA LedgerStep ==
  ASSUME RowLocking, TInv, FInv, [Next]_vars
  PROVE  [Ledger!Next]_(Ledger!ledger)
<1> USE QueueAssumption
<1>t. TypeOK /\ Rows /\ ExecRefs /\ ClientRefs
  BY DEF TInv
<1>n. \A w \in Workers : exec[w].pc \notin {"claiming", "dropping"}
  BY DEF FInv, Numbered
<1>r. ASSUME UNCHANGED jobs PROVE \A j \in JobIds : RowKept(j)
  BY <1>r DEF RowKept, Inserted
<1>s. ASSUME UNCHANGED exec PROVE UNCHANGED OpenAttempts
  BY <1>s DEF OpenAttempts, Busy
<1>u. ASSUME NEW i \in JobIds, Inserted(i), NEW r \in Row, r.status # "absent",
             r.cancel = jobs[i].cancel, r.attempt = jobs[i].attempt,
             r.user = jobs[i].user, r.request = jobs[i].request,
             jobs' = [jobs EXCEPT ![i] = r]
      PROVE  \A j \in JobIds : RowKept(j)
  BY <1>t, <1>u DEF RowKept, Inserted, TypeOK
<1>1. ASSUME NEW c \in Clients,
             \/ \E u \in Users, k \in Keys \cup {None}, r \in Requests : SubmitLookup(c, u, k, r)
             \/ \E u \in Users, j \in JobIds : CancelRead(c, u, j)
      PROVE  UNCHANGED Ledger!ledger
  BY <1>1, <1>r, <1>s, LedgerStutter DEF SubmitLookup, CancelRead
<1>2. ASSUME NEW c \in Clients, SubmitInsert(c) PROVE Ledger!Next
  <2>1. client[c].user \in Users /\ client[c].request \in Requests
    BY <1>t, <1>2 DEF SubmitInsert, ClientRefs
  <2>2. PICK j \in JobIds :
          /\ jobs[j].status = "absent"
          /\ jobs' = [jobs EXCEPT ![j] = [NoRow EXCEPT
                        !.status = "queued", !.user = client[c].user,
                        !.key = client[c].key, !.request = client[c].request]]
    BY <1>2 DEF SubmitInsert
  <2> DEFINE r == <<client[c].user, client[c].request>>
  <2>3. r \in Results /\ Wanted(j) = None
    BY <2>1, <2>2 DEF Results, Wanted
  <2>4. \A i \in JobIds : /\ jobs'[i].attempt = jobs[i].attempt
                          /\ jobs'[i].cancel = jobs[i].cancel
                          /\ Wanted(i)' = IF i = j THEN r ELSE Wanted(i)
    BY <1>t, <2>2 DEF TypeOK, Rows, NoRow, Wanted, ResultOf
  <2>5. UNCHANGED OpenAttempts /\ UNCHANGED results
    BY <1>2, <1>s DEF SubmitInsert
  <2> HIDE DEF r
  <2>6. Ledger!Submit(j, r)
    BY <2>3, <2>4, <2>5 DEF Ledger!Submit
  <2> QED
    BY <2>3, <2>6 DEF Ledger!Next
<1>3. ASSUME NEW c \in Clients, CancelWrite(c) PROVE Ledger!Next
  <2>j. PICK j \in JobIds : j = client[c].job /\ Inserted(j)
    BY <1>t, <1>3 DEF CancelWrite, ClientRefs, Inserted
  <2>1. Inserted(j) /\ jobs[j] \in Row
    BY <1>t, <2>j DEF TypeOK, Inserted
  <2>2. Wanted(j) # None
    BY <1>t, <2>1 DEF Wanted, ResultOf, Rows, Inserted
  <2> DEFINE st == IF client[c].queued THEN "cancelled" ELSE jobs[j].status
             r == [jobs[j] EXCEPT !.cancel = TRUE, !.status = st]
  <2>3. jobs' = [jobs EXCEPT ![j] = r]
    BY <1>3, <2>j, <2>1 DEF CancelWrite, Row
  <2>a. /\ r.attempt = jobs[j].attempt /\ r.cancel = TRUE /\ r.status # "absent"
        /\ r.user = jobs[j].user /\ r.request = jobs[j].request
    BY <2>1 DEF Row, Inserted
  <2> HIDE DEF r, st
  <2>4. ASSUME NEW i \in JobIds
        PROVE  /\ jobs'[i].attempt = jobs[i].attempt
               /\ jobs'[i].cancel = IF i = j THEN TRUE ELSE jobs[i].cancel
               /\ Wanted(i)' = Wanted(i)
    <3>1. CASE i = j
      <4>1. jobs'[i] = r
        BY <1>t, <2>1, <2>3, <3>1 DEF TypeOK, Inserted
      <4> QED
        BY <2>1, <2>a, <3>1, <4>1 DEF Wanted, ResultOf, Inserted
    <3>2. CASE i # j
      <4>1. jobs'[i] = jobs[i]
        BY <1>t, <2>3, <3>2 DEF TypeOK
      <4> QED
        BY <3>2, <4>1 DEF Wanted, ResultOf
    <3> QED
      BY <3>1, <3>2
  <2>5. UNCHANGED OpenAttempts /\ UNCHANGED results
    BY <1>3, <1>s DEF CancelWrite
  <2>6. Ledger!Cancel(j)
    BY <2>1, <2>2, <2>4, <2>5 DEF Ledger!Cancel, Inserted
  <2> QED
    BY <2>6 DEF Ledger!Next
<1>4. ASSUME NEW w \in Workers, NEW j \in JobIds, Claim(w, j)
      PROVE  Ledger!Next \/ UNCHANGED Ledger!ledger
  <2>1. Inserted(j) /\ jobs[j] \in Row /\ jobs[j].attempt \in Nat
    BY <1>t, <1>4 DEF Claim, NextQueued, Inserted, TypeOK, Row
  <2>2. CASE jobs[j].cancel
    <3> DEFINE r == [jobs[j] EXCEPT !.status = "cancelled"]
    <3>1. r \in Row /\ r.status # "absent" /\ r.cancel = jobs[j].cancel
          /\ r.attempt = jobs[j].attempt /\ r.user = jobs[j].user /\ r.request = jobs[j].request
      BY <2>1 DEF Row, Terminal
    <3>2. jobs' = [jobs EXCEPT ![j] = r]
      BY <1>4, <2>1, <2>2 DEF Claim, Drop
    <3> HIDE DEF r
    <3>3. \A i \in JobIds : RowKept(i)
      BY <1>u, <2>1, <3>1, <3>2
    <3> QED
      BY <1>4, <1>s, <2>2, <3>3, LedgerStutter DEF Claim
  <2>3. CASE ~jobs[j].cancel
    <3>1. Begin(w, j, jobs[j].attempt) /\ exec[w].pc = "idle" /\ UNCHANGED results
      BY <1>4, <2>3 DEF Claim, Free
    <3>2. OpenAttempts' = OpenAttempts \cup {<<j, jobs[j].attempt + 1>>}
      BY <2>1, <3>1, OpenBegun
    <3>3. ASSUME NEW i \in JobIds
          PROVE  /\ jobs'[i].attempt = IF i = j THEN jobs[j].attempt + 1 ELSE jobs[i].attempt
                 /\ jobs'[i].cancel = jobs[i].cancel
                 /\ Wanted(i)' = Wanted(i)
      <4>1. jobs[i] \in Row /\ jobs \in [JobIds -> Row]
        BY <1>t DEF TypeOK
      <4> QED
        BY <2>1, <3>1, <4>1 DEF Begin, Row, Inserted, Wanted, ResultOf
    <3>4. Wanted(j) # None
      BY <1>t, <2>1 DEF Wanted, ResultOf, Rows, Inserted
    <3>5. Ledger!BeginAttempt(j)
      BY <2>1, <2>3, <3>1, <3>2, <3>3, <3>4 DEF Ledger!BeginAttempt
    <3> QED
      BY <3>5 DEF Ledger!Next
  <2> QED
    BY <2>2, <2>3
<1>5. ASSUME NEW w \in Workers, (\E j \in JobIds : ClaimRead(w, j)) \/ ClaimWrite(w)
      PROVE  FALSE
  BY <1>5, <1>n DEF ClaimRead, ClaimWrite
<1>6. ASSUME NEW w \in Workers, Refresh(w) PROVE UNCHANGED Ledger!ledger
  <2>1. (\A v \in Workers : Holds(v)) /\ Busy \subseteq Busy'
    BY <1>t, <1>n, <1>6 DEF Refresh, Holds, TypeOK, Execution, Busy
  <2> QED
    BY <1>6, <1>r, <2>1, OpenKept, LedgerStutter DEF Refresh
<1>7. ASSUME NEW w \in Workers, FinishFailed(w) \/ FinishCompleted(w) PROVE Ledger!Next
  <2>1. w \in Busy /\ Inserted(exec[w].job) /\ exec' = [exec EXCEPT ![w] = Idle]
    BY <1>t, <1>7 DEF FinishFailed, FinishCompleted, Busy, ExecRefs
  <2>2. UNCHANGED results \/ results' = results \cup {ResultOf(exec[w].job)}
    BY <1>7 DEF FinishFailed, FinishCompleted
  <2>3. ASSUME NEW i \in JobIds PROVE RowKept(i)
    <3>1. jobs[i] \in Row /\ jobs \in [JobIds -> Row]
      BY <1>t DEF TypeOK
    <3>2. CASE FinishFailed(w)
      BY <2>1, <3>1, <3>2 DEF FinishFailed, RowKept, Row, Inserted
    <3>3. CASE FinishCompleted(w)
      <4>1. jobs' = [jobs EXCEPT ![exec[w].job] = [jobs[exec[w].job] EXCEPT
                       !.status = "completed", !.heartbeat = "fresh",
                       !.result = IF exec[w].loaded = ResultOf(exec[w].job)
                                  THEN @ ELSE ResultOf(exec[w].job)]]
        BY <3>3 DEF FinishCompleted
      <4> QED
        BY <2>1, <3>1, <4>1 DEF RowKept, Row, Inserted
    <3> QED
      BY <1>7, <3>2, <3>3
  <2> QED
    BY <2>1, <2>2, <2>3, LedgerClose
<1>8. ASSUME NEW w \in Workers, FinishConflict(w) \/ WorkerCrash(w)
      PROVE  Ledger!Next \/ UNCHANGED Ledger!ledger
  <2>1. UNCHANGED <<jobs, results>> /\ exec' = [exec EXCEPT ![w] = Idle]
    BY <1>8 DEF FinishConflict, WorkerCrash, Die
  <2>2. CASE w \in Busy
    BY <1>r, <2>1, <2>2, LedgerClose
  <2>3. CASE w \notin Busy
    <3>1. (\A v \in Workers : Holds(v)) /\ Busy \subseteq Busy'
      BY <1>t, <1>n, <2>1, <2>3, IdleTypes DEF Holds, TypeOK, Busy
    <3> QED
      BY <1>r, <2>1, <3>1, OpenKept, LedgerStutter
  <2> QED
    BY <2>2, <2>3
<1>9. ASSUME ApiCrash \/ (\E p \in Processes : RecoverRead(p)) PROVE UNCHANGED Ledger!ledger
  BY <1>9, <1>r, <1>s, LedgerStutter DEF ApiCrash, RecoverRead
<1>10. ASSUME NEW p \in Processes, RecoverWrite(p) PROVE UNCHANGED Ledger!ledger
  <2>1. ASSUME NEW j \in JobIds PROVE RowKept(j)
    <3>1. jobs[j] \in Row /\ plan[p][j] \in Verdicts
      BY <1>t DEF TypeOK
    <3>2. CASE plan[p][j] = "skip"
      BY <1>10, <3>2 DEF RecoverWrite, RowKept, Inserted
    <3>3. CASE plan[p][j] # "skip"
      <4>1. /\ Inserted(j)
            /\ jobs'[j] = [jobs[j] EXCEPT !.status = plan[p][j], !.heartbeat = "none"]
        BY <1>10, <3>3 DEF RecoverWrite, TInv, PlanRefs
      <4> QED
        BY <3>1, <3>3, <4>1 DEF RowKept, Row, Verdicts, Inserted
    <3> QED
      BY <3>2, <3>3
  <2> QED
    BY <1>10, <1>s, <2>1, LedgerStutter DEF RecoverWrite
<1>11. ASSUME NEW j \in JobIds, HeartbeatAges(j) PROVE UNCHANGED Ledger!ledger
  <2> DEFINE r == [jobs[j] EXCEPT !.heartbeat = "stale"]
  <2>1. Inserted(j) /\ jobs[j] \in Row /\ jobs' = [jobs EXCEPT ![j] = r]
    BY <1>t, <1>11 DEF HeartbeatAges, TypeOK, Inserted
  <2>2. r \in Row /\ r.status # "absent" /\ r.cancel = jobs[j].cancel
        /\ r.attempt = jobs[j].attempt /\ r.user = jobs[j].user /\ r.request = jobs[j].request
    BY <2>1 DEF Row, Inserted
  <2> HIDE DEF r
  <2>3. \A i \in JobIds : RowKept(i)
    BY <1>u, <2>1, <2>2
  <2> QED
    BY <1>11, <1>s, <2>3, LedgerStutter DEF HeartbeatAges
<1>12. ASSUME NEW u \in Users, NEW a \in {"writer", "reader"}, ChangeAccess(u, a)
       PROVE  UNCHANGED Ledger!ledger
  <2>1. ASSUME NEW w \in Workers PROVE Holds(w) /\ exec'[w].pc = exec[w].pc
    <3>1. exec[w] \in Execution
      BY <1>t DEF TypeOK
    <3> QED
      BY <1>12, <1>n, <3>1 DEF ChangeAccess, Holds, Execution
  <2>2. Busy \subseteq Busy'
    BY <2>1 DEF Busy
  <2> QED
    BY <1>12, <1>r, <2>1, <2>2, OpenKept, LedgerStutter DEF ChangeAccess
<1>13. CASE UNCHANGED vars
  BY <1>13, <1>r, <1>s, LedgerStutter DEF vars
<1>14. ASSUME NEW w \in Workers, WorkerStep(w) \/ WorkerCrash(w)
       PROVE  [Ledger!Next]_(Ledger!ledger)
  BY <1>4, <1>5, <1>6, <1>7, <1>8, <1>14 DEF WorkerStep
<1>15. ASSUME NEW c \in Clients, ClientStep(c) PROVE [Ledger!Next]_(Ledger!ledger)
  BY <1>1, <1>2, <1>3, <1>15 DEF ClientStep
<1> QED
  BY <1>9, <1>10, <1>11, <1>12, <1>13, <1>14, <1>15 DEF Next

\* With row locking the queue implements the ledger: each attempt number is
\* handed out once, never after a cancellation, and publishes at most once.
THEOREM QueueImplementsLedger == ASSUME RowLocking PROVE Spec => ImplementsLedger
<1>1. TInv /\ FInv /\ [Next]_vars => (TInv /\ FInv)'
  BY NextTInv, NextFInv
<1>2. TInv /\ FInv /\ [Next]_vars => [Ledger!Next]_(Ledger!ledger)
  BY LedgerStep
<1> QED
  BY InitTInv, InitFInv, LedgerInit, <1>1, <1>2, PTL DEF Spec, ImplementsLedger, Ledger!Spec

-----------------------------------------------------------------------------
(* The bound on retries, in the local deployment.                          *)

LocalDeployment == (\A v, w \in Workers : v = w) /\ MaxCrashes[API] = 0

\* A queued row has an attempt left.
Rationed ==
  \A j \in JobIds : /\ jobs[j].attempt <= MaxAttempts
                    /\ jobs[j].status = "queued" => jobs[j].attempt < MaxAttempts

\* A session exists only in a worker that is up, and a claim that waits for its
\* commit knows the row's count, which has an attempt left.
Claiming ==
  \A w \in Workers : /\ exec[w].pc # "idle" => up[w] = "up"
                     /\ exec[w].pc = "claiming" =>
                          /\ exec[w].attempt = jobs[exec[w].job].attempt
                          /\ exec[w].attempt < MaxAttempts

\* Only a worker that starts has anything to recover, and it requeues only jobs
\* with an attempt left.
Recovering ==
  /\ \A j \in JobIds : plan[API][j] = "skip"
  /\ \A w \in Workers, j \in JobIds :
       /\ plan[w][j] # "skip" => up[w] = "recovering"
       /\ plan[w][j] = "queued" => jobs[j].attempt < MaxAttempts

\* No request was served before the API came up.
Unserved ==
  up[API] # "up" => /\ \A j \in JobIds : jobs[j].status = "absent"
                    /\ \A c \in Clients : client[c].pc = "idle"

NInv == Rationed /\ Claiming /\ Recovering /\ Unserved

\* What a step that neither claims nor recovers does to the rows and to the
\* sessions: counts stay, only a job with an attempt left is queued, and no
\* claim starts.
RowsCalm ==
  \A j \in JobIds : /\ AttemptKept(j)
                    /\ jobs'[j].status = "queued" =>
                         jobs[j].status = "queued" \/ jobs[j].attempt < MaxAttempts

SessionsCalm ==
  \A w \in Workers : /\ exec'[w].pc # "idle" => up[w] = "up"
                     /\ exec'[w].pc = "claiming" => exec'[w] = exec[w]

LEMMA InitNInv == Init => NInv
  BY IdleTypes, QueueAssumption
     DEF Init, NInv, Rationed, Claiming, Recovering, Unserved, Idle, NoRow, NoPlan, NoRequest, Processes

LEMMA NextNInv == ASSUME LocalDeployment PROVE TInv /\ NInv /\ [Next]_vars => NInv'
<1> SUFFICES ASSUME TInv, NInv, [Next]_vars PROVE NInv'
  OBVIOUS
<1> USE QueueAssumption
<1>t. TypeOK /\ Rows /\ ExecRefs /\ ClientRefs /\ PlanRefs
  BY DEF TInv
<1>n. Rationed /\ Claiming /\ Recovering /\ Unserved
  BY DEF NInv
<1>i. ASSUME NEW j, Inserted(j) PROVE up[API] = "up"
  BY <1>n, <1>i DEF Unserved, Inserted
<1>q. ASSUME RowsCalm, SessionsCalm, UNCHANGED <<up, plan>>,
             up[API] = "up" \/ UNCHANGED <<jobs, client>>
      PROVE  NInv'
  <2>1. Rationed'
    BY <1>n, <1>q DEF Rationed, AttemptKept, RowsCalm
  <2>2. Claiming'
    <3> SUFFICES ASSUME NEW w \in Workers
                 PROVE  /\ exec'[w].pc # "idle" => up'[w] = "up"
                        /\ exec'[w].pc = "claiming" =>
                             /\ exec'[w].attempt = jobs'[exec'[w].job].attempt
                             /\ exec'[w].attempt < MaxAttempts
      BY DEF Claiming
    <3>1. exec[w].pc = "claiming" => exec[w].job \in JobIds
      BY <1>t DEF ExecRefs, Inserted
    <3>. QED
      BY <1>n, <1>q, <3>1 DEF Claiming, AttemptKept, RowsCalm, SessionsCalm
  <2>3. Recovering'
    BY <1>n, <1>q DEF Recovering, AttemptKept, RowsCalm
  <2>4. Unserved'
    BY <1>n, <1>q DEF Unserved
  <2>. QED
    BY <2>1, <2>2, <2>3, <2>4 DEF NInv
<1>r. ASSUME UNCHANGED jobs
      PROVE  RowsCalm
  BY <1>r DEF RowsCalm, AttemptKept
<1>s. ASSUME UNCHANGED exec
      PROVE  SessionsCalm
  BY <1>n, <1>s DEF SessionsCalm, Claiming
<1>e. ASSUME NEW w \in Workers, exec' = [exec EXCEPT ![w] = Idle]
      PROVE  SessionsCalm
  BY <1>t, <1>n, <1>e, IdleTypes DEF SessionsCalm, Claiming, TypeOK
<1>u. ASSUME NEW j \in JobIds, NEW r \in Row, r.attempt = jobs[j].attempt,
             r.status = "queued" => jobs[j].status = "queued",
             jobs' = [jobs EXCEPT ![j] = r]
      PROVE  RowsCalm
  BY <1>t, <1>u DEF RowsCalm, AttemptKept, TypeOK
<1>1. ASSUME NEW c \in Clients,
             \/ \E u \in Users, k \in Keys \cup {None}, r \in Requests : SubmitLookup(c, u, k, r)
             \/ \E u \in Users, j \in JobIds : CancelRead(c, u, j)
      PROVE  NInv'
  BY <1>1, <1>q, <1>r, <1>s DEF SubmitLookup, CancelRead, SignedIn
<1>2. ASSUME NEW c \in Clients, SubmitInsert(c) PROVE NInv'
  <2>1. PICK j \in JobIds : jobs[j].status = "absent" /\ jobs' = [jobs EXCEPT ![j] = [NoRow EXCEPT
                     !.status = "queued", !.user = client[c].user,
                     !.key = client[c].key, !.request = client[c].request]]
    BY <1>2 DEF SubmitInsert
  <2>2. jobs[j] = NoRow
    BY <1>t, <2>1 DEF Rows
  <2>3. jobs[j].attempt = 0 /\ jobs'[j].attempt = 0 /\ \A i \in JobIds : i # j => jobs'[i] = jobs[i]
    BY <1>t, <2>1, <2>2 DEF NoRow, TypeOK
  <2>4. up[API] = "up"
    BY <1>n, <1>2 DEF SubmitInsert, Unserved
  <2>5. RowsCalm
    BY <2>3, QueueAssumption DEF RowsCalm, AttemptKept
  <2>. QED
    BY <1>2, <1>q, <1>s, <2>4, <2>5 DEF SubmitInsert
<1>3. ASSUME NEW c \in Clients, CancelWrite(c) PROVE NInv'
  <2> DEFINE j == client[c].job
             r == [jobs[j] EXCEPT !.cancel = TRUE, !.status = IF client[c].queued THEN "cancelled" ELSE @]
  <2>1. j \in JobIds /\ Inserted(j) /\ jobs[j] \in Row /\ client[c] \in Session
    BY <1>t, <1>3 DEF CancelWrite, ClientRefs, Inserted, TypeOK
  <2>2. r \in Row /\ r.attempt = jobs[j].attempt /\ (r.status = "queued" => jobs[j].status = "queued")
    BY <2>1 DEF Row, Session, Terminal
  <2>3. jobs' = [jobs EXCEPT ![j] = r]
    BY <1>3 DEF CancelWrite
  <2>4. up[API] = "up" /\ UNCHANGED <<up, plan, exec>>
    BY <1>3, <1>i, <2>1 DEF CancelWrite
  <2>. HIDE DEF r, j
  <2>. QED
    BY <1>q, <1>s, <1>u, <2>1, <2>2, <2>3, <2>4
<1>4. ASSUME NEW w \in Workers, NEW j \in JobIds, Inserted(j), up[w] = "up",
             jobs[j].attempt < MaxAttempts, Begin(w, j, jobs[j].attempt),
             UNCHANGED <<up, plan, client>>
      PROVE  NInv'
  <2>1. jobs[j] \in Row /\ jobs[j].attempt \in Nat
    BY <1>t DEF TypeOK, Row
  <2>2. /\ jobs'[j].attempt = jobs[j].attempt + 1 /\ jobs'[j].status = "running"
        /\ \A i \in JobIds : i # j => jobs'[i] = jobs[i]
    BY <1>t, <1>4, <2>1 DEF Begin, Row, TypeOK
  <2>3. exec'[w].pc = "claimed" /\ \A v \in Workers : v = w
    BY <1>t, <1>4 DEF Begin, TypeOK, LocalDeployment
  <2>4. up[API] = "up"
    BY <1>4, <1>i
  <2>5. Rationed'
    BY <1>4, <1>n, <2>1, <2>2 DEF Rationed
  <2>6. Claiming'
    BY <1>4, <2>3 DEF Claiming
  <2>7. Recovering'
    <3>1. \A v \in Workers, i \in JobIds : plan[v][i] = "skip"
      BY <1>4, <1>n, <2>3 DEF Recovering
    <3>. QED
      BY <1>4, <1>n, <3>1 DEF Recovering
  <2>. QED
    BY <1>4, <2>4, <2>5, <2>6, <2>7 DEF NInv, Unserved
<1>5. ASSUME NEW w \in Workers, NEW j \in JobIds, Inserted(j), Drop(j),
             UNCHANGED <<up, plan, client>>, exec' = exec \/ exec' = [exec EXCEPT ![w] = Idle]
      PROVE  NInv'
  <2>1. RowsCalm
    BY <1>t, <1>5 DEF RowsCalm, Drop, AttemptKept, TypeOK, Row
  <2>2. up[API] = "up"
    BY <1>5, <1>i
  <2>3. SessionsCalm
    BY <1>5, <1>s, <1>e
  <2>. QED
    BY <1>5, <1>q, <2>1, <2>2, <2>3
<1>6. ASSUME NEW w \in Workers, NEW j \in JobIds, Claim(w, j) PROVE NInv'
  <2>1. Inserted(j) /\ up[w] = "up" /\ jobs[j].attempt < MaxAttempts
    BY <1>6, <1>n DEF Claim, NextQueued, Free, Inserted, Rationed
  <2>. QED
    BY <1>4, <1>5, <1>6, <2>1 DEF Claim
<1>7. ASSUME NEW w \in Workers, NEW j \in JobIds, ClaimRead(w, j) PROVE NInv'
  <2>1. /\ up[w] = "up" /\ jobs[j].attempt < MaxAttempts /\ Inserted(j)
        /\ UNCHANGED <<jobs, up, plan, client>>
        /\ \A v \in Workers : v = w
    BY <1>7, <1>n DEF ClaimRead, NextQueued, Free, Rationed, Inserted, LocalDeployment
  <2>2. exec'[w].job = j /\ exec'[w].attempt = jobs[j].attempt
    BY <1>t, <1>7 DEF ClaimRead, Idle, TypeOK
  <2>3. Claiming'
    BY <2>1, <2>2 DEF Claiming
  <2>. QED
    BY <1>n, <2>1, <2>3 DEF NInv, Rationed, Recovering, Unserved
<1>8. ASSUME NEW w \in Workers, ClaimWrite(w) PROVE NInv'
  <2> DEFINE j == exec[w].job
  <2>1. Inserted(j) /\ j \in JobIds /\ up[w] = "up" /\ UNCHANGED <<up, plan, client>>
    BY <1>t, <1>n, <1>8 DEF ClaimWrite, ExecRefs, Inserted, Claiming
  <2>2. CASE exec[w].pc = "claiming"
    <3>1. exec[w].attempt = jobs[j].attempt /\ jobs[j].attempt < MaxAttempts
      BY <1>n, <2>2 DEF Claiming
    <3>2. Begin(w, j, jobs[j].attempt)
      BY <1>8, <2>2, <3>1 DEF ClaimWrite
    <3>. QED
      BY <1>4, <2>1, <3>1, <3>2
  <2>3. CASE exec[w].pc # "claiming"
    BY <1>5, <1>8, <2>1, <2>3 DEF ClaimWrite
  <2>. QED
    BY <2>2, <2>3
<1>9. ASSUME NEW w \in Workers, Refresh(w) PROVE NInv'
  <2>1. SessionsCalm
    BY <1>t, <1>n, <1>9 DEF Refresh, SessionsCalm, Claiming, TypeOK, Execution
  <2>2. RowsCalm /\ UNCHANGED <<up, plan, jobs, client>>
    BY <1>9, <1>r DEF Refresh
  <2>. QED
    BY <1>q, <2>1, <2>2
<1>10. ASSUME NEW w \in Workers, FinishFailed(w) \/ FinishCompleted(w) PROVE NInv'
  <2> DEFINE j == exec[w].job
  <2>1. j \in JobIds /\ Inserted(j) /\ exec' = [exec EXCEPT ![w] = Idle] /\ UNCHANGED <<up, plan, client>>
    BY <1>t, <1>10 DEF FinishFailed, FinishCompleted, ExecRefs, Inserted
  <2>2. RowsCalm
    <3>1. jobs[j] \in Row
      BY <1>t, <2>1 DEF TypeOK
    <3>2. PICK s \in Terminal : \E r : jobs' = [jobs EXCEPT ![j] = [jobs[j] EXCEPT
             !.status = s, !.heartbeat = "fresh", !.result = r]]
      BY <1>10 DEF FinishFailed, FinishCompleted, Terminal
    <3>3. /\ jobs'[j].attempt = jobs[j].attempt /\ jobs'[j].status # "queued"
          /\ \A i \in JobIds : i # j => jobs'[i] = jobs[i]
      BY <1>t, <2>1, <3>1, <3>2 DEF TypeOK, Row, Terminal
    <3>. HIDE DEF j
    <3>. QED
      BY <3>3 DEF RowsCalm, AttemptKept
  <2>3. up[API] = "up"
    BY <1>i, <2>1
  <2>4. SessionsCalm
    BY <1>e, <2>1
  <2>. QED
    BY <1>q, <2>1, <2>2, <2>3, <2>4
<1>11. ASSUME NEW w \in Workers, FinishConflict(w) \/ WorkerCrash(w) PROVE NInv'
  <2>1. /\ UNCHANGED <<jobs, client>> /\ exec'[w] = Idle
        /\ plan' = [plan EXCEPT ![w] = NoPlan] /\ up' = [up EXCEPT ![w] = "down"]
        /\ \A v \in Workers : v = w
    BY <1>t, <1>11 DEF FinishConflict, WorkerCrash, Die, TypeOK, LocalDeployment
  <2>2. plan'[w] = NoPlan /\ plan'[API] = plan[API] /\ up'[API] = up[API]
    BY <1>t, <2>1 DEF TypeOK, Processes
  <2>3. Claiming'
    BY <2>1, IdleTypes DEF Claiming
  <2>4. Recovering'
    BY <1>n, <2>1, <2>2, IdleTypes DEF Recovering
  <2>. QED
    BY <1>n, <2>1, <2>2, <2>3, <2>4 DEF NInv, Rationed, Unserved
<1>12. ~ApiCrash
  BY <1>t DEF ApiCrash, LocalDeployment, TypeOK, Processes
<1>13. ASSUME NEW p \in Processes, RecoverRead(p) PROVE NInv'
  <2>1. /\ up[p] = "down" /\ UNCHANGED <<jobs, exec, client>>
        /\ up'[p] = "recovering" /\ \A x \in Processes : x # p => up'[x] = up[x] /\ plan'[x] = plan[x]
        /\ \A j \in JobIds : plan'[p][j] = Verdict(j)
    BY <1>t, <1>13 DEF RecoverRead, TypeOK
  <2>2. \A j \in JobIds : Verdict(j) = "queued" => jobs[j].attempt < MaxAttempts
    BY DEF Verdict
  <2>3. p = API => \A j \in JobIds : Verdict(j) = "skip"
    BY <1>n, <2>1 DEF Unserved, Verdict, Interrupted
  <2>4. Claiming'
    BY <1>n, <2>1 DEF Claiming, Processes
  <2>5. Recovering'
    BY <1>n, <2>1, <2>2, <2>3 DEF Recovering, Processes
  <2>6. Unserved'
    BY <1>n, <2>1 DEF Unserved, Processes
  <2>. QED
    BY <1>n, <2>1, <2>4, <2>5, <2>6 DEF NInv, Rationed
<1>14. ASSUME NEW p \in Processes, RecoverWrite(p) PROVE NInv'
  <2>1. /\ up[p] = "recovering" /\ UNCHANGED <<exec, client>>
        /\ up'[p] = "up" /\ \A x \in Processes : x # p => up'[x] = up[x] /\ plan'[x] = plan[x]
        /\ \A j \in JobIds : plan'[p][j] = "skip"
    BY <1>t, <1>14, IdleTypes DEF RecoverWrite, TypeOK
  <2>2. ASSUME NEW j \in JobIds
        PROVE  /\ AttemptKept(j)
               /\ plan[p][j] = "skip" => jobs'[j] = jobs[j]
               /\ plan[p][j] # "skip" => jobs'[j].status = plan[p][j]
    <3>1. jobs[j] \in Row
      BY <1>t DEF TypeOK
    <3>. QED
      BY <1>14, <3>1 DEF RecoverWrite, AttemptKept, Row
  <2>3. p = API \/ p \in Workers
    BY DEF Processes
  <2>4. Rationed'
    BY <1>n, <2>2, <2>3 DEF Rationed, Recovering, AttemptKept
  <2>5. Claiming'
    <3>1. \A w \in Workers : exec[w].pc = "claiming" => exec[w].job \in JobIds
      BY <1>t DEF ExecRefs, Inserted
    <3>. QED
      BY <1>n, <2>1, <2>2, <3>1 DEF Claiming, AttemptKept, Processes
  <2>6. Recovering'
    BY <1>n, <2>1, <2>2 DEF Recovering, AttemptKept, Processes
  <2>7. Unserved'
    <3>1. CASE p = API
      BY <2>1, <3>1 DEF Unserved
    <3>2. CASE p # API
      <4>1. up[API] # "up" => \A j \in JobIds : plan[p][j] = "skip"
        BY <1>t, <1>n DEF PlanRefs, Inserted, Unserved
      <4>. QED
        BY <1>n, <2>1, <2>2, <3>2, <4>1 DEF Unserved, Processes
    <3>. QED
      BY <3>1, <3>2
  <2>. QED
    BY <2>4, <2>5, <2>6, <2>7 DEF NInv
<1>15. ASSUME NEW j \in JobIds, HeartbeatAges(j) PROVE NInv'
  <2>1. RowsCalm
    BY <1>t, <1>15 DEF RowsCalm, HeartbeatAges, AttemptKept, TypeOK, Row
  <2>2. up[API] = "up"
    BY <1>15, <1>i DEF HeartbeatAges, Inserted
  <2>3. SessionsCalm /\ UNCHANGED <<up, plan>>
    BY <1>15, <1>s DEF HeartbeatAges
  <2>. QED
    BY <1>q, <2>1, <2>2, <2>3
<1>16. ASSUME NEW u \in Users, NEW a \in {"writer", "reader"}, ChangeAccess(u, a)
       PROVE  NInv'
  <2>1. ASSUME NEW w \in Workers
        PROVE  /\ exec'[w].pc # "idle" => up[w] = "up"
               /\ exec'[w].pc = "claiming" => exec'[w] = exec[w]
    <3>1. exec[w] \in Execution
      BY <1>t DEF TypeOK
    <3>. QED
      BY <1>16, <1>n, <3>1 DEF ChangeAccess, Claiming, Execution
  <2>. QED
    BY <1>16, <1>q, <1>r, <2>1 DEF ChangeAccess, SessionsCalm
<1>17. CASE UNCHANGED vars
  BY <1>17, <1>q, <1>r, <1>s DEF vars
<1>18. ASSUME NEW w \in Workers, WorkerStep(w) \/ WorkerCrash(w) PROVE NInv'
  BY <1>6, <1>7, <1>8, <1>9, <1>10, <1>11, <1>18 DEF WorkerStep
<1>19. ASSUME NEW c \in Clients, ClientStep(c) PROVE NInv'
  BY <1>1, <1>2, <1>3, <1>19 DEF ClientStep
<1>. QED
  BY <1>12, <1>13, <1>14, <1>15, <1>16, <1>17, <1>18, <1>19 DEF Next

\* max_attempts: however often the only worker dies, on either database and with
\* restarts at any time, no job is attempted more often.
THEOREM RetriesAreBounded == ASSUME LocalDeployment PROVE Spec => []AttemptsBounded
<1>1. Init => TInv /\ NInv
  BY InitTInv, InitNInv
<1>2. TInv /\ NInv /\ [Next]_vars => (TInv /\ NInv)'
  BY NextTInv, NextNInv
<1>3. NInv => AttemptsBounded
  BY DEF NInv, Rationed, AttemptsBounded
<1>. QED
  BY <1>1, <1>2, <1>3, PTL DEF Spec
=============================================================================
