-------------------------------- MODULE Sessions --------------------------------
(***************************************************************************)
(* One browser and its sessions: tabs that share the session cookie and    *)
(* each keep a CSRF token of their own (apps/web/lib/api.ts), the server   *)
(* that rotates the token and accepts calls (auth.py, main.py), a logout,  *)
(* an expiry, a revoked membership, and answers that are lost.             *)
(*                                                                         *)
(* A token is a fresh value of a finite set: the least one nobody holds.   *)
(***************************************************************************)
EXTENDS FiniteSets, Integers

CONSTANTS
  Calls,        \* mutations the pages make, each once
  TabOf,        \* the tab a call is made in
  Ending,       \* the calls that are a logout
  MaxSessions,  \* bound on logins
  MaxOpen,      \* bound on the calls under way at a time
  MaxWork       \* bound on logins, calls, expiries and revocations together

VARIABLES
  table,       \* auth_sessions: [csrf, revoked, expired] of each session
  membership,  \* is the membership active?
  cookie,      \* the session of the browser's cookie, 0 without one
  token,       \* each tab's csrfToken, 0 when undefined
  pending,     \* each tab's csrfRequest: the call that started it, or None
  call,        \* what each call is doing in its tab
  rotation,    \* the GET /auth/csrf a call started
  request,     \* the mutation of a call, on the server
  executed,    \* how often a call's handler ran
  revocations  \* the sessions whose logout was committed, and what was let in after

sessionVars ==
  <<table, membership, cookie, token, pending, call, rotation, request, executed, revocations>>

None == "none"
Tabs == {TabOf[c] : c \in Calls}
Tokens == 1..(MaxSessions + Cardinality(Tabs) + 3 * Cardinality(Calls) + 1)

NoRequest == [stage |-> "none", session |-> 0, token |-> 0]

InUse ==
  {table[s].csrf : s \in DOMAIN table} \cup {token[t] : t \in Tabs}
    \cup {rotation[c].token : c \in Calls} \cup {request[c].token : c \in Calls}

Fresh == CHOOSE t \in Tokens \ InUse : \A u \in Tokens \ InUse : t <= u

Work ==
  Cardinality(DOMAIN table) + Cardinality({c \in Calls : call[c].at # "idle"})
    + Cardinality({s \in DOMAIN table : table[s].expired}) + (IF membership THEN 0 ELSE 1)

SessionsTypeOK ==
  /\ DOMAIN table \subseteq 1..MaxSessions
  /\ \A s \in DOMAIN table :
       table[s] \in [csrf : Tokens, revoked : BOOLEAN, expired : BOOLEAN]
  /\ membership \in BOOLEAN
  /\ cookie \in {0} \cup DOMAIN table
  /\ token \in [Tabs -> {0} \cup Tokens]
  /\ pending \in [Tabs -> Calls \cup {None}]
  /\ call \in [Calls -> [at : {"idle", "waiting", "sent", "done", "failed"},
                         on : Calls \cup {None}, retried : BOOLEAN]]
  /\ executed \in [Calls -> Nat]

-----------------------------------------------------------------------------
SessionsInit ==
  /\ table = <<>> /\ membership = TRUE /\ cookie = 0
  /\ token = [t \in Tabs |-> 0]
  /\ pending = [t \in Tabs |-> None]
  /\ call = [c \in Calls |-> [at |-> "idle", on |-> None, retried |-> FALSE]]
  /\ rotation = [c \in Calls |-> NoRequest]
  /\ request = [c \in Calls |-> NoRequest]
  /\ executed = [c \in Calls |-> 0]
  /\ revocations = [committed |-> {}, admitted |-> {}]

(* POST /auth/login: the answer sets the browser's cookie, and the token   *)
(* of the tab that asked.                                                  *)
Login(t) ==
  /\ Cardinality(DOMAIN table) < MaxSessions /\ Work < MaxWork
  /\ membership
  /\ LET s == Cardinality(DOMAIN table) + 1
         row == [csrf |-> Fresh, revoked |-> FALSE, expired |-> FALSE]
     IN /\ table' = [x \in 1..s |-> IF x = s THEN row ELSE table[x]]
        /\ cookie' = s
        /\ token' = [token EXCEPT ![t] = Fresh]
  /\ UNCHANGED <<membership, pending, call, rotation, request, executed, revocations>>

(* The part of apiRequest up to its fetch: sessionCsrf gives the token the *)
(* tab holds, waits for the rotation another call of the tab started, or   *)
(* starts one.                                                             *)
Send(c, held, waitedFor) ==
  LET t == TabOf[c]
      started == IF waitedFor = None THEN c ELSE waitedFor
  IN IF held # 0
     THEN /\ request' = [request EXCEPT ![c] = [stage |-> "sent", session |-> cookie, token |-> held]]
          /\ call' = [call EXCEPT ![c].at = "sent"]
          /\ UNCHANGED <<pending, rotation>>
     ELSE /\ call' = [call EXCEPT ![c].at = "waiting", ![c].on = started]
          /\ pending' = [pending EXCEPT ![t] = started]
          /\ rotation' = IF waitedFor # None THEN rotation
                         ELSE [rotation EXCEPT ![c] =
                                 [stage |-> "sent", session |-> cookie, token |-> 0]]
          /\ UNCHANGED request

Begin(c) ==
  /\ call[c].at = "idle"
  /\ Cardinality({d \in Calls : call[d].at \in {"waiting", "sent"}}) < MaxOpen
  /\ Work < MaxWork
  /\ Send(c, token[TabOf[c]], pending[TabOf[c]])
  /\ UNCHANGED <<table, membership, cookie, token, executed, revocations>>

-----------------------------------------------------------------------------
(* get_auth_context.                                                       *)
Verdict(s) ==
  IF s \notin DOMAIN table THEN "401"
  ELSE IF table[s].revoked \/ table[s].expired THEN "401"
  ELSE IF ~membership THEN "403"
  ELSE "ok"

(* rotate_csrf assigns one column of the row it read: that column alone is *)
(* written, whatever a logout did to the others since.                     *)
RowRewritten(s, revoked) == [table[s] EXCEPT !.csrf = Fresh, !.revoked = revoked]
Rewritten(s, revoked) == [table[s] EXCEPT !.csrf = Fresh]

RotateRead(c) ==
  /\ rotation[c].stage = "sent"
  /\ LET s == rotation[c].session
     IN rotation' = [rotation EXCEPT ![c] =
          IF Verdict(s) = "ok"
          THEN [stage |-> "read", session |-> s, token |-> 0, revoked |-> table[s].revoked]
          ELSE [NoRequest EXCEPT !.stage = "refused"]]
  /\ UNCHANGED <<table, membership, cookie, token, pending, call, request, executed, revocations>>

RotateWrite(c) ==
  /\ rotation[c].stage = "read"
  /\ LET s == rotation[c].session
     IN /\ table' = [table EXCEPT ![s] = Rewritten(s, rotation[c].revoked)]
        /\ rotation' = [rotation EXCEPT ![c] =
             [stage |-> "written", session |-> s, token |-> Fresh]]
  /\ UNCHANGED <<membership, cookie, token, pending, call, request, executed, revocations>>

(* The promise settles: its `then` keeps the token, its `finally` clears   *)
(* csrfRequest (whichever request that now is), and the calls that awaited *)
(* it go on with what it gave, or fail.                                    *)
Settle(c, given) ==
  LET awaiting == {d \in Calls : call[d].at = "waiting" /\ call[d].on = c}
      t == TabOf[c]
  IN /\ call' = [d \in Calls |->
           IF d \notin awaiting THEN call[d]
           ELSE [call[d] EXCEPT !.at = IF given = 0 THEN "failed" ELSE "sent", !.on = None]]
     /\ request' = [d \in Calls |->
           IF d \in awaiting /\ given # 0
           THEN [stage |-> "sent", session |-> cookie, token |-> given] ELSE request[d]]
     /\ token' = IF given = 0 THEN token ELSE [token EXCEPT ![t] = given]
     /\ pending' = [pending EXCEPT ![t] = None]
     /\ rotation' = [rotation EXCEPT ![c] = NoRequest]
     /\ UNCHANGED <<table, membership, cookie, executed, revocations>>

RotateAnswer(c) ==
  \/ rotation[c].stage = "written" /\ Settle(c, rotation[c].token)
  \/ rotation[c].stage = "refused" /\ Settle(c, 0)

\* The network fails the request, before or after the server wrote the row.
RotateLost(c) == rotation[c].stage \in {"sent", "written"} /\ Settle(c, 0)

-----------------------------------------------------------------------------
(* require_csrf, then the handler: the two are apart, as a request of      *)
(* another tab may be served in between.                                   *)
Accept(c) ==
  /\ request[c].stage = "sent"
  /\ LET s == request[c].session
         verdict == IF Verdict(s) # "ok" THEN Verdict(s)
                    ELSE IF request[c].token # table[s].csrf THEN "csrf_failed"
                    ELSE "accepted"
     IN /\ request' = [request EXCEPT ![c] = [@ EXCEPT !.stage = verdict, !.token = 0]]
        /\ revocations' =
             [revocations EXCEPT !.admitted =
                IF verdict = "accepted" /\ s \in revocations.committed THEN @ \cup {c} ELSE @]
  /\ UNCHANGED <<table, membership, cookie, token, pending, call, rotation, executed>>

Run(c) ==
  /\ request[c].stage = "accepted"
  /\ request' = [request EXCEPT ![c].stage = "answered"]
  /\ executed' = [executed EXCEPT ![c] = @ + 1]
  /\ IF c \in Ending
     THEN /\ table' = [table EXCEPT ![request[c].session].revoked = TRUE]
          /\ revocations' = [revocations EXCEPT !.committed = @ \cup {request[c].session}]
     ELSE UNCHANGED <<table, revocations>>
  /\ UNCHANGED <<membership, cookie, token, pending, call, rotation>>

(* apiRequest after its fetch: a 401 clears the tab's token, a csrf_failed *)
(* is retried once with a token asked for anew, nothing else is retried.   *)
RetriesForever(c, problem) == problem = "csrf_failed"
RetriesFailures(c, problem) == problem \in {"csrf_failed", "lost"} /\ ~call[c].retried
MayRetry(c, problem) == problem = "csrf_failed" /\ ~call[c].retried

Rejected(c, problem) ==
  IF MayRetry(c, problem)
  THEN \* clearApiSession, then apiRequest again: neither a token nor a request is kept
       /\ call' = [call EXCEPT ![c] = [at |-> "waiting", on |-> c, retried |-> TRUE]]
       /\ token' = [token EXCEPT ![TabOf[c]] = 0]
       /\ pending' = [pending EXCEPT ![TabOf[c]] = c]
       /\ rotation' = [rotation EXCEPT ![c] = [stage |-> "sent", session |-> cookie, token |-> 0]]
  ELSE /\ call' = [call EXCEPT ![c].at = "failed"]
       /\ IF problem = "401"
          THEN /\ token' = [token EXCEPT ![TabOf[c]] = 0]
               /\ pending' = [pending EXCEPT ![TabOf[c]] = None]
          ELSE UNCHANGED <<token, pending>>
       /\ UNCHANGED rotation

Answer(c) ==
  /\ call[c].at = "sent"
  /\ \/ /\ request[c].stage \in {"401", "403", "csrf_failed"}
        /\ Rejected(c, request[c].stage)
        /\ UNCHANGED cookie
     \/ /\ request[c].stage = "answered"
        /\ call' = [call EXCEPT ![c].at = "done"]
        /\ IF c \in Ending
           THEN /\ cookie' = 0
                /\ token' = [token EXCEPT ![TabOf[c]] = 0]
                /\ pending' = [pending EXCEPT ![TabOf[c]] = None]
           ELSE UNCHANGED <<cookie, token, pending>>
        /\ UNCHANGED rotation
  /\ request' = [request EXCEPT ![c] = NoRequest]
  /\ UNCHANGED <<table, membership, executed, revocations>>

(* The network fails the call: the page cannot tell whether it was served, *)
(* and the server goes on with it if it has it.                            *)
Lost(c) ==
  /\ call[c].at = "sent"
  /\ request[c].stage \in {"sent", "accepted", "answered"}
  /\ Rejected(c, "lost")
  /\ UNCHANGED <<table, membership, cookie, request, executed, revocations>>

Expire(s) ==
  /\ s \in DOMAIN table /\ ~table[s].expired /\ Work < MaxWork
  /\ table' = [table EXCEPT ![s].expired = TRUE]
  /\ UNCHANGED <<membership, cookie, token, pending, call, rotation, request, executed, revocations>>

RevokeMembership ==
  /\ membership /\ Work < MaxWork
  /\ membership' = FALSE
  /\ UNCHANGED <<table, cookie, token, pending, call, rotation, request, executed, revocations>>

\* What the server and the network do of themselves with what a page asked.
Served(c) == RotateRead(c) \/ RotateWrite(c) \/ RotateAnswer(c) \/ Accept(c) \/ Run(c) \/ Answer(c)

SessionsNext ==
  \/ \E t \in Tabs : Login(t)
  \/ \E c \in Calls : Begin(c) \/ Served(c) \/ RotateLost(c) \/ Lost(c)
  \/ \E s \in 1..MaxSessions : Expire(s)
  \/ RevokeMembership

-----------------------------------------------------------------------------
(* Whatever the tabs do to each other's tokens and whatever the network    *)
(* loses, a mutation the user made once runs at most once (the retry of    *)
(* api.ts:96-104 is only for a call that was refused before its handler).  *)
CallsOnce == \A c \in Calls : executed[c] <= 1

(* After a logout is committed no call is accepted with its session, even  *)
(* when a rotation read the row before the logout and wrote it after.      *)
LogoutFinal == revocations.admitted = {}

(* Every mutation ends, with an answer or an error on the page: tabs that  *)
(* keep rotating each other's token do not retry for ever.  As a page asks *)
(* for each once, it is enough that no call being under way never stops    *)
(* coming about.                                                           *)
CallsEnd == []<>(\A c \in Calls : call[c].at \notin {"waiting", "sent"})
=============================================================================
