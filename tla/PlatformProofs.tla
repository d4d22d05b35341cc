---------------------------- MODULE PlatformProofs ----------------------------
(***************************************************************************)
(* The parts of the platform around the stored data.  CallsOnce and        *)
(* LogoutFinal of Sessions hold for any calls, tabs and bounds;            *)
(* CredentialsConfirmed of Credentials for any requests, keys, values and  *)
(* bounds; AnswersAuthorized and QuestionsSettle of Assistant for any      *)
(* questions, users, departments and uploads; RestoresWhole of             *)
(* BackupRestore for any objects and any number of runs of the two         *)
(* scripts; and LimitsHonoured of RateLimiter for any clients, limits,     *)
(* windows and table sizes, for as long as the clock runs.                 *)
(***************************************************************************)
EXTENDS Sessions, Credentials, Assistant, BackupRestore, RateLimiter,
        FiniteSetTheorems, SequenceTheorems, TLAPS

-----------------------------------------------------------------------------
(* Sessions.                                                               *)

SessionsSpec == SessionsInit /\ [][SessionsNext]_sessionVars

Stored ==
  /\ Cardinality(DOMAIN table) \in Nat /\ DOMAIN table = 1..Cardinality(DOMAIN table)
  /\ \A s \in DOMAIN table :
       table[s] = [csrf |-> table[s].csrf, revoked |-> table[s].revoked, expired |-> table[s].expired]
  /\ revocations = [committed |-> revocations.committed, admitted |-> revocations.admitted]

Requested ==
  /\ DOMAIN request = Calls
  /\ \A c \in Calls :
       request[c] = [stage |-> request[c].stage, session |-> request[c].session,
                     token |-> request[c].token]

Called ==
  /\ DOMAIN call = Calls
  /\ \A c \in Calls :
       call[c] = [at |-> call[c].at, on |-> call[c].on, retried |-> call[c].retried]

Counted == executed \in [Calls -> {0, 1}]

\* A session whose logout was committed stays revoked, and the server accepts
\* a call only with a session that is stored.
Revoked ==
  /\ \A s \in revocations.committed : s \in DOMAIN table /\ table[s].revoked = TRUE
  /\ \A c \in Calls : request[c].stage = "accepted" => request[c].session \in DOMAIN table

\* A call whose handler ran is not under way on the server again.
Ran ==
  \A c \in Calls :
    /\ request[c].stage \in {"sent", "accepted"} => call[c].at \in {"sent", "failed"}
    /\ executed[c] = 1 =>
         /\ call[c].at \in {"sent", "done", "failed"}
         /\ request[c].stage \in {"answered", "none"}
         /\ call[c].at = "sent" => request[c].stage = "answered"

SInv == Stored /\ Requested /\ Called /\ Counted /\ Revoked /\ Ran /\ LogoutFinal

-----------------------------------------------------------------------------
\* Nothing is stored, sent or revoked at the start.
LEMMA SInvInit == SessionsInit => SInv
<1>. SUFFICES ASSUME SessionsInit PROVE SInv
  OBVIOUS
<1>1. DOMAIN table = {}
  BY DEF SessionsInit
<1>2. Cardinality(DOMAIN table) = 0
  BY <1>1, FS_EmptySet
<1>3. Stored
  BY <1>1, <1>2 DEF SessionsInit, Stored
<1>4. Requested /\ Called /\ Counted
  BY DEF SessionsInit, Requested, Called, Counted, NoRequest
<1>. QED
  BY <1>1, <1>3, <1>4 DEF SessionsInit, SInv, Revoked, Ran, LogoutFinal, NoRequest

\* One step per action of a tab, of the server and of the network.
LEMMA SInvNext == SInv /\ [SessionsNext]_sessionVars => SInv'
<1>. SUFFICES ASSUME SInv, [SessionsNext]_sessionVars PROVE SInv'
  OBVIOUS
<1>. USE DEF SInv
<1>1. ASSUME NEW t \in Tabs, Login(t) PROVE SInv'
  <2>1. Stored'
    <3> DEFINE n == Cardinality(DOMAIN table)
    <3>1. n \in Nat /\ DOMAIN table' = 1..(n + 1) /\ UNCHANGED revocations
      BY <1>1 DEF Login, Stored
    <3>2. Cardinality(DOMAIN table') = n + 1
      BY <3>1, FS_Interval
    <3>3. ASSUME NEW s \in DOMAIN table'
          PROVE  table'[s] = [csrf |-> table'[s].csrf, revoked |-> table'[s].revoked,
                              expired |-> table'[s].expired]
      <4>1. CASE s = n + 1
        BY <1>1, <4>1, <3>1 DEF Login
      <4>2. CASE s # n + 1
        <5>1. s \in DOMAIN table
          BY <3>1, <4>2 DEF Stored
        <5>2. table'[s] = table[s]
          BY <1>1, <3>1, <4>2 DEF Login
        <5>. QED
          BY <5>1, <5>2 DEF Stored
      <4>. QED
        BY <4>1, <4>2
    <3>. QED
      BY <3>1, <3>2, <3>3 DEF Stored
  <2>2. Requested'
    BY <1>1, FS_Interval DEF Login, Requested
  <2>3. Called'
    BY <1>1, FS_Interval DEF Login, Called
  <2>4. Counted'
    BY <1>1, FS_Interval DEF Login, Counted, Ran, Requested
  <2>5. Revoked'
    BY <1>1, FS_Interval DEF Login, Stored, Requested, Revoked
  <2>6. Ran'
    BY <1>1, FS_Interval DEF Login, Ran, Requested, Called, Counted
  <2>7. LogoutFinal'
    BY <1>1, FS_Interval DEF Login, LogoutFinal, Stored, Requested, Revoked
  <2>. QED
    BY <2>1, <2>2, <2>3, <2>4, <2>5, <2>6, <2>7
<1>2. ASSUME NEW c \in Calls, Begin(c) PROVE SInv'
  <2>1. Stored'
    BY <1>2 DEF Begin, Send, Stored
  <2>2. Requested'
    BY <1>2 DEF Begin, Send, Requested
  <2>3. Called'
    BY <1>2 DEF Begin, Send, Called
  <2>4. Counted'
    BY <1>2 DEF Begin, Send, Counted, Ran, Requested
  <2>5. Revoked'
    BY <1>2 DEF Begin, Send, Stored, Requested, Revoked
  <2>6. Ran'
    BY <1>2 DEF Begin, Send, Ran, Requested, Called, Counted
  <2>7. LogoutFinal'
    BY <1>2 DEF Begin, Send, LogoutFinal, Stored, Requested, Revoked
  <2>. QED
    BY <2>1, <2>2, <2>3, <2>4, <2>5, <2>6, <2>7
<1>3. ASSUME NEW c \in Calls, RotateRead(c) PROVE SInv'
  <2>1. Stored'
    BY <1>3 DEF RotateRead, Stored
  <2>2. Requested'
    BY <1>3 DEF RotateRead, Requested
  <2>3. Called'
    BY <1>3 DEF RotateRead, Called
  <2>4. Counted'
    BY <1>3 DEF RotateRead, Counted, Ran, Requested
  <2>5. Revoked'
    BY <1>3 DEF RotateRead, Stored, Requested, Revoked
  <2>6. Ran'
    BY <1>3 DEF RotateRead, Ran, Requested, Called, Counted
  <2>7. LogoutFinal'
    BY <1>3 DEF RotateRead, LogoutFinal, Stored, Requested, Revoked
  <2>. QED
    BY <2>1, <2>2, <2>3, <2>4, <2>5, <2>6, <2>7
<1>4. ASSUME NEW c \in Calls, RotateWrite(c) PROVE SInv'
  <2>1. Stored'
    BY <1>4 DEF RotateWrite, Rewritten, Stored
  <2>2. Requested'
    BY <1>4 DEF RotateWrite, Rewritten, Requested
  <2>3. Called'
    BY <1>4 DEF RotateWrite, Rewritten, Called
  <2>4. Counted'
    BY <1>4 DEF RotateWrite, Rewritten, Counted, Ran, Requested
  <2>5. Revoked'
    BY <1>4 DEF RotateWrite, Rewritten, Stored, Requested, Revoked
  <2>6. Ran'
    BY <1>4 DEF RotateWrite, Rewritten, Ran, Requested, Called, Counted
  <2>7. LogoutFinal'
    BY <1>4 DEF RotateWrite, Rewritten, LogoutFinal, Stored, Requested, Revoked
  <2>. QED
    BY <2>1, <2>2, <2>3, <2>4, <2>5, <2>6, <2>7
<1>5. ASSUME NEW c \in Calls, NEW given, Settle(c, given) PROVE SInv'
  <2>1. Stored'
    BY <1>5 DEF Settle, Stored
  <2>2. Requested'
    BY <1>5 DEF Settle, Requested
  <2>3. Called'
    BY <1>5 DEF Settle, Called
  <2>4. Counted'
    BY <1>5 DEF Settle, Counted, Ran, Requested
  <2>5. Revoked'
    BY <1>5 DEF Settle, Stored, Requested, Revoked
  <2>6. Ran'
    <3>. SUFFICES ASSUME NEW d \in Calls
                 PROVE  /\ request'[d].stage \in {"sent", "accepted"} =>
                             call'[d].at \in {"sent", "failed"}
                        /\ executed'[d] = 1 =>
                             /\ call'[d].at \in {"sent", "done", "failed"}
                             /\ request'[d].stage \in {"answered", "none"}
                             /\ call'[d].at = "sent" => request'[d].stage = "answered"
      BY DEF Ran
    <3>1. CASE call[d].at = "waiting" /\ call[d].on = c
      <4>1. executed'[d] # 1 /\ request[d].stage \notin {"sent", "accepted"}
        BY <1>5, <3>1 DEF Settle, Ran
      <4>2. call'[d].at = IF given = 0 THEN "failed" ELSE "sent"
        <5>1. call'[d] = [call[d] EXCEPT !.at = IF given = 0 THEN "failed" ELSE "sent", !.on = None]
          BY <1>5, <3>1 DEF Settle
        <5>2. "at" \in DOMAIN call[d]
          BY DEF Called
        <5>. QED
          BY <5>1, <5>2
      <4>. QED
        BY <1>5, <4>1, <4>2
    <3>2. CASE ~(call[d].at = "waiting" /\ call[d].on = c)
      <4>1. request'[d] = request[d] /\ call'[d] = call[d] /\ executed'[d] = executed[d]
        BY <1>5, <3>2 DEF Settle
      <4>. QED
        BY <4>1 DEF Ran
    <3>. QED
      BY <3>1, <3>2
  <2>7. LogoutFinal'
    BY <1>5 DEF Settle, LogoutFinal, Stored, Requested, Revoked
  <2>. QED
    BY <2>1, <2>2, <2>3, <2>4, <2>5, <2>6, <2>7
<1>6. ASSUME NEW c \in Calls, Accept(c) PROVE SInv'
  <2>1. Stored'
    BY <1>6 DEF Accept, Verdict, Stored
  <2>2. Requested'
    BY <1>6 DEF Accept, Verdict, Requested
  <2>3. Called'
    BY <1>6 DEF Accept, Verdict, Called
  <2>4. Counted'
    BY <1>6 DEF Accept, Verdict, Counted, Ran, Requested
  <2>5. Revoked'
    BY <1>6 DEF Accept, Verdict, Stored, Requested, Revoked
  <2>6. Ran'
    BY <1>6 DEF Accept, Verdict, Ran, Requested, Called, Counted
  <2>7. LogoutFinal'
    BY <1>6 DEF Accept, Verdict, LogoutFinal, Stored, Requested, Revoked
  <2>. QED
    BY <2>1, <2>2, <2>3, <2>4, <2>5, <2>6, <2>7
<1>7. ASSUME NEW c \in Calls, Run(c) PROVE SInv'
  <2>1. Stored'
    BY <1>7 DEF Run, Stored, Revoked
  <2>2. Requested'
    BY <1>7 DEF Run, Requested
  <2>3. Called'
    BY <1>7 DEF Run, Called
  <2>4. Counted'
    BY <1>7 DEF Run, Counted, Ran, Requested
  <2>5. Revoked'
    BY <1>7 DEF Run, Stored, Requested, Revoked
  <2>6. Ran'
    BY <1>7 DEF Run, Ran, Requested, Called, Counted
  <2>7. LogoutFinal'
    BY <1>7 DEF Run, LogoutFinal, Stored, Requested, Revoked
  <2>. QED
    BY <2>1, <2>2, <2>3, <2>4, <2>5, <2>6, <2>7
<1>8. ASSUME NEW c \in Calls, Answer(c) PROVE SInv'
  <2>1. Stored'
    BY <1>8 DEF Answer, Rejected, MayRetry, NoRequest, Stored
  <2>2. Requested'
    BY <1>8 DEF Answer, Rejected, MayRetry, NoRequest, Requested
  <2>3. Called'
    BY <1>8 DEF Answer, Rejected, MayRetry, NoRequest, Called
  <2>4. Counted'
    BY <1>8 DEF Answer, Rejected, MayRetry, NoRequest, Counted, Ran, Requested
  <2>5. Revoked'
    BY <1>8 DEF Answer, Rejected, MayRetry, NoRequest, Stored, Requested, Revoked
  <2>6. Ran'
    BY <1>8 DEF Answer, Rejected, MayRetry, NoRequest, Ran, Requested, Called, Counted
  <2>7. LogoutFinal'
    BY <1>8 DEF Answer, Rejected, MayRetry, NoRequest, LogoutFinal, Stored, Requested, Revoked
  <2>. QED
    BY <2>1, <2>2, <2>3, <2>4, <2>5, <2>6, <2>7
<1>9. ASSUME NEW c \in Calls, Lost(c) PROVE SInv'
  <2>1. Stored'
    BY <1>9 DEF Lost, Rejected, MayRetry, Stored
  <2>2. Requested'
    BY <1>9 DEF Lost, Rejected, MayRetry, Requested
  <2>3. Called'
    BY <1>9 DEF Lost, Rejected, MayRetry, Called
  <2>4. Counted'
    BY <1>9 DEF Lost, Rejected, MayRetry, Counted, Ran, Requested
  <2>5. Revoked'
    BY <1>9 DEF Lost, Rejected, MayRetry, Stored, Requested, Revoked
  <2>6. Ran'
    BY <1>9 DEF Lost, Rejected, MayRetry, Ran, Requested, Called, Counted
  <2>7. LogoutFinal'
    BY <1>9 DEF Lost, Rejected, MayRetry, LogoutFinal, Stored, Requested, Revoked
  <2>. QED
    BY <2>1, <2>2, <2>3, <2>4, <2>5, <2>6, <2>7
<1>10. ASSUME NEW s \in 1..MaxSessions, Expire(s) PROVE SInv'
  <2>1. Stored'
    BY <1>10 DEF Expire, Stored
  <2>2. Requested'
    BY <1>10 DEF Expire, Requested
  <2>3. Called'
    BY <1>10 DEF Expire, Called
  <2>4. Counted'
    BY <1>10 DEF Expire, Counted, Ran, Requested
  <2>5. Revoked'
    BY <1>10 DEF Expire, Stored, Requested, Revoked
  <2>6. Ran'
    BY <1>10 DEF Expire, Ran, Requested, Called, Counted
  <2>7. LogoutFinal'
    BY <1>10 DEF Expire, LogoutFinal, Stored, Requested, Revoked
  <2>. QED
    BY <2>1, <2>2, <2>3, <2>4, <2>5, <2>6, <2>7
<1>11. ASSUME RevokeMembership PROVE SInv'
  <2>1. Stored'
    BY <1>11 DEF RevokeMembership, Stored
  <2>2. Requested'
    BY <1>11 DEF RevokeMembership, Requested
  <2>3. Called'
    BY <1>11 DEF RevokeMembership, Called
  <2>4. Counted'
    BY <1>11 DEF RevokeMembership, Counted, Ran, Requested
  <2>5. Revoked'
    BY <1>11 DEF RevokeMembership, Stored, Requested, Revoked
  <2>6. Ran'
    BY <1>11 DEF RevokeMembership, Ran, Requested, Called, Counted
  <2>7. LogoutFinal'
    BY <1>11 DEF RevokeMembership, LogoutFinal, Stored, Requested, Revoked
  <2>. QED
    BY <2>1, <2>2, <2>3, <2>4, <2>5, <2>6, <2>7
<1>12. ASSUME UNCHANGED sessionVars PROVE SInv'
  <2>1. Stored'
    BY <1>12 DEF sessionVars, Stored
  <2>2. Requested'
    BY <1>12 DEF sessionVars, Requested
  <2>3. Called'
    BY <1>12 DEF sessionVars, Called
  <2>4. Counted'
    BY <1>12 DEF sessionVars, Counted, Ran, Requested
  <2>5. Revoked'
    BY <1>12 DEF sessionVars, Stored, Requested, Revoked
  <2>6. Ran'
    BY <1>12 DEF sessionVars, Ran, Requested, Called, Counted
  <2>7. LogoutFinal'
    BY <1>12 DEF sessionVars, LogoutFinal, Stored, Requested, Revoked
  <2>. QED
    BY <2>1, <2>2, <2>3, <2>4, <2>5, <2>6, <2>7
<1>. QED
  BY <1>1, <1>2, <1>3, <1>4, <1>5, <1>6, <1>7, <1>8, <1>9, <1>10, <1>11, <1>12
     DEF SessionsNext, Served, RotateAnswer, RotateLost

\* However often the browser repeats a call after a refused token, a lost
\* answer or a session that ended, its handler runs at most once.
THEOREM CallsRunOnce == SessionsSpec => []CallsOnce
<1>1. SInv => CallsOnce
  BY DEF SInv, Counted, CallsOnce
<1>. QED
  BY SInvInit, SInvNext, <1>1, PTL DEF SessionsSpec

\* Once a logout was committed the server lets no call in with that session,
\* whichever tab sends it and whatever its token.
THEOREM LogoutIsFinal == SessionsSpec => []LogoutFinal
<1>1. SInv => LogoutFinal
  BY DEF SInv
<1>. QED
  BY SInvInit, SInvNext, <1>1, PTL DEF SessionsSpec

-----------------------------------------------------------------------------
(* Credentials.  Between its read and its commit a request is described by *)
(* what it wants to write: sealed under the key in force, because a        *)
(* restart ends it, and consistent, if what it read was.                   *)

CredentialsSpec == CredentialsInit /\ [][CredentialsNext]_credentialVars

RowsOf == [id : Nat, sealed : [key : KeyIds \cup {"none"}, value : Values \cup {"none"}],
           key_id : KeyIds \cup {"none"}, print : Values \cup {"none"}]
Links == [ref : Nat, status : {"configured_unverified", "needs_credentials", "checked"}]
Copies == [secret : RowsOf, connector : Links]
Held == [kind : {"put", "delete", "fetch"}, resealed : BOOLEAN, read : Copies, wanted : Copies]

Typed ==
  /\ configured \in [active : KeyIds, retired : SUBSET KeyIds]
  /\ issued \in Nat /\ secret \in RowsOf /\ connector \in Links
  /\ work \in [Requests -> {Idle} \cup Held]

Consistent(row, link) ==
  /\ row.print = row.sealed.value
  /\ row.key_id = row.sealed.key
  /\ link.ref = row.id
  /\ row # NoRow => link.status # "needs_credentials"

\* What each kind of request found and wants to write.
Intended ==
  \A r \in Requests : work[r] # Idle =>
    /\ work[r].kind \in {"delete", "fetch"} => work[r].read.secret # NoRow
    /\ work[r].kind = "put" <=> work[r].resealed /\ work[r].kind # "fetch"
    /\ work[r].resealed => work[r].wanted.secret.sealed.key = configured.active
    /\ work[r].kind = "delete" => work[r].wanted.secret = NoRow
    /\ work[r].kind = "fetch" /\ ~work[r].resealed =>
         work[r].wanted.secret = work[r].read.secret

\* A row once sealed under the key in force stays so until the next restart.
Current == secret = NoRow \/ secret.sealed.key = configured.active

Resealed ==
  (rotated \/ \E r \in Requests : work[r].kind = "fetch" /\ ~work[r].resealed) => Current

Agreeing ==
  ~overlapped =>
    /\ Consistent(secret, connector)
    /\ \A r \in Requests : work[r] # Idle =>
         Consistent(work[r].wanted.secret, work[r].wanted.connector)

CInv == Typed /\ Intended /\ Resealed /\ Agreeing

-----------------------------------------------------------------------------
\* No credentials are stored and no request is open at the start.
LEMMA CInvInit == CredentialsInit => CInv
<1>. SUFFICES ASSUME CredentialsInit PROVE CInv
  OBVIOUS
<1>1. Typed
  BY DEF CredentialsInit, Typed, RowsOf, Links, NoRow
<1>2. Intended /\ Resealed /\ Agreeing
  BY DEF CredentialsInit, Intended, Resealed, Current, Agreeing, Consistent, NoRow, Idle
<1>. QED
  BY <1>1, <1>2 DEF CInv

\* A request that read its rows, and says what it will write.
LEMMA Opened ==
  ASSUME CInv, NEW r \in Requests, NEW kind \in {"put", "delete", "fetch"},
         NEW row \in RowsOf, NEW link \in Links, NEW resealed \in BOOLEAN,
         Open(r, kind, row, link, resealed), issued' \in Nat,
         kind \in {"delete", "fetch"} => secret # NoRow,
         kind = "put" <=> resealed /\ kind # "fetch",
         resealed => row.sealed.key = configured.active,
         kind = "delete" => row = NoRow,
         kind = "fetch" /\ ~resealed => row = secret /\ Current,
         Consistent(secret, connector) => Consistent(row, link)
  PROVE  CInv'
<1>. DEFINE new == [kind |-> kind, resealed |-> resealed,
                    read |-> [secret |-> secret, connector |-> connector],
                    wanted |-> [secret |-> row, connector |-> link]]
<1>1. /\ UNCHANGED <<configured, secret, connector, overlapped, rotated>>
      /\ work' = [work EXCEPT ![r] = new]
  BY DEF Open
<1>2. new \in Held
  BY DEF CInv, Typed, Held, Copies
<1>3. Typed'
  BY <1>1, <1>2 DEF CInv, Typed
<1>4. \A q \in Requests : work'[q] = IF q = r THEN new ELSE work[q]
  BY <1>1 DEF CInv, Typed
<1>5. Intended'
  BY <1>1, <1>4 DEF CInv, Intended
<1>6. Resealed'
  BY <1>1, <1>4 DEF CInv, Resealed, Current
<1>7. Agreeing'
  BY <1>1, <1>4 DEF CInv, Agreeing
<1>. QED
  BY <1>3, <1>5, <1>6, <1>7 DEF CInv

\* A request that ends without a write.
LEMMA Closed ==
  ASSUME CInv, NEW r \in Requests, work' = [work EXCEPT ![r] = Idle],
         UNCHANGED <<configured, issued, secret, connector, overlapped, rotated>>
  PROVE  CInv'
<1>1. \A q \in Requests : work'[q] = IF q = r THEN Idle ELSE work[q]
  BY DEF CInv, Typed
<1>2. Typed'
  BY DEF CInv, Typed
<1>3. Intended' /\ Agreeing'
  BY <1>1 DEF CInv, Intended, Agreeing
<1>4. Resealed'
  BY <1>1 DEF CInv, Resealed, Current, Idle
<1>. QED
  BY <1>2, <1>3, <1>4 DEF CInv

\* A commit that is not refused.
LEMMA Committed ==
  ASSUME CInv, NEW r \in Requests, Commit(r), ~Refused(work[r])
  PROVE  CInv'
<1>. DEFINE w == work[r]
<1>1. /\ secret' = SecretWritten(w)
      /\ connector' = Merged(connector, w.read.connector, w.wanted.connector)
      /\ overlapped' = (overlapped \/ <<secret, connector>> # <<w.read.secret, w.read.connector>>)
      /\ rotated' = (rotated \/ w.kind = "fetch")
      /\ work' = [work EXCEPT ![r] = Idle]
      /\ UNCHANGED <<configured, issued>>
      /\ w # Idle
  BY DEF Commit
<1>2. w \in Held
  BY <1>1 DEF CInv, Typed
<1>3. w.read \in Copies /\ w.wanted \in Copies
  BY <1>2 DEF Held
<1>4. \A now, read, wanted \in RowsOf : Merged(now, read, wanted) \in RowsOf
  BY DEF Merged, RowsOf
<1>5. \A now, read, wanted \in Links : Merged(now, read, wanted) \in Links
  BY DEF Merged, Links
<1>6. secret' \in RowsOf
  BY <1>1, <1>3, <1>4 DEF CInv, Typed, SecretWritten, Copies, RowsOf, NoRow
<1>7. connector' \in Links
  BY <1>1, <1>3, <1>5 DEF CInv, Typed, Copies
<1>8. Typed'
  BY <1>1, <1>6, <1>7 DEF CInv, Typed
<1>9. \A q \in Requests : work'[q] = IF q = r THEN Idle ELSE work[q]
  BY <1>1 DEF CInv, Typed
<1>10. Intended'
  BY <1>1, <1>9 DEF CInv, Intended
<1>11. Resealed'
  <2>1. CASE w.resealed
    <3>1. secret'.sealed = w.wanted.secret.sealed
      <4>1. w.kind # "delete" /\ w.resealed = TRUE
        BY <1>1, <2>1 DEF CInv, Intended
      <4>2. \A now \in RowsOf : \A read, wanted, v : [Merged(now, read, wanted) EXCEPT !.sealed = v].sealed = v
        BY DEF Merged, RowsOf
      <4>. QED
        BY <1>1, <4>1, <4>2 DEF SecretWritten, CInv, Typed
    <3>2. w.wanted.secret.sealed.key = configured.active
      BY <1>1, <2>1 DEF CInv, Intended
    <3>. QED
      BY <1>1, <3>1, <3>2 DEF Resealed, Current
  <2>2. CASE ~w.resealed
    <3>1. w.kind \in {"delete", "fetch"}
      BY <1>1, <1>2, <2>2 DEF CInv, Intended, Held
    <3>2. secret' = NoRow \/ secret' = secret
      BY <1>1, <2>2, <3>1 DEF SecretWritten, CInv, Intended
    <3>3. rotated' \/ (\E q \in Requests : work'[q].kind = "fetch" /\ ~work'[q].resealed) =>
            Current
      <4>1. w.kind = "fetch" => Current
        BY <2>2 DEF CInv, Resealed
      <4>2. (\E q \in Requests : work'[q].kind = "fetch" /\ ~work'[q].resealed) => Current
        BY <1>9 DEF CInv, Resealed, Idle
      <4>3. rotated => Current
        BY DEF CInv, Resealed
      <4>. QED
        BY <1>1, <4>1, <4>2, <4>3
    <3>. QED
      BY <1>1, <3>2, <3>3 DEF Resealed, Current
  <2>. QED
    BY <2>1, <2>2
<1>12. Agreeing'
  <2>. SUFFICES ASSUME ~overlapped'
                PROVE  Consistent(secret', connector')
    BY <1>1, <1>9 DEF CInv, Agreeing
  <2>1. ~overlapped /\ w.read.secret = secret /\ w.read.connector = connector
    BY <1>1
  <2>2. Consistent(w.wanted.secret, w.wanted.connector)
    BY <1>1, <2>1 DEF CInv, Agreeing
  <2>3. \A now, wanted \in Links : Merged(now, now, wanted) = wanted
    BY DEF Merged, Links
  <2>4. \A now, wanted \in RowsOf :
          [Merged(now, now, wanted) EXCEPT !.sealed = wanted.sealed] = wanted
    BY DEF Merged, RowsOf
  <2>5. connector' = w.wanted.connector
    BY <1>1, <1>3, <2>1, <2>3 DEF CInv, Typed, Copies
  <2>6. secret' = w.wanted.secret
    <3>1. CASE w.kind = "delete"
      BY <1>1, <2>1, <3>1 DEF SecretWritten, CInv, Intended
    <3>2. CASE w.kind # "delete" /\ secret = NoRow
      BY <1>1, <2>1, <3>2 DEF SecretWritten
    <3>3. CASE w.kind # "delete" /\ secret # NoRow /\ w.resealed
      BY <1>1, <1>3, <2>1, <2>4, <3>3 DEF SecretWritten, CInv, Typed, Copies
    <3>4. CASE w.kind # "delete" /\ secret # NoRow /\ ~w.resealed
      BY <1>1, <1>2, <2>1, <3>4 DEF SecretWritten, CInv, Intended, Held
    <3>. QED
      BY <3>1, <3>2, <3>3, <3>4
  <2>. QED
    BY <2>2, <2>5, <2>6
<1>. QED
  BY <1>8, <1>10, <1>11, <1>12 DEF CInv

\* Requests open and commit; operators rotate keys, which restarts the program.
LEMMA CInvNext == CInv /\ [CredentialsNext]_credentialVars => CInv'
<1>. SUFFICES ASSUME CInv, [CredentialsNext]_credentialVars PROVE CInv'
  OBVIOUS
<1>1. ASSUME NEW active \in KeyIds, NEW retired \in SUBSET KeyIds, Restart(active, retired)
      PROVE  CInv'
  BY <1>1 DEF Restart, CInv, Typed, Intended, Resealed, Current, Agreeing, Idle
<1>2. ASSUME NEW r \in Requests, NEW value \in Values, PutCredentials(r, value) PROVE CInv'
  <2>. DEFINE id == IF secret = NoRow THEN issued + 1 ELSE secret.id
              row == [id |-> id, sealed |-> Encrypt(value), key_id |-> configured.active,
                      print |-> value]
              link == [ref |-> id,
                       status |-> IF connector.status = "needs_credentials"
                                  THEN "configured_unverified" ELSE connector.status]
  <2>1. Open(r, "put", row, link, TRUE) /\ issued' = (IF secret = NoRow THEN id ELSE issued)
    BY <1>2 DEF PutCredentials
  <2>2. id \in Nat /\ row \in RowsOf /\ link \in Links
    BY DEF CInv, Typed, RowsOf, Links, Encrypt
  <2>3. issued' \in Nat
    BY <2>1, <2>2 DEF CInv, Typed
  <2>4. Consistent(row, link) /\ row.sealed.key = configured.active
    BY <2>2 DEF Consistent, Encrypt, Links
  <2>. QED
    BY <2>1, <2>2, <2>3, <2>4, Opened
<1>3. ASSUME NEW r \in Requests, DeleteCredentials(r) PROVE CInv'
  <2>1. /\ secret # NoRow /\ issued' \in Nat
        /\ Open(r, "delete", NoRow, [ref |-> 0, status |-> "needs_credentials"], FALSE)
    BY <1>3 DEF DeleteCredentials, CInv, Typed
  <2>2. NoRow \in RowsOf /\ [ref |-> 0, status |-> "needs_credentials"] \in Links
    BY DEF NoRow, RowsOf, Links
  <2>3. Consistent(NoRow, [ref |-> 0, status |-> "needs_credentials"])
    BY DEF Consistent, NoRow
  <2>. QED
    BY <2>1, <2>2, <2>3, Opened
<1>4. ASSUME NEW r \in Requests, LoadCredentials(r) PROVE CInv'
  <2>. DEFINE stale == NeedsRotation(secret.sealed)
              row == IF stale
                     THEN [secret EXCEPT !.sealed = Encrypt(@.value), !.key_id = configured.active]
                     ELSE secret
  <2>1. PICK status \in {"checked", connector.status} :
          Open(r, "fetch", row, [connector EXCEPT !.status = status], stale)
    BY <1>4 DEF LoadCredentials
  <2>2. secret # NoRow /\ issued' \in Nat /\ stale \in BOOLEAN
    BY <1>4 DEF LoadCredentials, NeedsRotation, CInv, Typed
  <2>3. row \in RowsOf /\ [connector EXCEPT !.status = status] \in Links
    BY DEF CInv, Typed, RowsOf, Links, Encrypt
  <2>4. stale => row.sealed.key = configured.active
    BY DEF CInv, Typed, RowsOf, Encrypt
  <2>5. ~stale => row = secret /\ Current
    BY DEF NeedsRotation, Current
  <2>6. Consistent(secret, connector) => Consistent(row, [connector EXCEPT !.status = status])
    BY <2>2 DEF Consistent, CInv, Typed, RowsOf, Links, Encrypt
  <2>. QED
    BY <2>1, <2>2, <2>3, <2>4, <2>5, <2>6, Opened
<1>5. ASSUME NEW r \in Requests, GiveUp(r) PROVE CInv'
  BY <1>5, Closed DEF GiveUp
<1>6. ASSUME NEW r \in Requests, Commit(r) PROVE CInv'
  BY <1>6, Closed, Committed DEF Commit
<1>7. CASE UNCHANGED credentialVars
  BY <1>7 DEF credentialVars, CInv, Typed, Intended, Resealed, Current, Agreeing
<1>. QED
  BY <1>1, <1>2, <1>3, <1>4, <1>5, <1>6, <1>7 DEF CredentialsNext

\* Once a fetch has committed nothing stored needs a retired key, and unless
\* requests overlapped an operator is shown what is used.
THEOREM ConfirmedCredentials == CredentialsSpec => []CredentialsConfirmed
<1>1. CInv => CredentialsConfirmed
  BY DEF CInv, Resealed, Current, Agreeing, Consistent, CredentialsConfirmed
<1>. QED
  BY CInvInit, CInvNext, <1>1, PTL DEF CredentialsSpec

-----------------------------------------------------------------------------
(* The assistant.                                                          *)

AssistantSpec == AssistantInit /\ [][AssistantNext]_assistantVars

Rows == [metric : Actions, dated : BOOLEAN, user : Users, scope : Departments \cup {Company},
         data : Uploads \cup {Canonical}, facts : Nat]
Message == [role : {"user", "assistant"}, of : Questions, rows : SUBSET Rows]
Entered == [stage : {"planning", "planned", "executed", "answered"},
            plan : [action : Actions, dated : BOOLEAN], user : Users, context : Accesses,
            data : Uploads \cup {Canonical}, conversation : Questions,
            rows : SUBSET [row : Rows, new : BOOLEAN]]
Conversation == [owner : Users, messages : Seq(Message)]

WellTyped ==
  /\ access \in [Users -> Accesses] /\ facts \in Nat
  /\ asked \in [Questions -> {[stage |-> "new"], [stage |-> "refused"]} \cup Entered]
  /\ inForce \in [Questions -> SUBSET Accesses]
  /\ DOMAIN conversations \subseteq Questions
  /\ conversations \in [DOMAIN conversations -> Conversation]

Under(q) == asked[q].stage \in {"planning", "planned", "executed", "answered"}

\* The access a planned question will read is one in force since its plan.
Foreseen ==
  \A q \in Questions : asked[q].stage = "planned" => access[asked[q].user] \in inForce[q]

Allowed(q, row) == \E a \in inForce[q] : a.permitted /\ a.scope = row.scope

\* What was computed, and not yet saved, was computed under such an access,
\* and is stored or will be.
Computed ==
  \A q \in Questions : asked[q].stage = "executed" =>
    \A r \in asked[q].rows : Allowed(q, r.row) /\ (r.new \/ r.row \in results)

\* A saved message belongs to an answered question.
Saved ==
  \A c \in DOMAIN conversations : \A k \in DOMAIN conversations[c].messages :
    LET m == conversations[c].messages[k]
    IN asked[m.of].stage = "answered" /\ \A row \in m.rows : Allowed(m.of, row)

\* A conversation is that of an answered question, and is continued by its owner.
Housed ==
  /\ \A c \in DOMAIN conversations : asked[c].stage = "answered"
  /\ \A q \in Questions : Under(q) =>
       LET c == asked[q].conversation
       IN IF c \in DOMAIN conversations THEN conversations[c].owner = asked[q].user ELSE c = q

\* The two messages of q, in conversation c.
Exchanged(q, c) ==
  /\ conversations[c].owner = asked[q].user
  /\ \E k \in DOMAIN conversations[c].messages :
       /\ k + 1 \in DOMAIN conversations[c].messages
       /\ conversations[c].messages[k].of = q
       /\ conversations[c].messages[k].role = "user"
       /\ conversations[c].messages[k + 1].of = q
       /\ conversations[c].messages[k + 1].role = "assistant"
       /\ conversations[c].messages[k + 1].rows \subseteq results

Answered ==
  \A q \in Questions : asked[q].stage = "answered" => \E c \in DOMAIN conversations : Exchanged(q, c)

\* No conversation is empty, and every stored result is cited in one.
Cited(row, c) ==
  \E k \in DOMAIN conversations[c].messages : row \in conversations[c].messages[k].rows

Left ==
  /\ \A c \in DOMAIN conversations : DOMAIN conversations[c].messages # {}
  /\ \A row \in results : \E c \in DOMAIN conversations : Cited(row, c)

Slotted == slot # Free => slot \in Questions /\ asked[slot].stage = "planning"

AInv == WellTyped /\ Foreseen /\ Computed /\ Saved /\ Housed /\ Answered /\ Left /\ Slotted

-----------------------------------------------------------------------------
\* A saved message is a message.
LEMMA MessageSaved ==
  ASSUME WellTyped, NEW c \in DOMAIN conversations, NEW k \in DOMAIN conversations[c].messages
  PROVE  conversations[c].messages[k].of \in Questions
<1>1. conversations[c].messages \in Seq(Message)
  BY DEF WellTyped, Conversation
<1>2. conversations[c].messages[k] \in Message
  <2>. HIDE DEF Message
  <2>. QED
    BY <1>1
<1>. QED
  BY <1>2 DEF Message

\* Nothing was asked at the start.
LEMMA AInvInit == AssistantInit => AInv
<1>. SUFFICES ASSUME AssistantInit PROVE AInv
  OBVIOUS
<1>1. DOMAIN conversations = {} /\ \A q \in Questions : asked[q].stage = "new"
  BY DEF AssistantInit
<1>2. WellTyped
  BY <1>1 DEF AssistantInit, WellTyped, Accesses
<1>. QED
  BY <1>1, <1>2 DEF AssistantInit, AInv, Foreseen, Computed, Saved, Housed, Answered, Left, Slotted, Under

\* Steps of one question before it is saved: to a refusal, or onwards with
\* the same user and conversation.
LEMMA Moved ==
  ASSUME AInv, WellTyped', NEW q \in Questions,
         UNCHANGED <<access, results, conversations>>,
         asked[q].stage # "answered", asked'[q].stage # "answered",
         \A p \in Questions \ {q} : asked'[p] = asked[p] /\ inForce'[p] = inForce[p],
         asked'[q].stage = "planned" => access[asked'[q].user] \in inForce'[q],
         asked'[q].stage = "executed" =>
           \A r \in asked'[q].rows : Allowed(q, r.row)' /\ (r.new \/ r.row \in results),
         Under(q)' =>
           LET c == asked'[q].conversation
           IN IF c \in DOMAIN conversations THEN conversations[c].owner = asked'[q].user ELSE c = q,
         Slotted'
  PROVE  AInv'
<1>1. Foreseen'
  BY DEF AInv, Foreseen
<1>2. Computed'
  BY DEF AInv, Computed, Allowed
<1>3. Saved'
  <2>. SUFFICES ASSUME NEW c \in DOMAIN conversations, NEW k \in DOMAIN conversations[c].messages
                PROVE  LET m == conversations[c].messages[k]
                       IN asked'[m.of].stage = "answered" /\ \A row \in m.rows : Allowed(m.of, row)'
    BY DEF Saved
  <2>. DEFINE m == conversations[c].messages[k]
  <2>1. asked[m.of].stage = "answered" /\ \A row \in m.rows : Allowed(m.of, row)
    BY DEF AInv, Saved
  <2>2. m.of \in Questions
    BY MessageSaved DEF AInv
  <2>. QED
    BY <2>1, <2>2 DEF Allowed
<1>4. Housed'
  <2>1. \A c \in DOMAIN conversations' : asked'[c].stage = "answered"
    BY DEF AInv, Housed, WellTyped
  <2>2. ASSUME NEW p \in Questions \ {q}, Under(p)'
        PROVE  LET c == asked'[p].conversation
               IN IF c \in DOMAIN conversations' THEN conversations'[c].owner = asked'[p].user
                  ELSE c = p
    BY <2>2 DEF AInv, Housed, Under
  <2>. QED
    BY <2>1, <2>2 DEF Housed
<1>5. Answered'
  <2>. SUFFICES ASSUME NEW p \in Questions, asked'[p].stage = "answered"
                PROVE  \E c \in DOMAIN conversations : Exchanged(p, c)'
    BY DEF Answered
  <2>1. p # q /\ asked'[p] = asked[p]
    OBVIOUS
  <2>2. PICK c \in DOMAIN conversations : Exchanged(p, c)
    BY <2>1 DEF AInv, Answered
  <2>. QED
    BY <2>1, <2>2 DEF Exchanged
<1>6. Left'
  BY DEF AInv, Left, Cited
<1>. QED
  BY <1>1, <1>2, <1>3, <1>4, <1>5, <1>6 DEF AInv

\* A refusal keeps the invariant.
LEMMA RefuseMoves ==
  ASSUME AInv, NEW q \in Questions, Refuse(q), asked[q].stage # "answered",
         UNCHANGED <<access, facts, results, conversations>>,
         slot' \in {slot, Free}, asked[q].stage = "planning" => slot' = Free
  PROVE  AInv'
<1>1. /\ asked' = [asked EXCEPT ![q] = [stage |-> "refused"]]
      /\ UNCHANGED inForce
  BY DEF Refuse
<1>2. WellTyped' /\ asked'[q] = [stage |-> "refused"]
      /\ \A p \in Questions \ {q} : asked'[p] = asked[p] /\ inForce'[p] = inForce[p]
  BY <1>1 DEF AInv, WellTyped
<1>3. Slotted'
  BY <1>2 DEF AInv, Slotted
<1>. QED
  BY <1>2, <1>3, Moved DEF Under

\* A question is let in or refused.
LEMMA AskKeeps ==
  ASSUME AInv, NEW q \in Questions, NEW user \in Users, NEW metric \in BOOLEAN,
         NEW data \in Uploads \cup {Canonical}, NEW home \in DOMAIN conversations \cup {q},
         Ask(q, user, metric, data, home)
  PROVE  AInv'
<1>. DEFINE entered == [stage |-> "planning",
                        plan |-> [action |-> "metric_query", dated |-> FALSE],
                        user |-> user, context |-> access[user], data |-> data,
                        conversation |-> home, rows |-> {}]
            barred == \/ ~access[user].permitted
                      \/ (home # q /\ conversations[home].owner # user)
                      \/ (~metric /\ slot # Free)
<1>1. asked[q].stage = "new" /\ UNCHANGED <<access, facts, results, conversations>>
  BY DEF Ask
<1>2. CASE barred
  <2>1. Refuse(q) /\ UNCHANGED slot
    BY <1>2 DEF Ask
  <2>. QED
    BY <1>1, <2>1, RefuseMoves
<1>3. entered \in Entered /\ home \in Questions
  BY DEF Entered, AInv, WellTyped, Actions
<1>4. ~barred => IF home \in DOMAIN conversations THEN conversations[home].owner = user ELSE home = q
  <2>1. home = q => home \notin DOMAIN conversations
    BY <1>1 DEF AInv, Housed
  <2>. QED
    BY <2>1
<1>5. CASE ~barred /\ metric
  <2>1. /\ asked' = [asked EXCEPT ![q] = [entered EXCEPT !.stage = "planned"]]
        /\ inForce' = [inForce EXCEPT ![q] = {access[user]}]
        /\ UNCHANGED slot
    BY <1>5 DEF Ask
  <2>2. [entered EXCEPT !.stage = "planned"] \in Entered
    BY <1>3 DEF Entered
  <2>3. WellTyped'
    BY <1>1, <2>1, <2>2 DEF AInv, WellTyped
  <2>4. /\ asked'[q] = [entered EXCEPT !.stage = "planned"]
        /\ inForce'[q] = {access[user]}
        /\ \A p \in Questions \ {q} : asked'[p] = asked[p] /\ inForce'[p] = inForce[p]
    BY <2>1 DEF AInv, WellTyped
  <2>5. Slotted'
    BY <1>1, <2>1, <2>4 DEF AInv, Slotted
  <2>6. asked'[q].stage = "planned" /\ asked'[q].user = user /\ asked'[q].conversation = home
    BY <2>4
  <2>. QED
    BY <1>1, <1>4, <1>5, <2>3, <2>4, <2>5, <2>6, Moved
<1>6. CASE ~barred /\ ~metric
  <2>1. asked' = [asked EXCEPT ![q] = entered] /\ slot' = q /\ UNCHANGED inForce
    BY <1>6 DEF Ask
  <2>2. WellTyped' /\ asked'[q] = entered
        /\ \A p \in Questions \ {q} : asked'[p] = asked[p] /\ inForce'[p] = inForce[p]
    BY <1>1, <1>3, <2>1 DEF AInv, WellTyped
  <2>3. Slotted'
    BY <2>1, <2>2 DEF Slotted
  <2>. QED
    BY <1>1, <1>4, <1>6, <2>2, <2>3, Moved
<1>. QED
  BY <1>2, <1>5, <1>6

\* The model plans, or fails.
LEMMA InferKeeps == ASSUME AInv, NEW q \in Questions, Infer(q) PROVE AInv'
<1>1. /\ asked[q].stage = "planning" /\ slot' = Free
      /\ UNCHANGED <<access, changes, facts, results, conversations>>
  BY DEF Infer
<1>2. CASE Refuse(q)
  BY <1>1, <1>2, RefuseMoves
<1>3. ASSUME NEW plan \in [action : Actions, dated : BOOLEAN], Planned(q, plan)
      PROVE  AInv'
  <2>1. /\ asked' = [asked EXCEPT ![q] = [asked[q] EXCEPT !.stage = "planned", !.plan = plan]]
        /\ inForce' = [inForce EXCEPT ![q] = {access[asked[q].user]}]
    BY <1>3 DEF Planned
  <2>2. asked[q] \in Entered
    BY <1>1 DEF AInv, WellTyped
  <2>3. [asked[q] EXCEPT !.stage = "planned", !.plan = plan] \in Entered
    BY <2>2 DEF Entered
  <2>4. WellTyped'
    BY <1>1, <2>1, <2>2, <2>3 DEF AInv, WellTyped, Entered
  <2>5. /\ asked'[q] = [asked[q] EXCEPT !.stage = "planned", !.plan = plan]
        /\ inForce'[q] = {access[asked[q].user]}
        /\ \A p \in Questions \ {q} : asked'[p] = asked[p] /\ inForce'[p] = inForce[p]
    BY <2>1 DEF AInv, WellTyped
  <2>6. /\ asked'[q].stage = "planned" /\ asked'[q].user = asked[q].user
        /\ asked'[q].conversation = asked[q].conversation
    BY <2>2, <2>5 DEF Entered
  <2>7. Slotted'
    BY <1>1 DEF Slotted
  <2>8. LET c == asked'[q].conversation
        IN IF c \in DOMAIN conversations THEN conversations[c].owner = asked'[q].user ELSE c = q
    BY <1>1, <2>6 DEF AInv, Housed, Under
  <2>. QED
    BY <1>1, <2>4, <2>5, <2>6, <2>7, <2>8, Moved
<1>. QED
  BY <1>2, <1>3 DEF Infer, Plans, Actions

\* The plan is executed under the access read now.
LEMMA ExecuteKeeps == ASSUME AInv, NEW q \in Questions, Execute(q) PROVE AInv'
<1>. DEFINE current == AccessRead(q)
            plan == asked[q].plan
            row == Fingerprint(q, plan, current)
            computed == IF plan.action = "clarify" THEN {}
                        ELSE {[row |-> row, new |-> row \notin results]}
<1>1. /\ asked[q].stage = "planned"
      /\ UNCHANGED <<access, changes, facts, slot, results, conversations>>
  BY DEF Execute
<1>2. CASE Refuse(q)
  BY <1>1, <1>2, RefuseMoves
<1>3. CASE ~Refuse(q)
  <2>1. /\ current.permitted
        /\ asked' = [asked EXCEPT ![q] = [asked[q] EXCEPT !.stage = "executed", !.rows = computed]]
        /\ UNCHANGED inForce
    BY <1>3 DEF Execute
  <2>2. asked[q] \in Entered /\ current \in Accesses /\ current \in inForce[q]
    BY <1>1 DEF AInv, WellTyped, Foreseen, AccessRead, Entered
  <2>3. row \in Rows /\ row.scope = current.scope
    BY <2>2 DEF Fingerprint, Rows, AInv, WellTyped, Entered, Accesses
  <2>4. computed \in SUBSET [row : Rows, new : BOOLEAN]
    BY <2>3
  <2>5. [asked[q] EXCEPT !.stage = "executed", !.rows = computed] \in Entered
    BY <2>2, <2>4 DEF Entered
  <2>6. WellTyped'
    BY <1>1, <2>1, <2>5 DEF AInv, WellTyped
  <2>7. /\ asked'[q] = [asked[q] EXCEPT !.stage = "executed", !.rows = computed]
        /\ \A p \in Questions \ {q} : asked'[p] = asked[p] /\ inForce'[p] = inForce[p]
    BY <2>1 DEF AInv, WellTyped
  <2>8. /\ asked'[q].stage = "executed" /\ asked'[q].user = asked[q].user
        /\ asked'[q].conversation = asked[q].conversation /\ asked'[q].rows = computed
    BY <2>2, <2>7 DEF Entered
  <2>9. Slotted'
    BY <1>1, <2>7 DEF AInv, Slotted
  <2>10. \A r \in computed : Allowed(q, r.row)' /\ (r.new \/ r.row \in results)
    <3>. SUFFICES ASSUME NEW r \in computed
                  PROVE  Allowed(q, r.row)' /\ (r.new \/ r.row \in results)
      OBVIOUS
    <3>1. r.row = row /\ (r.new \/ row \in results)
      <4>1. r = [row |-> row, new |-> row \notin results]
        OBVIOUS
      <4>. HIDE DEF row
      <4>. QED
        BY <4>1, Zenon
    <3>2. r.row.scope = current.scope
      BY <2>3, <3>1
    <3>. HIDE DEF row, computed
    <3>3. \E a \in inForce'[q] : a.permitted /\ a.scope = r.row.scope
      BY <2>1, <2>2, <3>2
    <3>. QED
      BY <3>1, <3>3 DEF Allowed
  <2>11. LET c == asked'[q].conversation
         IN IF c \in DOMAIN conversations THEN conversations[c].owner = asked'[q].user ELSE c = q
    BY <1>1, <2>8 DEF AInv, Housed, Under
  <2>. QED
    BY <1>1, <2>6, <2>7, <2>8, <2>9, <2>10, <2>11, Moved
<1>. QED
  BY <1>2, <1>3

\* Two elements are put after a sequence.
LEMMA Appended ==
  ASSUME NEW S, NEW s \in Seq(S), NEW a \in S, NEW b \in S
  PROVE  LET t == s \o <<a, b>>
         IN /\ t \in Seq(S) /\ Len(s) \in Nat
            /\ DOMAIN t = 1..(Len(s) + 2) /\ DOMAIN s = 1..Len(s)
            /\ \A k \in 1..Len(s) : t[k] = s[k]
            /\ t[Len(s) + 1] = a /\ t[Len(s) + 2] = b
<1>1. <<a, b>> \in Seq(S) /\ Len(<<a, b>>) = 2
  OBVIOUS
<1>2. s \o <<a, b>> \in Seq(S) /\ Len(s \o <<a, b>>) = Len(s) + 2 /\ Len(s) \in Nat
  BY <1>1
<1>. QED
  BY <1>1, <1>2

\* The commit of an answer, or its refusal.
LEMMA SaveKeeps == ASSUME AInv, NEW q \in Questions, Save(q) PROVE AInv'
<1>. DEFINE home == asked[q].conversation
            inserted == {r.row : r \in {r \in asked[q].rows : r.new}}
            said == [role |-> "user", of |-> q, rows |-> {}]
            given == [role |-> "assistant", of |-> q, rows |-> {r.row : r \in asked[q].rows}]
            kept == IF home \in DOMAIN conversations THEN conversations[home].messages ELSE <<>>
            new == kept \o <<said, given>>
<1>1. asked[q].stage = "executed" /\ UNCHANGED <<access, changes, facts, slot>>
  BY DEF Save
<1>2. CASE inserted \cap results # {}
  <2>1. Refuse(q) /\ UNCHANGED <<results, conversations>>
    BY <1>2 DEF Save, RolledBack
  <2>. QED
    BY <1>1, <2>1, RefuseMoves
<1>3. CASE inserted \cap results = {}
  <2>1. /\ results' = results \cup inserted
        /\ conversations' = [c \in DOMAIN conversations \cup {home} |->
             IF c = home THEN [owner |-> asked[q].user, messages |-> new] ELSE conversations[c]]
        /\ asked' = [asked EXCEPT ![q].stage = "answered"]
        /\ UNCHANGED inForce
    BY <1>3, Zenon DEF Save, WithExchange
  <2>2. asked[q] \in Entered /\ home \in Questions /\ asked[q].user \in Users
    BY <1>1 DEF AInv, WellTyped, Entered
  <2>3. said \in Message /\ given \in Message
    <3>1. \A r \in asked[q].rows : r.row \in Rows
      BY <2>2 DEF Entered
    <3>. QED
      BY <3>1 DEF Message
  <2>4. kept \in Seq(Message)
    <3>1. home \in DOMAIN conversations => conversations[home].messages \in Seq(Message)
      BY DEF AInv, WellTyped, Conversation
    <3>. QED
      BY <3>1
  <2>5. /\ new \in Seq(Message) /\ Len(kept) \in Nat
        /\ DOMAIN new = 1..(Len(kept) + 2) /\ DOMAIN kept = 1..Len(kept)
        /\ \A k \in 1..Len(kept) : new[k] = kept[k]
        /\ new[Len(kept) + 1] = said /\ new[Len(kept) + 2] = given
    <3>. HIDE DEF said, given, kept
    <3>. QED
      BY <2>3, <2>4, Appended
  <2>a. /\ said.of = q /\ said.role = "user" /\ said.rows = {}
        /\ given.of = q /\ given.role = "assistant"
        /\ \A row \in given.rows : \E r \in asked[q].rows : row = r.row
        /\ inserted \subseteq given.rows
    OBVIOUS
  <2>b. \A r \in asked[q].rows : Allowed(q, r.row) /\ (r.new \/ r.row \in results)
    BY <1>1 DEF AInv, Computed
  <2>c. given.rows \subseteq results'
    BY <2>1, <2>b
  <2>d. home \in DOMAIN conversations => kept = conversations[home].messages
    OBVIOUS
  <2>e. home \notin DOMAIN conversations => Len(kept) = 0
    OBVIOUS
  <2>f. IF home \in DOMAIN conversations THEN conversations[home].owner = asked[q].user
        ELSE home = q
    BY <1>1 DEF AInv, Housed, Under
  <2>g. asked[q].conversation = home
    OBVIOUS
  <2>. HIDE DEF said, given, kept, new, home, inserted
  <2>6. /\ DOMAIN conversations' = DOMAIN conversations \cup {home}
        /\ conversations'[home] = [owner |-> asked[q].user, messages |-> new]
        /\ \A c \in DOMAIN conversations \ {home} : conversations'[c] = conversations[c]
    BY <2>1
  <2>7. /\ asked'[q] = [asked[q] EXCEPT !.stage = "answered"]
        /\ \A p \in Questions \ {q} : asked'[p] = asked[p]
        /\ asked'[q].stage = "answered" /\ asked'[q].user = asked[q].user
        /\ asked'[q].conversation = home
    <3>1. /\ asked'[q] = [asked[q] EXCEPT !.stage = "answered"]
          /\ \A p \in Questions \ {q} : asked'[p] = asked[p]
      BY <2>1 DEF AInv, WellTyped
    <3>. QED
      BY <2>2, <2>g, <3>1 DEF Entered
  <2>8. WellTyped'
    <3>1. asked'[q] \in Entered
      BY <2>2, <2>7 DEF Entered
    <3>2. conversations'[home] \in Conversation
      BY <2>2, <2>5, <2>6 DEF Conversation
    <3>3. conversations' \in [DOMAIN conversations' -> Conversation]
      BY <2>1, <2>6, <3>2 DEF AInv, WellTyped
    <3>4. asked' \in [Questions -> {[stage |-> "new"], [stage |-> "refused"]} \cup Entered]
      BY <2>1, <2>7, <3>1 DEF AInv, WellTyped
    <3>. QED
      BY <1>1, <2>1, <2>2, <2>6, <3>3, <3>4 DEF AInv, WellTyped
  <2>9. home \in DOMAIN conversations => conversations[home].owner = asked[q].user
    BY <2>f
  <2>10. Foreseen' /\ Computed'
    <3>1. \A p \in Questions : asked'[p].stage \in {"planned", "executed"} =>
            asked'[p] = asked[p]
      BY <2>7
    <3>. QED
      BY <1>1, <2>1, <3>1 DEF AInv, Foreseen, Computed, Allowed
  <2>11. Saved'
    <3>. SUFFICES ASSUME NEW c \in DOMAIN conversations', NEW k \in DOMAIN conversations'[c].messages
                  PROVE  LET m == conversations'[c].messages[k]
                         IN asked'[m.of].stage = "answered" /\ \A row \in m.rows : Allowed(m.of, row)
      <4>1. \A p, row : Allowed(p, row)' <=> Allowed(p, row)
        BY <2>1 DEF Allowed
      <4>. QED
        BY <4>1 DEF Saved
    <3>1. ASSUME NEW d \in DOMAIN conversations, NEW i \in DOMAIN conversations[d].messages
          PROVE  LET m == conversations[d].messages[i]
                 IN asked'[m.of].stage = "answered" /\ \A row \in m.rows : Allowed(m.of, row)
      <4>. DEFINE m == conversations[d].messages[i]
      <4>1. asked[m.of].stage = "answered" /\ \A row \in m.rows : Allowed(m.of, row)
        BY DEF AInv, Saved
      <4>2. m.of \in Questions
        BY MessageSaved DEF AInv
      <4>. QED
        BY <2>7, <4>1, <4>2
    <3>2. CASE c # home
      BY <2>6, <3>1, <3>2
    <3>3. CASE c = home /\ k \in 1..Len(kept)
      <4>1. home \in DOMAIN conversations /\ kept = conversations[home].messages
        BY <2>5, <2>d, <2>e, <3>3
      <4>. QED
        BY <2>5, <2>6, <3>1, <3>3, <4>1
    <3>4. CASE c = home /\ k = Len(kept) + 1
      <4>1. conversations'[c].messages[k] = said
        BY <2>5, <2>6, <3>4
      <4>. QED
        BY <2>a, <2>7, <4>1
    <3>5. CASE c = home /\ k = Len(kept) + 2
      <4>1. \A row \in given.rows : Allowed(q, row)
        BY <2>a, <2>b
      <4>. QED
        <5>1. conversations'[c].messages[k] = given
          BY <2>5, <2>6, <3>5
        <5>. QED
          BY <2>a, <2>7, <4>1, <5>1
    <3>. QED
      BY <2>5, <2>6, <3>2, <3>3, <3>4, <3>5
  <2>12. Housed'
    <3>1. home \in DOMAIN conversations \/ home = q
      BY <2>f
    <3>2. \A c \in DOMAIN conversations' : asked'[c].stage = "answered"
      <4>1. \A c \in DOMAIN conversations : c \in Questions /\ asked[c].stage = "answered"
        BY DEF AInv, Housed, WellTyped
      <4>. QED
        BY <2>6, <2>7, <3>1, <4>1
    <3>3. ASSUME NEW p \in Questions, Under(p)'
          PROVE  LET c == asked'[p].conversation
                 IN IF c \in DOMAIN conversations' THEN conversations'[c].owner = asked'[p].user
                    ELSE c = p
      <4>1. CASE p = q
        <5>1. conversations'[home].owner = asked[q].user /\ home \in DOMAIN conversations'
          BY <2>6
        <5>. QED
          BY <2>7, <4>1, <5>1
      <4>2. CASE p # q
        <5>. DEFINE c == asked[p].conversation
        <5>1. asked'[p] = asked[p] /\ Under(p)
          BY <2>7, <3>3, <4>2 DEF Under
        <5>2. IF c \in DOMAIN conversations THEN conversations[c].owner = asked[p].user ELSE c = p
          BY <5>1 DEF AInv, Housed
        <5>3. CASE c \in DOMAIN conversations
          BY <2>6, <2>9, <5>1, <5>2, <5>3
        <5>4. CASE c \notin DOMAIN conversations
          BY <2>6, <3>1, <4>2, <5>1, <5>2, <5>4
        <5>. QED
          BY <5>3, <5>4
      <4>. QED
        BY <4>1, <4>2
    <3>. QED
      BY <3>2, <3>3 DEF Housed
  <2>13. Answered'
    <3>. SUFFICES ASSUME NEW p \in Questions, asked'[p].stage = "answered"
                  PROVE  \E c \in DOMAIN conversations' : Exchanged(p, c)'
      BY DEF Answered
    <3>1. CASE p = q
      <4>. DEFINE k == Len(kept) + 1
      <4>1. k \in DOMAIN new /\ k + 1 \in DOMAIN new /\ new[k] = said /\ new[k + 1] = given
        BY <2>5
      <4>. HIDE DEF k
      <4>2. ASSUME NEW c, c = home PROVE Exchanged(q, c)'
        <5>1. /\ conversations'[c].messages = new
              /\ conversations'[c].owner = asked'[q].user
          BY <2>6, <2>7, <4>2
        <5>2. new[k].of = q /\ new[k].role = "user" /\ new[k + 1].of = q
              /\ new[k + 1].role = "assistant" /\ new[k + 1].rows \subseteq results'
          BY <2>a, <2>c, <4>1
        <5>. QED
          BY <4>1, <5>1, <5>2 DEF Exchanged
      <4>. QED
        BY <2>6, <3>1, <4>2
    <3>2. CASE p # q
      <4>1. asked'[p] = asked[p]
        BY <2>7, <3>2
      <4>2. PICK c \in DOMAIN conversations : Exchanged(p, c)
        BY <4>1 DEF AInv, Answered
      <4>3. CASE c # home
        BY <2>1, <2>6, <4>1, <4>2, <4>3 DEF Exchanged
      <4>4. CASE c = home
        <5>1. kept = conversations[c].messages /\ conversations'[c].messages = new
              /\ conversations'[c].owner = conversations[c].owner
          BY <2>6, <2>9, <2>d, <4>2, <4>4
        <5>2. PICK k \in DOMAIN kept :
                /\ k + 1 \in DOMAIN kept /\ kept[k].of = p /\ kept[k].role = "user"
                /\ kept[k + 1].of = p /\ kept[k + 1].role = "assistant"
                /\ kept[k + 1].rows \subseteq results
          BY <4>2, <5>1 DEF Exchanged
        <5>3. /\ k \in DOMAIN new /\ k + 1 \in DOMAIN new
              /\ new[k] = kept[k] /\ new[k + 1] = kept[k + 1]
          BY <2>5, <5>2
        <5>4. new[k + 1].rows \subseteq results'
          BY <2>1, <5>2, <5>3
        <5>. QED
          BY <2>6, <4>1, <4>2, <5>1, <5>2, <5>3, <5>4 DEF Exchanged
      <4>. QED
        BY <4>3, <4>4
    <3>. QED
      BY <3>1, <3>2
  <2>14. Slotted'
    BY <1>1, <2>7 DEF AInv, Slotted
  <2>15. Left'
    <3>1. ASSUME NEW c \in DOMAIN conversations' PROVE DOMAIN conversations'[c].messages # {}
      <4>1. CASE c = home
        <5>1. conversations'[c].messages = new
          BY <2>6, <4>1
        <5>2. Len(kept) + 1 \in DOMAIN new
          BY <2>5
        <5>. QED
          BY <5>1, <5>2
      <4>2. CASE c # home
        BY <2>6, <4>2 DEF AInv, Left
      <4>. QED
        BY <4>1, <4>2
    <3>2. ASSUME NEW row \in results' PROVE \E c \in DOMAIN conversations' : Cited(row, c)'
      <4>1. CASE row \in inserted
        <5>1. Len(kept) + 2 \in DOMAIN conversations'[home].messages
              /\ conversations'[home].messages[Len(kept) + 2] = given
          BY <2>5, <2>6
        <5>2. row \in given.rows /\ home \in DOMAIN conversations'
          BY <2>a, <2>6, <4>1
        <5>. QED
          BY <5>1, <5>2 DEF Cited
      <4>2. CASE row \in results
        <5>1. PICK c \in DOMAIN conversations :
                \E k \in DOMAIN conversations[c].messages : row \in conversations[c].messages[k].rows
          BY <4>2 DEF AInv, Left, Cited
        <5>2. PICK k \in DOMAIN conversations[c].messages : row \in conversations[c].messages[k].rows
          BY <5>1
        <5>3. k \in DOMAIN conversations'[c].messages /\ row \in conversations'[c].messages[k].rows
          <6>1. CASE c # home
            BY <2>6, <5>2, <6>1
          <6>2. CASE c = home
            <7>1. kept = conversations[c].messages /\ conversations'[c].messages = new
              BY <2>d, <2>6, <6>2
            <7>. QED
              BY <2>5, <5>2, <7>1
          <6>. QED
            BY <6>1, <6>2
        <5>. QED
          BY <2>6, <5>3 DEF Cited
      <4>. QED
        BY <2>1, <4>1, <4>2
    <3>. QED
      BY <3>1, <3>2 DEF Left
  <2>. QED
    BY <2>8, <2>10, <2>11, <2>12, <2>13, <2>14, <2>15 DEF AInv
<1>. QED
  BY <1>2, <1>3

\* Every step keeps the invariant.
LEMMA AInvNext == AInv /\ [AssistantNext]_assistantVars => AInv'
<1>. SUFFICES ASSUME AInv, [AssistantNext]_assistantVars PROVE AInv'
  OBVIOUS
<1>1. ASSUME NEW user \in Users, NEW new \in Accesses, ChangeAccess(user, new) PROVE AInv'
  <2>1. /\ access' = [access EXCEPT ![user] = new]
        /\ inForce' = [q \in Questions |->
             IF asked[q].stage = "planned" /\ asked[q].user = user THEN inForce[q] \cup {new}
             ELSE inForce[q]]
        /\ UNCHANGED <<facts, slot, asked, results, conversations>>
    BY <1>1 DEF ChangeAccess
  <2>2. WellTyped'
    BY <2>1 DEF AInv, WellTyped
  <2>3. Foreseen'
    BY <2>1 DEF AInv, Foreseen, WellTyped, Entered
  <2>4. \A q \in Questions : inForce[q] \subseteq inForce'[q]
    BY <2>1
  <2>5. Computed'
    BY <2>1, <2>4 DEF AInv, Computed, Allowed
  <2>6. Saved'
    <3>1. \A c \in DOMAIN conversations : \A k \in DOMAIN conversations[c].messages :
            conversations[c].messages[k].of \in Questions
      BY MessageSaved DEF AInv
    <3>. QED
      BY <2>1, <2>4, <3>1 DEF AInv, Saved, Allowed
  <2>. QED
    BY <2>1, <2>2, <2>3, <2>5, <2>6 DEF AInv, Housed, Answered, Exchanged, Left, Cited, Slotted, Under
<1>2. CASE ChangeFacts
  BY <1>2 DEF ChangeFacts, AInv, WellTyped, Foreseen, Computed, Saved, Allowed, Housed, Answered,
              Exchanged, Left, Cited, Slotted, Under
<1>3. CASE UNCHANGED assistantVars
  BY <1>3 DEF assistantVars, AInv, WellTyped, Foreseen, Computed, Saved, Allowed, Housed, Answered,
              Exchanged, Left, Cited, Slotted, Under
<1>. QED
  BY <1>1, <1>2, <1>3, AskKeeps, InferKeeps, ExecuteKeeps, SaveKeeps DEF AssistantNext

\* What is saved was computed under an access that its user had once the
\* model had planned the question, however accesses changed meanwhile.
THEOREM AnswersAreAuthorized == AssistantSpec => []AnswersAuthorized
<1>1. AInv => AnswersAuthorized
  BY DEF AInv, Saved, Allowed, AnswersAuthorized, Messages
<1>. QED
  BY AInvInit, AInvNext, <1>1, PTL DEF AssistantSpec

\* A question is answered whole, by two messages that follow each other and the
\* results they cite, or leaves no message and no result; and it gives the model
\* back.
THEOREM QuestionsAreSettled == AssistantSpec => []QuestionsSettle
<1>1. AInv => QuestionsSettle
  <2>. SUFFICES ASSUME AInv PROVE QuestionsSettle
    OBVIOUS
  <2>1. slot # Free => asked[slot].stage = "planning"
    BY DEF AInv, Slotted
  <2>2. ASSUME NEW q \in Questions, asked[q].stage = "answered"
        PROVE  \E c \in DOMAIN conversations : \E k \in DOMAIN conversations[c].messages :
                 LET said == conversations[c].messages[k]
                     given == conversations[c].messages[k + 1]
                 IN /\ conversations[c].owner = asked[q].user
                    /\ k + 1 \in DOMAIN conversations[c].messages
                    /\ said.of = q /\ said.role = "user"
                    /\ given.of = q /\ given.role = "assistant" /\ given.rows \subseteq results
    <3>1. PICK c \in DOMAIN conversations : Exchanged(q, c)
      BY <2>2 DEF AInv, Answered
    <3>2. PICK k \in DOMAIN conversations[c].messages :
            /\ k + 1 \in DOMAIN conversations[c].messages
            /\ conversations[c].messages[k].of = q /\ conversations[c].messages[k].role = "user"
            /\ conversations[c].messages[k + 1].of = q
            /\ conversations[c].messages[k + 1].role = "assistant"
            /\ conversations[c].messages[k + 1].rows \subseteq results
      BY <3>1 DEF Exchanged
    <3>. QED
      BY <3>1, <3>2, Zenon DEF Exchanged
  <2>3. \A c \in DOMAIN conversations :
          Messages(c) # {} /\ \A m \in Messages(c) : asked[m.of].stage = "answered"
    BY DEF AInv, Left, Saved, Messages
  <2>4. \A row \in results : \E c \in DOMAIN conversations : \E m \in Messages(c) : row \in m.rows
    BY Zenon DEF AInv, Left, Cited, Messages
  <2>. QED
    BY <2>1, <2>2, <2>3, <2>4, Zenon DEF QuestionsSettle
<1>. QED
  BY AInvInit, AInvNext, <1>1, PTL DEF AssistantSpec

-----------------------------------------------------------------------------
(* Backup and restore.  BInv says, for each command of either script, what *)
(* the commands before it have achieved.                                   *)

BackupSpec == BackupInit /\ [][BackupNext]_backupVars

Shape ==
  /\ script = [name |-> script.name, at |-> script.at, was |-> script.was]
  /\ bundle = [marker |-> bundle.marker, dump |-> bundle.dump,
               archive |-> bundle.archive, sums |-> bundle.sums]

\* The bundle whose parts are those of the moment the services stopped.
Faithful == <<Whole(moment.rows), Whole(moment.artifacts)>>

Momentous == moment.rows \subseteq moment.artifacts

\* A running backup has stopped the services, so that what it copies stands still.
BackingUp ==
  script.name = "backup" =>
    /\ bundle.marker = "INCOMPLETE"
    /\ script.at \in {"stop", "dump", "archive", "sums", "mark"}
    /\ script.at # "stop" =>
         /\ running = {} /\ rows = moment.rows /\ artifacts = moment.artifacts
    /\ script.at \in {"archive", "sums", "mark"} => bundle.dump = Whole(moment.rows)
    /\ script.at \in {"sums", "mark"} => bundle.archive = Whole(moment.artifacts)
    /\ script.at = "mark" => bundle.sums = Whole(Faithful)

\* A bundle with its marker has the checksums of that moment.
Marked ==
  /\ bundle.marker = "COMPLETE" => bundle.sums = Whole(Faithful)
  /\ bundle.marker # "COMPLETE" => restored = "none"

\* A restore goes on with the bundle it accepted.
Restoring ==
  script.name = "restore" =>
    /\ Accepted(bundle)
    /\ script.at # "stop" => restored \in {"begun", "unquiesced"}

\* What a restore that stopped the services has replaced so far.
Begun ==
  restored = "begun" =>
    /\ script.name = "restore"
    /\ \/ /\ script.at \in {"drop", "fill", "empty", "extract", "start"}
          /\ running = {} /\ writing = {}
          /\ script.at = "fill" => rows = {}
          /\ script.at \in {"empty", "extract", "start"} => rows = moment.rows
          /\ script.at = "extract" => artifacts = {}
          /\ script.at = "start" => artifacts = moment.artifacts
       \/ /\ script.at = "ready"
          /\ moment.rows \subseteq rows /\ rows \subseteq artifacts

\* A stopped service writes nothing.
Quiet == running = {} => writing = {}

\* Outside a restore that failed or did not stop the services, rows have artifacts.
Settled ==
  /\ restored \in {"none", "begun", "whole"} => writing \subseteq artifacts
  /\ restored \in {"none", "whole"} => rows \subseteq artifacts
  /\ restored = "whole" => moment.rows \subseteq rows

BInv == Shape /\ Momentous /\ BackingUp /\ Marked /\ Restoring /\ Begun /\ Quiet /\ Settled

-----------------------------------------------------------------------------
\* What restore.sh accepts are the parts that backup.sh wrote.
LEMMA AcceptedFaithful ==
  ASSUME Marked, Accepted(bundle)
  PROVE  bundle.dump = Whole(moment.rows) /\ bundle.archive = Whole(moment.artifacts)
<1>1. Whole(<<bundle.dump, bundle.archive>>) = Whole(Faithful)
  BY DEF Marked, Accepted
<1>2. \A x, y : Whole(x) = Whole(y) => x = y
  BY DEF Whole
<1>3. <<bundle.dump, bundle.archive>> = Faithful
  BY <1>1, <1>2
<1>. QED
  BY <1>3 DEF Faithful

LEMMA BInvInit == BackupInit => BInv
BY DEF BackupInit, BInv, Shape, Momentous, BackingUp, Marked, Restoring, Begun, Quiet, Settled,
       NoBundle, NoScript, Accepted, Absent, Services

LEMMA BInvNext == BInv /\ [BackupNext]_backupVars => BInv'
<1>. SUFFICES ASSUME BInv, [BackupNext]_backupVars PROVE BInv'
  OBVIOUS
<1>. USE DEF BInv
<1>1. ASSUME NEW o \in Objects, WriteArtifact(o) PROVE BInv'
  BY <1>1 DEF WriteArtifact, Shape, Momentous, BackingUp, Marked, Restoring, Begun, Quiet,
              Settled, Accepted, Faithful, Whole
<1>2. ASSUME NEW o \in Objects, CommitRow(o) PROVE BInv'
  BY <1>2 DEF CommitRow, Shape, Momentous, BackingUp, Marked, Restoring, Begun, Quiet,
              Settled, Accepted, Faithful, Whole
<1>3. CASE Backup
  BY <1>3 DEF Backup, Start, NoBundle, NoScript, Shape, Momentous, BackingUp, Marked, Restoring,
              Begun, Quiet, Settled, Accepted, Faithful, Whole
<1>4. CASE BackupStep
  BY <1>4 DEF BackupStep, GoOn, Stopped, Quiesced, NoScript, Shape, Momentous, BackingUp, Marked,
              Restoring, Begun, Quiet, Settled, Faithful
<1>5. CASE BackupFails
  BY <1>5 DEF BackupFails, NoScript, Shape, Momentous, BackingUp, Marked, Restoring, Begun,
              Quiet, Settled, Faithful
<1>6. CASE Restore
  BY <1>6 DEF Restore, Start, NoScript, Shape, Momentous, BackingUp, Marked, Restoring, Begun,
              Quiet, Settled, Faithful
<1>7. CASE RestoreStep
  <2>1. /\ script.name = "restore" /\ UNCHANGED <<runs, bundle, moment>>
        /\ Accepted(bundle) /\ bundle.marker = "COMPLETE" /\ Accepted(bundle)'
    BY <1>7 DEF RestoreStep, Restoring, Accepted
  <2>2. bundle.dump = Whole(moment.rows) /\ bundle.archive = Whole(moment.artifacts)
    BY <2>1, AcceptedFaithful
  <2>3. bundle.dump.content = moment.rows /\ bundle.archive.content = moment.artifacts
    BY <2>2 DEF Whole
  <2>4. script' = NoScript \/ script' = [script EXCEPT !.at = script'.at]
    BY <1>7 DEF RestoreStep, GoOn, Shape
  <2>5. Shape' /\ Momentous' /\ BackingUp' /\ Marked' /\ Restoring'
    <3>1. script'.name \in {"restore", "none"}
      BY <2>1, <2>4 DEF NoScript, Shape
    <3>2. Shape' /\ Momentous' /\ BackingUp'
      BY <2>1, <2>4, <3>1 DEF NoScript, Shape, Momentous, BackingUp
    <3>3. Restoring'
      BY <1>7, <2>1, <3>2 DEF RestoreStep, GoOn, NoScript, Shape, Restoring
    <3>. QED
      BY <2>1, <3>2, <3>3 DEF Marked, Faithful
  <2>6. Begun' /\ Quiet' /\ Settled'
    <3>1. CASE script.at = "stop"
      BY <1>7, <2>1, <2>3, <3>1 DEF RestoreStep, GoOn, Stopped, Shape, Restoring, Momentous, Begun, Quiet,
                                     Settled
    <3>2. CASE script.at = "drop"
      BY <1>7, <2>1, <2>3, <3>2 DEF RestoreStep, GoOn, Stopped, Shape, Restoring, Momentous, Begun, Quiet,
                                     Settled
    <3>3. CASE script.at = "fill"
      BY <1>7, <2>1, <2>3, <3>3 DEF RestoreStep, GoOn, Stopped, Shape, Restoring, Momentous, Begun, Quiet,
                                     Settled
    <3>4. CASE script.at = "empty"
      BY <1>7, <2>1, <2>3, <3>4 DEF RestoreStep, GoOn, Stopped, Shape, Restoring, Momentous, Begun, Quiet,
                                     Settled
    <3>5. CASE script.at = "extract"
      BY <1>7, <2>1, <2>3, <3>5 DEF RestoreStep, GoOn, Stopped, Shape, Restoring, Momentous, Begun, Quiet,
                                     Settled
    <3>6. CASE script.at = "start"
      BY <1>7, <2>1, <2>3, <3>6 DEF RestoreStep, GoOn, Stopped, Shape, Restoring, Momentous, Begun, Quiet,
                                     Settled, Services
    <3>7. CASE script.at = "ready"
      BY <1>7, <2>1, <2>3, <3>7 DEF RestoreStep, GoOn, Stopped, Shape, Restoring, Momentous, Begun, Quiet,
                                     Settled, NoScript
    <3>. QED
      BY <1>7, <3>1, <3>2, <3>3, <3>4, <3>5, <3>6, <3>7 DEF RestoreStep
  <2>. QED
    BY <2>5, <2>6
<1>8. CASE RestoreFails
  BY <1>8 DEF RestoreFails, NoScript, Shape, Momentous, BackingUp, Marked, Restoring, Begun,
              Quiet, Settled, Faithful, Accepted
<1>9. CASE Killed
  BY <1>9 DEF Killed, NoScript, Shape, Momentous, BackingUp, Marked, Restoring, Begun, Quiet,
              Settled, Faithful, Accepted
<1>10. CASE StartServices
  BY <1>10 DEF StartServices, Services, NoScript, Shape, Momentous, BackingUp, Marked, Restoring, Begun,
               Quiet, Settled, Faithful
<1>11. CASE Damage
  BY <1>11 DEF Damage, NoScript, Shape, Momentous, BackingUp, Marked, Restoring, Begun, Quiet,
               Settled, Faithful
<1>12. CASE UNCHANGED backupVars
  BY <1>12 DEF backupVars, Shape, Momentous, BackingUp, Marked, Restoring, Begun, Quiet, Settled,
               Accepted, Faithful, Whole
<1>. QED
  BY <1>1, <1>2, <1>3, <1>4, <1>5, <1>6, <1>7, <1>8, <1>9, <1>10, <1>11, <1>12 DEF BackupNext

\* A bundle that restore.sh accepts is the data of one moment, and a restore
\* that reported completion, having stopped the services, brought it back
\* with an artifact for every row.
THEOREM RestoresAreWhole == BackupSpec => []RestoresWhole
<1>1. BInv => RestoresWhole
  BY AcceptedFaithful DEF BInv, RestoresWhole, Settled
<1>. QED
  BY BInvInit, BInvNext, <1>1, PTL DEF BackupSpec

-----------------------------------------------------------------------------
(* The rate limiter.  A bucket counts at least what its window let through,*)
(* and what an earlier window of the key let through lately is within the  *)
(* limit too, even if that bucket was pruned: a stretch of one window's    *)
(* length meets no third window.                                           *)

LimiterSpec == LimiterInit /\ [][LimiterNext]_limiterVars

Since(ps, key, from)       == {p \in ps : p[1] = key /\ from <= p[2]}
Between(ps, key, from, to) == {p \in ps : p[1] = key /\ from < p[2] /\ p[2] < to}
During(ps, key, from)      == {p \in ps : p[1] = key /\ from <= p[2] /\ p[2] < from + Ticks(Window)}

\* Requests let through until now: ps.
Passes(ps, now) == IsFiniteSet(ps) /\ \A p \in ps : p[2] \in Nat /\ p[2] <= now

\* What a bucket tells of its key.
Counts(ps, key, b) ==
  /\ Cardinality(Since(ps, key, b.started)) <= b.count
  /\ b.count <= Limit(key[2])
  /\ Cardinality(Between(ps, key, b.started - Ticks(Window), b.started)) <= Limit(key[2])
  /\ \A p \in ps : p[1] = key => p[2] < b.started + Ticks(Window)

\* What a key without a bucket let through lately.
Forgotten(ps, key, now) ==
  /\ Cardinality(Since(ps, key, now - Ticks(Window) + 1)) <= Limit(key[2])
  /\ \A p \in ps : p[1] = key => p[2] < now

Bounded(ps, key) == \A from \in Nat : Cardinality(During(ps, key, from)) <= 2 * Limit(key[2])

Accounted(counted, ps, now, key) ==
  /\ key \in DOMAIN counted => Counts(ps, key, counted[key])
  /\ key \notin DOMAIN counted => Forgotten(ps, key, now)
  /\ Bounded(ps, key)

Bucket(now) == [started : 0..now, count : Nat]

LInv ==
  /\ clock \in Nat /\ Passes(passed, clock)
  /\ \A k \in DOMAIN buckets : buckets[k] \in Bucket(clock)
  /\ \A k \in DOMAIN told : /\ told[k].started \in Int /\ told[k].until \in Int
                            /\ told[k].started + Ticks(Window) <= told[k].until
  /\ \A k \in Keys : Accounted(buckets, passed, clock, k)

LEMMA LimitsAreNumbers == Ticks(Window) \in Nat \ {0} /\ \A b : Limit(b) \in Nat \ {0}
<1>1. Min({ApiLimit, ExpensiveCap}) \in Nat \ {0}
  BY LimiterAssumption DEF Min
<1>. QED
  BY <1>1, LimiterAssumption DEF Ticks, Limit

\* Sizes of the sets that are counted.
LEMMA PassesCounted ==
  ASSUME NEW ps, IsFiniteSet(ps), NEW S \in SUBSET ps
  PROVE  /\ IsFiniteSet(S) /\ Cardinality(S) \in Nat
         /\ \A R \in SUBSET S : Cardinality(R) <= Cardinality(S)
         /\ \A x : IsFiniteSet(S \cup {x}) /\ Cardinality(S \cup {x}) <= Cardinality(S) + 1
         /\ \A R \in SUBSET ps : Cardinality(R \cup S) <= Cardinality(R) + Cardinality(S)
<1>1. IsFiniteSet(S) /\ Cardinality(S) \in Nat
  BY FS_Subset, FS_CardinalityType
<1>2. \A R \in SUBSET S : Cardinality(R) <= Cardinality(S)
  BY <1>1, FS_Subset
<1>3. ASSUME NEW x
      PROVE  IsFiniteSet(S \cup {x}) /\ Cardinality(S \cup {x}) <= Cardinality(S) + 1
  BY <1>1, FS_AddElement
<1>4. ASSUME NEW R \in SUBSET ps
      PROVE  Cardinality(R \cup S) <= Cardinality(R) + Cardinality(S)
  <2>1. IsFiniteSet(R) /\ IsFiniteSet(R \cap S)
    BY FS_Subset
  <2>2. Cardinality(R) \in Nat /\ Cardinality(R \cap S) \in Nat
    BY <2>1, FS_CardinalityType
  <2>3. Cardinality(R \cup S) = Cardinality(R) + Cardinality(S) - Cardinality(R \cap S)
    BY <1>1, <2>1, FS_Union
  <2>. QED
    BY <1>1, <2>2, <2>3
<1>. QED
  BY <1>1, <1>2, <1>3, <1>4
\* A window that is over is forgotten without harm.
LEMMA ExpiredForgotten ==
  ASSUME NEW now \in Nat, NEW ps, Passes(ps, now), NEW key, NEW b \in Bucket(now),
         Counts(ps, key, b), now - b.started >= Ticks(Window)
  PROVE  Forgotten(ps, key, now)
<1>1. b.started \in Nat /\ b.count \in Nat
  BY DEF Bucket
<1>2. Since(ps, key, now - Ticks(Window) + 1) \subseteq Since(ps, key, b.started)
  BY <1>1, LimitsAreNumbers DEF Since, Passes
<1>3. Since(ps, key, b.started) \in SUBSET ps
  BY DEF Since
<1>4. /\ Cardinality(Since(ps, key, b.started)) \in Nat
      /\ Cardinality(Since(ps, key, now - Ticks(Window) + 1)) <= Cardinality(Since(ps, key, b.started))
      /\ Cardinality(Since(ps, key, now - Ticks(Window) + 1)) \in Nat
  <2>1. IsFiniteSet(ps) /\ Since(ps, key, now - Ticks(Window) + 1) \in SUBSET ps
    BY DEF Since, Passes
  <2>. QED
    BY <1>2, <1>3, <2>1, PassesCounted
<1>5. \A p \in ps : p[1] = key => p[2] < now
  BY <1>1, LimitsAreNumbers DEF Counts, Passes
<1>. QED
  BY <1>1, <1>4, <1>5, LimitsAreNumbers DEF Counts, Forgotten

\* The window that a request meets: the stored one, or a new one.
Met(counted, now, key) ==
  IF key \in DOMAIN counted /\ now - counted[key].started < Ticks(Window) THEN counted[key]
  ELSE [started |-> now, count |-> 0]

LEMMA MetCounts ==
  ASSUME NEW now \in Nat, NEW ps, Passes(ps, now), NEW key, NEW counted,
         key \in DOMAIN counted => counted[key] \in Bucket(now),
         Accounted(counted, ps, now, key)
  PROVE  LET b == Met(counted, now, key)
         IN b \in Bucket(now) /\ now - b.started < Ticks(Window) /\ Counts(ps, key, b)
<1>1. CASE key \in DOMAIN counted /\ now - counted[key].started < Ticks(Window)
  BY <1>1 DEF Met, Accounted
<1>2. CASE ~(key \in DOMAIN counted /\ now - counted[key].started < Ticks(Window))
  <2> DEFINE b == [started |-> now, count |-> 0]
  <2>1. b = Met(counted, now, key) /\ b \in Bucket(now) /\ b.started = now /\ b.count = 0
    BY <1>2 DEF Met, Bucket
  <2>. HIDE DEF b
  <2>2. Forgotten(ps, key, now)
    <3>1. CASE key \in DOMAIN counted
      <4>1. counted[key] \in Bucket(now) /\ Counts(ps, key, counted[key])
        BY <3>1 DEF Accounted
      <4>2. now - counted[key].started >= Ticks(Window)
        BY <1>2, <3>1, <4>1, LimitsAreNumbers DEF Bucket
      <4>. QED
        BY <4>1, <4>2, ExpiredForgotten
    <3>2. CASE key \notin DOMAIN counted
      BY <3>2 DEF Accounted
    <3>. QED
      BY <3>1, <3>2
  <2>3. Since(ps, key, now) = {}
    BY <2>2 DEF Forgotten, Since, Passes
  <2>4. Between(ps, key, now - Ticks(Window), now) \subseteq Since(ps, key, now - Ticks(Window) + 1)
    BY LimitsAreNumbers DEF Between, Since, Passes
  <2>5. /\ Cardinality(Between(ps, key, now - Ticks(Window), now)) \in Nat
        /\ Cardinality(Since(ps, key, now - Ticks(Window) + 1)) \in Nat
        /\ Cardinality(Between(ps, key, now - Ticks(Window), now))
              <= Cardinality(Since(ps, key, now - Ticks(Window) + 1))
    <3>1. IsFiniteSet(ps) /\ Since(ps, key, now - Ticks(Window) + 1) \in SUBSET ps
          /\ Between(ps, key, now - Ticks(Window), now) \in SUBSET ps
      BY DEF Since, Between, Passes
    <3>. QED
      BY <2>4, <3>1, PassesCounted
  <2>6. Cardinality(Since(ps, key, now)) = 0
    BY <2>3, FS_EmptySet
  <2>7. Counts(ps, key, b)
    BY <2>1, <2>2, <2>5, <2>6, LimitsAreNumbers DEF Counts, Forgotten, Passes
  <2>. QED
    BY <2>1, <2>7, LimitsAreNumbers
<1>. QED
  BY <1>1, <1>2

\* One more request is let through.
LEMMA PassCounts ==
  ASSUME NEW now \in Nat, NEW ps, Passes(ps, now), NEW key, NEW b \in Bucket(now),
         now - b.started < Ticks(Window), Counts(ps, key, b), b.count < Limit(key[2]),
         Bounded(ps, key), NEW x, x[1] = key, x[2] = now,
         NEW c \in Bucket(now), c.started = b.started, c.count = b.count + 1
  PROVE  /\ Counts(ps \cup {x}, key, c)
         /\ Bounded(ps \cup {x}, key)
<1> DEFINE W == Ticks(Window)
           L == Limit(key[2])
           since == Since(ps, key, b.started)
           late == Between(ps, key, b.started - W, b.started)
<1>1. b.started \in Nat /\ b.started <= now /\ b.count \in Nat /\ W \in Nat \ {0} /\ L \in Nat
  BY LimitsAreNumbers DEF Bucket
<1>2. IsFiniteSet(ps) /\ \A p \in ps : p[2] \in Nat /\ p[2] <= now
  BY DEF Passes
<1>3. Since(ps \cup {x}, key, b.started) \subseteq since \cup {x}
  BY DEF Since
<1>4. Between(ps \cup {x}, key, b.started - W, b.started) = late
  BY <1>1 DEF Between
<1>5. /\ Cardinality(since) \in Nat /\ Cardinality(since) <= b.count
      /\ Cardinality(late) \in Nat /\ Cardinality(late) <= L
  <2>1. since \in SUBSET ps /\ late \in SUBSET ps
    BY DEF Since, Between
  <2>. QED
    BY <2>1, <1>2, PassesCounted DEF Counts
<1>6. /\ Cardinality(since \cup {x}) \in Nat /\ Cardinality(since \cup {x}) <= b.count + 1
      /\ IsFiniteSet(since \cup {x})
      /\ \A R \in SUBSET (since \cup {x}) : Cardinality(R) \in Nat /\ Cardinality(R) <= b.count + 1
  <2>1. since \in SUBSET ps
    BY DEF Since
  <2>2. IsFiniteSet(since \cup {x}) /\ Cardinality(since \cup {x}) <= Cardinality(since) + 1
    BY <1>2, <2>1, PassesCounted
  <2>3. \A R \in SUBSET (since \cup {x}) :
          Cardinality(R) \in Nat /\ Cardinality(R) <= Cardinality(since \cup {x})
    BY <2>2, PassesCounted
  <2>4. Cardinality(since \cup {x}) \in Nat
    BY <2>2, FS_CardinalityType
  <2> DEFINE m == Cardinality(since) 
             n == Cardinality(since \cup {x})
  <2>5. n <= b.count + 1
    <3>1. m \in Nat /\ n \in Nat /\ m <= b.count /\ n <= m + 1
      BY <1>5, <2>2, <2>4
    <3>. HIDE DEF m, n
    <3>. QED
      BY <1>1, <3>1
  <2>6. \A k \in Nat : k <= n => k <= b.count + 1
    <3>. HIDE DEF n
    <3>. QED
      BY <1>1, <2>4, <2>5 DEF n
  <2>. QED
    BY <2>2, <2>3, <2>4, <2>5, <2>6
<1>7. Counts(ps \cup {x}, key, c)
  <2>1. Cardinality(Since(ps \cup {x}, key, c.started)) <= c.count
    BY <1>3, <1>6
  <2>2. c.count <= L
    BY <1>1
  <2>3. \A p \in ps \cup {x} : p[1] = key => p[2] < c.started + W
    BY <1>1 DEF Counts
  <2>. QED
    BY <1>4, <1>5, <2>1, <2>2, <2>3 DEF Counts
<1>8. ASSUME NEW from \in Nat
      PROVE  Cardinality(During(ps \cup {x}, key, from)) <= 2 * L
  <2>1. CASE ~(from <= now /\ now < from + W)
    <3>1. During(ps \cup {x}, key, from) = During(ps, key, from)
      BY <2>1 DEF During
    <3>. QED
      BY <3>1 DEF Bounded
  <2>2. CASE from <= now /\ now < from + W
    <3>1. During(ps \cup {x}, key, from) \subseteq late \cup (since \cup {x})
      BY <1>1, <1>2, <2>2 DEF During, Since, Between
    <3>2. IsFiniteSet(late \cup (since \cup {x}))
          /\ Cardinality(late \cup (since \cup {x})) <= Cardinality(late) + Cardinality(since \cup {x})
      <4>1. IsFiniteSet(ps \cup {x}) /\ since \cup {x} \in SUBSET (ps \cup {x})
            /\ late \in SUBSET (ps \cup {x}) /\ late \cup (since \cup {x}) \in SUBSET (ps \cup {x})
        BY <1>2, FS_AddElement DEF Since, Between
      <4>. HIDE DEF since, late
      <4>. QED
        BY <4>1, PassesCounted
    <3>3. /\ Cardinality(late \cup (since \cup {x})) \in Nat
          /\ Cardinality(During(ps \cup {x}, key, from)) \in Nat
          /\ Cardinality(During(ps \cup {x}, key, from)) <= Cardinality(late \cup (since \cup {x}))
      <4>. HIDE DEF since, late
      <4>. QED
        BY <3>1, <3>2, FS_Subset, FS_CardinalityType
    <3>. HIDE DEF since, late
    <3>. QED
      BY <1>1, <1>5, <1>6, <3>2, <3>3
  <2>. QED
    BY <2>1, <2>2
<1>. QED
  BY <1>7, <1>8 DEF Bounded
\* What another key let through counts nothing here.
LEMMA OthersCount ==
  ASSUME NEW ps, NEW key, NEW x, x[1] # key
  PROVE  /\ \A b : Counts(ps, key, b) => Counts(ps \cup {x}, key, b)
         /\ \A now : Forgotten(ps, key, now) => Forgotten(ps \cup {x}, key, now)
         /\ Bounded(ps, key) => Bounded(ps \cup {x}, key)
<1>1. /\ \A from : Since(ps \cup {x}, key, from) = Since(ps, key, from)
      /\ \A from : During(ps \cup {x}, key, from) = During(ps, key, from)
      /\ \A from, to : Between(ps \cup {x}, key, from, to) = Between(ps, key, from, to)
      /\ \A p \in ps \cup {x} : p[1] = key => p \in ps
  BY DEF Since, During, Between
<1>. QED
  BY <1>1 DEF Counts, Forgotten, Bounded

LEMMA LimiterTicks ==
  ASSUME LInv, Tick
  PROVE  LInv'
<1>1. /\ clock' = clock + 1 /\ buckets' = buckets /\ passed' = passed /\ told' = told
      /\ clock \in Nat /\ Passes(passed, clock)
  BY DEF Tick, LInv
<1>2. Passes(passed, clock + 1)
  BY <1>1 DEF Passes
<1>3. \A k \in DOMAIN buckets : buckets[k] \in Bucket(clock + 1)
  BY <1>1 DEF LInv, Bucket
<1>4. ASSUME NEW k, Forgotten(passed, k, clock)
      PROVE  Forgotten(passed, k, clock + 1)
  <2> DEFINE W == Ticks(Window)
  <2>1. Since(passed, k, (clock + 1) - W + 1) \subseteq Since(passed, k, clock - W + 1)
    BY <1>1, LimitsAreNumbers DEF Since, Passes
  <2>2. Since(passed, k, (clock + 1) - W + 1) \in SUBSET passed /\ Since(passed, k, clock - W + 1) \in SUBSET passed
    BY DEF Since
  <2>3. /\ Cardinality(Since(passed, k, (clock + 1) - W + 1)) \in Nat
        /\ Cardinality(Since(passed, k, clock - W + 1)) \in Nat
        /\ Cardinality(Since(passed, k, (clock + 1) - W + 1)) <= Cardinality(Since(passed, k, clock - W + 1))
    BY <1>1, <2>1, <2>2, PassesCounted DEF Passes
  <2>4. \A p \in passed : p[1] = k => p[2] < clock + 1
    BY <1>1, <1>4 DEF Forgotten, Passes
  <2>5. Cardinality(Since(passed, k, clock - W + 1)) <= Limit(k[2]) /\ Limit(k[2]) \in Nat
    BY <1>4, LimitsAreNumbers DEF Forgotten
  <2>6. Cardinality(Since(passed, k, (clock + 1) - W + 1)) <= Limit(k[2])
    BY <2>3, <2>5
  <2>. QED
    BY <2>4, <2>6 DEF Forgotten
<1>5. \A k \in Keys : Accounted(buckets, passed, clock + 1, k)
  BY <1>4 DEF LInv, Accounted
<1>. QED
  BY <1>1, <1>2, <1>3, <1>5 DEF LInv

\* A refused client is told to wait until its window is over.
LEMMA RetryCovers ==
  ASSUME clock \in Nat, NEW s \in 0..clock
  PROVE  /\ clock + Ticks(RetryAfter(s)) \in Int
         /\ s + Ticks(Window) <= clock + Ticks(RetryAfter(s))
<1> DEFINE m == (Ticks(Window) - (clock - s) + 1) \div 2
<1>1. m \in Int /\ Ticks(Window) - (clock - s) <= 2 * m
  BY LimitsAreNumbers
<1>2. Max({1, m}) \in Int /\ m <= Max({1, m})
  <2>. HIDE DEF m
  <2>1. \E a \in {1, m} : \A c \in {1, m} : a >= c
    BY <1>1
  <2>2. Max({1, m}) \in {1, m} /\ \A c \in {1, m} : Max({1, m}) >= c
    BY <2>1 DEF Max
  <2>. QED
    BY <1>1, <2>2
<1>3. RetryAfter(s) = Max({1, m})
  BY DEF RetryAfter
<1> DEFINE n == Max({1, m})
<1>4. n \in Int /\ m <= n
  BY <1>2
<1>. HIDE DEF m, n
<1>5. clock + 2 * n \in Int /\ s + Ticks(Window) <= clock + 2 * n
  BY <1>1, <1>4, LimitsAreNumbers
<1>. QED
  BY <1>3, <1>5 DEF Ticks, n

LEMMA LimiterHandles ==
  ASSUME LInv, NEW client \in Clients, NEW path \in Paths, Handle(client, path)
  PROVE  LInv'
<1> DEFINE key == <<client, BucketOf(path)>>
           found == IF key \in DOMAIN buckets THEN buckets[key] ELSE [started |-> clock, count |-> 0]
           current == IF Expired(found.started) THEN [started |-> clock, count |-> 0] ELSE found
           limited == current.count >= Limit(key[2])
           after == [current EXCEPT !.count = @ + (IF limited THEN 0 ELSE 1)]
           stored == [k \in DOMAIN buckets \cup {key} |-> IF k # key THEN buckets[k] ELSE after]
           x == <<key, clock, Cardinality({p \in passed : p[1] = key /\ p[2] = clock}) + 1>>
<1>1. /\ clock \in Nat /\ Passes(passed, clock) /\ clock' = clock
      /\ \A k \in DOMAIN buckets : buckets[k] \in Bucket(clock)
      /\ \A k \in Keys : Accounted(buckets, passed, clock, k)
  BY DEF LInv, Handle
<1>2. key \in Keys /\ x[1] = key /\ x[2] = clock
  BY DEF Keys
<1>3. current = Met(buckets, clock, key)
  BY <1>1, LimitsAreNumbers DEF Met, Expired, Bucket
<1>4. buckets' = stored \/ buckets' = Pruned(stored, key)
  BY DEF Handle
<1>5. limited => passed' = passed
  BY DEF Handle
<1>6. ~limited => passed' = passed \cup {x}
  BY DEF Handle
<1>7. limited => told' = [k \in DOMAIN told \cup {key} |->
                           IF k # key THEN told[k]
                           ELSE [started |-> current.started,
                                 until |-> clock + Ticks(RetryAfter(current.started))]]
  BY DEF Handle
<1>8. ~limited => told' = told
  BY DEF Handle
<1>9. /\ DOMAIN stored = DOMAIN buckets \cup {key} /\ stored[key] = after
      /\ \A k \in DOMAIN buckets \ {key} : stored[k] = buckets[k]
  OBVIOUS
<1>. HIDE DEF key, x, stored, found
<1>10. current \in Bucket(clock) /\ clock - current.started < Ticks(Window) /\ Counts(passed, key, current)
  BY <1>1, <1>2, <1>3, MetCounts
<1>11. /\ after \in Bucket(clock) /\ after.started = current.started
      /\ (limited => after = current) /\ (~limited => after.count = current.count + 1)
  BY <1>10 DEF Bucket
<1>12. ~limited => current.count < Limit(key[2])
  BY <1>10, LimitsAreNumbers DEF Bucket
<1>. HIDE DEF current, after, limited
<1>13. Passes(passed', clock)
  <2>1. IsFiniteSet(passed \cup {x})
    BY <1>1, FS_AddElement DEF Passes
  <2>2. x[2] \in Nat /\ x[2] <= clock
    BY <1>1, <1>2
  <2>3. Passes(passed \cup {x}, clock)
    BY <1>1, <2>1, <2>2 DEF Passes
  <2>. QED
    BY <1>1, <1>5, <1>6, <2>3
<1>14. Counts(passed', key, after) /\ Bounded(passed', key)
  BY <1>1, <1>2, <1>5, <1>6, <1>10, <1>11, <1>12, PassCounts DEF Accounted
<1>15. \A k \in DOMAIN stored : stored[k] \in Bucket(clock)
  BY <1>1, <1>9, <1>11
<1>16. ASSUME NEW k \in Keys
       PROVE  /\ k \in DOMAIN stored => Counts(passed', k, stored[k])
              /\ k \notin DOMAIN stored => Forgotten(passed', k, clock)
              /\ Bounded(passed', k)
  <2>1. CASE k = key
    BY <1>9, <1>14, <2>1
  <2>2. CASE k # key
    BY <1>1, <1>2, <1>5, <1>6, <1>9, <2>2, OthersCount DEF Accounted
  <2>. QED
    BY <2>1, <2>2
<1>17. ASSUME NEW k \in Keys
       PROVE  Accounted(buckets', passed', clock, k)
  <2>1. CASE buckets' = stored
    BY <1>16, <2>1 DEF Accounted
  <2>2. CASE buckets' = Pruned(stored, key)
    <3>1. /\ k \in DOMAIN buckets' => k \in DOMAIN stored /\ buckets'[k] = stored[k]
          /\ k \in DOMAIN stored /\ k \notin DOMAIN buckets' => clock - stored[k].started >= Ticks(Window)
      BY <2>2 DEF Pruned, Expired
    <3>2. k \in DOMAIN stored /\ k \notin DOMAIN buckets' => Forgotten(passed', k, clock)
      BY <1>1, <1>13, <1>15, <1>16, <3>1, ExpiredForgotten
    <3>. QED
      BY <1>16, <3>1, <3>2 DEF Accounted
  <2>. QED
    BY <1>4, <2>1, <2>2
<1>18. \A k \in DOMAIN buckets' : buckets'[k] \in Bucket(clock)
  BY <1>4, <1>15 DEF Pruned
<1>19. \A k \in DOMAIN told' : /\ told'[k].started \in Int /\ told'[k].until \in Int
                               /\ told'[k].started + Ticks(Window) <= told'[k].until
  <2>1. CASE limited
    <3>1. current.started \in 0..clock
      BY <1>10 DEF Bucket
    <3>2. /\ clock + Ticks(RetryAfter(current.started)) \in Int
          /\ current.started + Ticks(Window) <= clock + Ticks(RetryAfter(current.started))
      BY <1>1, <3>1, RetryCovers
    <3>. QED
      BY <1>7, <2>1, <3>1, <3>2 DEF LInv
  <2>2. CASE ~limited
    BY <1>8, <2>2 DEF LInv
  <2>. QED
    BY <2>1, <2>2
<1>. QED
  BY <1>1, <1>13, <1>17, <1>18, <1>19 DEF LInv

\* The limiter of the HTTP middleware: no stretch of one window's length lets more
\* than twice the limit of a key through, and a client that waits out its Retry-After
\* finds that window over, whatever was pruned and whoever else asked.
THEOREM LimitsAreHonoured == LimiterSpec => []LimitsHonoured
<1>1. LimiterInit => LInv
  <2> SUFFICES ASSUME LimiterInit PROVE LInv
    OBVIOUS
  <2>1. clock = 0 /\ passed = {} /\ DOMAIN buckets = {} /\ DOMAIN told = {}
    BY DEF LimiterInit
  <2>2. Passes(passed, clock)
    BY <2>1, FS_EmptySet DEF Passes
  <2>3. \A k : /\ \A from : Since(passed, k, from) = {}
               /\ \A from : During(passed, k, from) = {}
    BY <2>1 DEF Since, During
  <2>4. Cardinality({}) = 0 /\ \A b : 0 <= Limit(b) /\ 0 <= 2 * Limit(b)
    BY FS_EmptySet, LimitsAreNumbers
  <2>5. \A k \in Keys : Forgotten(passed, k, clock) /\ Bounded(passed, k)
    BY <2>1, <2>3, <2>4 DEF Forgotten, Bounded
  <2>6. \A k \in Keys : Accounted(buckets, passed, clock, k)
    BY <2>1, <2>5 DEF Accounted
  <2>. QED
    BY <2>1, <2>2, <2>6 DEF LInv
<1>2. LInv /\ [LimiterNext]_limiterVars => LInv'
  <2> SUFFICES ASSUME LInv, [LimiterNext]_limiterVars PROVE LInv'
    OBVIOUS
  <2>1. CASE UNCHANGED limiterVars
    BY <2>1 DEF limiterVars, LInv
  <2>. QED
    BY <2>1, LimiterTicks, LimiterHandles DEF LimiterNext
<1>3. LInv => LimitsHonoured
  <2> SUFFICES ASSUME LInv, NEW key \in Keys
               PROVE  /\ \A from \in 0..clock : Cardinality(PassedIn(key, from)) <= 2 * Limit(key[2])
                      /\ key \in DOMAIN told /\ clock >= told[key].until =>
                           \/ key \notin DOMAIN buckets
                           \/ buckets[key].started # told[key].started
                           \/ Expired(buckets[key].started)
    BY DEF LimitsHonoured
  <2>1. \A from \in 0..clock : Cardinality(PassedIn(key, from)) <= 2 * Limit(key[2])
    <3>1. \A from : PassedIn(key, from) = During(passed, key, from)
      BY DEF PassedIn, During
    <3>. QED
      BY <3>1 DEF LInv, Accounted, Bounded
  <2>2. ASSUME key \in DOMAIN told, clock >= told[key].until, key \in DOMAIN buckets,
               buckets[key].started = told[key].started
        PROVE  Expired(buckets[key].started)
    <3>1. /\ clock \in Nat /\ told[key].started \in Int /\ told[key].until \in Int
          /\ told[key].started + Ticks(Window) <= told[key].until
      BY <2>2 DEF LInv
    <3>. QED
      BY <2>2, <3>1, LimitsAreNumbers DEF Expired
  <2>. QED
    BY <2>1, <2>2
<1>. QED
  BY <1>1, <1>2, <1>3, PTL DEF LimiterSpec
=============================================================================
