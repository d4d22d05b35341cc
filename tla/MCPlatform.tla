-------------------------------- MODULE MCPlatform --------------------------------
(***************************************************************************)
(* Small instances of the parts of the platform around the stored data: a  *)
(* behaviour is one of them, and the variables of the others keep their    *)
(* initial values.                                                         *)
(***************************************************************************)
EXTENDS Sessions, RateLimiter, Credentials, Assistant, BackupRestore

VARIABLE component

vars == <<component, sessionVars, limiterVars, credentialVars, assistantVars, backupVars>>

MCTabOf == [c \in Calls |-> IF c \in {"a1", "a2"} THEN "a" ELSE "b"]
MCUploadedBy == [v \in Uploads |-> "w"]

\* The initial state of credentials that another component's behaviours keep.
CredentialsIdle == CredentialsInit /\ configured.active = CHOOSE k \in KeyIds : TRUE

Init ==
  /\ SessionsInit /\ LimiterInit /\ AssistantInit /\ BackupInit
  /\ component \in {"sessions", "limiter", "credentials", "assistant", "backup"}
  /\ IF component = "credentials" THEN CredentialsInit ELSE CredentialsIdle

Next ==
  \/ /\ component = "sessions" /\ SessionsNext
     /\ UNCHANGED <<component, limiterVars, credentialVars, assistantVars, backupVars>>
  \/ /\ component = "limiter" /\ LimiterNext
     /\ UNCHANGED <<component, sessionVars, credentialVars, assistantVars, backupVars>>
  \/ /\ component = "credentials" /\ CredentialsNext
     /\ UNCHANGED <<component, sessionVars, limiterVars, assistantVars, backupVars>>
  \/ /\ component = "assistant" /\ AssistantNext
     /\ UNCHANGED <<component, sessionVars, limiterVars, credentialVars, backupVars>>
  \/ /\ component = "backup" /\ BackupNext
     /\ UNCHANGED <<component, sessionVars, limiterVars, credentialVars, assistantVars>>

\* What a page asked for is served, refused or lost: the network and the server
\* do not keep a request for ever.
Fairness ==
  \A c \in Calls : WF_vars(component = "sessions" /\ Served(c) /\ UNCHANGED
    <<component, limiterVars, credentialVars, assistantVars, backupVars>>)

Spec == Init /\ [][Next]_vars /\ Fairness
=============================================================================
