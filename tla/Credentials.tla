------------------------------- MODULE Credentials -------------------------------
(***************************************************************************)
(* The stored credentials of one connector: sealed under the deployment's  *)
(* active key, read with any configured key and sealed anew by the fetch   *)
(* that finds them under a retired one (credentials.py, connectors.py and  *)
(* the routes of main.py), while administrators replace and delete them    *)
(* and operators restart the service with other keys.                      *)
(*                                                                         *)
(* A request reads its rows, and writes when it commits; the ORM writes    *)
(* the columns whose value differs from the one it read.                   *)
(***************************************************************************)
EXTENDS Integers

CONSTANTS
  Requests,     \* the requests under way at a time
  KeyIds,       \* encryption keys, named by their id
  Values,       \* credential sets
  MaxRows,      \* bound on the secret rows ever inserted
  MaxRestarts   \* bound on restarts with a new configuration

VARIABLES
  configured,  \* [active, retired]: BASEERA_SECRET_KEY and BASEERA_SECRET_KEYS_RETIRED
  restarts,
  secret,      \* the connector_secrets row, or NoRow
  issued,      \* ids given to secret rows
  connector,   \* [ref, status] of the connectors row
  work,        \* what each request holds between its reads and its commit
  overlapped,  \* did a request ever write over what changed since it read?
  rotated      \* did a fetch commit since the last restart?

credentialVars ==
  <<configured, restarts, secret, issued, connector, work, overlapped, rotated>>

NoRow == [id |-> 0, sealed |-> [key |-> "none", value |-> "none"], key_id |-> "none", print |-> "none"]
Idle == [kind |-> "idle"]
Usable == {configured.active} \cup configured.retired

CredentialsTypeOK ==
  /\ configured \in [active : KeyIds, retired : SUBSET KeyIds]
  /\ secret \in {NoRow} \cup
       [id : 1..MaxRows, sealed : [key : KeyIds, value : Values], key_id : KeyIds, print : Values]
  /\ connector \in [ref : 0..MaxRows,
                    status : {"configured_unverified", "needs_credentials", "checked"}]
  /\ overlapped \in BOOLEAN /\ rotated \in BOOLEAN

-----------------------------------------------------------------------------
(* SecretBox.                                                              *)
Encrypt(value) == [key |-> configured.active, value |-> value]
KeyMissing(sealed) == sealed.key \notin Usable
UnreadableOnly(sealed) == KeyMissing(sealed)
NeedsRotation(sealed) == sealed.key # configured.active

CredentialsInit ==
  /\ configured \in [active : KeyIds, retired : {{}}]
  /\ restarts = 0 /\ secret = NoRow /\ issued = 0
  /\ connector = [ref |-> 0, status |-> "configured_unverified"]
  /\ work = [r \in Requests |-> Idle]
  /\ overlapped = FALSE /\ rotated = FALSE

\* The service restarts with other keys; requests under way are gone.
Restart(active, retired) ==
  /\ restarts < MaxRestarts
  /\ configured' = [active |-> active, retired |-> retired \ {active}]
  /\ configured' # configured
  /\ restarts' = restarts + 1
  /\ work' = [r \in Requests |-> Idle]
  /\ rotated' = FALSE
  /\ UNCHANGED <<secret, issued, connector, overlapped>>

-----------------------------------------------------------------------------
(* A request's reads: its copy of the two rows, and what it makes of them. *)
(* A ciphertext is never twice the same, so one that was made is written.  *)
Open(r, kind, row, link, resealed) ==
  /\ work[r] = Idle
  /\ work' = [work EXCEPT ![r] =
       [kind |-> kind, resealed |-> resealed,
        read |-> [secret |-> secret, connector |-> connector],
        wanted |-> [secret |-> row, connector |-> link]]]
  /\ UNCHANGED <<configured, restarts, secret, connector, overlapped, rotated>>

(* PUT credentials: store_credentials upserts the row.                     *)
PutCredentials(r, value) ==
  LET id == IF secret = NoRow THEN issued + 1 ELSE secret.id
      row == [id |-> id, sealed |-> Encrypt(value), key_id |-> configured.active, print |-> value]
      link == [ref |-> id,
               status |-> IF connector.status = "needs_credentials" THEN "configured_unverified"
                          ELSE connector.status]
  IN /\ id <= MaxRows
     /\ issued' = IF secret = NoRow THEN id ELSE issued
     /\ Open(r, "put", row, link, TRUE)

(* DELETE credentials: delete_credentials, when there is a row.            *)
DeleteCredentials(r) ==
  /\ secret # NoRow
  /\ Open(r, "delete", NoRow, [ref |-> 0, status |-> "needs_credentials"], FALSE)
  /\ UNCHANGED issued

(* POST fetch: load_credentials refuses without a row or without its key,  *)
(* and assigns a new ciphertext to its copy when a retired key sealed it.  *)
(* The source is read before anything is written; the sync that follows    *)
(* leaves a status of its own ("checked": ready or schema_drift), or none  *)
(* when it repeats an earlier answer.                                      *)
LoadCredentials(r) ==
  /\ secret # NoRow /\ ~KeyMissing(secret.sealed)
  /\ LET stale == NeedsRotation(secret.sealed)
         row == IF stale
                THEN [secret EXCEPT !.sealed = Encrypt(@.value), !.key_id = configured.active]
                ELSE secret
     IN \E status \in {"checked", connector.status} :
          Open(r, "fetch", row, [connector EXCEPT !.status = status], stale)
  /\ UNCHANGED issued

\* A source that cannot be read, or a lost race of sync_records, ends in a rollback.
GiveUp(r) ==
  /\ work[r].kind = "fetch"
  /\ work' = [work EXCEPT ![r] = Idle]
  /\ UNCHANGED <<configured, restarts, secret, issued, connector, overlapped, rotated>>

-----------------------------------------------------------------------------
\* The columns of `wanted` that differ from what was read, over the row as it is now.
Merged(now, read, wanted) ==
  [c \in DOMAIN now |-> IF wanted[c] # read[c] THEN wanted[c] ELSE now[c]]

(* What the database makes of the write to connector_secrets: an insert    *)
(* needs that the connector has no row, an update that the row is there;   *)
(* a delete of a row that is gone only warns.                              *)
Refused(w) ==
  \/ w.read.secret = NoRow /\ w.kind = "put" /\ secret # NoRow
  \/ w.read.secret # NoRow /\ w.resealed /\ secret.id # w.read.secret.id

SecretWritten(w) ==
  IF w.kind = "delete" THEN IF secret.id = w.read.secret.id THEN NoRow ELSE secret
  ELSE IF w.read.secret = NoRow THEN w.wanted.secret
  ELSE IF w.resealed
       THEN [Merged(secret, w.read.secret, w.wanted.secret) EXCEPT !.sealed = w.wanted.secret.sealed]
       ELSE secret

Commit(r) ==
  /\ work[r] # Idle
  /\ LET w == work[r]
     IN IF Refused(w)
        THEN UNCHANGED <<secret, connector, overlapped, rotated>>
        ELSE /\ secret' = SecretWritten(w)
             /\ connector' = Merged(connector, w.read.connector, w.wanted.connector)
             /\ overlapped' = (overlapped \/ <<secret, connector>> # <<w.read.secret, w.read.connector>>)
             /\ rotated' = (rotated \/ w.kind = "fetch")
  /\ work' = [work EXCEPT ![r] = Idle]
  /\ UNCHANGED <<configured, restarts, issued>>

CredentialsNext ==
  \/ \E active \in KeyIds, retired \in SUBSET KeyIds : Restart(active, retired)
  \/ \E r \in Requests :
       \/ \E value \in Values : PutCredentials(r, value)
       \/ DeleteCredentials(r) \/ LoadCredentials(r) \/ GiveUp(r) \/ Commit(r)

-----------------------------------------------------------------------------
(* What an operator goes by.  Once a fetch has committed under the present *)
(* configuration nothing stored needs a retired key, however requests      *)
(* overlap.  And unless requests overlapped (then a column one of them did *)
(* not find changed keeps the other's value), the fingerprint and key id   *)
(* shown are those of the credentials that are used, and the connector     *)
(* refers to its row and asks for credentials only without one.            *)
CredentialsConfirmed ==
  /\ rotated /\ secret # NoRow => secret.sealed.key = configured.active
  /\ overlapped \/ /\ secret.print = secret.sealed.value
                   /\ secret.key_id = secret.sealed.key
                   /\ connector.ref = secret.id
                   /\ secret # NoRow => connector.status # "needs_credentials"
=============================================================================
