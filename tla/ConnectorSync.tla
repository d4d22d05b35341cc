---------------------------- MODULE ConnectorSync ----------------------------
(***************************************************************************)
(* Incremental synchronisation of one connector: sync_records and          *)
(* run_source_fetch of connectors.py, with the keyset adapters of          *)
(* source_adapters.py (Odoo page by page; PostgreSQL is the case of one    *)
(* page), as the endpoints /fetch and /sync call them.  A fetch loads the  *)
(* connector row and then talks to the source; a staged batch is read by   *)
(* an extract job outside the system and posted afterwards, once or again. *)
(*                                                                         *)
(* The payload of a record is abstracted to the watermark of the source    *)
(* row it was read from; a checkpoint is a pair <<watermark, key>>.  The   *)
(* columns status and last_checked_at, which no step reads, the opaque     *)
(* cursors of the REST adapter and the credentials are left out.  A posted *)
(* batch has checkpoint_mode "keyset", like a fetched one.                 *)
(***************************************************************************)
EXTENDS Integers, FiniteSets

CONSTANTS
  Threads,    \* request threads, each serving one fetch or one extract job
  Rows,       \* primary keys of the source table
  Times,      \* bound: values of its incremental field
  Shapes,     \* schemas the source table may have
  Keys,       \* values of the Idempotency-Key header
  PageSize,   \* SourceLimits.page_size
  MaxPages,   \* SourceLimits.max_pages
  None        \* SQL NULL

ASSUME SyncAssumption ==
  /\ Rows \subseteq Nat \ {0} /\ IsFiniteSet(Rows)
  /\ Times \subseteq 1..99
  /\ None \notin Shapes \cup Keys
  /\ PageSize \in Nat \ {0} /\ MaxPages \in Nat \ {0}

VARIABLES
  source,     \* the source table: watermark of each row, 0 if absent
  shape,      \* its schema
  connector,  \* the connectors row
  records,    \* the connector_records table
  runs,       \* the connector_runs table: status, by idempotency key
  request,    \* what each thread, or the extract job it serves, holds
  crossed     \* history: a batch was committed that another commit overtook

vars == <<source, shape, connector, records, runs, request, crossed>>

-----------------------------------------------------------------------------
Origin    == <<0, 0>>                            \* the empty checkpoint
Positions == (Times \cup {0}) \X (Rows \cup {0})

Before(p, q) == p[1] < q[1] \/ (p[1] = q[1] /\ p[2] < q[2])

Connector == [schema : Shapes \cup {None}, checkpoint : Positions]
Unsynced  == [schema |-> None, checkpoint |-> Origin]

\* "schema" is a history field: the schema of the batch that wrote the record.
Record   == [version : Times \cup {0}, schema : Shapes \cup {None}]
NoRecord == [version |-> 0, schema |-> None]

NoWrites == [r \in Rows |-> 0]

\* "stale" is a history field: another batch was committed since this
\* request loaded the connector.
Request == [pc       : {"idle", "reading", "staged", "loaded", "publishing", "drifted"},
            via      : {"fetch", "sync"},
            key      : Keys \cup {None},
            loaded   : Connector,             \* copy of the connectors row
            shape    : Shapes \cup {None},
            from     : Positions,             \* the checkpoint reading began at
            position : Positions,             \* the checkpoint of the batch
            pages    : 0..MaxPages,
            batch    : SUBSET (Times \X Rows),
            inserts  : SUBSET Rows,
            writes   : [Rows -> Times \cup {0}],
            stale    : BOOLEAN]

NoRequest == [pc |-> "idle", via |-> "fetch", key |-> None, loaded |-> Unsynced,
              shape |-> None, from |-> Origin, position |-> Origin, pages |-> 0,
              batch |-> {}, inserts |-> {}, writes |-> NoWrites, stale |-> FALSE]

TypeOK ==
  /\ source \in [Rows -> Times \cup {0}]
  /\ shape \in Shapes
  /\ connector \in Connector
  /\ records \in [Rows -> Record]
  /\ runs \in [Keys -> {"none", "completed", "failed"}]
  /\ request \in [Threads -> Request]
  /\ crossed \in BOOLEAN

Init ==
  /\ source = [r \in Rows |-> 0]
  /\ shape \in Shapes
  /\ connector = Unsynced
  /\ records = [r \in Rows |-> NoRecord]
  /\ runs = [k \in Keys |-> "none"]
  /\ request = [t \in Threads |-> NoRequest]
  /\ crossed = FALSE

-----------------------------------------------------------------------------
(* The source: outside the system, read-only to it.                        *)

\* A commit of the source creates or updates some rows; incremental values
\* grow in commit order.
SourceCommit(rs, w) ==
  /\ \A r \in Rows : source[r] < w
  /\ source' = [r \in Rows |-> IF r \in rs THEN w ELSE source[r]]
  /\ UNCHANGED <<shape, connector, records, runs, request, crossed>>

SourceMigrates(s) ==
  /\ shape # s /\ shape' = s
  /\ UNCHANGED <<source, connector, records, runs, request, crossed>>

-----------------------------------------------------------------------------
(* Helpers.                                                                *)

\* Source rows a keyset query finds after position p, and its first page.
After(p) == {q \in {<<source[r], r>> : r \in Rows} : q[1] # 0 /\ Before(p, q)}

Page(p) == {q \in After(p) : Cardinality({x \in After(p) : Before(x, q)}) < PageSize}

\* Mutant of LastOf: the checkpoint takes the page's last watermark, and the
\* largest key there could be.
WatermarkOf(page, p) ==
  IF page = {} THEN p
  ELSE LET w == CHOOSE w \in Times : /\ \E x \in page : x[1] = w
                                     /\ \A x \in page : x[1] <= w
       IN <<w, CHOOSE r \in Rows : \A u \in Rows : u <= r>>

LastOf(page, p) ==
  IF page = {} THEN p ELSE CHOOSE q \in page : \A x \in page : x = q \/ Before(x, q)

\* _is_newer compares str(incoming) with the stored text.  For numbers below
\* 100: the first digit, then the second, none before any.  (ISO times of one
\* format compare as numbers of one length do.)
Digits(n) == IF n < 10 THEN <<n, -1>> ELSE <<n \div 10, n % 10>>
Newer(v, w) == Before(Digits(w), Digits(v))

\* The outcome of upserting the versions vs of a row over the stored one.
Latest(vs) == CHOOSE v \in vs : \A w \in vs : w = v \/ Newer(v, w)

VersionsOf(batch, r) == {v \in Times : <<v, r>> \in batch}

\* Mutant of Regresses: the checkpoint is not compared.
NeverRegresses(p, q) == FALSE

\* _checkpoint_regresses.
Regresses(p, q) == p # Origin /\ q # Origin /\ Before(p, q)

Step(t, r) == request' = [request EXCEPT ![t] = r]

\* What is left of a request when it ends: the extract job keeps its batch,
\* and may post it again.
Ended(r) ==
  IF r.via = "sync"
  THEN [r EXCEPT !.pc = "staged", !.key = None, !.loaded = Unsynced,
          !.inserts = {}, !.writes = NoWrites, !.stale = FALSE]
  ELSE NoRequest

-----------------------------------------------------------------------------
(* Reading the source.                                                     *)

FetchBegin(t, k) ==
  /\ request[t].pc = "idle"
  /\ Step(t, [NoRequest EXCEPT !.pc = "reading", !.key = k, !.loaded = connector,
                !.from = connector.checkpoint, !.position = connector.checkpoint])
  /\ UNCHANGED <<source, shape, connector, records, runs, crossed>>

\* An extract job asks for the checkpoint (get_connector) and reads likewise.
ExtractBegin(t) ==
  /\ request[t].pc = "idle"
  /\ Step(t, [NoRequest EXCEPT !.pc = "reading", !.via = "sync",
                !.from = connector.checkpoint, !.position = connector.checkpoint])
  /\ UNCHANGED <<source, shape, connector, records, runs, crossed>>

ReadPage(t) ==
  LET r    == request[t]
      page == Page(r.position)
      done == Cardinality(page) < PageSize \/ r.pages + 1 = MaxPages
  IN
  /\ r.pc = "reading"
  /\ Step(t, [r EXCEPT
       !.pc = IF ~done THEN "reading" ELSE IF r.via = "sync" THEN "staged" ELSE "loaded",
       !.shape = IF r.pages = 0 THEN shape ELSE @,
       !.position = LastOf(page, @), !.pages = @ + 1, !.batch = @ \cup page])
  /\ UNCHANGED <<source, shape, connector, records, runs, crossed>>

-----------------------------------------------------------------------------
(* sync_records.                                                           *)

\* The extract job posts its batch: sync_connector_endpoint loads the row.
Post(t, k) ==
  /\ request[t].pc = "staged"
  /\ Step(t, [request[t] EXCEPT !.pc = "loaded", !.key = k, !.loaded = connector])
  /\ UNCHANGED <<source, shape, connector, records, runs, crossed>>

\* The extract job gives its batch up.
Discard(t) ==
  /\ request[t].pc \in {"reading", "staged"} /\ request[t].via = "sync"
  /\ Step(t, NoRequest)
  /\ UNCHANGED <<source, shape, connector, records, runs, crossed>>

\* The key has a run already: its stored outcome, or 409.
Deduplicate(t) ==
  /\ request[t].pc = "loaded" /\ runs[request[t].key] # "none"
  /\ Step(t, Ended(request[t]))
  /\ UNCHANGED <<source, shape, connector, records, runs, crossed>>

\* Mutant of Drifts: the fingerprints are not compared.
NeverDrifts(r) == FALSE

Drifts(r) == r.loaded.schema # None /\ r.loaded.schema # r.shape

Drift(t) ==
  LET r == request[t] IN
  /\ r.pc = "loaded" /\ runs[r.key] = "none" /\ Drifts(r)
  /\ Step(t, [r EXCEPT !.pc = "drifted"])
  /\ UNCHANGED <<source, shape, connector, records, runs, crossed>>

\* 409 checkpoint_regression: nothing is written.
Regress(t) ==
  LET r == request[t] IN
  /\ r.pc = "loaded" /\ runs[r.key] = "none" /\ ~Drifts(r)
  /\ Regresses(r.position, r.loaded.checkpoint)
  /\ Step(t, Ended(r))
  /\ UNCHANGED <<source, shape, connector, records, runs, crossed>>

\* The version _upsert_record writes for a row of the batch; 0 if the stored one stays.
Outcome(batch, row) ==
  LET vs == VersionsOf(batch, row)
      v  == records[row].version
  IN IF vs = {} THEN 0
     ELSE IF v = 0 THEN Latest(vs)
     ELSE IF Latest(vs \cup {v}) = v THEN 0 ELSE Latest(vs)

\* Each record of the batch is looked up and inserted, updated or left.
Upsert(t) ==
  LET r == request[t] IN
  /\ r.pc = "loaded" /\ runs[r.key] = "none" /\ ~Drifts(r)
  /\ ~Regresses(r.position, r.loaded.checkpoint)
  /\ Step(t, [r EXCEPT !.pc = "publishing", !.writes = [row \in Rows |-> Outcome(r.batch, row)],
       !.inserts = {row \in Rows : VersionsOf(r.batch, row) # {} /\ records[row].version = 0}])
  /\ UNCHANGED <<source, shape, connector, records, runs, crossed>>

\* The unique constraints of connector_runs and connector_records.  A row that
\* two pages delivered is added twice, since the session does not autoflush.
Unique(r) ==
  /\ runs[r.key] = "none"
  /\ \A row \in r.inserts :
       records[row].version = 0 /\ Cardinality(VersionsOf(r.batch, row)) = 1

\* A handler of the API holds a copy of the connectors row.
Served(r) ==
  \/ r.pc \in {"loaded", "publishing", "drifted"}
  \/ r.pc = "reading" /\ r.via = "fetch"

\* The commit of t overtakes every other handler.
Overtake(t, r) ==
  request' = [u \in Threads |->
     IF u = t THEN r ELSE [request[u] EXCEPT !.stale = @ \/ Served(request[u])]]

\* The commit: the records, the columns of the connector that differ from the
\* copy, and the run.
Publish(t) ==
  LET r == request[t] IN
  /\ r.pc = "publishing" /\ Unique(r)
  /\ records' = [row \in Rows |-> IF r.writes[row] = 0 THEN records[row]
                                  ELSE [version |-> r.writes[row], schema |-> r.shape]]
  /\ connector' =
       [schema |-> IF r.loaded.schema = r.shape THEN connector.schema ELSE r.shape,
        checkpoint |-> IF r.loaded.checkpoint = r.position THEN connector.checkpoint
                       ELSE r.position]
  /\ runs' = [runs EXCEPT ![r.key] = "completed"]
  /\ crossed' = (crossed \/ r.stale)
  /\ Overtake(t, Ended(r))
  /\ UNCHANGED <<source, shape>>

\* The drift is committed as a failed run, and answered with 409.
PublishDrift(t) ==
  LET r == request[t] IN
  /\ r.pc = "drifted" /\ runs[r.key] = "none"
  /\ runs' = [runs EXCEPT ![r.key] = "failed"]
  /\ Step(t, Ended(r))
  /\ UNCHANGED <<source, shape, connector, records, crossed>>

\* IntegrityError, which nothing catches: 500, and nothing is written.
Conflict(t) ==
  LET r == request[t] IN
  /\ \/ r.pc = "publishing" /\ ~Unique(r)
     \/ r.pc = "drifted" /\ runs[r.key] # "none"
  /\ Step(t, Ended(r))
  /\ UNCHANGED <<source, shape, connector, records, runs, crossed>>

\* The source or the database fails, or a time limit is reached.
Fail(t) ==
  /\ Served(request[t]) /\ Step(t, Ended(request[t]))
  /\ UNCHANGED <<source, shape, connector, records, runs, crossed>>

\* The API process dies; extract jobs go on.
Crash ==
  /\ \E t \in Threads : Served(request[t])
  /\ request' = [t \in Threads |-> IF Served(request[t]) THEN Ended(request[t])
                                   ELSE request[t]]
  /\ UNCHANGED <<source, shape, connector, records, runs, crossed>>

-----------------------------------------------------------------------------
Next ==
  \/ \E rs \in SUBSET Rows \ {{}}, w \in Times : SourceCommit(rs, w)
  \/ \E s \in Shapes : SourceMigrates(s)
  \/ \E t \in Threads :
       \/ \E k \in Keys : FetchBegin(t, k) \/ Post(t, k)
       \/ ExtractBegin(t) \/ ReadPage(t) \/ Discard(t)
       \/ Deduplicate(t) \/ Drift(t) \/ Regress(t) \/ Upsert(t)
       \/ Publish(t) \/ PublishDrift(t) \/ Conflict(t) \/ Fail(t)
  \/ Crash

Spec == Init /\ [][Next]_vars

-----------------------------------------------------------------------------
(* Properties.                                                             *)

\* The checkpoint covers p: every source row up to it is stored as it is now.
Covers(p) ==
  \A r \in Rows : source[r] # 0 /\ ~Before(p, <<source[r], r>>)
                    => records[r].version = source[r]

\* Reliable watermarks: every source row at or before the committed checkpoint
\* is stored in its current version, whatever pages, retries, posts of old
\* batches, failures and source changes came in between.
RowsCovered == Covers(connector.checkpoint)

\* The same, as long as no batch was committed that another one overtook.
CheckpointCovers == crossed \/ RowsCovered

\* A sync checkpoint does not move backwards (a batch with the empty checkpoint
\* starts over), unless an overtaken batch is committed.
CheckpointAdvances ==
  [][\/ crossed' \/ connector'.checkpoint = Origin
     \/ ~Before(connector'.checkpoint, connector.checkpoint)]_vars

\* Drift never mixes schemas: all stored records were published under the
\* connector's schema, unless an overtaken batch was committed.
OneSchemaStored ==
  crossed \/ \A r \in Rows : records[r].version # 0 => records[r].schema = connector.schema
=============================================================================
