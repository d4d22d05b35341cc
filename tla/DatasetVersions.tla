-------------------------- MODULE DatasetVersions --------------------------
(***************************************************************************)
(* Datasets and their versions, as the request threads of main.py create,  *)
(* clean, roll back and query them.  The rows live in the database, the    *)
(* data in an artifact store of files that is not part of any transaction: *)
(* a handler reads rows, writes its artifacts, and commits at the end.     *)
(* Between two of these steps other requests commit and the process dies.  *)
(*                                                                         *)
(* The content of an artifact is abstracted to the version whose data it   *)
(* is; what the parser, the recipe and the metric compute from it is left  *)
(* out.  Requests that end in an error before the commit write no rows,    *)
(* whatever the error (Fail).                                              *)
(***************************************************************************)
EXTENDS Naturals

CONSTANTS
  Threads,     \* request threads of the API process
  Datasets,    \* dataset ids that uploads may draw
  Ids,         \* version ids that uploads and cleanings may draw
  Keys,        \* values of the Idempotency-Key header
  Members,     \* memberships that query metrics
  None,        \* SQL NULL
  MaxVersions  \* bound: highest version number

ASSUME VersionsAssumption ==
  /\ None \notin Datasets \cup Ids \cup Keys \cup Members
  /\ MaxVersions \in Nat \ {0}
  /\ \A v \in Ids : v \notin 0..MaxVersions

VARIABLES
  versions,   \* the dataset_versions table, by id
  published,  \* datasets.published_version_id; None when there is no dataset row
  records,    \* idempotency_records: version in the response, by operation and key
  artifacts,  \* the artifact store
  results,    \* metric_results of each membership and version
  request     \* what each request thread holds

vars == <<versions, published, records, artifacts, results, request>>

-----------------------------------------------------------------------------
Numbers == 1..MaxVersions

\* File names: <<d, 0>> is original.<kind>, <<d, 1>> is versions/1.json, and
\* <<d, v>> is versions/<v>.json.
Original == 0
Files    == Datasets \X (Ids \cup 0..MaxVersions)

\* "key" is a history variable: the Idempotency-Key of the creating request.
Version == [dataset : Datasets \cup {None}, number : Numbers \cup {0},
            parent  : Ids \cup {None}, file : Files \cup {None},
            key     : Keys \cup {None}]

NoVersion == [dataset |-> None, number |-> 0, parent |-> None,
              file |-> None, key |-> None]

Exists(v) == versions[v].number # 0

\* Idempotency is per operation: "dataset_upload" (here None), or
\* "cleaning_apply:<source version>".
Operations == Ids \cup {None}

Request == [pc      : {"idle", "upload", "apply", "numbered",
                       "ready", "rollback", "query"},
            dataset : Datasets \cup {None},
            version : Ids \cup {None},     \* the id drawn, or the id asked for
            parent  : Ids \cup {None},
            number  : Numbers \cup {0},
            key     : Keys \cup {None},
            member  : Members \cup {None},
            seen    : Ids \cup {None}]     \* head of the dataset, or data, as read

NoRequest == [pc |-> "idle", dataset |-> None, version |-> None, parent |-> None,
              number |-> 0, key |-> None, member |-> None, seen |-> None]

TypeOK ==
  /\ versions \in [Ids -> Version]
  /\ published \in [Datasets -> Ids \cup {None}]
  /\ records \in [Operations \X Keys -> Ids \cup {None}]
  /\ artifacts \in [Files -> Ids \cup {None}]
  /\ results \in [Members \X Ids -> Ids \cup {None}]
  /\ request \in [Threads -> Request]

Init ==
  /\ versions = [v \in Ids |-> NoVersion]
  /\ published = [d \in Datasets |-> None]
  /\ records = [ok \in Operations \X Keys |-> None]
  /\ artifacts = [f \in Files |-> None]
  /\ results = [mv \in Members \X Ids |-> None]
  /\ request = [t \in Threads |-> NoRequest]

-----------------------------------------------------------------------------
(* Helpers.                                                                *)

\* uuid4 draws ids that nothing has used before.
FreshVersion(v) ==
  /\ ~Exists(v)
  /\ \A f \in Files : artifacts[f] # v
  /\ \A t \in Threads : request[t].version # v

FreshDataset(d) ==
  /\ published[d] = None /\ artifacts[<<d, Original>>] = None
  /\ \A t \in Threads : request[t].dataset # d

\* The look-up of an idempotency record that finds none.  (When it finds one
\* the handler answers with the stored response, or with 409.)
Unrecorded(op, k) == k # None => records[<<op, k>>] = None

\* Mutant of FileOf: versions/<number>.json, as earlier releases had it.
NumberedFile(d, v, n) == <<d, n>>

FileOf(d, v, n) == IF n = 1 THEN <<d, 1>> ELSE <<d, v>>

\* max(version_number) + 1 over the versions of d.
IsNext(d, n) ==
  /\ n # 1 => \E w \in Ids : versions[w].dataset = d /\ versions[w].number + 1 = n
  /\ \A w \in Ids : versions[w].dataset = d => versions[w].number < n

Step(t, r)  == request' = [request EXCEPT ![t] = r]
Store(f, v) == artifacts' = [artifacts EXCEPT ![f] = v]

\* Mutants of Unique: a constraint is missing.
UniqueRecord(r)  == Unrecorded(r.parent, r.key)
UniqueVersion(r) ==
  \A w \in Ids : versions[w].dataset # r.dataset \/ versions[w].number # r.number

\* The unique constraints of dataset_versions and idempotency_records.
Unique(r) ==
  /\ \A w \in Ids : versions[w].dataset # r.dataset \/ versions[w].number # r.number
  /\ Unrecorded(r.parent, r.key)

\* One transaction: the version (and dataset) row, the head and the record.
Commit(r) ==
  /\ versions' = [versions EXCEPT ![r.version] =
        [dataset |-> r.dataset, number |-> r.number, parent |-> r.parent,
         file |-> FileOf(r.dataset, r.version, r.number), key |-> r.key]]
  /\ published' = [published EXCEPT ![r.dataset] = r.version]
  /\ records' = IF r.key = None THEN records
                ELSE [records EXCEPT ![<<r.parent, r.key>>] = r.version]

-----------------------------------------------------------------------------
(* upload_dataset and apply_cleaning.                                      *)

UploadLookup(t, k) ==
  /\ request[t].pc = "idle" /\ Unrecorded(None, k)
  /\ \E d \in Datasets, v \in Ids :
       /\ FreshDataset(d) /\ FreshVersion(v)
       /\ Step(t, [NoRequest EXCEPT !.pc = "upload", !.dataset = d,
                     !.version = v, !.number = 1, !.key = k])
  /\ UNCHANGED <<versions, published, records, artifacts, results>>

StoreOriginal(t) ==
  /\ request[t].pc = "upload"
  /\ Store(<<request[t].dataset, Original>>, request[t].version)
  /\ Step(t, [request[t] EXCEPT !.pc = "numbered"])
  /\ UNCHANGED <<versions, published, records, results>>

\* The expected version is compared with the number of the source itself.
ApplyLookup(t, p, expected, k) ==
  /\ request[t].pc = "idle" /\ Exists(p) /\ Unrecorded(p, k)
  /\ expected = versions[p].number
  /\ Step(t, [NoRequest EXCEPT !.pc = "apply", !.dataset = versions[p].dataset,
                !.parent = p, !.key = k])
  /\ UNCHANGED <<versions, published, records, artifacts, results>>

\* The recipe runs on the source's data, and the next number is read.
ApplyNumber(t) ==
  LET r == request[t] IN
  /\ r.pc = "apply" /\ artifacts[versions[r.parent].file] # None
  /\ \E v \in Ids, n \in Numbers :
       /\ FreshVersion(v) /\ IsNext(r.dataset, n)
       /\ Step(t, [r EXCEPT !.pc = "numbered", !.version = v, !.number = n])
  /\ UNCHANGED <<versions, published, records, artifacts, results>>

StoreRows(t) ==
  LET r == request[t] IN
  /\ r.pc = "numbered"
  /\ Store(FileOf(r.dataset, r.version, r.number), r.version)
  /\ Step(t, [r EXCEPT !.pc = "ready"])
  /\ UNCHANGED <<versions, published, records, results>>

CommitVersion(t) ==
  /\ request[t].pc = "ready" /\ Unique(request[t])
  /\ Commit(request[t])
  /\ Step(t, NoRequest)
  /\ UNCHANGED <<artifacts, results>>

\* Mutant of CommitConflict: the head was moved in a transaction of its own.
EagerConflict(t) ==
  /\ request[t].pc = "ready" /\ ~Unique(request[t])
  /\ published' = [published EXCEPT ![request[t].dataset] = request[t].version]
  /\ Step(t, NoRequest)
  /\ UNCHANGED <<versions, records, artifacts, results>>

\* The flush or the commit raises IntegrityError and all is rolled back: 409
\* for a cleaning, 500 for an upload.  The artifacts stay, without a row.
CommitConflict(t) ==
  /\ request[t].pc = "ready" /\ ~Unique(request[t])
  /\ Step(t, NoRequest)
  /\ UNCHANGED <<versions, published, records, artifacts, results>>

-----------------------------------------------------------------------------
(* rollback_dataset and query_metric.                                      *)

RollbackRead(t, d, v) ==
  /\ request[t].pc = "idle" /\ Exists(v) /\ versions[v].dataset = d
  /\ Step(t, [NoRequest EXCEPT !.pc = "rollback", !.dataset = d, !.version = v,
                !.seen = published[d]])
  /\ UNCHANGED <<versions, published, records, artifacts, results>>

\* The session emits the UPDATE only if the value differs from the copy.
RollbackWrite(t) ==
  LET r == request[t] IN
  /\ r.pc = "rollback"
  /\ published' = IF r.seen = r.version THEN published
                  ELSE [published EXCEPT ![r.dataset] = r.version]
  /\ Step(t, NoRequest)
  /\ UNCHANGED <<versions, records, artifacts, results>>

\* No stored result of this membership: the version's data is read.
QueryRead(t, m, v) ==
  /\ request[t].pc = "idle" /\ Exists(v) /\ results[<<m, v>>] = None
  /\ artifacts[versions[v].file] # None
  /\ Step(t, [NoRequest EXCEPT !.pc = "query", !.version = v, !.member = m,
                !.seen = artifacts[versions[v].file]])
  /\ UNCHANGED <<versions, published, records, artifacts, results>>

\* A second insert of the same result violates its unique key (Fail).
QueryCommit(t) ==
  LET r == request[t] IN
  /\ r.pc = "query" /\ results[<<r.member, r.version>>] = None
  /\ results' = [results EXCEPT ![<<r.member, r.version>>] = r.seen]
  /\ Step(t, NoRequest)
  /\ UNCHANGED <<versions, published, records, artifacts>>

\* The request ends in an error: rejected input, a review that is missing, a
\* full disk, a locked or unreachable database.
Fail(t) ==
  /\ request[t].pc # "idle" /\ Step(t, NoRequest)
  /\ UNCHANGED <<versions, published, records, artifacts, results>>

\* The API process dies.
Crash ==
  /\ \E t \in Threads : request[t].pc # "idle"
  /\ request' = [t \in Threads |-> NoRequest]
  /\ UNCHANGED <<versions, published, records, artifacts, results>>

-----------------------------------------------------------------------------
Next ==
  \/ \E t \in Threads :
       \/ \E k \in Keys \cup {None} :
            \/ UploadLookup(t, k)
            \/ \E p \in Ids, e \in Numbers : ApplyLookup(t, p, e, k)
       \/ StoreOriginal(t) \/ ApplyNumber(t) \/ StoreRows(t)
       \/ CommitVersion(t) \/ CommitConflict(t)
       \/ \E d \in Datasets, v \in Ids : RollbackRead(t, d, v)
       \/ RollbackWrite(t)
       \/ \E m \in Members, v \in Ids : QueryRead(t, m, v)
       \/ QueryCommit(t)
       \/ Fail(t)
  \/ Crash

Spec == Init /\ [][Next]_vars

-----------------------------------------------------------------------------
(* Properties.                                                             *)

\* Published source and cleaned versions are immutable: the file a committed
\* version names is there and holds that version's data, whatever other
\* uploads and cleanings of the dataset wrote, lost or left behind.
ArtifactsFaithful ==
  \A v \in Ids : Exists(v) => artifacts[versions[v].file] = v

\* The versions of a dataset are numbered 1, 2, 3, ... without gap or repeat,
\* although every cleaning computes its number long before it commits.
DenseNumbers ==
  \A v \in Ids : Exists(v) =>
    /\ \A n \in 1..(versions[v].number - 1) : \E w \in Ids :
         versions[w].dataset = versions[v].dataset /\ versions[w].number = n
    /\ \A w \in Ids \ {v} : versions[w].dataset = versions[v].dataset
                            => versions[w].number # versions[v].number

\* Requests that carry the same idempotency key for the same operation create
\* at most one version, however they overlap, fail or are repeated.
OneVersionPerKey ==
  \A v, w \in Ids :
    /\ v # w /\ Exists(v) /\ Exists(w) /\ versions[v].key # None
    /\ versions[v].parent = versions[w].parent
    => versions[v].key # versions[w].key

\* The published version of a dataset is a stored version of that dataset.
HeadStored ==
  \A d \in Datasets : published[d] # None =>
    published[d] \in Ids /\ versions[published[d]].dataset = d

\* A stored metric result was computed from the data of the version it cites.
ResultsFaithful ==
  \A m \in Members, v \in Ids : results[<<m, v>>] \in {None, v}

\* Versioned edits fail on conflicts: a cleaning is committed only if it was
\* made from the version that is published at that moment.
StaleEditsFail ==
  [][\A v \in Ids : ~Exists(v) /\ versions'[v].parent # None
       => published[versions'[v].dataset] = versions'[v].parent]_vars

-----------------------------------------------------------------------------
History == INSTANCE VersionHistory WITH
  row  <- [v \in Ids |-> [dataset |-> versions[v].dataset,
                          number |-> versions[v].number,
                          parent |-> versions[v].parent]],
  head <- published,
  used <- {ok \in Operations \X Keys : records[ok] # None}

\* Every request appends one version at the end of a history, moves a head
\* within its history, or changes nothing.
ImplementsHistory == History!Spec
=============================================================================
