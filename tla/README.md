# BASEERA in TLA+

BASEERA is a bilingual analytics workspace: a FastAPI application over one
SQL database (PostgreSQL, or SQLite for local work) and a directory of
artifact files, worker processes that run persisted jobs, and a web client.
These modules model the parts of it whose correctness depends on the order in
which several actors act, and the discrete part of its analytical tools.
`PROJECT.json` lists the modules, the runs, the source lines behind every
definition, the hazards and the theorems.

## How the code does its concurrency

All coordination goes through the database, and three facts decide how every
module here is written:

- Every request and every job has its own SQLAlchemy session
  (`database.py:29-42`), built with `autoflush=False` and
  `expire_on_commit=False`.  A row that was loaded stays as it was loaded;
  later decisions use the copy.
- No table has a version column.  A commit writes the columns the session
  assigned a new value to, over whatever is stored by then, and leaves the
  other columns alone.  An assignment of the value the copy already has writes
  nothing.
- PostgreSQL runs READ COMMITTED; only `claim_next_job` takes row locks
  (`FOR UPDATE SKIP LOCKED`).  Unique constraints are the only other arbiter.

So each operation on stored data is one action per step another actor can come between: the
read that fills the session, the effects outside the transaction (files, the
source system), and the commit.  The local copies are part of the state
(`exec`, `client`, `plan`, `request`).  Where a property needs to remember
something the code does not store, the field is called a history field or
variable at its declaration; no guard reads one.

## Inventory

Paths are relative to `services/api/baseera/` unless they say otherwise.

| Component | State | Operations | What is hard | What makes it correct |
|---|---|---|---|---|
| Durable job queue (`jobs.py`, `worker.py`) | `jobs`, the results they publish; each worker's session | submit, cancel, claim, execute and finish, recover at start-up | API and workers recover, claim, finish and cancel from old copies; a slow worker looks dead; deaths anywhere | attempts fenced and bounded, results backed and authorized, cancellation honoured, every job ends |
| Datasets and versions (`main.py`, `ingestion.py`) | `datasets`, `dataset_versions`, `idempotency_records`, `metric_results`; artifact files | upload, apply a cleaning recipe, roll back, query a metric | files outside the transaction, numbers computed before the commit, retried requests | immutable versions, dense numbers, one version per key, a stored head, results of the data they cite |
| Connector sync (`connectors.py`, `source_adapters.py`) | `connectors`, `connector_records`, `connector_runs`; the source | server-side fetch, staged-batch sync | seconds of network between load and commit; pages are separate transactions; batches posted late or twice | the checkpoint covers what is stored, never moves back, schemas never mix |
| Connector credentials (`credentials.py`, `connectors.py`, `main.py`) | `connector_secrets`, the connector's reference and status; the deployment's keys | store, load (re-encrypts), delete, restart with other keys | a fetch re-encrypts its old copy while new ones are stored; keys are retired | nothing needs a retired key; fingerprint, key and ciphertext agree |
| Reports and dashboards (`main.py`) | `reports`, `dashboards`, their version tables, `report_exports`; files | create, update, patch, show, export | concurrent edits of one version; multi-SELECT reads; files outside the transaction | no lost or blind edit, whole views, exports that match their version |
| Sessions (`auth.py`, `apps/web/lib/api.ts`) | `auth_sessions`; the browser's cookie, each tab's CSRF token and pending rotation | log in, log out, rotate, call, retry once | several tabs share a session; tokens rotate under calls in flight; answers are lost | a mutation runs at most once and ends; a logout is final |
| Rate limiter (`main.py`) | an in-process table of windows | count, reject, prune | window boundaries, table growth | the limit per window; `Retry-After` is true |
| Assistant (`assistant.py`, `ollama.py`) | one inference slot; conversations, messages, results | admit, plan, re-read access, compute, save | access and data change while the model plans; the model fails or answers nonsense | answers under an access in force; nothing half saved; the slot comes back |
| Cleaning and profiling (`cleaning.py`, `profiling.py`) | a table, a log, control totals | profile, recommend, apply a recipe, preview | two programs judge the same cells; steps compose; stops at any step | every change is logged; nothing unreviewed moves the books |
| Forecasting (`forecasting.py`) | windows, candidates, errors, radii | segment, select, calibrate, evaluate, publish | windows at the edge of a short series; ties; gaps | the holdout is unseen; a published band covers; a year suffices |
| Planning, insights (`analytics.py`, `insights.py`) | none | assign tasks, simulate a desk, judge concentration | rounding to the solver's units; time-outs; even splits | nobody overloaded; one queue; no finding in an even split |
| Overview and company pages (`main.py`, `analytics.py`) | `metric_results`; the company's records | figures, evidence, trend, attention, pages | one SELECT per step, a commit that may be rolled back, scope per viewer | each figure cites what it says; a department manager sees the own departments |
| Backup and restore (`scripts/*.sh`) | bundles; database; artifacts; services | back up, restore | interruption at any command | only whole bundles restore; rows and files agree |
| Web client (`apps/web`) | pending requests, tokens | request, retry, show | late answers | the answer shown belongs to the last question |

They interact through the database (all), the artifact directory (datasets,
reports, backup), one HTTP API (client, extract jobs) and the metric results
that jobs, queries, overview and assistant publish and that reports, dashboards
and exports cite by id.  `PROJECT.json` gives each component its status and
lists the hazards line by line.

## What is modelled

| Module | Code | Notes |
|---|---|---|
| `JobQueue` | `jobs.py`, `worker.py`, the job endpoints | one action per SELECT or commit; `RowLocking` is PostgreSQL (`TRUE`) or SQLite (`FALSE`) |
| `JobLedger` | (abstract) | numbered attempts, handed out once and not after a cancellation; only an open attempt publishes |
| `JobQueueProofs` | | the queue's theorems |
| `DatasetVersions` | upload, cleaning, rollback, metric query, artifact store | the content of a file is the version whose data it is |
| `VersionHistory` | (abstract) | a history per dataset that grows at its end, a head in it, a key used once |
| `DatasetVersionsProofs` | | its theorems |
| `ConnectorSync` | `sync_records`, `run_source_fetch`, the keyset adapters, `/fetch` and `/sync` | a record's payload is the watermark it was read at; the source changes on its own |
| `ConnectorSyncProofs` | | its theorems |
| `SavedDocuments` | report and dashboard endpoints | a section or widget is a model value; patches are applied operation by operation |
| `DocumentLog` | (abstract) | a log of contents that grows by its authors' changes |
| `SavedDocumentsProofs` | | its theorems |
| `Sessions` | `auth.py`, the auth endpoints, `api.ts` | tokens are numbers; a rotation is its read and its write |
| `RateLimiter` | the HTTP middleware | a clock in half seconds |
| `Credentials` | `credentials.py`, the credential endpoints, the fetch | a ciphertext is a pair of key and value |
| `Assistant` | `run_assistant` and its parts, `ollama.py` | a plan is its kind and whether it names dates |
| `BackupRestore` | the two scripts | one action per command; any of them may fail half-way |
| `PlatformProofs` | | the theorems of `Sessions`, `Credentials`, `Assistant`, `BackupRestore` and `RateLimiter` |
| `Profiling`, `CleaningRecipe` | `profiling.py`, `cleaning.py` | a cell is one of the shapes that the readers tell apart (among them dates with a time of day, lists, and words with one white-space, control or invisible character too many); a column is a function from positions to cells, and what is left of it keeps its positions |
| `RecipeProofs` | | the theorems of `CleaningRecipe` |
| `Forecasting` | `forecast_series` | integers, negative ones too; predictions rounded down, errors and rows rounded to a multiple of `Decimal` as `round(..., 4)` does, and other arithmetic exact; a level shift is a nondeterministic choice |
| `Planning`, `Insights` | `optimize_assignments`, `simulate_queue`; the concentration finding | the solver is its constraints; random draws are choices |
| `Overview` | `overview`, `company_metrics`, `_company_items` | the records may change behind it |
| `AnalysisProofs` | | the theorems of `Overview`, `Planning`, `Forecasting` and `Insights` |
| `SumLemmas` | | finite sets, induction by hand and sums, for the proofs about data |
| `MCAnalysis`, `MCPlatform` | | several small components in one run: a behaviour is one of them, chosen initially, and the others keep their initial values |
| the other `MC...` | | instances for TLC: sets, crash budgets, symmetry |

How state and actions correspond:

- **JobQueue.** `jobs` is the table (columns that decide something),
  `exec[w]` the session of worker `w` between claim and final commit,
  `client[c]` a request thread between its SELECT and its commit, `plan[p]` what a
  recovering process will commit.  `Claim` is one action with row locks and
  two (`ClaimRead`, `ClaimWrite`) without.  `Refresh` is `execute_job` up to its
  commit, `FinishCompleted`, `FinishFailed` and `FinishConflict` are the three
  ends of that commit; the last kills the worker, because nothing catches the
  IntegrityError.  A heartbeat is none, fresh or stale; nothing renews it while
  a job runs.
- **DatasetVersions.** `request[t]` is a handler between two of its effects.
  `UploadLookup`, `StoreOriginal`, `StoreRows`, `CommitVersion` are an upload;
  `ApplyLookup`, `ApplyNumber`, `StoreRows`, `CommitVersion` or
  `CommitConflict` a cleaning.  The unique constraints are `Unique`.  `Fail`
  is every error before the commit.  A metric result is identified by its
  membership and version; the other parts of its hash are fixed.
- **ConnectorSync.** `FetchBegin` loads the connector, `ReadPage` reads a page
  (PostgreSQL is the case of one page), `Upsert` is the loop over the records
  with the copies it finds, `Publish` the commit that writes the columns that
  differ from the copies.  `ExtractBegin`, `Post`, `Discard` are an extract job
  outside the API, which may post a batch late, again, or under a new key.  A
  checkpoint is a pair, compared as numbers or times; record versions are
  compared as text (`Newer`), as in the code.
- **SavedDocuments.** `EditRead`, `EditLoad`, `EditCommit` or `EditConflict` are
  an edit; `Read` and `Load` a dashboard view, and with `Store` and `Record` an
  export.  `Applied` is what an update or a patch makes of a content.
- **Sessions.** `Begin` is `apiRequest` up to its fetch (`Send`), with the token
  the tab holds, one it waits for, or a rotation it starts.  `RotateRead` and
  `RotateWrite` are `GET /auth/csrf`; what the server does with a call is `Served`,
  and `Lost` and `RotateLost` are answers that the network loses.
  The history field `revocations` remembers what was let in after a logout.
- **RateLimiter.** Under its lock a decision is one step; only the clock moves
  between requests.  `passed` and `told` are history variables.
- **Credentials.** Every handler is its read (`PutCredentials`,
  `DeleteCredentials`, `LoadCredentials`) and its `Commit`, which writes the
  columns that differ from what it read; `Restart` puts other keys in force.
- **Assistant.** `Ask` admits a question and takes the slot, `Infer` is the
  model, with a plan, nonsense or a failure; the execution reads the access again
  and the commit saves conversation, messages and results together.
- **BackupRestore.** `script.at` is the command that comes next.  A failing
  command leaves part of its work; `Killed` runs no trap; restore ignores a
  failed stop of the services, as the script does (`|| true`).
- **Profiling, CleaningRecipe.** `Recommended` is the profile's advice,
  `ApplyStep` one step of `run_recipe` with its entry in the log, `Refuse` the
  422s and 409s, `Finish` the control totals and the verdict on a review.
  `lineage` is a history variable: where each row and column came from.
  Steps are applied in place in the code and as one operator here: `RowsAfter`
  and `ColumnsAfter` are the table a step leaves, `Kept` and `Staying` the
  positions that survive it.  A step names each of its columns once (`Selected`
  is a set); `IsTable` is what `_validate_columns` lets in, and `Options` what the
  checks on a step's own fields let through before the table is looked at.
- **Forecasting.** One action per stage of `forecast_series`; `answer.stage` is
  how far it is, and `Asked` the answer before the first of them.
- **Planning, Insights.** `Solve` returns any assignment that meets the
  constraints the code posts, in the solver's thousandths; `Enumerate` is the
  fallback in hours.  `Arrive` is one customer.  Concentration is an operator,
  and the step of its machine is the world's: business moves to the leader.  A
  category whose last row moves stays with a total of 0 here, and disappears from
  the totals in the code (`insights.py:311-321`), so the even split it is
  compared with has one category fewer there.
- **Overview.** `ReadFigures` is one SELECT of `company_metrics`, `LookUp` one
  `db.get`, `StoreEvidence` the commit or its rollback.  `Revise` changes the
  records, which no endpoint of the code writes.

## What the runs check

All passing runs check every reachable state of their instance.

| Run | Instance | Shows |
|---|---|---|
| `JobsPostgres` | 2 workers, 1 request thread, 2 jobs, 2 attempts, API dies once, row locks | fencing, backed results, authorized publication, no attempt after a cancellation, refinement of `JobLedger` |
| `JobsLocal` | 1 worker that dies twice, SQLite, restarts after five minutes | bounded attempts; every accepted job ends |
| `JobsCancelRace` | 1 worker, 1 job | **violated**: a cancelled job is overwritten by the worker's final commit |
| `JobsPromptRestart` | as deployed: restart at once | **violated**: a job stays running for ever |
| `DatasetsShared` | 2 requests, 2 datasets, 3 versions, 1 key | versions immutable, dense, one per key; results faithful; refinement of `VersionHistory` |
| `DatasetsStaleEdit` | 1 request at a time | **violated**: a recipe made from an outdated version is published |
| `Connectors` | 2 requests, 2 rows, 2 watermarks, 2 schemas, 2 keys, pages of 1 row | while no overtaken batch is committed, the checkpoint covers what it claims, does not move back, schemas do not mix |
| `ConnectorsOverlap` | 2 requests at a time, 4 keys, 3 watermarks | **violated**: overlapping fetches lose a row's update behind the checkpoint |
| `Documents` | 2 requests, 1 report, 1 dashboard, 3 versions | no lost or blind edit, heads and views whole, exports faithful, refinement of `DocumentLog` |
| `Analysis` | tables of 3 to 10 rows, recipes of 2 steps; histories of none and of 11 to 25 months; 2 workers, one of them also without any capacity, up to 4 tasks; splits of 3 to 9 categories; 2 overlapping overviews of 9 records | every change of a recipe is logged, numbers stay numbers, advice settles, unreviewed recipes keep the books; the holdout is unseen, widened bands cover, a year suffices; assignments fit, the desk is one queue; even splits are no finding; figures cite what they say, scopes hold |
| `RecipeRenames` | the same, with a renaming that exchanges two names | **violated**: a column is overwritten before it is moved, and the log says nothing changed |
| `Platform` | 2 tabs, 3 calls, 2 log-ins; 2 buckets, 4 seconds; 2 requests, 2 keys, 1 restart; 2 questions, 1 change of access; 3 objects, 3 script runs | calls run once and end, a logout is final; limits and `Retry-After` hold; nothing needs a retired key, fingerprints are true; answers are authorized and whole; accepted bundles are whole, restores too |

The violated properties are quoted from the documentation in `PROJECT.json`
("findings").

Bounds, and why they are enough.  The races here need two requests that hold
copies while a third commits: two threads do, because a thread that has finished
starts again.  Two jobs are the least for which "oldest first, skip the locked
one" matters; two attempts the least with a retry and a limit.  Three versions
let an edit be two commits behind.  Pages of one row, two of them, with rows
written by one source commit, put equal watermarks on both sides of a page
boundary.  Crash budgets (`MaxCrashes`) let a process die in two attempts of
one job, so a job can use up its retries.  `MaxFiles` bounds the exports to one
file, since exports do not read each other.  Every mutant in `PROJECT.json` is
found within these bounds.  In `Analysis` a table has two
columns because two decide every interplay of steps (a key and a value, or two
values that exchange names), and its columns are chosen so that each shape of
cell meets each reader and the thresholds of the profile (one cell in ten, one
outlier in five) are met and missed.  Histories lie on both sides of every edge
of the windows: 12 months (the least), 13, the change of the warm-up, 24 (the first with a
season), 25, one with a gap and two with months of losses; the empty history and one of 11 months are refused.
`Decimal = 2` makes every odd number one that rounding moves, so that a rounded error
may differ from the difference of its rounded numbers.  `PageLimit`, `TaskLimit`, `SearchLimit` and `MaxBuckets`
are small so that they are met.  In `Platform`, one restart separates the commits
before it from those after, three calls let two tabs take each other's token
while one retries, and three script runs are a backup, a restore that fails
and one that repairs it.  Symmetry is used on identifiers that nothing orders
or singles out (workers, threads, drawn ids, schemas, keys), and never in a
run with a liveness property.  Deadlock is checked, except in the runs that
stop when their ids or keys are used up (`CHECK_DEADLOCK FALSE`).

In `Connectors`, watermarks have one text
length, as timestamps do; with numeric watermarks of several lengths (9, 10)
`Newer` passes over the newer row, and `CheckpointCovers` does not hold.  The
properties of that run exempt states after an overtaken commit, which is what
`ConnectorsOverlap` is about.  `ConnectorSync` assumes a source whose
incremental values grow in commit order; a source that commits an older value
later loses that row whatever this code does.

Fairness (`FairSpec` of `JobQueue`).  Dead processes are restarted
(`infra/compose.private-vm.yml:49`), a worker's loop polls and finishes what it
holds (`worker.py:29-39`), request threads that are committing finish, and time
passes, so heartbeats age.  Nobody has to submit, cancel, change access or die.
`JobsLocal` adds that a restart takes five minutes (`PromptRestart = FALSE`),
for which recovery is written; `JobsPromptRestart` shows what happens without.
`MCPlatform` assumes weak fairness of `Served` for each call: the server answers
what arrives and the browser's fetch ends, with an answer or an error, so that a
request is not under way for ever.  Nothing makes a user begin a call or a
session expire.

Stated exceptions.  `CredentialsConfirmed` compares fingerprint and ciphertext
only when no two requests overlapped, `RestoresWhole` speaks of restores that did
stop the services, `FiguresEvidenced` of records that did not change while
overviews overlapped.  `NumericColumnsStay` leaves out the steps that say themselves
what a cell becomes (`Dictates`): a mapping of values, a renaming, a date pattern of the
step's own, and a list as the value for missing cells.  `RecommendationsSettle` names three
recommendations that repair nothing and therefore stay (`Stuck`).
`WidenedBandCovers` counts apart the months that no widening reaches: those below the
zero at which the band is cut, and those whose reported error is not the difference
of the reported numbers.  Each exception is a hazard of the code, listed below
or in `PROJECT.json`.

## What is proved

TLAPS proves the following for any number of workers, threads, users, datasets,
rows, documents, calls, tabs, requests, keys, questions, objects, records,
agents and months, tables and recipes, and any bounds.  The assumptions are those the modules state
about their constants, and TLC evaluates them in its runs: None is not an id, a
content or a key; bounds and limits are natural numbers (`QueueAssumption`,
`VersionsAssumption`, `DocumentsAssumption`, `LimiterAssumption`); a request has
a worker and a task at least, capacities are natural numbers and hours positive
ones (`PlanningAssumption`, from `main.py:471-494`); rows are numbered and
watermarks have at most two digits (`SyncAssumption`); the values of a history
are integers, the unit of rounding is positive, a history is empty or has a first and a last month, and an
interval is one of 50 to 99 per cent (`ForecastAssumption`); the totals of a split
are natural numbers (`InsightsAssumption`); a table has each column once and
nothing outside its columns, the names an identifier or a governed metric may
have are column names, and a step's options passed their checks
(`RecipeAssumption`).  Three theorems about jobs need row locks, one needs the
local deployment, one about connectors needs watermarks of one text length
(`OneLength`), and one about recipes needs renamings that do not write a name
they have yet to read (`NoNameReused`); each says so as its hypothesis.

`JobQueueProofs`:

- `QueueTyped`, `ResultsAreBacked`, `PublicationIsAuthorized`.  `TypeOK` is not
  inductive: a claim must know that the row it selected, and a session that the
  row it holds, was inserted.  `TInv` adds `Rows`, `ExecRefs`, `ClientRefs` and
  `PlanRefs`, which say so.  `PInv` adds that a session which found its result
  will find it again, because results are never deleted, and that a session
  about to insert was cleared.
- `AttemptsAreFenced`, `CancellationStopsAttempts`, `QueueImplementsLedger`,
  with row locks.  The invariant `FInv` says that the attempt number in a row is
  never below one that a worker holds, so the next claim hands out a new one;
  each step is then either `Quiet` (no attempt number changes) or a claim, and
  maps to a step of the ledger or a stutter.
- `RetriesAreBounded`, on either database, if there is one worker and the API
  does not die (`LocalDeployment`).  Both are needed: a recovery writes what an
  old copy of the rows tells it, and a second process may claim in between.
  `NInv` says that a queued row has an attempt left (`Rationed`), and so has
  whatever a claim or a recovery under way is about to queue or to start
  (`Claiming`, `Recovering`).

`DatasetVersionsProofs`: `VersionsTyped`, `VersionsImmutable`, `NumbersAreDense`,
`KeysAreHonoured`, `HeadsAndResults`, `EndpointsImplementHistory`, from one
inductive invariant `DInv`.  Its core is that a file is named by an id only one
request or one row holds, so no other request writes it; and that the number a
request carries was next when it was read, so that with the unique constraint
the numbers stay dense.

`ConnectorSyncProofs`: `SyncTypes`, `SyncCovers`, `SyncOneSchema`,
`SyncAdvances`.  `WellRead` (in its part `Gathered`) says that a batch holds
every source row that lies between the checkpoint its request began at and the
position it has come to; a row that changes meanwhile moves beyond it.
`WellDecided` says that what a request is about to
write is what it decided from the stored rows.  `CInv` adds that whatever
checkpoint a request began at stays covered, so the union of what was covered
and what the batch brings is covered by the new one.  The proof shows where
`OneLength` is used: only when a stored version is compared with an arriving
one as text (`NewerIsLater`).

`SavedDocumentsProofs`: `ChangesAreKept`, `HeadsAreCurrent`, `DashboardsAreWhole`,
`ExportsAreFaithful`, `DocumentsImplementLog`, from one invariant `DInv`.  Stored
versions are those up to the one the row names and are never written again
(`Frozen`), so what a request holds stays true (`HoldsOn`); an edit that finds
its number free was made to the last version, whose title its copy has.  What a
change computes is never expanded.

`PlatformProofs`:

- `CallsRunOnce`, `LogoutIsFinal`.  `Ran` says that a call whose handler ran is
  answered, so the browser's one retry, which follows a refused token only,
  cannot repeat it; `Revoked`, that a rotation never clears `revoked_at`, because
  it writes only the token.
- `ConfirmedCredentials`.  `Intended` describes what a request will write by what
  it read; a restart ends every request, so what is sealed is sealed under the
  key in force; `Agreeing` holds of the rows and of every pending write until two
  requests overlap.

- `AnswersAreAuthorized`, `QuestionsAreSettled`.  `Foreseen` says that the access a
  planned question will read is one its user had since the plan, `Computed` and
  `Saved` carry that to the rows, and `Housed` keeps a conversation with its
  owner while others are saved to it.  `Left` says where everything stored comes
  from: each message is one of an answered question's exchange, no conversation is
  without messages, and each result is cited by an answer (`Cited`); so a refused
  question has left nothing.
- `RestoresAreWhole`, without assumptions.  The invariant `BInv` says, for each
  command of either script, what the ones before it have achieved: that nothing
  writes between the stop and the marker, and that an accepted bundle's
  checksums are those of the moment the services stopped.
- `LimitsAreHonoured`.  A bucket counts at least what its window let through, and
  requests that passed in windows already pruned stay within the limit
  (`Accounted`); no stretch of a window's length meets three windows of one key,
  hence the factor of two.

`AnalysisProofs`:

- `OverviewsAreEvidenced`.  `Truthful` says that a stored result has the identity
  of what it says, `Sound` that an overview's figures so far are those of the
  records its scope finds (while they do not change), and that what it will cite
  is stored or about to be.  A manager's figures are the same over all records
  and over the own departments' (`OwnOf`), because the queries see no others.
- `DeskIsOneQueue`.  What the simulation keeps of a customer does not say who
  served him.  The invariant (`Simulated`, `Served`, `Line`) therefore says that some
  assignment of the served customers to agents explains when each agent is
  free next: then no more of them than agents are in service at once, and one who
  waited found every agent busy.
- `AssignmentsAreSound`.  The solver's thousandths are conservative: hours rounded
  up and capacities rounded down can only lose assignments, so what fits for the
  solver fits in hours (`SolverHonest`).  The enumeration goes through every
  assignment that gives tasks to the skilled within capacity (`HonestFits`), so an
  empty search is a witness; and if some choice fits, there is a best one, because
  there are finitely many and the order decides between equals (`BestExists`).
- `AYearIsEnough`.  `Segmented` says that enough of the history is left wherever a
  level shift cut it, and `Derived` that each stage's results are functions of
  the working window, the season and the steps evaluated.  From that the naive
  model always has an origin with a month after it to predict
  (`OriginsEarly`, `NaiveEvaluated`), so there is a candidate; the months are
  those that follow (`MonthsOn`, `ForecastFollows`).
- `WidenedBandsCover`.  The quantile is an order statistic, so at least the share
  asked for of the misses is no greater (`QuantileOf`); radii never fall below
  the first (`RadiiGrow`), so widening the first to that quantile widens all enough
  (`WidenedCovers`).  That is about the reported errors.  The coverage published is counted
  with the band around the reported prediction, cut at zero, and loses only the months
  the property counts apart.  That every prediction is a number needs the linear trend's
  spread to be positive (`Spread`), and a quantile needs the chosen model to have
  been evaluated (`ChosenEvaluated`).
- `HoldoutNeverSeen`.  Two histories that differ
  in the months held out have the same working window and as many steps
  (`SameWorking`), so everything decided before the holdout is opened is the
  same; the proof is for any values put there, not only those of the property.

- `ConcentrationIsJudged`.  Sums do not depend on the order in which they are taken
  (`SumOfParts`), so moving business to the leader leaves the total and raises the
  sum of squares (`MoreSkewed`); and a group that carries four fifths without the
  leader still does with the leader in place of the category that lost business,
  so the least such group does not grow.

`RecipeProofs`:

- `RecipeTyped`.  `RecipeTypeOK` is inductive, but that a step leaves a table is
  most of the work: `PlacesList` and `RestrictedList` say what is left of a
  sequence when only some positions stay, `NewNames` that a renaming the checks
  let through keeps the names apart, and `StatisticCell`, `ClippedCell` and
  `DatedCell` that what a step writes is a cell again.  `SortedList` shows that
  a column's order statistics exist and are integers, so that a quantile is a
  number.
- `LogAlwaysAccounts`.  `RowsAccounted` adds up the rows that are gone.
  `ChangesCounted` compares the log with the set of cells that differ from the
  source (`Differing`): a step that moves rows or columns maps its differing
  cells one to one into those before it (`NoNewDifference`), and an edit adds at
  most the cells its log entry counts.  A renaming is where that needs a
  hypothesis: `RenamedCell` shows by induction over the pairs that a cell goes
  along with its column if no pair writes a name that a later pair reads.
  Without it the statement is false (`RecipeRenames`).
- `UnreviewedRecipesKeepTheBooks`, from `BooksInv`.  A verdict without a review means
  that no row is gone and no step dropped or renamed a column; then the columns
  are those of the source, with nothing outside them (`ColumnsStand`).  Equal
  control totals are equal sums of each column of numbers, and a governed metric
  is a function of the sums of columns that read as numbers throughout.
- `NumericColumnsAlwaysStay`.  No invariant is needed beyond the types: each kind of
  edit leaves a readable cell readable, or makes it a stored boolean, and what is
  put in a missing cell is a number if the column holds numbers.  A detected or known date
  format fits no number; a pattern of the step's own may (`%Y`), and is excepted.
- `RecommendationsAlwaysSettle`.  `SettledSteps` says for which reason a step is
  recommended without a decision; for each reason a lemma shows that it is gone
  in what the step leaves (`TextSettles`, `CastSettles`, `DatesSettle`,
  `DuplicatesSettle`, `DroppedIsGone`), because profile and engine read a cell
  alike.  Where they do not, the step is one of the exceptions of `Stuck`.

The installed provers cannot instantiate the library's induction theorems,
which take an operator.  Where these proofs need induction over data they show it by hand:
the least counterexample (`LeastExists`), or a set of sets instead of a
predicate (`SetInduction`), from which the fold of the community modules is
shown to exist (`FoldExists`) and to be a sum (`SumUnfolds`, `SumBounds`).

What stays with TLC:

- Liveness (`EveryJobEnds`, `CallsEnd`) and anything about ENABLED, which TLAPS does
  not reason about here.
- What recursion over data computes for inputs of every length, beyond the sums
  and folds above: what `Patched` makes of a long patch, which `SavedDocumentsProofs`
  never needs, and the level that `LevelEstimate` finds by sorting, on which no
  proof depends.

## Where code and documentation disagree, without a run

- `rollback_dataset` moves the published pointer, while `docs/data-model.md:62`
  says that apply and rollback both create new published versions.
- An upload that dies leaves files without rows, and no failed job
  (`docs/architecture.md:124-126`).
- `docs/architecture.md:115` requires idempotency keys of retriable mutations;
  two submissions that overlap under one key insert two jobs (`jobs.py:28`).
- Retries are bounded (`docs/adr/0001`, "bounded retries"), but two processes that
  recover together, the second from a copy older than the first one's commit and
  the next claim, allow one attempt more (`jobs.py:90`).
- A rollback to the version its copy of the row already names writes nothing,
  also when another request has moved the head since.
- A batch with the old schema makes a drifted connector ready again
  (`connectors.py:223`); `docs/connectors.md:62` pauses until a review.
- Dashboard titles have no versions: version 1 is shown with today's title
  (`main.py:1567`).
- A fetch that re-encrypts an old copy, committed after new credentials were
  stored, puts the old ones back under the new fingerprint (`connectors.py:421`).
- `forecasting.py:605-610` speaks of three disjoint windows and the result
  claims `windows_are_disjoint`; there are two: the errors that selected a model
  calibrate it (759), and the holdout, once measured, may widen the band
  (839-865).  Level shifts are searched in the whole series, the holdout included
  (638).  `HoldoutUnseen` therefore starts after the cut.
- A recommended `deduplicate` on a business key counts only present keys
  (`profiling.py:666`), while the step also collapses rows without one.
- The profile recommends `trim_whitespace` for any control character
  (`profiling.py:402-404`, 503), but the step removes none inside a word
  (`cleaning.py:171-172`); and it recommends `parse_date` for every format but
  `iso_date` (548-565), also for dates with times that are in ISO 8601 already.  Both
  steps change nothing and are recommended again.
- "A numeric column must not gain a text cell" (`cleaning.py:295`) is checked for
  replacements given as text; a list in the request passes.  A step that brings its
  own date pattern (`cleaning.py:244`) turns a column of numbers into dates: `%Y`
  makes `2024` the date `2024-01-01`.
- A widened band may still cover too little (`forecasting.py:839-865`), as its own
  warning says (939-944): net revenue can be negative (`docs/metrics.md:41`) while
  the band is cut at zero, and coverage is measured with rounded numbers.
- The profile counts white space as missing; `drop_missing_rows` and
  `replace_missing` do not.  A table without columns is recommended a
  `deduplicate` that is refused.
- `restore.sh:62` says that the services remain stopped after a failure; they
  run when the stop failed, or when only the readiness check did.
- `company_metrics` sums what has a cost and ignores orders without one
  (`analytics.py:118`); `dataset_metric` declines to compute a margin then.
- The solver rounds hours up and capacities down to thousandths, so it may call
  infeasible what fits exactly; the result then makes no claim of a witness.  The
  fallback divides by a capacity of zero, which a request may hold (`main.py:473`,
  `analytics.py:561`); `Planning` answers `DivisionByZero` there.
- Company pages report `department_ids` as their scope also for roles that are
  not limited to them (`main.py:1508`); headcounts are taken after the limit of 250
  rows (`main.py:2658`).
- When records change while two overviews overlap, the one that rolls back
  cites results that are never stored (`main.py:1406`).

## Not modelled, and why

Rendering (`reports.py`, `deliverables.py`), translations, cryptography and
file parsing are data transformations that no property here tells apart.  Of the
statistics, the smoothing models, decomposition, anomaly lists, descriptive
statistics, scenario arithmetic and the other findings of `insights.py` are
floating-point functions without state; TLC has no real numbers, and integers
would change what they compute.  E-mail, telephone and time patterns of
`profiling.py` are regular expressions.  REST connectors use opaque
cursors that the code does not compare; creation of a connector is one insert.
Keyset fetches through the API need a configuration with columns, which the
creation endpoint does not accept but the tests and operators set in the row.
Read-only endpoints other than the overview and the company pages, the demo data,
the generated contracts and the migrations have no state of their own.  The
language model is external: any plan, or none.

## Plan

Every invariant and action property of the passing runs is a theorem; the two
liveness properties are checked.  What would come next:

1. `WebClient`: the workspaces' handling of late answers.
2. Composition: a job, a report and an overview share `metric_results`, so that the
   evidence a report cites is the evidence that was computed; and `Credentials`
   with `ConnectorSync` through the connectors row.
