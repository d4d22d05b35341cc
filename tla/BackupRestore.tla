------------------------------ MODULE BackupRestore ------------------------------
(***************************************************************************)
(* scripts/backup.sh and scripts/restore.sh: a bundle of the database and  *)
(* the artifact volume, taken with the writing services stopped, and the   *)
(* replacement of both by those of a bundle.  Every command of the scripts *)
(* may fail (they run under set -e), a script may be killed between two    *)
(* commands, and a finished bundle may be damaged on its way.              *)
(***************************************************************************)
EXTENDS FiniteSets, Integers

CONSTANTS
  Objects,  \* stored objects: an artifact file, and the row that names it
  MaxRuns   \* bound on the runs of the two scripts

VARIABLES
  running,    \* the writing services that are up
  rows,       \* the objects the database names
  artifacts,  \* the objects in the artifact volume
  writing,    \* the artifacts whose row is not committed yet
  script,     \* [name, at, was]: the script that runs and what it does next
  runs,
  bundle,     \* the bundle: marker, parts and checksums
  moment,     \* rows and artifacts when the bundle's backup stopped the services
  restored    \* how the last restore went

backupVars == <<running, rows, artifacts, writing, script, runs, bundle, moment, restored>>

Services == {"api", "worker"}
Absent == [state |-> "absent"]
Whole(content) == [state |-> "whole", content |-> content]
Truncated == [state |-> "truncated"]

NoBundle == [marker |-> "none", dump |-> Absent, archive |-> Absent, sums |-> Absent]
NoScript == [name |-> "none", at |-> "none", was |-> {}]

BackupInit ==
  /\ running = Services /\ rows = {} /\ artifacts = {} /\ writing = {}
  /\ script = NoScript /\ runs = 0 /\ bundle = NoBundle
  /\ moment = [rows |-> {}, artifacts |-> {}]
  /\ restored = "none"

-----------------------------------------------------------------------------
(* A running service writes an artifact and then commits the row.          *)
WriteArtifact(o) ==
  /\ running # {} /\ o \notin artifacts \cup rows
  /\ artifacts' = artifacts \cup {o} /\ writing' = writing \cup {o}
  /\ UNCHANGED <<running, rows, script, runs, bundle, moment, restored>>

CommitRow(o) ==
  /\ running # {} /\ o \in writing
  /\ rows' = rows \cup {o} /\ writing' = writing \ {o}
  /\ UNCHANGED <<running, artifacts, script, runs, bundle, moment, restored>>

\* Stopping the services ends what they were doing.
Stopped(left) == running' = left /\ writing' = IF left = {} THEN {} ELSE writing

-----------------------------------------------------------------------------
WorkerLeft(was) == was \cap {"worker"}
Quiesced(was) == {}

Start(name, at) ==
  /\ script = NoScript /\ runs < MaxRuns
  /\ script' = [name |-> name, at |-> at, was |-> running]
  /\ runs' = runs + 1

Backup ==
  /\ bundle.marker = "none"
  /\ Start("backup", "stop")
  /\ bundle' = [NoBundle EXCEPT !.marker = "INCOMPLETE"]
  /\ UNCHANGED <<running, rows, artifacts, writing, moment, restored>>

GoOn(at) == script' = [script EXCEPT !.at = at]

BackupStep ==
  /\ script.name = "backup"
  /\ \/ /\ script.at = "stop"
        /\ Stopped(Quiesced(script.was))
        /\ moment' = [rows |-> rows, artifacts |-> artifacts]
        /\ GoOn("dump") /\ UNCHANGED <<rows, artifacts, bundle>>
     \/ /\ script.at = "dump"
        /\ bundle' = [bundle EXCEPT !.dump = Whole(rows)]
        /\ GoOn("archive") /\ UNCHANGED <<running, rows, artifacts, writing, moment>>
     \/ /\ script.at = "archive"
        /\ bundle' = [bundle EXCEPT !.archive = Whole(artifacts)]
        /\ GoOn("sums") /\ UNCHANGED <<running, rows, artifacts, writing, moment>>
     \/ /\ script.at = "sums"
        /\ bundle' = [bundle EXCEPT !.sums = Whole(<<bundle.dump, bundle.archive>>)]
        /\ GoOn("mark") /\ UNCHANGED <<running, rows, artifacts, writing, moment>>
     \/ /\ script.at = "mark"
        /\ bundle' = [bundle EXCEPT !.marker = "COMPLETE"]
        /\ running' = running \cup script.was
        /\ script' = NoScript
        /\ UNCHANGED <<rows, artifacts, writing, moment>>
  /\ UNCHANGED <<runs, restored>>

\* The command fails, with what it had written; the EXIT trap starts what was running.
BackupFails ==
  /\ script.name = "backup"
  /\ bundle' = CASE script.at = "dump" -> [bundle EXCEPT !.dump = Truncated]
                 [] script.at = "archive" -> [bundle EXCEPT !.archive = Truncated]
                 [] script.at = "sums" -> [bundle EXCEPT !.sums = Truncated]
                 [] OTHER -> bundle
  /\ running' = running \cup script.was
  /\ script' = NoScript
  /\ UNCHANGED <<rows, artifacts, writing, runs, moment, restored>>

-----------------------------------------------------------------------------
\* restore.sh:42-53.
Accepted(b) ==
  /\ b.marker = "COMPLETE"
  /\ b.dump # Absent /\ b.archive # Absent
  /\ b.sums = Whole(<<b.dump, b.archive>>)

Restore ==
  /\ Accepted(bundle)
  /\ Start("restore", "stop")
  /\ UNCHANGED <<running, rows, artifacts, writing, bundle, moment, restored>>

(* The stop's failure is ignored; then the database is dropped and filled, *)
(* the volume emptied and filled, the services started and waited for.     *)
RestoreStep ==
  /\ script.name = "restore"
  /\ \/ /\ script.at = "stop" /\ GoOn("drop")
        /\ Stopped({}) \/ UNCHANGED <<running, writing>>
        /\ restored' = IF running' = {} THEN "begun" ELSE "unquiesced"
        /\ UNCHANGED <<rows, artifacts>>
     \/ /\ script.at = "drop" /\ GoOn("fill")
        /\ rows' = {} /\ UNCHANGED <<running, artifacts, writing, restored>>
     \/ /\ script.at = "fill" /\ GoOn("empty")
        /\ rows' = rows \cup bundle.dump.content
        /\ UNCHANGED <<running, artifacts, writing, restored>>
     \/ /\ script.at = "empty" /\ GoOn("extract")
        /\ artifacts' = {} /\ UNCHANGED <<running, rows, writing, restored>>
     \/ /\ script.at = "extract" /\ GoOn("start")
        /\ artifacts' = artifacts \cup bundle.archive.content
        /\ UNCHANGED <<running, rows, writing, restored>>
     \/ /\ script.at = "start" /\ GoOn("ready")
        /\ running' = Services /\ UNCHANGED <<rows, artifacts, writing, restored>>
     \/ /\ script.at = "ready" /\ script' = NoScript
        /\ restored' = IF restored = "begun" THEN "whole" ELSE restored
        /\ UNCHANGED <<running, rows, artifacts, writing>>
  /\ UNCHANGED <<runs, bundle, moment>>

\* A command fails, having done some of its work: the script ends there.
RestoreFails ==
  /\ script.name = "restore" /\ script.at # "stop"
  /\ rows' \in IF script.at = "fill" THEN {rows \cup c : c \in SUBSET bundle.dump.content} ELSE {rows}
  /\ artifacts' \in IF script.at = "extract"
                    THEN {artifacts \cup c : c \in SUBSET bundle.archive.content}
                    ELSE IF script.at = "empty" THEN SUBSET artifacts ELSE {artifacts}
  /\ script' = NoScript
  /\ restored' = "broken"
  /\ UNCHANGED <<running, writing, runs, bundle, moment>>

-----------------------------------------------------------------------------
\* The machine goes down: whatever ran has ended, no trap is run.
Killed ==
  /\ script # NoScript
  /\ script' = NoScript
  /\ restored' = IF script.name = "restore" THEN "broken" ELSE restored
  /\ UNCHANGED <<running, rows, artifacts, writing, runs, bundle, moment>>

\* An operator starts the services again.
StartServices ==
  /\ script = NoScript /\ running # Services
  /\ running' = Services
  /\ UNCHANGED <<rows, artifacts, writing, script, runs, bundle, moment, restored>>

\* A part of the bundle is damaged while it is kept or copied.
Damage ==
  /\ script = NoScript /\ bundle.marker = "COMPLETE"
  /\ \E part \in {"dump", "archive"} :
       bundle[part] # Truncated /\ bundle' = [bundle EXCEPT ![part] = Truncated]
  /\ UNCHANGED <<running, rows, artifacts, writing, script, runs, moment, restored>>

BackupNext ==
  \/ \E o \in Objects : WriteArtifact(o) \/ CommitRow(o)
  \/ Backup \/ BackupStep \/ BackupFails
  \/ Restore \/ RestoreStep \/ RestoreFails
  \/ Killed \/ StartServices \/ Damage

-----------------------------------------------------------------------------
(* A bundle that restore.sh accepts holds the rows and the artifacts of    *)
(* one moment, whatever command of backup.sh failed and wherever it was    *)
(* killed; and after a restore that reported completion, having stopped    *)
(* the services, everything the bundle's database named is there again and *)
(* every row has its artifact.                                             *)
RestoresWhole ==
  /\ Accepted(bundle) =>
       /\ bundle.dump = Whole(moment.rows)
       /\ bundle.archive = Whole(moment.artifacts)
  /\ restored = "whole" => moment.rows \subseteq rows /\ rows \subseteq artifacts
=============================================================================
