-------------------------- MODULE RecoveryRehearsal --------------------------
(***************************************************************************)
(* civicflow-recovery (run_recovery_rehearsal): back up the live database  *)
(* under an exported snapshot, restore the backup into a scratch database, *)
(* compare the evidence of both, and drop the scratch database, while      *)
(* ingestion goes on and other rehearsals run.                             *)
(***************************************************************************)
EXTENDS Naturals

CONSTANTS
  Rehearsals,    \* runs of the command
  Names,         \* names in the civicflow_rehearsal_ namespace
  Paths,         \* backup paths
  PathOf,        \* the --backup-path of each run
  Outside,       \* whoever created the databases that are not the runs'
  Nothing,
  MaxVersion     \* bounds the commits of ingestion during the rehearsals

ASSUME RehearsalAssumption ==
  /\ PathOf \in [Rehearsals -> Paths]
  /\ Outside \notin Rehearsals
  /\ Nothing \notin Rehearsals \cup {Outside} \cup {"pass", "fail"}
  /\ MaxVersion \in Nat

Tables   == {"dim_case", "fact_case_status_event", "ingestion_receipt"}
Versions == 0..MaxVersion

VARIABLES
  source,      \* committed batches: one commit writes to all three tables
  backup,      \* the file at each path: who dumped it, and what
  database,    \* who created the database of each name, or Nothing
  stage, name,
  snapshot,    \* what the exported snapshot of the run shows
  unread,      \* tables the evidence still misses
  evidence,    \* source_tables: the version each digest was computed from
  digest,      \* backup_content: the file the report describes
  restored,    \* the file pg_restore loaded
  verdict      \* status, once verification has completed

sharedVars == <<source, backup, database>>
runVars    == <<stage, name, snapshot, unread, evidence, digest, restored, verdict>>
rehearsalVars       == <<sharedVars, runVars>>

File(r)  == [by |-> r, version |-> snapshot[r]]
OldFile  == [by |-> Outside, version |-> 0]
Backup   == [by : Rehearsals \cup {Outside}, version : Versions]
Labels   == {"idle", "snapshot", "evidence", "dump", "publish", "digest", "exists", "create",
             "restore", "verify", "drop", "report", "done", "failed"}
Checked(r) == verdict[r] # Nothing

RehearsalInit ==
  /\ source = 0
  /\ backup \in [Paths -> {Nothing, OldFile}]
  /\ database \in [Names -> {Nothing, Outside}]
  /\ stage = [r \in Rehearsals |-> "idle"]
  /\ name = [r \in Rehearsals |-> Nothing]
  /\ snapshot = [r \in Rehearsals |-> 0]
  /\ unread = [r \in Rehearsals |-> Tables]
  /\ evidence = [r \in Rehearsals |-> [t \in Tables |-> Nothing]]
  /\ digest = [r \in Rehearsals |-> Nothing]
  /\ restored = [r \in Rehearsals |-> Nothing]
  /\ verdict = [r \in Rehearsals |-> Nothing]

Enter(r, label) == stage' = [stage EXCEPT ![r] = label]

(* Ingestion commits a batch. *)
Ingest ==
  /\ source < MaxVersion
  /\ source' = source + 1
  /\ UNCHANGED <<backup, database, runVars>>

Start(r, n) ==
  /\ stage[r] = "idle"
  /\ backup[PathOf[r]] = Nothing
  /\ Enter(r, "snapshot")
  /\ name' = [name EXCEPT ![r] = n]
  /\ UNCHANGED <<sharedVars, snapshot, unread, evidence, digest, restored, verdict>>

(* FileExistsError: backup path already exists. *)
RejectPath(r) ==
  /\ stage[r] = "idle"
  /\ backup[PathOf[r]] # Nothing
  /\ Enter(r, "failed")
  /\ UNCHANGED <<sharedVars, name, snapshot, unread, evidence, digest, restored, verdict>>

(* REPEATABLE READ, pg_export_snapshot. *)
ExportSnapshot(r) ==
  /\ stage[r] = "snapshot"
  /\ snapshot' = [snapshot EXCEPT ![r] = source]
  /\ Enter(r, "evidence")
  /\ UNCHANGED <<sharedVars, name, unread, evidence, digest, restored, verdict>>

(* Mutant: the transaction is READ COMMITTED, every digest sees the present. *)
ReadCommittedTable(r, t) ==
  /\ stage[r] = "evidence"
  /\ t \in unread[r]
  /\ evidence' = [evidence EXCEPT ![r][t] = source]
  /\ unread' = [unread EXCEPT ![r] = @ \ {t}]
  /\ Enter(r, IF unread[r] = {t} THEN "dump" ELSE "evidence")
  /\ UNCHANGED <<sharedVars, name, snapshot, digest, restored, verdict>>

(* _connection_evidence, table by table. *)
ReadTable(r, t) ==
  /\ stage[r] = "evidence"
  /\ t \in unread[r]
  /\ evidence' = [evidence EXCEPT ![r][t] = snapshot[r]]
  /\ unread' = [unread EXCEPT ![r] = @ \ {t}]
  /\ Enter(r, IF unread[r] = {t} THEN "dump" ELSE "evidence")
  /\ UNCHANGED <<sharedVars, name, snapshot, digest, restored, verdict>>

(* pg_dump --snapshot into a temporary file. *)
Dump(r) ==
  /\ stage[r] = "dump"
  /\ Enter(r, "publish")
  /\ UNCHANGED <<sharedVars, name, snapshot, unread, evidence, digest, restored, verdict>>

(* temporary.replace(backup_path) takes the path, whatever is there. *)
PublishBackup(r) ==
  /\ stage[r] = "publish"
  /\ backup' = [backup EXCEPT ![PathOf[r]] = File(r)]
  /\ Enter(r, "digest")
  /\ UNCHANGED <<source, database, name, snapshot, unread, evidence, digest, restored, verdict>>

ReadDigest(r) ==
  /\ stage[r] = "digest"
  /\ digest' = [digest EXCEPT ![r] = backup[PathOf[r]]]
  /\ Enter(r, "exists")
  /\ UNCHANGED <<sharedVars, name, snapshot, unread, evidence, restored, verdict>>

LookForDatabase(r) ==
  /\ stage[r] = "exists"
  /\ Enter(r, IF database[name[r]] = Nothing THEN "create" ELSE "failed")
  /\ UNCHANGED <<sharedVars, name, snapshot, unread, evidence, digest, restored, verdict>>

CreateDatabase(r) ==
  /\ stage[r] = "create"
  /\ database[name[r]] = Nothing
  /\ database' = [database EXCEPT ![name[r]] = r]
  /\ Enter(r, "restore")
  /\ UNCHANGED <<source, backup, name, snapshot, unread, evidence, digest, restored, verdict>>

(* The database is made, and the connection lost before the answer. *)
CreateUnanswered(r) ==
  /\ stage[r] = "create"
  /\ database[name[r]] = Nothing
  /\ database' = [database EXCEPT ![name[r]] = r]
  /\ Enter(r, "failed")
  /\ UNCHANGED <<source, backup, name, snapshot, unread, evidence, digest, restored, verdict>>

(* Mutant: created = True comes before the statement. *)
DropAfterLostCreate(r) ==
  /\ stage[r] = "create"
  /\ database[name[r]] # Nothing
  /\ Enter(r, "drop")
  /\ UNCHANGED <<sharedVars, name, snapshot, unread, evidence, digest, restored, verdict>>

(* Somebody else made it since: duplicate_database, created stays False. *)
LoseCreate(r) ==
  /\ stage[r] = "create"
  /\ database[name[r]] # Nothing
  /\ Enter(r, "failed")
  /\ UNCHANGED <<sharedVars, name, snapshot, unread, evidence, digest, restored, verdict>>

Restore(r) ==
  /\ stage[r] = "restore"
  /\ restored' = [restored EXCEPT ![r] = backup[PathOf[r]]]
  /\ Enter(r, "verify")
  /\ UNCHANGED <<sharedVars, name, snapshot, unread, evidence, digest, verdict>>

(* pg_restore or the evidence of the restored database fails, or times out. *)
RestoreFails(r) ==
  /\ stage[r] \in {"restore", "verify"}
  /\ Enter(r, "drop")
  /\ UNCHANGED <<sharedVars, name, snapshot, unread, evidence, digest, restored, verdict>>

Reconciles(r) == \A t \in Tables : evidence[r][t] = restored[r].version

(* The checks; an objective missed also fails the rehearsal. *)
Verify(r, inTime) ==
  /\ stage[r] = "verify"
  /\ verdict' = [verdict EXCEPT ![r] = IF Reconciles(r) /\ inTime THEN "pass" ELSE "fail"]
  /\ Enter(r, "drop")
  /\ UNCHANGED <<sharedVars, name, snapshot, unread, evidence, digest, restored>>

(* The finally clause, then either the report or the pending exception. *)
DropDatabase(r) ==
  /\ stage[r] = "drop"
  /\ database' = [database EXCEPT ![name[r]] = Nothing]
  /\ Enter(r, IF Checked(r) THEN "report" ELSE "failed")
  /\ UNCHANGED <<source, backup, name, snapshot, unread, evidence, digest, restored, verdict>>

(* Mutant: a failing cleanup is logged and the report written. *)
ReportAnyway(r) ==
  /\ stage[r] = "drop"
  /\ Enter(r, IF Checked(r) THEN "report" ELSE "failed")
  /\ UNCHANGED <<sharedVars, name, snapshot, unread, evidence, digest, restored, verdict>>

(* Another session connected after pg_terminate_backend: DROP fails. *)
DropFails(r) ==
  /\ stage[r] = "drop"
  /\ Enter(r, "failed")
  /\ UNCHANGED <<sharedVars, name, snapshot, unread, evidence, digest, restored, verdict>>

WriteReport(r) ==
  /\ stage[r] = "report"
  /\ Enter(r, "done")
  /\ UNCHANGED <<sharedVars, name, snapshot, unread, evidence, digest, restored, verdict>>

(* The run is killed, or a tool fails before the scratch database exists. *)
Abort(r) ==
  /\ stage[r] \notin {"idle", "done", "failed"}
  /\ Enter(r, "failed")
  /\ UNCHANGED <<sharedVars, name, snapshot, unread, evidence, digest, restored, verdict>>

Step(r) ==
  \/ RejectPath(r) \/ (\E n \in Names : Start(r, n)) \/ ExportSnapshot(r)
  \/ (\E t \in Tables : ReadTable(r, t)) \/ Dump(r) \/ PublishBackup(r) \/ ReadDigest(r)
  \/ LookForDatabase(r) \/ CreateDatabase(r) \/ CreateUnanswered(r) \/ LoseCreate(r)
  \/ Restore(r) \/ RestoreFails(r) \/ (\E inTime \in BOOLEAN : Verify(r, inTime))
  \/ DropDatabase(r) \/ DropFails(r) \/ WriteReport(r) \/ Abort(r)

RehearsalNext == Ingest \/ \E r \in Rehearsals : Step(r)
RehearsalSpec == RehearsalInit /\ [][RehearsalNext]_rehearsalVars

-----------------------------------------------------------------------------
RehearsalTypeOK ==
  /\ source \in Versions
  /\ backup \in [Paths -> Backup \cup {Nothing}]
  /\ database \in [Names -> Rehearsals \cup {Outside, Nothing}]
  /\ stage \in [Rehearsals -> Labels]
  /\ name \in [Rehearsals -> Names \cup {Nothing}]
  /\ snapshot \in [Rehearsals -> Versions]
  /\ unread \in [Rehearsals -> SUBSET Tables]
  /\ evidence \in [Rehearsals -> [Tables -> Versions \cup {Nothing}]]
  /\ digest \in [Rehearsals -> Backup \cup {Nothing}]
  /\ restored \in [Rehearsals -> Backup \cup {Nothing}]
  /\ verdict \in [Rehearsals -> {"pass", "fail", Nothing}]

(* Only the run that created a database drops it, whatever other runs do    *)
(* with the same name: "never replaces an existing database".               *)
DropsOnlyItsOwn ==
  [][\A r \in Rehearsals, n \in Names :
       stage[r] = "drop" /\ stage'[r] # "drop" /\ database[n] # database'[n]
         => database[n] = r]_rehearsalVars

(* A report is written only when the scratch database is gone; a passing    *)
(* one describes the very file that was restored and reconciled.            *)
ReportMeansClean == \A r \in Rehearsals : stage[r] \in {"report", "done"} =>
  /\ \A n \in Names : database[n] # r
  /\ verdict[r] = "pass" => digest[r] = restored[r] /\ Reconciles(r)

(* Ingestion never makes a rehearsal fail: evidence and backup show the     *)
(* same instant, and reconcile once the backup is restored.                 *)
NoFalseAlarm == \A r \in Rehearsals : Checked(r) => Reconciles(r)
=============================================================================
