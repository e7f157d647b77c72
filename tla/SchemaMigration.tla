--------------------------- MODULE SchemaMigration ---------------------------
(***************************************************************************)
(* PostgresCaseStore.initialize on replicas that start together, crash and *)
(* start again: one transaction under an advisory lock that creates the    *)
(* bookkeeping table, looks for the version and applies the script once.   *)
(***************************************************************************)
EXTENDS Naturals, Sequences, FiniteSets

CONSTANTS
  Replicas,
  Nobody          \* nobody holds the advisory lock

ASSUME MigrationAssumption == Nobody \notin Replicas

Bookkeeping == "civicflow_schema_migration"

(* postgres_001_initial.sql, in order; the last is the view's. *)
Script == <<"dim_case", "fact_case_status_event", "ingestion_receipt",
            "idx_event_case_time", "idx_case_department_open", "current_case_state">>
Objects == {Script[i] : i \in DOMAIN Script} \cup {Bookkeeping}

VARIABLES
  progress,        \* progress of each replica's initialize
  next,      \* of each replica: the next statement of the script
  made,      \* of each replica: what its open transaction created
  objects,   \* committed schema objects
  version,   \* is the version row committed
  lock       \* holder of the advisory lock

migrationVars == <<progress, next, made, objects, version, lock>>

Locked   == {"create", "look", "script", "record", "commit"}
Starting == Locked \cup {"lock"}

Advance(r, label) == progress' = [progress EXCEPT ![r] = label]

(* A name another transaction has created and not committed blocks its     *)
(* creation until that transaction ends.                                   *)
Blocked(r, o) == \E q \in Replicas \ {r} : o \in made[q]

Make(r, o) == made' = [made EXCEPT ![r] = @ \cup {o}]

(* The end of the transaction releases the lock. *)
End(r, label) ==
  /\ Advance(r, label)
  /\ next' = [next EXCEPT ![r] = 1]
  /\ made' = [made EXCEPT ![r] = {}]
  /\ lock' = IF lock = r THEN Nobody ELSE lock

(* A name, or the version, is already there: initialize raises, and nothing *)
(* of the transaction stays.                                                *)
Fail(r) == End(r, "failed") /\ UNCHANGED <<objects, version>>

-----------------------------------------------------------------------------
MigrationInit ==
  /\ progress = [r \in Replicas |-> "off"]
  /\ next = [r \in Replicas |-> 1]
  /\ made = [r \in Replicas |-> {}]
  /\ objects = {}
  /\ version = FALSE
  /\ lock = Nobody

(* Mutant: the app is built without initializing its store. *)
ServeAtOnce(r) ==
  /\ progress[r] = "off"
  /\ Advance(r, "serving")
  /\ UNCHANGED <<next, made, objects, version, lock>>

StartReplica(r) ==
  /\ progress[r] = "off"
  /\ Advance(r, "lock")
  /\ UNCHANGED <<next, made, objects, version, lock>>

(* Mutant: the lock is tried, not awaited. *)
TryLock(r) ==
  /\ progress[r] = "lock"
  /\ lock' = r
  /\ Advance(r, "create")
  /\ UNCHANGED <<next, made, objects, version>>

LockMigration(r) ==
  /\ progress[r] = "lock"
  /\ lock = Nobody
  /\ lock' = r
  /\ Advance(r, "create")
  /\ UNCHANGED <<next, made, objects, version>>

(* CREATE TABLE IF NOT EXISTS civicflow_schema_migration: the test does not  *)
(* see a table another transaction is creating, and the creation collides.  *)
CreateBookkeeping(r) ==
  /\ progress[r] = "create"
  /\ IF Blocked(r, Bookkeeping)
       THEN Fail(r)
       ELSE /\ IF Bookkeeping \in objects THEN UNCHANGED made ELSE Make(r, Bookkeeping)
            /\ Advance(r, "look")
            /\ UNCHANGED <<next, objects, version, lock>>

LookForVersion(r) ==
  /\ progress[r] = "look"
  /\ Advance(r, IF version THEN "commit" ELSE "script")
  /\ UNCHANGED <<next, made, objects, version, lock>>

(* Mutant: the script runs in autocommit mode. *)
CreateAndCommit(r) ==
  /\ progress[r] = "script"
  /\ Script[next[r]] \notin objects /\ ~Blocked(r, Script[next[r]])
  /\ objects' = objects \cup {Script[next[r]]}
  /\ next' = [next EXCEPT ![r] = @ + 1]
  /\ Advance(r, IF next[r] = Len(Script) THEN "record" ELSE "script")
  /\ UNCHANGED <<made, version, lock>>

Create(r) ==
  /\ progress[r] = "script"
  /\ ~Blocked(r, Script[next[r]])
  /\ IF Script[next[r]] \in objects
       THEN Fail(r)
       ELSE /\ Make(r, Script[next[r]])
            /\ next' = [next EXCEPT ![r] = @ + 1]
            /\ Advance(r, IF next[r] = Len(Script) THEN "record" ELSE "script")
            /\ UNCHANGED <<objects, version, lock>>

RecordVersion(r) ==
  /\ progress[r] = "record"
  /\ IF version
       THEN Fail(r)
       ELSE /\ Advance(r, "commit")
            /\ UNCHANGED <<next, made, objects, version, lock>>

(* A replica that ran the script has its version row among what it commits. *)
(* The process can end before it learns that COMMIT succeeded.              *)
CommitMigration(r) ==
  /\ progress[r] = "commit"
  /\ objects' = objects \cup made[r]
  /\ version' = (version \/ next[r] > Len(Script))
  /\ \E label \in {"serving", "off"} : End(r, label)

(* Mutant: the lock outlives the process. *)
CrashHoldingLock(r) ==
  /\ progress[r] # "off"
  /\ Advance(r, "off")
  /\ next' = [next EXCEPT ![r] = 1]
  /\ made' = [made EXCEPT ![r] = {}]
  /\ UNCHANGED <<objects, version, lock>>

(* The process or its connection dies; an orchestrator starts it again. *)
Crash(r) ==
  /\ progress[r] # "off"
  /\ End(r, "off")
  /\ UNCHANGED <<objects, version>>

MigrationStep(r) == CreateBookkeeping(r) \/ LookForVersion(r) \/ Create(r) \/ RecordVersion(r)
                      \/ CommitMigration(r)

MigrationNext ==
  \E r \in Replicas : StartReplica(r) \/ LockMigration(r) \/ MigrationStep(r) \/ Crash(r)

MigrationSpec == MigrationInit /\ [][MigrationNext]_migrationVars

(* PostgreSQL executes what it is sent, and hands the lock to its waiters in *)
(* the order they came.                                                      *)
MigrationFairSpec ==
  /\ MigrationSpec
  /\ \A r \in Replicas : WF_migrationVars(MigrationStep(r)) /\ SF_migrationVars(LockMigration(r))

-----------------------------------------------------------------------------
MigrationTypeOK ==
  /\ progress \in [Replicas -> Starting \cup {"off", "serving", "failed"}]
  /\ next \in [Replicas -> 1..(Len(Script) + 1)]
  /\ made \in [Replicas -> SUBSET Objects]
  /\ objects \subseteq Objects
  /\ version \in BOOLEAN
  /\ lock \in Replicas \cup {Nobody}
  /\ lock # Nobody => progress[lock] \in Locked

(* "This lets many replicas start together ... without double-applying a    *)
(* schema version": no start ever meets what another start created.         *)
StartsNeverCollide == \A r \in Replicas : progress[r] # "failed"

(* readiness() looks at three tables and the version; a replica that serves *)
(* also has the indexes and the view its queries need.                      *)
Ready ==
  /\ {"dim_case", "fact_case_status_event", "ingestion_receipt"} \subseteq objects
  /\ version
ServingMeansUsable ==
  /\ Ready => objects = Objects
  /\ \A r \in Replicas : progress[r] = "serving" => Ready

(* The schema appears whole, with its version, in one step, and once. *)
AppliedOnce ==
  [][objects' # objects \/ version' # version =>
       objects = {} /\ objects' = Objects /\ ~version /\ version']_migrationVars

(* Every start ends in a serving replica, or in a dead one. *)
EveryStartEnds ==
  \A r \in Replicas : progress[r] \in Starting ~> progress[r] \in {"serving", "off"}
=============================================================================
