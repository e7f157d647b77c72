----------------------------- MODULE SqliteStore -----------------------------
(***************************************************************************)
(* The SQLite warehouse: warehouse.ingest_case_batch behind SQLiteCaseStore *)
(* and, on the same file, warehouse.load_warehouse as the analytics        *)
(* pipeline (cli.main) and the dashboard's first start                     *)
(* (dashboard.ensure_demo_database) call it.                               *)
(*                                                                         *)
(* SQLite has one writer: BEGIN IMMEDIATE, or the first DELETE of a        *)
(* deferred transaction, takes the write lock or gives up when the busy    *)
(* timeout (15 s, 5 s by default) has passed.  Nothing a writer does is    *)
(* visible, or survives a crash, before it commits.                        *)
(***************************************************************************)
EXTENDS Batches, FiniteSets

CONSTANTS
  Pipelines,    \* runs of the civicflow command
  Dashboards,   \* dashboard processes
  Generated     \* the synthetic batches generate_cases may produce

Refreshers == Pipelines \cup Dashboards

VARIABLES
  exists,       \* the database file is there, with its schema
  stored,       \* committed rows of dim_case and fact_case_status_event
  receipts,     \* committed rows of ingestion_receipt
  pc, call, result, answered,   \* sessions of ingest_case_batch
  rpc,          \* progress of each load_warehouse call
  batch         \* the data set it loads

storeVars   == <<exists, stored, receipts>>
sessionVars == <<pc, call, result, answered>>
refreshVars == <<rpc, batch>>
vars == <<storeVars, sessionVars, refreshVars>>

Ledger == INSTANCE CaseStore WITH
  phase <- [s \in Sessions |-> IF pc[s] \in {"idle", "done"} THEN pc[s] ELSE "open"]

ASSUME RefreshAssumption == Generated \subseteq Payloads /\ Refreshers \cap Sessions = {}

Key(s)   == call[s].key
Batch(s) == call[s].payload

Writing(s)    == pc[s] \in {"lookup", "insert", "commit"}
Refreshing(r) == rpc[r] = "commit"
WriterFree == /\ \A s \in Sessions : ~Writing(s)
              /\ \A r \in Refreshers : ~Refreshing(r)

-----------------------------------------------------------------------------
Init ==
  /\ exists = FALSE
  /\ stored = [r \in RowIds |-> None]
  /\ receipts = [k \in Keys |-> None]
  /\ pc = [s \in Sessions |-> "idle"]
  /\ call = [s \in Sessions |-> None]
  /\ result = [s \in Sessions |-> None]
  /\ answered = {}
  /\ rpc = [r \in Refreshers |-> "idle"]
  /\ batch = [r \in Refreshers |-> None]

(* create_app: the schema is there before the first request is served. *)
StartApi ==
  /\ ~exists
  /\ exists' = TRUE
  /\ UNCHANGED <<stored, receipts, sessionVars, refreshVars>>

Goto(s, label) ==
  /\ pc' = [pc EXCEPT ![s] = label]
  /\ UNCHANGED <<exists, call, answered, refreshVars>>

Finish(s, r) == Goto(s, "done") /\ result' = [result EXCEPT ![s] = r]

Rollback(s, r) == Finish(s, r) /\ UNCHANGED <<stored, receipts>>

Call(s, k, p) ==
  /\ exists
  /\ pc[s] = "idle"
  /\ pc' = [pc EXCEPT ![s] = "begin"]
  /\ call' = [call EXCEPT ![s] = [key |-> k, payload |-> p]]
  /\ UNCHANGED <<storeVars, result, answered, refreshVars>>

(* Mutant: a deferred BEGIN reads the receipt before it locks. *)
BeginDeferred(s) ==
  /\ pc[s] = "begin"
  /\ Goto(s, "lookup")
  /\ UNCHANGED <<stored, receipts, result>>

(* initialize_warehouse finds its tables; BEGIN IMMEDIATE gets the lock. *)
BeginImmediate(s) ==
  /\ pc[s] = "begin"
  /\ WriterFree
  /\ Goto(s, "lookup")
  /\ UNCHANGED <<stored, receipts, result>>

FindNoReceipt(s) ==
  /\ pc[s] = "lookup"
  /\ receipts[Key(s)] = None
  /\ Goto(s, "insert")
  /\ UNCHANGED <<stored, receipts, result>>

ReplayReceipt(s) ==
  /\ pc[s] = "lookup"
  /\ receipts[Key(s)] # None
  /\ SameBatch(receipts[Key(s)], Batch(s))
  /\ Rollback(s, Replayed(receipts[Key(s)]))

RejectReusedKey(s) ==
  /\ pc[s] = "lookup"
  /\ receipts[Key(s)] # None
  /\ ~SameBatch(receipts[Key(s)], Batch(s))
  /\ Rollback(s, Conflict)

(* Both executemany calls and the receipt, under the write lock. *)
InsertBatch(s) ==
  /\ pc[s] = "insert"
  /\ receipts[Key(s)] = None
  /\ \A r \in Rows(Batch(s)) : stored[r] = None
  /\ Goto(s, "commit")
  /\ UNCHANGED <<stored, receipts, result>>

(* sqlite3.IntegrityError *)
ViolateUnique(s) ==
  /\ pc[s] = "insert"
  /\ receipts[Key(s)] # None \/ \E r \in Rows(Batch(s)) : stored[r] # None
  /\ Rollback(s, Conflict)

Commit(s) ==
  /\ pc[s] = "commit"
  /\ stored' = WithBatch(stored, Batch(s))
  /\ receipts' = [receipts EXCEPT ![Key(s)] = Batch(s)]
  /\ Finish(s, Accepted(Batch(s)))

(* Mutant: no busy timeout, the connection polls for ever. *)
PollForever(s) ==
  /\ \/ pc[s] = "begin" /\ ~WriterFree
     \/ pc[s] = "commit"
  /\ UNCHANGED vars

(* "database is locked": the busy timeout passed before the write lock was *)
(* free, or at COMMIT before the last reader had gone.                     *)
BusyTimeout(s) ==
  /\ \/ pc[s] = "begin" /\ ~WriterFree
     \/ pc[s] = "commit"
  /\ Rollback(s, Error)

Hangup(s) ==
  /\ pc' = [pc EXCEPT ![s] = "idle"]
  /\ call' = [call EXCEPT ![s] = None]
  /\ result' = [result EXCEPT ![s] = None]
  /\ UNCHANGED <<storeVars, refreshVars>>

Answer(s) ==
  /\ pc[s] = "done"
  /\ answered' = IF result[s].kind = "error" THEN answered
                 ELSE answered \cup {AnswerTo(call[s], result[s])}
  /\ Hangup(s)

(* The process dies; the journal undoes what it had not committed. *)
Crash(s) ==
  /\ pc[s] # "idle"
  /\ Hangup(s)
  /\ UNCHANGED answered

-----------------------------------------------------------------------------
Advance(r, label) ==
  /\ rpc' = [rpc EXCEPT ![r] = label]
  /\ UNCHANGED sessionVars

(* cli.main always loads its data set into <output_dir>/civicflow.db. *)
StartPipeline(r) ==
  /\ r \in Pipelines /\ rpc[r] = "idle"
  /\ Advance(r, "schema")
  /\ UNCHANGED <<storeVars, batch>>

(* ensure_demo_database looks for the file, then generates 5,000 cases. *)
FindNoDatabase(r) ==
  /\ r \in Dashboards /\ rpc[r] = "idle"
  /\ ~exists
  /\ Advance(r, "schema")
  /\ UNCHANGED <<storeVars, batch>>

CreateSchema(r) ==
  /\ rpc[r] = "schema"
  /\ Advance(r, "replace")
  /\ exists' = TRUE
  /\ UNCHANGED <<stored, receipts, batch>>

(* DELETE of all three tables and the inserts, in one transaction. *)
ReplaceAll(r, g) ==
  /\ rpc[r] = "replace"
  /\ WriterFree
  /\ Advance(r, "commit")
  /\ batch' = [batch EXCEPT ![r] = g]
  /\ UNCHANGED storeVars

(* Mutant: the receipts survive the rows they vouch for. *)
CommitReplaceRowsOnly(r) ==
  /\ rpc[r] = "commit"
  /\ stored' = [x \in RowIds |-> IF x \in Rows(batch[r]) THEN batch[r] ELSE None]
  /\ Advance(r, "idle")
  /\ batch' = [batch EXCEPT ![r] = None]
  /\ UNCHANGED <<exists, receipts>>

CommitReplace(r) ==
  /\ rpc[r] = "commit"
  /\ stored' = [x \in RowIds |-> IF x \in Rows(batch[r]) THEN batch[r] ELSE None]
  /\ receipts' = [k \in Keys |-> None]
  /\ Advance(r, "idle")
  /\ batch' = [batch EXCEPT ![r] = None]
  /\ UNCHANGED exists

AbandonReplace(r) ==
  /\ rpc[r] # "idle"
  /\ Advance(r, "idle")
  /\ batch' = [batch EXCEPT ![r] = None]
  /\ UNCHANGED storeVars

-----------------------------------------------------------------------------
Ingest(s) ==
  \/ BeginImmediate(s)
  \/ FindNoReceipt(s)
  \/ ReplayReceipt(s)
  \/ RejectReusedKey(s)
  \/ InsertBatch(s)
  \/ ViolateUnique(s)
  \/ Commit(s)
  \/ BusyTimeout(s)
  \/ Answer(s)

Refresh(r) ==
  \/ CreateSchema(r)
  \/ \E g \in Generated : ReplaceAll(r, g)
  \/ CommitReplace(r)
  \/ AbandonReplace(r)

Next ==
  \/ StartApi
  \/ \E s \in Sessions :
       \/ \E k \in Keys, p \in Payloads : Call(s, k, p)
       \/ Ingest(s)
       \/ Crash(s)
  \/ \E r \in Refreshers : StartPipeline(r) \/ FindNoDatabase(r) \/ Refresh(r)

Spec == Init /\ [][Next]_vars

(* A started call or refresh goes on: it gets the lock or times out. *)
FairSpec ==
  /\ Spec
  /\ \A s \in Sessions : WF_vars(Ingest(s))
  /\ \A r \in Refreshers : WF_vars(Refresh(r))

-----------------------------------------------------------------------------
TypeOK ==
  /\ exists \in BOOLEAN
  /\ stored \in [RowIds -> Payloads \cup {None}]
  /\ receipts \in [Keys -> Payloads \cup {None}]
  /\ pc \in [Sessions -> {"idle", "begin", "lookup", "insert", "commit", "done"}]
  /\ call \in [Sessions -> Calls \cup {None}]
  /\ result \in [Sessions -> Results \cup {None}]
  /\ answered \subseteq Answers
  /\ rpc \in [Refreshers -> {"idle", "schema", "replace", "commit"}]
  /\ batch \in [Refreshers -> Generated \cup {None}]
  /\ \A s \in Sessions : /\ pc[s] # "idle" => call[s] \in Calls
                         /\ pc[s] = "done" => result[s] \in Results
  /\ \A r \in Refreshers : rpc[r] = "commit" => batch[r] # None

(* No state of the warehouse mixes data sets: whatever refreshes and       *)
(* ingestions interleave, a row is there with the whole of its batch, and  *)
(* a receipt only with the rows it vouches for; and at most one data set is *)
(* without a receipt, the one loaded last.                                 *)
BatchesAreWhole ==
  /\ \A r \in RowIds : stored[r] # None =>
       \A q \in Rows(stored[r]) : stored[q] = stored[r]
  /\ \A k \in Keys : receipts[k] # None =>
       \A q \in Rows(receipts[k]) : stored[q] = receipts[k]
  /\ LET loose == {stored[r] : r \in RowIds} \ ({receipts[k] : k \in Keys} \cup {None})
     IN  loose \subseteq Generated /\ Cardinality(loose) <= 1

(* The warehouse is the store the API was promised: whatever writers,       *)
(* timeouts and crashes do, only the commit of a refresh changes the ledger *)
(* in another way than CaseStore does.                                      *)
RefreshCommits == \E r \in Refreshers : Refreshing(r) /\ rpc'[r] = "idle"
ImplementsLedger == Ledger!Init /\ [][Ledger!Next \/ RefreshCommits]_(Ledger!vars)

(* Every call and every refresh ends, lock or timeout. *)
EveryWriterEnds ==
  /\ \A s \in Sessions : pc[s] # "idle" ~> pc[s] = "idle"
  /\ \A r \in Refreshers : rpc[r] # "idle" ~> rpc[r] = "idle"
=============================================================================
