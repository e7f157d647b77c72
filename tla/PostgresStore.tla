---------------------------- MODULE PostgresStore ----------------------------
(***************************************************************************)
(* civicflow.postgres_store.PostgresCaseStore.ingest under any number of   *)
(* API replicas.  One session is one invocation: its own connection and    *)
(* one READ COMMITTED transaction that takes the advisory lock of its      *)
(* request key, looks the receipt up, inserts the rows one statement at a  *)
(* time in payload order, inserts the receipt and commits.                 *)
(*                                                                         *)
(* Of PostgreSQL the model keeps what ingest() relies on: an advisory lock *)
(* and the uncommitted rows of a transaction are released together when it *)
(* ends; an INSERT whose key another transaction holds uncommitted waits   *)
(* for that transaction; one whose key is committed raises IntegrityError; *)
(* and of the transactions waiting for each other in a circle one is       *)
(* aborted with DeadlockDetected, which is not an IntegrityError.          *)
(***************************************************************************)
EXTENDS Batches

CONSTANT LockOf   \* hashtextextended(request_id, 0): keys may collide

VARIABLES
  stored,       \* committed rows of dim_case and fact_case_status_event
  receipts,     \* committed rows of ingestion_receipt
  pc,           \* the statement each session issues next
  call,         \* its arguments
  inserted,     \* how many rows of its batch it has inserted, uncommitted
  result,       \* what it returns or raises
  answered      \* history: the 201, 200 and 409 answers callers received

vars == <<stored, receipts, pc, call, inserted, result, answered>>

(* The abstract store: a call is open until its transaction has ended. *)
Ledger == INSTANCE CaseStore WITH
  phase <- [s \in Sessions |-> IF pc[s] \in {"idle", "done"} THEN pc[s] ELSE "open"]

PCs == {"idle", "lock", "lookup", "insert", "commit", "done"}
InTransaction(s) == pc[s] \in {"lookup", "insert", "commit"}

Key(s)   == call[s].key
Batch(s) == call[s].payload
Lock(s)  == LockOf[Key(s)]

(* What a transaction holds until it ends. *)
HoldsLock(s, l) == InTransaction(s) /\ Lock(s) = l
Pending(s) ==
  IF pc[s] \in {"insert", "commit"} THEN {Plan(Batch(s))[i] : i \in 1..inserted[s]} ELSE {}
HoldsReceipt(s, k) == pc[s] = "commit" /\ Key(s) = k

RowsDone(s) == inserted[s] = Len(Plan(Batch(s)))
NextRow(s)  == Plan(Batch(s))[inserted[s] + 1]

-----------------------------------------------------------------------------
Init ==
  /\ stored = [r \in RowIds |-> None]
  /\ receipts = [k \in Keys |-> None]
  /\ pc = [s \in Sessions |-> "idle"]
  /\ call = [s \in Sessions |-> None]
  /\ inserted = [s \in Sessions |-> 0]
  /\ result = [s \in Sessions |-> None]
  /\ answered = {}

Goto(s, label) == pc' = [pc EXCEPT ![s] = label]

(* The transaction ends: its locks and uncommitted rows go with it. *)
Finish(s, r) ==
  /\ Goto(s, "done")
  /\ inserted' = [inserted EXCEPT ![s] = 0]
  /\ result' = [result EXCEPT ![s] = r]
  /\ UNCHANGED <<call, answered>>

Rollback(s, r) == Finish(s, r) /\ UNCHANGED <<stored, receipts>>

Call(s, k, p) ==
  /\ pc[s] = "idle"
  /\ Goto(s, "lock")
  /\ call' = [call EXCEPT ![s] = [key |-> k, payload |-> p]]
  /\ UNCHANGED <<stored, receipts, inserted, result, answered>>

(* Mutant: pg_try_advisory_xact_lock with its answer ignored. *)
AcquireLockAnyway(s) ==
  /\ pc[s] = "lock"
  /\ Goto(s, "lookup")
  /\ UNCHANGED <<stored, receipts, call, inserted, result, answered>>

(* SELECT pg_advisory_xact_lock(hashtextextended(request_id, 0)) *)
AcquireLock(s) ==
  /\ pc[s] = "lock"
  /\ \A t \in Sessions : ~HoldsLock(t, Lock(s))
  /\ Goto(s, "lookup")
  /\ UNCHANGED <<stored, receipts, call, inserted, result, answered>>

(* SELECT ... FROM ingestion_receipt, and the three ways on from it. *)
FindNoReceipt(s) ==
  /\ pc[s] = "lookup"
  /\ receipts[Key(s)] = None
  /\ Goto(s, "insert")
  /\ UNCHANGED <<stored, receipts, call, inserted, result, answered>>

ReplayReceipt(s) ==
  /\ pc[s] = "lookup"
  /\ receipts[Key(s)] # None
  /\ SameBatch(receipts[Key(s)], Batch(s))
  /\ Rollback(s, Replayed(receipts[Key(s)]))

RejectReusedKey(s) ==
  /\ pc[s] = "lookup"
  /\ receipts[Key(s)] # None
  /\ ~SameBatch(receipts[Key(s)], Batch(s))
  /\ Rollback(s, Conflict)

(* Mutant: the primary key is not enforced against uncommitted rows. *)
InsertRowUnchecked(s) ==
  /\ pc[s] = "insert" /\ ~RowsDone(s)
  /\ stored[NextRow(s)] = None
  /\ inserted' = [inserted EXCEPT ![s] = @ + 1]
  /\ UNCHANGED <<stored, receipts, pc, call, result, answered>>

InsertRow(s) ==
  /\ pc[s] = "insert" /\ ~RowsDone(s)
  /\ stored[NextRow(s)] = None
  /\ \A t \in Sessions \ {s} : NextRow(s) \notin Pending(t)
  /\ inserted' = [inserted EXCEPT ![s] = @ + 1]
  /\ UNCHANGED <<stored, receipts, pc, call, result, answered>>

InsertReceipt(s) ==
  /\ pc[s] = "insert" /\ RowsDone(s)
  /\ receipts[Key(s)] = None
  /\ \A t \in Sessions \ {s} : ~HoldsReceipt(t, Key(s))
  /\ Goto(s, "commit")
  /\ UNCHANGED <<stored, receipts, call, inserted, result, answered>>

(* psycopg.IntegrityError, whichever unique key the statement ran into. *)
ViolateUnique(s) ==
  /\ pc[s] = "insert"
  /\ IF RowsDone(s) THEN receipts[Key(s)] # None ELSE stored[NextRow(s)] # None
  /\ Rollback(s, Conflict)

(* The connection commits when its "with" block ends; when the server is   *)
(* lost before it confirms, the caller gets an error although it committed. *)
Commit(s) ==
  /\ pc[s] = "commit"
  /\ stored' = WithBatch(stored, Batch(s))
  /\ receipts' = [receipts EXCEPT ![Key(s)] = Batch(s)]
  /\ \E r \in {Accepted(Batch(s)), Error} : Finish(s, r)

(* t holds the unique key that s's next statement needs. *)
WaitsFor(s, t) ==
  /\ s # t /\ pc[s] = "insert"
  /\ IF RowsDone(s) THEN HoldsReceipt(t, Key(s)) ELSE NextRow(s) \in Pending(t)

(* s is on a circle of waiting transactions: every member waits for one    *)
(* member, and every member is waited for by one.                          *)
OnWaitCycle(s) ==
  \E C \in SUBSET Sessions :
    /\ s \in C
    /\ \A t \in C : (\E u \in C : WaitsFor(t, u)) /\ (\E u \in C : WaitsFor(u, t))

(* Mutant: DeadlockDetected is caught and the statement issued again. *)
RetryDeadlock(s) == OnWaitCycle(s) /\ UNCHANGED vars

(* DeadlockDetected passes both except clauses of ingest(). *)
AbortDeadlock(s) ==
  /\ OnWaitCycle(s)
  /\ Rollback(s, Error)

(* The server or the connection to it fails. *)
LoseDatabase(s) ==
  /\ pc[s] \notin {"idle", "done"}
  /\ Rollback(s, Error)

Hangup(s) ==
  /\ Goto(s, "idle")
  /\ call' = [call EXCEPT ![s] = None]
  /\ inserted' = [inserted EXCEPT ![s] = 0]
  /\ result' = [result EXCEPT ![s] = None]
  /\ UNCHANGED <<stored, receipts>>

Answer(s) ==
  /\ pc[s] = "done"
  /\ answered' = IF result[s].kind = "error" THEN answered
                 ELSE answered \cup {AnswerTo(call[s], result[s])}
  /\ Hangup(s)

(* The replica dies; the server rolls an open transaction back. *)
CrashReplica(s) ==
  /\ pc[s] # "idle"
  /\ Hangup(s)
  /\ UNCHANGED answered

Statement(s) ==
  \/ FindNoReceipt(s)
  \/ ReplayReceipt(s)
  \/ RejectReusedKey(s)
  \/ InsertRow(s)
  \/ InsertReceipt(s)
  \/ ViolateUnique(s)
  \/ Commit(s)

Next ==
  \E s \in Sessions :
    \/ \E k \in Keys, p \in Payloads : Call(s, k, p)
    \/ AcquireLock(s)
    \/ Statement(s)
    \/ AbortDeadlock(s)
    \/ LoseDatabase(s)
    \/ Answer(s)
    \/ CrashReplica(s)

Spec == Init /\ [][Next]_vars

(* A running session issues its next statement when nothing blocks it, the *)
(* server breaks every circle after deadlock_timeout and grants locks in   *)
(* queue order.  Nothing obliges a call, a failure or a crash to happen.   *)
Fairness ==
  \A s \in Sessions :
    /\ SF_vars(AcquireLock(s))
    /\ SF_vars(Statement(s))
    /\ WF_vars(AbortDeadlock(s))
    /\ WF_vars(Answer(s))

FairSpec == Spec /\ Fairness

-----------------------------------------------------------------------------
TypeOK ==
  /\ stored \in [RowIds -> Payloads \cup {None}]
  /\ receipts \in [Keys -> Payloads \cup {None}]
  /\ pc \in [Sessions -> PCs]
  /\ call \in [Sessions -> Calls \cup {None}]
  /\ inserted \in [Sessions -> Nat]
  /\ result \in [Sessions -> Results \cup {None}]
  /\ answered \subseteq Answers
  /\ \A s \in Sessions :
       /\ pc[s] # "idle" => call[s] \in Calls
       /\ pc[s] = "done" => result[s] \in Results
       /\ pc[s] \notin {"insert", "commit"} => inserted[s] = 0
       /\ pc[s] \in {"insert", "commit"} => inserted[s] <= Len(Plan(Batch(s)))
       /\ pc[s] = "commit" => RowsDone(s)

(* The three facts the proofs rest on.  One transaction at a time works    *)
(* under an advisory lock.                                                 *)
LockIsExclusive ==
  \A s, t \in Sessions :
    s # t /\ InTransaction(s) /\ InTransaction(t) => Lock(s) # Lock(t)

(* What a transaction has read stays true until it ends: the receipt it    *)
(* found missing is still missing when it inserts and commits its own.     *)
LookupStaysValid ==
  \A s \in Sessions : pc[s] \in {"insert", "commit"} => receipts[Key(s)] = None

(* No uncommitted row collides with a committed or another uncommitted one. *)
PendingIsFresh ==
  \A s \in Sessions :
    /\ \A r \in Pending(s) : stored[r] = None
    /\ \A t \in Sessions \ {s} : Pending(s) \cap Pending(t) = {}

(* Transactions neither see nor disturb each other's work. *)
TransactionsAreIsolated == LockIsExclusive /\ LookupStaysValid /\ PendingIsFresh

(* The advisory lock is what makes a duplicate request a replay: two calls *)
(* for one key never deadlock with each other and never meet in the unique *)
(* index of ingestion_receipt, so a circle always spans several keys.      *)
DeadlockSpansKeys ==
  \A s \in Sessions : OnWaitCycle(s) =>
    /\ ~RowsDone(s)
    /\ \A t \in Sessions : WaitsFor(s, t) => Lock(s) # Lock(t)

(* A caller is refused only for good: a request that is in truth a          *)
(* repetition is never answered 409, however it races with the first, and a *)
(* batch refused once is never stored under that key later.                 *)
RefusalsAreFinal == Ledger!ConflictIsFinal

(* The abstract store is implemented, step by step. *)
ImplementsLedger == Ledger!Spec

(* Every call comes to an end: circles are broken, locks are handed on and *)
(* each worker gets back to serving the next request.                      *)
EveryCallEnds == \A s \in Sessions : pc[s] # "idle" ~> pc[s] = "idle"
=============================================================================
