---------------------------- MODULE PostgresProofs ----------------------------
(***************************************************************************)
(* Proofs about the programs that share a PostgreSQL database:             *)
(*   PostgresStore      any replicas, keys, batches and lock hashing keep  *)
(*                      transactions apart and implement CaseStore;        *)
(*   SchemaMigration    any number of replicas that start together;        *)
(*   RecoveryRehearsal  any number of rehearsals, scratch names and        *)
(*                      commits of ingestion.                              *)
(***************************************************************************)
EXTENDS PostgresStore, SchemaMigration, RecoveryRehearsal, TLAPS

(* The inductive invariant: the lock makes what the lookup read stay true, *)
(* and the unique indexes make uncommitted rows fresh, so a commit stores  *)
(* a whole batch into free space.                                          *)
IInv == TypeOK /\ LockIsExclusive /\ LookupStaysValid /\ PendingIsFresh

-----------------------------------------------------------------------------
(* The rows of a batch, in insertion order, are row ids. *)
LEMMA PlanType ==
  \A p \in Payloads :
    /\ Plan(p) \in Seq(RowIds)
    /\ Len(Plan(p)) \in Nat
    /\ DOMAIN Plan(p) = 1..Len(Plan(p))
    /\ Rows(p) \subseteq RowIds
<1> SUFFICES ASSUME NEW p \in Payloads
             PROVE  /\ Plan(p) \in Seq(RowIds)
                    /\ Len(Plan(p)) \in Nat
                    /\ DOMAIN Plan(p) = 1..Len(Plan(p))
                    /\ Rows(p) \subseteq RowIds
  OBVIOUS
<1>1. CaseOrder[p] \in Seq(RowIds) /\ EventOrder[p] \in Seq(RowIds)
  BY OrderAssumption DEF RowIds
<1>2. Plan(p) \in Seq(RowIds)
  BY <1>1 DEF Plan
<1> QED
  BY <1>2 DEF Rows

(* The initial states are well typed. *)
LEMMA InitType == Init => TypeOK
  BY DEF Init, TypeOK, PCs, Calls, Results, Answers

(* Every step preserves the types. *)
LEMMA NextType == TypeOK /\ [Next]_vars => TypeOK'
<1> SUFFICES ASSUME TypeOK, [Next]_vars PROVE TypeOK'
  OBVIOUS
<1> USE DEF TypeOK, PCs, Goto
<1>c. \A s \in Sessions : pc[s] # "idle" =>
        /\ call[s] \in [key : Keys, payload : Payloads]
        /\ Key(s) \in Keys /\ Batch(s) \in Payloads
  BY DEF Calls, Key, Batch
<1>r. /\ Conflict \in Results /\ Error \in Results
      /\ \A p \in Payloads : Accepted(p) \in Results /\ Replayed(p) \in Results
  BY DEF Conflict, Error, Accepted, Replayed, Results, Kinds
<1>f. ASSUME NEW s \in Sessions, pc[s] # "idle", NEW r \in Results, Finish(s, r),
             stored' \in [RowIds -> Payloads \cup {None}], receipts' \in [Keys -> Payloads \cup {None}]
      PROVE  TypeOK'
  BY <1>f DEF Finish, Batch, RowsDone
<1>1. ASSUME NEW s \in Sessions, NEW k \in Keys, NEW p \in Payloads, Call(s, k, p)
      PROVE TypeOK'
  BY <1>1 DEF Call, Calls, Batch, RowsDone
<1>2. ASSUME NEW s \in Sessions, AcquireLock(s) PROVE TypeOK'
  BY <1>2 DEF AcquireLock, Batch, RowsDone
<1>3. ASSUME NEW s \in Sessions, FindNoReceipt(s) PROVE TypeOK'
  BY <1>3, <1>c, PlanType DEF FindNoReceipt, Batch, RowsDone
<1>4. ASSUME NEW s \in Sessions, ReplayReceipt(s) PROVE TypeOK'
  <2>1. receipts[Key(s)] \in Payloads /\ pc[s] # "idle"
    BY <1>4, <1>c DEF ReplayReceipt
  <2> QED
    BY <1>4, <1>f, <1>r, <2>1 DEF ReplayReceipt, Rollback
<1>5. ASSUME NEW s \in Sessions, RejectReusedKey(s) \/ ViolateUnique(s) PROVE TypeOK'
  <2>1. pc[s] # "idle" /\ Rollback(s, Conflict)
    BY <1>5 DEF RejectReusedKey, ViolateUnique
  <2> QED
    BY <2>1, <1>f, <1>r DEF Rollback
<1>6. ASSUME NEW s \in Sessions, InsertRow(s) PROVE TypeOK'
  <2>1. Len(Plan(Batch(s))) \in Nat /\ inserted[s] < Len(Plan(Batch(s)))
    BY <1>6, <1>c, PlanType DEF InsertRow, RowsDone
  <2> QED
    BY <1>6, <2>1 DEF InsertRow, Batch, RowsDone
<1>7. ASSUME NEW s \in Sessions, InsertReceipt(s) PROVE TypeOK'
  BY <1>7 DEF InsertReceipt, Batch, RowsDone
<1>8. ASSUME NEW s \in Sessions, Commit(s) PROVE TypeOK'
  <2>1. pc[s] # "idle" /\ Batch(s) \in Payloads /\ Key(s) \in Keys
    BY <1>8, <1>c DEF Commit
  <2>2. stored' \in [RowIds -> Payloads \cup {None}] /\ receipts' \in [Keys -> Payloads \cup {None}]
    BY <1>8, <2>1 DEF Commit, WithBatch
  <2>3. PICK r \in Results : Finish(s, r)
    BY <1>8, <1>r, <2>1 DEF Commit
  <2> QED
    BY <1>f, <2>1, <2>2, <2>3
<1>9. ASSUME NEW s \in Sessions, AbortDeadlock(s) \/ LoseDatabase(s) PROVE TypeOK'
  <2>1. pc[s] # "idle" /\ Rollback(s, Error)
    BY <1>9 DEF AbortDeadlock, LoseDatabase, OnWaitCycle, WaitsFor
  <2> QED
    BY <2>1, <1>f, <1>r DEF Rollback
<1>10. ASSUME NEW s \in Sessions, Answer(s) PROVE TypeOK'
  <2>1. call[s] \in Calls /\ result[s] \in Results
    BY <1>10 DEF Answer
  <2>2. answered' \subseteq Answers
    BY <1>10, <2>1 DEF Answer, AnswerTo, Answers, Results
  <2> QED
    BY <1>10, <2>2 DEF Answer, Hangup, Batch, RowsDone
<1>11. ASSUME NEW s \in Sessions, CrashReplica(s) PROVE TypeOK'
  BY <1>11 DEF CrashReplica, Hangup, Batch, RowsDone
<1>12. CASE UNCHANGED vars
  BY <1>12 DEF vars, Batch, RowsDone
<1> QED
  BY <1>1, <1>2, <1>3, <1>4, <1>5, <1>6, <1>7, <1>8, <1>9, <1>10, <1>11, <1>12
  DEF Next, Statement

-----------------------------------------------------------------------------
(* The other sessions stay where they are. *)
Aside(s) ==
  \A t \in Sessions \ {s} :
    pc'[t] = pc[t] /\ call'[t] = call[t] /\ inserted'[t] = inserted[t]

(* s is outside a transaction afterwards and the store is as it was. *)
Leaves(s) ==
  /\ pc'[s] \notin {"lookup", "insert", "commit"}
  /\ UNCHANGED <<stored, receipts>>

(* The steps that matter to the invariant, and what they have in common. *)
LEMMA StepKinds ==
  ASSUME TypeOK, Next
  PROVE  \E s \in Sessions :
           /\ Aside(s)
           /\ \/ Leaves(s)
              \/ AcquireLock(s) \/ FindNoReceipt(s) \/ InsertRow(s) \/ InsertReceipt(s) \/ Commit(s)
<1> USE DEF Aside, Leaves, TypeOK, Goto
<1>1. ASSUME NEW s \in Sessions, NEW k \in Keys, NEW p \in Payloads, Call(s, k, p)
      PROVE  Aside(s) /\ Leaves(s)
  BY <1>1 DEF Call
<1>2. ASSUME NEW s \in Sessions, AcquireLock(s) \/ FindNoReceipt(s) \/ InsertRow(s) \/ InsertReceipt(s)
      PROVE  Aside(s)
  BY <1>2 DEF AcquireLock, FindNoReceipt, InsertRow, InsertReceipt
<1>3. ASSUME NEW s \in Sessions, Commit(s) PROVE Aside(s)
  BY <1>3 DEF Commit, Finish
<1>4. ASSUME NEW s \in Sessions, NEW r, Rollback(s, r) PROVE Aside(s) /\ Leaves(s)
  BY <1>4 DEF Rollback, Finish
<1>5. ASSUME NEW s \in Sessions, Hangup(s) PROVE Aside(s) /\ Leaves(s)
  BY <1>5 DEF Hangup
<1>6. ASSUME NEW s \in Sessions,
             ReplayReceipt(s) \/ RejectReusedKey(s) \/ ViolateUnique(s) \/ AbortDeadlock(s) \/ LoseDatabase(s)
      PROVE  Aside(s) /\ Leaves(s)
  <2>1. \E r : Rollback(s, r)
    BY <1>6 DEF ReplayReceipt, RejectReusedKey, ViolateUnique, AbortDeadlock, LoseDatabase
  <2> QED
    BY <1>4, <2>1
<1>7. ASSUME NEW s \in Sessions, Answer(s) \/ CrashReplica(s) PROVE Aside(s) /\ Leaves(s)
  BY <1>5, <1>7 DEF Answer, CrashReplica
<1> HIDE DEF Aside, Leaves, TypeOK
<1> QED
  BY <1>1, <1>2, <1>3, <1>6, <1>7 DEF Next, Statement

(* The advisory lock is handed on, never shared. *)
LEMMA LockStep ==
  ASSUME TypeOK, LockIsExclusive, Next
  PROVE  LockIsExclusive'
<1>1. PICK s \in Sessions :
        /\ Aside(s)
        /\ \/ Leaves(s)
           \/ AcquireLock(s) \/ FindNoReceipt(s) \/ InsertRow(s) \/ InsertReceipt(s) \/ Commit(s)
  BY StepKinds
<1>2. ASSUME NEW t \in Sessions \ {s}
      PROVE  InTransaction(t)' = InTransaction(t) /\ Lock(t)' = Lock(t)
  BY <1>1 DEF Aside, InTransaction, Lock, Key
<1>3. InTransaction(s)' =>
        /\ Lock(s)' = Lock(s)
        /\ \A t \in Sessions \ {s} : InTransaction(t) => Lock(t) # Lock(s)
  <2>1. CASE Leaves(s) \/ Commit(s)
    BY <2>1 DEF Leaves, Commit, Finish, Goto, InTransaction, TypeOK
  <2>2. CASE AcquireLock(s)
    BY <2>2 DEF AcquireLock, HoldsLock, Lock, Key
  <2>3. CASE FindNoReceipt(s) \/ InsertRow(s) \/ InsertReceipt(s)
    <3>1. InTransaction(s) /\ call' = call
      BY <2>3 DEF FindNoReceipt, InsertRow, InsertReceipt, InTransaction
    <3> QED
      BY <3>1 DEF LockIsExclusive, Lock, Key
  <2> QED
    BY <1>1, <2>1, <2>2, <2>3
<1> QED
  BY <1>2, <1>3 DEF LockIsExclusive

(* What the lookup read stays true: only the lock holder binds the key. *)
LEMMA LookupStep ==
  ASSUME TypeOK, LockIsExclusive, LookupStaysValid, Next
  PROVE  LookupStaysValid'
<1>1. PICK s \in Sessions :
        /\ Aside(s)
        /\ \/ Leaves(s)
           \/ AcquireLock(s) \/ FindNoReceipt(s) \/ InsertRow(s) \/ InsertReceipt(s) \/ Commit(s)
  BY StepKinds
<1> SUFFICES ASSUME NEW t \in Sessions, pc'[t] \in {"insert", "commit"}
             PROVE  receipts'[Key(t)'] = None
  BY DEF LookupStaysValid
<1>2. CASE t = s
  <2>1. ~Leaves(s) /\ ~AcquireLock(s) /\ ~Commit(s)
    BY <1>2 DEF Leaves, AcquireLock, Commit, Finish, Goto, TypeOK
  <2>2. CASE FindNoReceipt(s)
    BY <1>2, <2>2 DEF FindNoReceipt, Key
  <2>3. CASE InsertRow(s) \/ InsertReceipt(s)
    BY <1>2, <2>3 DEF InsertRow, InsertReceipt, LookupStaysValid, Key
  <2> QED
    BY <1>1, <2>1, <2>2, <2>3
<1>3. CASE t # s
  <2>1. pc[t] \in {"insert", "commit"} /\ Key(t)' = Key(t) /\ receipts[Key(t)] = None
    BY <1>1, <1>3 DEF Aside, LookupStaysValid, Key
  <2>2. CASE Commit(s)
    <3>1. Lock(s) # Lock(t)
      BY <1>3, <2>1, <2>2 DEF LockIsExclusive, InTransaction, Commit
    <3>2. Key(s) # Key(t)
      BY <3>1 DEF Lock
    <3>3. Key(t) \in Keys
      BY <2>1 DEF TypeOK, Key, Calls
    <3> QED
      BY <2>1, <2>2, <3>2, <3>3 DEF Commit, TypeOK
  <2>3. CASE ~Commit(s)
    BY <1>1, <2>1, <2>3 DEF Leaves, AcquireLock, FindNoReceipt, InsertRow, InsertReceipt
  <2> QED
    BY <2>2, <2>3
<1> QED
  BY <1>2, <1>3

(* At commit the uncommitted rows are the whole batch. *)
LEMMA PendingAtCommit ==
  ASSUME TypeOK, NEW s \in Sessions, pc[s] = "commit"
  PROVE  Pending(s) = Rows(Batch(s)) /\ Batch(s) \in Payloads /\ Key(s) \in Keys
<1>1. Batch(s) \in Payloads /\ Key(s) \in Keys
  BY DEF TypeOK, Batch, Key, Calls
<1>2. inserted[s] = Len(Plan(Batch(s)))
  BY DEF TypeOK, RowsDone
<1> QED
  BY <1>1, <1>2, PlanType DEF Pending, Rows

(* The unique indexes keep uncommitted rows clear of everything else. *)
LEMMA FreshStep ==
  ASSUME TypeOK, PendingIsFresh, Next
  PROVE  PendingIsFresh'
<1>1. PICK s \in Sessions :
        /\ Aside(s)
        /\ \/ Leaves(s)
           \/ AcquireLock(s) \/ FindNoReceipt(s) \/ InsertRow(s) \/ InsertReceipt(s) \/ Commit(s)
  BY StepKinds
<1>2. \A t \in Sessions \ {s} : Pending(t)' = Pending(t)
  BY <1>1 DEF Aside, Pending, Batch
<1>3. CASE Pending(s)' \subseteq Pending(s) /\ UNCHANGED stored
  <2>1. ASSUME NEW t \in Sessions PROVE Pending(t)' \subseteq Pending(t)
    BY <1>2, <1>3
  <2> QED
    BY <1>3, <2>1 DEF PendingIsFresh
<1>4. CASE InsertRow(s)
  <2>1. Pending(s)' = Pending(s) \cup {NextRow(s)}
    <3>1. /\ pc[s] = "insert" /\ pc'[s] = "insert" /\ call' = call
          /\ inserted'[s] = inserted[s] + 1 /\ inserted[s] \in Nat
      BY <1>4 DEF InsertRow, TypeOK
    <3>2. 1..(inserted[s] + 1) = (1..inserted[s]) \cup {inserted[s] + 1}
      BY <3>1
    <3> QED
      BY <3>1, <3>2 DEF Pending, NextRow, Batch
  <2>2. stored[NextRow(s)] = None /\ UNCHANGED stored
        /\ \A t \in Sessions \ {s} : NextRow(s) \notin Pending(t)
    BY <1>4 DEF InsertRow
  <2>3. \A t \in Sessions : \A r \in Pending(t)' : stored'[r] = None
    BY <1>2, <2>1, <2>2 DEF PendingIsFresh
  <2>4. \A t, u \in Sessions : t # u => Pending(t)' \cap Pending(u)' = {}
    BY <1>2, <2>1, <2>2 DEF PendingIsFresh
  <2> QED
    BY <2>3, <2>4 DEF PendingIsFresh
<1>5. CASE Commit(s)
  <2>1. Pending(s)' = {}
    BY <1>5 DEF Commit, Finish, Goto, Pending, TypeOK
  <2>2. Pending(s) = Rows(Batch(s)) /\ Rows(Batch(s)) \subseteq RowIds
    BY <1>5, PendingAtCommit, PlanType DEF Commit
  <2>3. ASSUME NEW t \in Sessions \ {s}, NEW r \in Pending(t)'
        PROVE  stored'[r] = None
    <3>1. r \in Pending(t) /\ r \notin Pending(s) /\ stored[r] = None
      BY <1>2, <2>3 DEF PendingIsFresh
    <3>2. r \in RowIds
      <4>1. Batch(t) \in Payloads /\ inserted[t] \in Nat /\ inserted[t] <= Len(Plan(Batch(t)))
        BY <3>1 DEF TypeOK, Pending, Batch, Calls
      <4>2. 1..inserted[t] \subseteq DOMAIN Plan(Batch(t))
        BY <4>1, PlanType
      <4>3. r \in Rows(Batch(t))
        BY <3>1, <4>2 DEF Pending, Rows
      <4> QED
        BY <4>1, <4>3, PlanType
    <3> QED
      BY <1>5, <2>2, <3>1, <3>2 DEF Commit, WithBatch
  <2> QED
    BY <1>2, <2>1, <2>3 DEF PendingIsFresh
<1>6. CASE Leaves(s) \/ AcquireLock(s)
  <2>1. Pending(s)' = {} /\ UNCHANGED stored
    BY <1>6 DEF Leaves, AcquireLock, Goto, Pending, TypeOK
  <2> QED
    BY <1>3, <2>1
<1>7. CASE FindNoReceipt(s)
  <2>1. inserted'[s] = 0 /\ UNCHANGED stored
    BY <1>7 DEF FindNoReceipt, TypeOK
  <2>2. Pending(s)' = {}
    BY <2>1 DEF Pending
  <2> QED
    BY <1>3, <2>1, <2>2
<1>8. CASE InsertReceipt(s)
  <2>1. Pending(s)' = Pending(s) /\ UNCHANGED stored
    BY <1>8 DEF InsertReceipt, Goto, Pending, Batch, TypeOK
  <2> QED
    BY <1>3, <2>1
<1> QED
  BY <1>1, <1>4, <1>5, <1>6, <1>7, <1>8

(* The inductive invariant holds at first and is kept by every step. *)
LEMMA Invariance == Spec => []IInv
<1>1. Init => IInv
  BY InitType DEF Init, IInv, LockIsExclusive, LookupStaysValid, PendingIsFresh, InTransaction, Pending
<1>2. IInv /\ [Next]_vars => IInv'
  <2>1. CASE Next
    BY <2>1, NextType, LockStep, LookupStep, FreshStep DEF IInv
  <2>2. CASE UNCHANGED vars
    BY <2>2, NextType DEF IInv, vars, LockIsExclusive, LookupStaysValid, PendingIsFresh,
       InTransaction, Lock, Key, Pending, Batch
  <2> QED
    BY <2>1, <2>2
<1> QED
  BY <1>1, <1>2, PTL DEF Spec

(* The model's variables keep their types. *)
THEOREM TypeCorrect == Spec => []TypeOK
  BY Invariance, PTL DEF IInv

(* Transactions do not see or touch each other's work. *)
THEOREM AlwaysIsolated == Spec => []TransactionsAreIsolated
  BY Invariance, PTL DEF IInv, TransactionsAreIsolated

(* Calls for one key never wait for each other inside their transactions:  *)
(* a deadlock needs two batches that share ids, under different keys.      *)
THEOREM DeadlockAlwaysSpansKeys == Spec => []DeadlockSpansKeys
<1>1. ASSUME LockIsExclusive PROVE DeadlockSpansKeys
  <2> SUFFICES ASSUME NEW s \in Sessions, NEW t \in Sessions, WaitsFor(s, t)
               PROVE  ~RowsDone(s) /\ Lock(s) # Lock(t)
    BY DEF DeadlockSpansKeys, OnWaitCycle
  <2>1. s # t /\ InTransaction(s) /\ InTransaction(t)
    BY DEF WaitsFor, InTransaction, HoldsReceipt, Pending
  <2>2. Lock(s) # Lock(t)
    BY <1>1, <2>1 DEF LockIsExclusive
  <2>3. RowsDone(s) => Lock(s) = Lock(t)
    BY DEF WaitsFor, HoldsReceipt, Lock
  <2> QED
    BY <2>2, <2>3
<1> QED
  BY <1>1, Invariance, PTL DEF IInv

-----------------------------------------------------------------------------
(* Every step of a transaction is a step of the abstract store, or none. *)
LEMMA StepSimulation == IInv /\ [Next]_vars => [Ledger!Next]_Ledger!vars
<1> SUFFICES ASSUME IInv, [Next]_vars PROVE [Ledger!Next]_Ledger!vars
  OBVIOUS
<1> USE DEF Goto
<1>t. TypeOK
  BY DEF IInv
<1>p. \A p : Ledger!Rows(p) = Rows(p) /\ \A q : Ledger!SameBatch(p, q) = SameBatch(p, q)
  BY DEF Ledger!Plan, Plan, Ledger!Rows, Rows, Ledger!SameBatch, SameBatch
<1>r. /\ Ledger!Conflict = Conflict /\ Ledger!Error = Error
      /\ \A p : Ledger!Accepted(p) = Accepted(p) /\ Ledger!Replayed(p) = Replayed(p)
  BY DEF Ledger!Conflict, Conflict, Ledger!Error, Error,
     Ledger!Accepted, Accepted, Ledger!Replayed, Replayed
<1>1. ASSUME NEW s \in Sessions, NEW k \in Keys, NEW p \in Payloads, Call(s, k, p)
      PROVE  Ledger!Call(s, k, p)
  BY <1>t, <1>1 DEF Call, Ledger!Call, TypeOK
<1>2. ASSUME NEW s \in Sessions,
             AcquireLock(s) \/ FindNoReceipt(s) \/ InsertRow(s) \/ InsertReceipt(s)
      PROVE  UNCHANGED Ledger!vars
  BY <1>t, <1>2 DEF AcquireLock, FindNoReceipt, InsertRow, InsertReceipt, Ledger!vars, TypeOK
<1>f. ASSUME NEW s \in Sessions, NEW r, Finish(s, r)
      PROVE  Ledger!Finish(s, r)
  BY <1>t, <1>f DEF Finish, Ledger!Finish, TypeOK
<1>3. ASSUME NEW s \in Sessions, ReplayReceipt(s) PROVE Ledger!Replay(s)
  <2>1. /\ Ledger!Finish(s, Ledger!Replayed(receipts[Key(s)]))
        /\ UNCHANGED <<stored, receipts>>
    BY <1>t, <1>r, <1>3 DEF ReplayReceipt, Rollback, Finish, Ledger!Finish, TypeOK
  <2>2. /\ receipts[Key(s)] # None
        /\ Ledger!SameBatch(receipts[Key(s)], Batch(s))
        /\ pc[s] = "lookup"
    BY <1>p, <1>3 DEF ReplayReceipt
  <2> QED
    BY <2>1, <2>2 DEF Ledger!Replay, Key, Batch
<1>4. ASSUME NEW s \in Sessions, RejectReusedKey(s) PROVE Ledger!Refuse(s)
  BY <1>f, <1>p, <1>r, <1>4 DEF RejectReusedKey, Rollback, Key, Batch, Ledger!Refuse, Ledger!Refused
<1>5. ASSUME NEW s \in Sessions, ViolateUnique(s) PROVE Ledger!Refuse(s)
  <2>1. receipts[Key(s)] = None /\ ~RowsDone(s) /\ stored[NextRow(s)] # None
    BY <1>5 DEF ViolateUnique, IInv, LookupStaysValid
  <2>2. NextRow(s) \in Rows(Batch(s))
    <3>1. Batch(s) \in Payloads /\ inserted[s] \in Nat /\ inserted[s] <= Len(Plan(Batch(s)))
      BY <1>t, <1>5 DEF ViolateUnique, TypeOK, Batch, Calls
    <3>2. inserted[s] + 1 \in DOMAIN Plan(Batch(s))
      BY <2>1, <3>1, PlanType DEF RowsDone
    <3> QED
      BY <3>2 DEF NextRow, Rows
  <2>3. Ledger!Refused(call[s])
    BY <1>p, <2>1, <2>2 DEF Ledger!Refused, Key, Batch
  <2>4. Ledger!Finish(s, Ledger!Conflict) /\ UNCHANGED <<stored, receipts>> /\ pc[s] = "insert"
    BY <1>f, <1>r, <1>5 DEF ViolateUnique, Rollback
  <2> QED
    BY <2>3, <2>4 DEF Ledger!Refuse
<1>6. ASSUME NEW s \in Sessions, Commit(s) PROVE Ledger!Accept(s)
  <2>1. receipts[Key(s)] = None /\ \A r \in Rows(Batch(s)) : stored[r] = None
    BY <1>t, <1>6, PendingAtCommit DEF Commit, IInv, LookupStaysValid, PendingIsFresh
  <2>2. Ledger!StoreBatch(Key(s), Batch(s))
    BY <1>p, <1>6 DEF Commit, Ledger!StoreBatch, WithBatch, Ledger!WithBatch,
       RowIds, Ledger!RowIds
  <2>3. \E r \in {Ledger!Accepted(Batch(s)), Ledger!Error} : Ledger!Finish(s, r)
    BY <1>f, <1>r, <1>6 DEF Commit
  <2> QED
    BY <1>p, <1>6, <2>1, <2>2, <2>3 DEF Commit, Ledger!Accept, Key, Batch
<1>7. ASSUME NEW s \in Sessions, AbortDeadlock(s) \/ LoseDatabase(s) PROVE Ledger!Fail(s)
  <2>1. pc[s] \notin {"idle", "done"} /\ Rollback(s, Error)
    BY <1>7 DEF AbortDeadlock, LoseDatabase, OnWaitCycle, WaitsFor
  <2> QED
    BY <1>f, <1>r, <2>1 DEF Rollback, Ledger!Fail
<1>8. ASSUME NEW s \in Sessions, Answer(s) PROVE Ledger!Answer(s)
  BY <1>t, <1>8 DEF Answer, AnswerTo, Hangup, Ledger!Answer, Ledger!AnswerTo, Ledger!Hangup, TypeOK
<1>9. ASSUME NEW s \in Sessions, CrashReplica(s) PROVE Ledger!Vanish(s)
  BY <1>t, <1>9 DEF CrashReplica, Hangup, Ledger!Vanish, Ledger!Hangup, TypeOK
<1>10. CASE UNCHANGED vars
  BY <1>10 DEF vars, Ledger!vars
<1> QED
  BY <1>1, <1>2, <1>3, <1>4, <1>5, <1>6, <1>7, <1>8, <1>9, <1>10
  DEF Next, Statement, Ledger!Next, Ledger!Step

(* PostgresCaseStore is the store the API was promised. *)
THEOREM Implementation == Spec => ImplementsLedger
<1>1. Init => Ledger!Init
  BY DEF Init, Ledger!Init, RowIds, Ledger!RowIds
<1> QED
  BY <1>1, StepSimulation, Invariance, PTL DEF Spec, ImplementsLedger, Ledger!Spec

-----------------------------------------------------------------------------
(* The theorems about the abstract store, under the refinement mapping. *)
Promise == INSTANCE CaseStoreProofs WITH
  phase <- [s \in Sessions |-> IF pc[s] \in {"idle", "done"} THEN pc[s] ELSE "open"]

(* The two instances are one specification. *)
LEMMA SamePromise ==
  /\ Ledger!Init => Promise!Init
  /\ [Ledger!Next]_Ledger!vars => [Promise!Next]_Promise!vars
  BY DEF Ledger!Spec, Ledger!Init, Ledger!Next, Ledger!vars, Ledger!Step, Ledger!Call,
     Ledger!Accept, Ledger!Replay, Ledger!Refuse, Ledger!Fail, Ledger!Answer, Ledger!AnswerTo,
     Ledger!Vanish, Ledger!Finish, Ledger!Hangup, Ledger!StoreBatch, Ledger!WithBatch, Ledger!Refused,
     Ledger!SameBatch, Ledger!Rows, Ledger!Plan, Ledger!RowIds, Ledger!Accepted, Ledger!Replayed,
     Ledger!Conflict, Ledger!Error,
     Promise!Spec, Promise!Init, Promise!Next, Promise!vars, Promise!Step, Promise!Call,
     Promise!Accept, Promise!Replay, Promise!Refuse, Promise!Fail, Promise!Answer, Promise!AnswerTo,
     Promise!Vanish, Promise!Finish, Promise!Hangup, Promise!StoreBatch, Promise!WithBatch, Promise!Refused,
     Promise!SameBatch, Promise!Rows, Promise!Plan, Promise!RowIds, Promise!Accepted, Promise!Replayed,
     Promise!Conflict, Promise!Error

(* The assumptions of the abstract store are those of this one. *)
LEMMA PromiseAssumptions ==
  Promise!NoneAssumption /\ Promise!OrderAssumption /\ Promise!FingerprintAssumption
  BY NoneAssumption, OrderAssumption, FingerprintAssumption DEF IsInjective, Promise!IsInjective

(* Postgres makes the promise its theorems are about. *)
LEMMA KeepsPromise == Spec => Promise!Spec
  BY SamePromise, Implementation, PTL DEF ImplementsLedger, Ledger!Spec, Promise!Spec

(* The promised properties, read in the two instances. *)
LEMMA SameProperties ==
  /\ Promise!LedgerMatchesReceipts => Ledger!LedgerMatchesReceipts
  /\ Promise!AckedIsDurable => Ledger!AckedIsDurable
  /\ Promise!ConflictIsFinal => Ledger!ConflictIsFinal
  BY DEF Promise!LedgerMatchesReceipts, Ledger!LedgerMatchesReceipts,
     Promise!AckedIsDurable, Ledger!AckedIsDurable, Promise!ConflictIsFinal, Ledger!ConflictIsFinal,
     Promise!Stored, Ledger!Stored, Promise!Refused, Ledger!Refused, Promise!SameBatch, Ledger!SameBatch,
     Promise!Rows, Ledger!Rows, Promise!Plan, Ledger!Plan, Promise!RowIds, Ledger!RowIds

(* Committed rows are whole receipted batches, however replicas race. *)
THEOREM LedgerAlwaysMatches == Spec => []Ledger!LedgerMatchesReceipts
  BY PromiseAssumptions, Promise!LedgerAlwaysMatches, SameProperties, KeepsPromise, PTL

(* No 201 or 200 sent by any replica is ever taken back. *)
THEOREM AckedAlwaysDurable == Spec => []Ledger!AckedIsDurable
  BY PromiseAssumptions, Promise!AckedAlwaysDurable, SameProperties, KeepsPromise, PTL

(* No 409 sent by any replica is ever contradicted. *)
THEOREM ConflictAlwaysFinal == Spec => []RefusalsAreFinal
  BY PromiseAssumptions, Promise!ConflictAlwaysFinal, SameProperties, KeepsPromise, PTL
     DEF RefusalsAreFinal

(* No replica, however its transaction ends, removes or rebinds what is     *)
(* committed.                                                               *)
THEOREM NeverRewritten == Spec => Ledger!AppendOnly
<1>1. Promise!AppendOnly => Ledger!AppendOnly
  <2>1. [/\ \A r \in Promise!RowIds : stored[r] # None => stored'[r] = stored[r]
         /\ \A k \in Keys : receipts[k] # None => receipts'[k] = receipts[k]]_(Promise!vars)
        => [/\ \A r \in Ledger!RowIds : stored[r] # None => stored'[r] = stored[r]
            /\ \A k \in Keys : receipts[k] # None => receipts'[k] = receipts[k]]_(Ledger!vars)
    BY DEF Promise!RowIds, Ledger!RowIds, Promise!vars, Ledger!vars
  <2> QED BY <2>1, PTL DEF Promise!AppendOnly, Ledger!AppendOnly
<1> QED BY <1>1, PromiseAssumptions, Promise!NeverRewritten, KeepsPromise, PTL

-----------------------------------------------------------------------------
(* SchemaMigration *)

(* What the transaction of a replica has created when it is about to run    *)
(* statement n of the script.                                               *)
Applied(n) == {Bookkeeping} \cup {Script[i] : i \in 1..(n - 1)}

(* The committed schema is nothing or everything. *)
AllOrNothing == \/ objects = {} /\ ~version
                \/ objects = Objects /\ version

(* Where a replica is tells what it holds, created and found. *)
Progress(r) ==
  /\ progress[r] \in Locked => lock = r
  /\ progress[r] \in {"off", "lock", "create", "serving"} => made[r] = {} /\ next[r] = 1
  /\ progress[r] = "look" => next[r] = 1 /\ made[r] = IF version THEN {} ELSE {Bookkeeping}
  /\ progress[r] = "script" => ~version /\ next[r] <= Len(Script) /\ made[r] = Applied(next[r])
  /\ progress[r] = "record" => ~version /\ next[r] = Len(Script) + 1 /\ made[r] = Objects
  /\ progress[r] = "commit" => \/ version /\ next[r] = 1 /\ made[r] = {}
                               \/ ~version /\ next[r] = Len(Script) + 1 /\ made[r] = Objects
  /\ progress[r] = "serving" => version
  /\ progress[r] # "failed"

MigrationInv == MigrationTypeOK /\ AllOrNothing /\ \A r \in Replicas : Progress(r)

-----------------------------------------------------------------------------
(* The script has six statements and creates no name twice. *)
LEMMA ScriptFacts ==
  /\ Len(Script) = 6
  /\ Applied(1) = {Bookkeeping}
  /\ Applied(Len(Script) + 1) = Objects
  /\ \A n \in 1..6 : Applied(n + 1) = Applied(n) \cup {Script[n]} /\ Script[n] \in Objects
  /\ Bookkeeping \in Objects
<1>1. Len(Script) = 6
  BY DEF Script
<1>2. DOMAIN Script = 1..6
  BY DEF Script
<1>3. Applied(1) = {Bookkeeping}
  BY DEF Applied
<1>4. Applied(Len(Script) + 1) = Objects
  BY <1>1, <1>2 DEF Applied, Objects
<1>5. ASSUME NEW n \in 1..6
      PROVE  Applied(n + 1) = Applied(n) \cup {Script[n]} /\ Script[n] \in Objects
  <2>1. 1..((n + 1) - 1) = 1..(n - 1) \cup {n}
    OBVIOUS
  <2>2. Applied(n + 1) = Applied(n) \cup {Script[n]}
    BY <2>1 DEF Applied
  <2> QED BY <2>2, <1>2 DEF Objects
<1> QED BY <1>1, <1>3, <1>4, <1>5 DEF Objects

(* A step of one replica that leaves the committed schema alone keeps the   *)
(* invariant, if the replica's own progress is right afterwards.            *)
LEMMA OwnStep ==
  ASSUME MigrationInv, NEW r \in Replicas, NEW label \in Starting \cup {"off", "serving"},
         NEW n \in 1..(Len(Script) + 1), NEW m \in SUBSET Objects,
         NEW holder \in Replicas \cup {Nobody},
         progress' = [progress EXCEPT ![r] = label],
         next' = [next EXCEPT ![r] = n],
         made' = [made EXCEPT ![r] = m],
         lock' = holder,
         UNCHANGED <<objects, version>>,
         label \in Locked <=> holder = r,
         lock = r \/ lock = holder \/ lock = Nobody,
         holder = Nobody \/ holder = r \/ holder = lock,
         Progress(r)'
  PROVE  MigrationInv'
<1>1. \A q \in Replicas : progress'[q] = IF q = r THEN label ELSE progress[q]
  BY DEF MigrationInv, MigrationTypeOK
<1>2. \A q \in Replicas : next'[q] = IF q = r THEN n ELSE next[q]
  BY DEF MigrationInv, MigrationTypeOK
<1>3. \A q \in Replicas : made'[q] = IF q = r THEN m ELSE made[q]
  BY DEF MigrationInv, MigrationTypeOK
<1>4. holder # Nobody => progress'[holder] \in Locked
  BY <1>1, MigrationAssumption DEF MigrationInv, MigrationTypeOK
<1>5. MigrationTypeOK'
  BY <1>4 DEF MigrationInv, MigrationTypeOK
<1>6. AllOrNothing'
  BY DEF MigrationInv, AllOrNothing
<1>7. ASSUME NEW q \in Replicas PROVE Progress(q)'
  <2>1. CASE q = r
    BY <2>1
  <2>2. CASE q # r
    <3>1. progress[q] \in Locked => lock' = q
      BY <2>2, MigrationAssumption DEF MigrationInv, Progress, MigrationTypeOK
    <3>2. progress'[q] = progress[q] /\ next'[q] = next[q] /\ made'[q] = made[q]
      BY <2>2, <1>1, <1>2, <1>3
    <3>3. Progress(q)
      BY DEF MigrationInv
    <3> QED BY <3>1, <3>2, <3>3 DEF Progress
  <2> QED BY <2>1, <2>2
<1> QED BY <1>5, <1>6, <1>7 DEF MigrationInv

(* The lock keeps every other transaction empty. *)
LEMMA Alone ==
  ASSUME MigrationInv, NEW r \in Replicas, progress[r] \in Locked, NEW o
  PROVE  ~Blocked(r, o)
<1> SUFFICES ASSUME NEW q \in Replicas \ {r} PROVE made[q] = {}
  BY DEF Blocked
<1>1. progress[q] \notin Locked
  BY DEF MigrationInv, Progress
<1> QED BY <1>1 DEF MigrationInv, MigrationTypeOK, Progress, Locked, Starting

(* Nothing has been created at first. *)
LEMMA MigrationInvInitially == MigrationInit => MigrationInv
<1> SUFFICES ASSUME MigrationInit PROVE MigrationInv
  OBVIOUS
<1>1. 1 \in 1..(Len(Script) + 1)
  BY ScriptFacts
<1>2. MigrationTypeOK
  BY <1>1, MigrationAssumption DEF MigrationInit, MigrationTypeOK
<1>3. AllOrNothing
  BY DEF MigrationInit, AllOrNothing
<1>4. ASSUME NEW r \in Replicas PROVE Progress(r)
  BY DEF MigrationInit, Progress, Locked, Starting
<1> QED BY <1>2, <1>3, <1>4 DEF MigrationInv

-----------------------------------------------------------------------------
(* initialize() asks for the lock before it has created anything. *)
LEMMA StartStep == ASSUME MigrationInv, NEW r \in Replicas, StartReplica(r) PROVE MigrationInv'
<1>1. progress' = [progress EXCEPT ![r] = "lock"] /\ progress[r] = "off" /\ progress'[r] = "lock"
  BY DEF StartReplica, Advance, MigrationInv, MigrationTypeOK
<1>2. next' = [next EXCEPT ![r] = 1] /\ made' = [made EXCEPT ![r] = {}] /\ lock' = lock
  BY <1>1 DEF StartReplica, MigrationInv, MigrationTypeOK, Progress
<1>3. lock # r
  BY <1>1, MigrationAssumption DEF MigrationInv, MigrationTypeOK, Locked
<1>4. Progress(r)'
  BY <1>1, <1>2 DEF MigrationInv, MigrationTypeOK, Progress, Locked
<1>5. 1 \in 1..(Len(Script) + 1) /\ "lock" \in Starting /\ "lock" \notin Locked
  BY ScriptFacts DEF Starting, Locked
<1>6. lock \in Replicas \cup {Nobody}
  BY DEF MigrationInv, MigrationTypeOK
<1> QED BY <1>1, <1>2, <1>3, <1>4, <1>5, <1>6, OwnStep DEF StartReplica

(* The lock is granted to one waiter. *)
LEMMA AcquireLockStep == ASSUME MigrationInv, NEW r \in Replicas, LockMigration(r) PROVE MigrationInv'
<1>1. progress' = [progress EXCEPT ![r] = "create"] /\ progress[r] = "lock" /\ progress'[r] = "create"
  BY DEF LockMigration, Advance, MigrationInv, MigrationTypeOK
<1>2. next' = [next EXCEPT ![r] = 1] /\ made' = [made EXCEPT ![r] = {}]
  BY <1>1 DEF LockMigration, MigrationInv, MigrationTypeOK, Progress
<1>3. lock = Nobody /\ lock' = r
  BY DEF LockMigration
<1>4. Progress(r)'
  BY <1>1, <1>2, <1>3 DEF MigrationInv, MigrationTypeOK, Progress, Locked
<1>5. 1 \in 1..(Len(Script) + 1) /\ "create" \in Starting /\ "create" \in Locked
  BY ScriptFacts DEF Starting, Locked
<1> QED BY <1>1, <1>2, <1>3, <1>4, <1>5, OwnStep DEF LockMigration

(* The bookkeeping table exists with the rest of the schema or not at all. *)
LEMMA CreateBookkeepingStep ==
  ASSUME MigrationInv, NEW r \in Replicas, CreateBookkeeping(r) PROVE MigrationInv'
<1>1. progress[r] = "create" /\ progress[r] \in Locked /\ lock = r
  BY DEF CreateBookkeeping, Locked, MigrationInv, Progress
<1>2. ~Blocked(r, Bookkeeping)
  BY <1>1, Alone
<1>3. made[r] = {} /\ next[r] = 1
  BY <1>1 DEF MigrationInv, Progress
<1> DEFINE m == IF version THEN {} ELSE {Bookkeeping}
<1>4. (Bookkeeping \in objects) <=> version
  BY ScriptFacts DEF MigrationInv, AllOrNothing
<1>5. made' = [made EXCEPT ![r] = m]
  BY <1>2, <1>3, <1>4 DEF CreateBookkeeping, Make, MigrationInv, MigrationTypeOK
<1>6. progress' = [progress EXCEPT ![r] = "look"] /\ UNCHANGED <<next, objects, version, lock>>
  BY <1>2 DEF CreateBookkeeping, Advance
<1>7. next' = [next EXCEPT ![r] = 1]
  BY <1>3, <1>6 DEF MigrationInv, MigrationTypeOK
<1>8. progress'[r] = "look" /\ next'[r] = 1 /\ made'[r] = m
  BY <1>5, <1>6, <1>7 DEF MigrationInv, MigrationTypeOK
<1>9. Progress(r)'
  BY <1>1, <1>6, <1>8 DEF Progress
<1>10. m \in SUBSET Objects
  BY ScriptFacts
<1>11. 1 \in 1..(Len(Script) + 1) /\ "look" \in Starting /\ "look" \in Locked
  BY ScriptFacts DEF Starting, Locked
<1> HIDE DEF m
<1> QED BY <1>1, <1>5, <1>6, <1>7, <1>9, <1>10, <1>11, OwnStep

(* The version decides whether the script runs. *)
LEMMA LookForVersionStep ==
  ASSUME MigrationInv, NEW r \in Replicas, LookForVersion(r) PROVE MigrationInv'
<1>1. progress[r] = "look" /\ progress[r] \in Locked /\ lock = r
  BY DEF LookForVersion, Locked, MigrationInv, Progress
<1> DEFINE label == IF version THEN "commit" ELSE "script"
           m == IF version THEN {} ELSE {Bookkeeping}
<1>2. made[r] = m /\ next[r] = 1
  BY <1>1 DEF MigrationInv, Progress
<1>3. progress' = [progress EXCEPT ![r] = label] /\ UNCHANGED <<next, made, objects, version, lock>>
  BY DEF LookForVersion, Advance
<1>4. made' = [made EXCEPT ![r] = m] /\ next' = [next EXCEPT ![r] = 1]
  BY <1>2, <1>3 DEF MigrationInv, MigrationTypeOK
<1>5. progress'[r] = label /\ next'[r] = 1 /\ made'[r] = m
  BY <1>2, <1>3 DEF MigrationInv, MigrationTypeOK
<1>6. Progress(r)'
  BY <1>1, <1>3, <1>5, ScriptFacts DEF Progress
<1>7. m \in SUBSET Objects
  BY ScriptFacts
<1>8. 1 \in 1..(Len(Script) + 1) /\ label \in Starting /\ label \in Locked
  BY ScriptFacts DEF Starting, Locked
<1> HIDE DEF m, label
<1> QED BY <1>1, <1>3, <1>4, <1>6, <1>7, <1>8, OwnStep

(* No statement of the script meets an object that is already there. *)
LEMMA CreateStep == ASSUME MigrationInv, NEW r \in Replicas, Create(r) PROVE MigrationInv'
<1>1. progress[r] = "script" /\ progress[r] \in Locked /\ lock = r
  BY DEF Create, Locked, MigrationInv, Progress
<1>2. ~version /\ objects = {}
  BY <1>1 DEF MigrationInv, Progress, AllOrNothing
<1>3. next[r] \in 1..6 /\ made[r] = Applied(next[r])
  BY <1>1, ScriptFacts DEF MigrationInv, MigrationTypeOK, Progress
<1> DEFINE n == next[r]
           label == IF n = Len(Script) THEN "record" ELSE "script"
           m == Applied(n + 1)
<1>4. m = made[r] \cup {Script[n]} /\ m \in SUBSET Objects
  BY <1>3, ScriptFacts DEF MigrationInv, MigrationTypeOK
<1>5. /\ progress' = [progress EXCEPT ![r] = label]
      /\ Make(r, Script[n])
      /\ next' = [next EXCEPT ![r] = @ + 1]
      /\ UNCHANGED <<objects, version, lock>>
  BY <1>2 DEF Create, Advance
<1>6. made' = [made EXCEPT ![r] = m] /\ next' = [next EXCEPT ![r] = n + 1]
  BY <1>4, <1>5 DEF Make
<1>7. progress'[r] = label /\ next'[r] = n + 1 /\ made'[r] = m
  BY <1>5, <1>6 DEF MigrationInv, MigrationTypeOK
<1>8. n + 1 \in 1..(Len(Script) + 1)
  BY <1>3, ScriptFacts
<1>9. Progress(r)'
  <2>1. CASE n = Len(Script)
    <3>1. label = "record" /\ m = Objects
      BY <2>1, ScriptFacts
    <3> QED BY <3>1, <2>1, <1>1, <1>2, <1>5, <1>7 DEF Progress
  <2>2. CASE n # Len(Script)
    <3>1. label = "script" /\ n + 1 <= Len(Script)
      BY <2>2, <1>3, ScriptFacts
    <3> QED BY <3>1, <1>1, <1>2, <1>5, <1>7 DEF Progress
  <2> QED BY <2>1, <2>2
<1>10. label \in Starting /\ label \in Locked
  BY DEF Starting, Locked
<1> HIDE DEF m, label, n
<1> QED BY <1>1, <1>4, <1>5, <1>6, <1>8, <1>9, <1>10, OwnStep

(* The version row is new to whoever ran the script. *)
LEMMA RecordVersionStep ==
  ASSUME MigrationInv, NEW r \in Replicas, RecordVersion(r) PROVE MigrationInv'
<1>1. progress[r] = "record" /\ progress[r] \in Locked /\ lock = r
  BY DEF RecordVersion, Locked, MigrationInv, Progress
<1>2. ~version /\ next[r] = Len(Script) + 1 /\ made[r] = Objects
  BY <1>1 DEF MigrationInv, Progress
<1>3. progress' = [progress EXCEPT ![r] = "commit"] /\ UNCHANGED <<next, made, objects, version, lock>>
  BY <1>2 DEF RecordVersion, Advance
<1>4. made' = [made EXCEPT ![r] = Objects] /\ next' = [next EXCEPT ![r] = Len(Script) + 1]
  BY <1>2, <1>3 DEF MigrationInv, MigrationTypeOK
<1>5. progress'[r] = "commit" /\ next'[r] = Len(Script) + 1 /\ made'[r] = Objects
  BY <1>2, <1>3 DEF MigrationInv, MigrationTypeOK
<1>6. Progress(r)'
  BY <1>1, <1>2, <1>3, <1>5 DEF Progress
<1>7. Len(Script) + 1 \in 1..(Len(Script) + 1) /\ "commit" \in Starting /\ "commit" \in Locked
  BY ScriptFacts DEF Starting, Locked
<1> QED BY <1>1, <1>3, <1>4, <1>6, <1>7, OwnStep

(* A rolled-back transaction leaves nothing but a free lock. *)
LEMMA CrashStep == ASSUME MigrationInv, NEW r \in Replicas, Crash(r) PROVE MigrationInv'
<1> DEFINE holder == IF lock = r THEN Nobody ELSE lock
<1>1. /\ progress' = [progress EXCEPT ![r] = "off"]
      /\ next' = [next EXCEPT ![r] = 1]
      /\ made' = [made EXCEPT ![r] = {}]
      /\ lock' = holder
      /\ UNCHANGED <<objects, version>>
  BY DEF Crash, End, Advance
<1>2. progress'[r] = "off" /\ next'[r] = 1 /\ made'[r] = {}
  BY <1>1 DEF MigrationInv, MigrationTypeOK
<1>3. Progress(r)'
  BY <1>2 DEF Progress, Locked
<1>4. 1 \in 1..(Len(Script) + 1) /\ "off" \notin Locked
  BY ScriptFacts DEF Locked
<1>5. holder \in Replicas \cup {Nobody} /\ holder # r
  BY MigrationAssumption DEF MigrationInv, MigrationTypeOK
<1>6. /\ lock = r \/ lock = holder \/ lock = Nobody
      /\ holder = Nobody \/ holder = r \/ holder = lock
  OBVIOUS
<1> HIDE DEF holder
<1> QED BY <1>1, <1>3, <1>4, <1>5, <1>6, OwnStep

(* Whoever ran the script commits all of it over nothing; whoever found the *)
(* version commits nothing.                                                 *)
LEMMA CommitEffect ==
  ASSUME MigrationInv, NEW r \in Replicas, CommitMigration(r)
  PROVE  /\ lock = r /\ version' /\ objects' = Objects
         /\ \/ version /\ objects' = objects
            \/ ~version /\ objects = {}
<1>1. progress[r] = "commit" /\ progress[r] \in Locked /\ lock = r
  BY DEF CommitMigration, Locked, MigrationInv, Progress
<1>2. \/ version /\ next[r] = 1 /\ made[r] = {}
      \/ ~version /\ next[r] = Len(Script) + 1 /\ made[r] = Objects
  BY <1>1 DEF MigrationInv, Progress
<1>3. objects' = objects \cup made[r] /\ version' = (version \/ next[r] > Len(Script))
  BY DEF CommitMigration
<1>4. CASE version /\ made[r] = {}
  <2>1. version' /\ objects' = objects
    BY <1>3, <1>4
  <2>2. objects = Objects
    BY <1>4 DEF MigrationInv, AllOrNothing
  <2> QED BY <1>1, <1>4, <2>1, <2>2
<1>5. CASE ~version /\ next[r] = Len(Script) + 1 /\ made[r] = Objects
  <2>1. next[r] > Len(Script)
    BY <1>5, ScriptFacts
  <2>2. version'
    BY <1>3, <2>1, Zenon
  <2>3. objects = {} /\ objects' = Objects
    BY <1>3, <1>5 DEF MigrationInv, AllOrNothing
  <2> QED BY <1>1, <1>5, <2>2, <2>3
<1> QED BY <1>2, <1>4, <1>5

(* The commit of one replica finds the others without a transaction. *)
LEMMA CommitStep == ASSUME MigrationInv, NEW r \in Replicas, CommitMigration(r) PROVE MigrationInv'
<1>1. lock = r /\ version' /\ objects' = Objects
  BY CommitEffect
<1>2. PICK label \in {"serving", "off"} : End(r, label)
  BY DEF CommitMigration
<1>3. \A q \in Replicas : progress'[q] = IF q = r THEN label ELSE progress[q]
  BY <1>2 DEF End, Advance, MigrationInv, MigrationTypeOK
<1>4. \A q \in Replicas : next'[q] = IF q = r THEN 1 ELSE next[q]
  BY <1>2 DEF End, MigrationInv, MigrationTypeOK
<1>5. \A q \in Replicas : made'[q] = IF q = r THEN {} ELSE made[q]
  BY <1>2 DEF End, MigrationInv, MigrationTypeOK
<1>6. lock' = Nobody
  BY <1>1, <1>2 DEF End
<1>7. MigrationTypeOK'
  <2>1. progress' \in [Replicas -> Starting \cup {"off", "serving", "failed"}]
    BY <1>2 DEF End, Advance, MigrationInv, MigrationTypeOK
  <2>2. 1 \in 1..(Len(Script) + 1)
    BY ScriptFacts
  <2>3. next' \in [Replicas -> 1..(Len(Script) + 1)]
    BY <1>2, <2>2 DEF End, MigrationInv, MigrationTypeOK
  <2>4. made' \in [Replicas -> SUBSET Objects]
    BY <1>2 DEF End, MigrationInv, MigrationTypeOK
  <2> QED BY <1>1, <1>6, <2>1, <2>3, <2>4 DEF MigrationTypeOK
<1>8. AllOrNothing'
  BY <1>1 DEF AllOrNothing
<1>9. ASSUME NEW q \in Replicas PROVE Progress(q)'
  <2>1. CASE q = r
    BY <2>1, <1>1, <1>3, <1>4, <1>5 DEF Progress, Locked
  <2>2. CASE q # r
    <3>1. progress'[q] = progress[q] /\ next'[q] = next[q] /\ made'[q] = made[q]
      BY <2>2, <1>3, <1>4, <1>5
    <3>2. progress[q] \notin Locked
      BY <2>2, <1>1 DEF MigrationInv, Progress
    <3>3. Progress(q)
      BY DEF MigrationInv
    <3> QED BY <1>1, <3>1, <3>2, <3>3 DEF Progress, Locked
  <2> QED BY <2>1, <2>2
<1> QED BY <1>7, <1>8, <1>9 DEF MigrationInv

(* Every step keeps the invariant. *)
LEMMA MigrationInvKept == MigrationInv /\ [MigrationNext]_migrationVars => MigrationInv'
<1> SUFFICES ASSUME MigrationInv, [MigrationNext]_migrationVars PROVE MigrationInv'
  OBVIOUS
<1>1. ASSUME NEW r \in Replicas, StartReplica(r) PROVE MigrationInv'
  BY <1>1, StartStep
<1>2. ASSUME NEW r \in Replicas, LockMigration(r) PROVE MigrationInv'
  BY <1>2, AcquireLockStep
<1>3. ASSUME NEW r \in Replicas, CreateBookkeeping(r) PROVE MigrationInv'
  BY <1>3, CreateBookkeepingStep
<1>4. ASSUME NEW r \in Replicas, LookForVersion(r) PROVE MigrationInv'
  BY <1>4, LookForVersionStep
<1>5. ASSUME NEW r \in Replicas, Create(r) PROVE MigrationInv'
  BY <1>5, CreateStep
<1>6. ASSUME NEW r \in Replicas, RecordVersion(r) PROVE MigrationInv'
  BY <1>6, RecordVersionStep
<1>7. ASSUME NEW r \in Replicas, CommitMigration(r) PROVE MigrationInv'
  BY <1>7, CommitStep
<1>8. ASSUME NEW r \in Replicas, Crash(r) PROVE MigrationInv'
  BY <1>8, CrashStep
<1>9. CASE UNCHANGED migrationVars
  BY <1>9 DEF migrationVars, MigrationInv, MigrationTypeOK, AllOrNothing, Progress
<1> QED BY <1>1, <1>2, <1>3, <1>4, <1>5, <1>6, <1>7, <1>8, <1>9 DEF MigrationNext, MigrationStep

(* The invariant holds in every reachable state. *)
LEMMA MigrationInvariance == MigrationSpec => []MigrationInv
BY MigrationInvInitially, MigrationInvKept, PTL DEF MigrationSpec

-----------------------------------------------------------------------------
(* Every variable of the migration keeps its type, and whoever holds the    *)
(* advisory lock is inside its transaction.                                 *)
THEOREM MigrationTypeCorrect == MigrationSpec => []MigrationTypeOK
<1>1. MigrationInv => MigrationTypeOK
  BY DEF MigrationInv
<1> QED BY <1>1, MigrationInvariance, PTL

(* However many replicas start together, crash and start again, initialize()*)
(* never meets a table, an index, the view or a version row that another    *)
(* start created.                                                           *)
THEOREM StartsAlwaysClear == MigrationSpec => []StartsNeverCollide
<1>1. MigrationInv => StartsNeverCollide
  BY DEF MigrationInv, Progress, StartsNeverCollide
<1> QED BY <1>1, MigrationInvariance, PTL

(* readiness() looks at less than the queries need, and is right all the    *)
(* same: a replica that serves has the whole schema.                        *)
THEOREM AlwaysUsable == MigrationSpec => []ServingMeansUsable
<1>1. MigrationInv => ServingMeansUsable
  <2> SUFFICES ASSUME MigrationInv PROVE ServingMeansUsable
    OBVIOUS
  <2>1. Ready => objects = Objects
    BY DEF MigrationInv, AllOrNothing, Ready
  <2>2. version => Ready
    <3>1. {"dim_case", "fact_case_status_event", "ingestion_receipt"} \subseteq Objects
      BY DEF Objects, Script
    <3> QED BY <3>1 DEF MigrationInv, AllOrNothing, Ready
  <2> QED BY <2>1, <2>2 DEF MigrationInv, Progress, ServingMeansUsable
<1> QED BY <1>1, MigrationInvariance, PTL

(* The schema and its version appear in one step, whole, over nothing.      *)
THEOREM AlwaysOnce == MigrationSpec => AppliedOnce
<1> DEFINE Whole == objects' # objects \/ version' # version =>
                      objects = {} /\ objects' = Objects /\ ~version /\ version'
<1>1. ASSUME MigrationInv, [MigrationNext]_migrationVars PROVE [Whole]_migrationVars
  <2>1. ASSUME NEW r \in Replicas, CommitMigration(r) PROVE Whole
    <3>1. CASE version /\ objects' = objects
      <4>1. version' = version
        BY <1>1, <2>1, <3>1, CommitEffect, Zenon DEF MigrationInv, MigrationTypeOK, CommitMigration
      <4> QED BY <3>1, <4>1
    <3>2. CASE ~version /\ objects = {}
      BY <1>1, <2>1, <3>2, CommitEffect
    <3> QED BY <1>1, <2>1, <3>1, <3>2, CommitEffect
  <2>2. ASSUME NEW r \in Replicas,
               StartReplica(r) \/ LockMigration(r) \/ CreateBookkeeping(r) \/ LookForVersion(r)
                 \/ Create(r) \/ RecordVersion(r) \/ Crash(r)
        PROVE  UNCHANGED <<objects, version>>
    BY <2>2 DEF StartReplica, LockMigration, CreateBookkeeping, LookForVersion, Create, RecordVersion,
                Crash, Fail
  <2> QED BY <1>1, <2>1, <2>2 DEF MigrationNext, MigrationStep, migrationVars
<1> QED BY <1>1, MigrationInvariance, PTL DEF MigrationSpec, AppliedOnce

-----------------------------------------------------------------------------
(* RecoveryRehearsal *)

(* Everything starts with values of its type. *)
LEMMA InitTyped == RehearsalInit => RehearsalTypeOK
BY RehearsalAssumption DEF RehearsalInit, RehearsalTypeOK, Versions, Backup, OldFile, Labels

(* Every step keeps the types. *)
LEMMA NextTyped == RehearsalTypeOK /\ [RehearsalNext]_rehearsalVars => RehearsalTypeOK'
<1> SUFFICES ASSUME RehearsalTypeOK, [RehearsalNext]_rehearsalVars PROVE RehearsalTypeOK'
  OBVIOUS
<1> USE RehearsalAssumption DEF RehearsalTypeOK, Labels, Enter, sharedVars, runVars
<1>1. CASE Ingest
  BY <1>1 DEF Ingest, Versions
<1>2. ASSUME NEW r \in Rehearsals, Step(r) PROVE RehearsalTypeOK'
  <2>1. CASE \E n \in Names : Start(r, n)
    BY <2>1 DEF Start
  <2>2. CASE ExportSnapshot(r)
    BY <2>2 DEF ExportSnapshot
  <2>3. ASSUME NEW t \in Tables, ReadTable(r, t) PROVE RehearsalTypeOK'
    <3> DEFINE label == IF unread[r] = {t} THEN "dump" ELSE "evidence"
    <3>1. unread' = [unread EXCEPT ![r] = unread[r] \ {t}]
      BY <2>3 DEF ReadTable
    <3>2. evidence' = [evidence EXCEPT ![r] = [evidence[r] EXCEPT ![t] = snapshot[r]]]
      BY <2>3 DEF ReadTable
    <3>3. stage' = [stage EXCEPT ![r] = label] /\ label \in Labels
      BY <2>3 DEF ReadTable
    <3> HIDE DEF label
    <3>4. unread' \in [Rehearsals -> SUBSET Tables]
      BY <3>1
    <3>5. [evidence[r] EXCEPT ![t] = snapshot[r]] \in [Tables -> Versions \cup {Nothing}]
      OBVIOUS
    <3>6. evidence' \in [Rehearsals -> [Tables -> Versions \cup {Nothing}]]
      BY <3>2, <3>5
    <3>7. stage' \in [Rehearsals -> Labels]
      BY <3>3
    <3> QED BY <2>3, <3>4, <3>6, <3>7 DEF ReadTable
  <2>4. CASE PublishBackup(r)
    <3>1. File(r) \in Backup
      BY DEF File, Backup
    <3> QED BY <2>4, <3>1 DEF PublishBackup
  <2>5. CASE ReadDigest(r) \/ Restore(r)
    <3>1. backup[PathOf[r]] \in Backup \cup {Nothing}
      OBVIOUS
    <3>2. CASE ReadDigest(r)
      BY <3>1, <3>2 DEF ReadDigest
    <3>3. CASE Restore(r)
      BY <3>1, <3>3 DEF Restore
    <3> QED BY <2>5, <3>2, <3>3
  <2>6. CASE CreateDatabase(r) \/ CreateUnanswered(r) \/ DropDatabase(r)
    <3>1. CASE CreateDatabase(r) \/ CreateUnanswered(r)
      <4>1. stage' \in [Rehearsals -> Labels]
        BY <3>1 DEF CreateDatabase, CreateUnanswered
      <4>2. database' \in [Names -> Rehearsals \cup {Outside, Nothing}]
        BY <3>1 DEF CreateDatabase, CreateUnanswered
      <4> QED BY <3>1, <4>1, <4>2 DEF CreateDatabase, CreateUnanswered
    <3>2. CASE DropDatabase(r)
      <4>1. stage' \in [Rehearsals -> Labels]
        BY <3>2 DEF DropDatabase
      <4>2. database' \in [Names -> Rehearsals \cup {Outside, Nothing}]
        BY <3>2 DEF DropDatabase
      <4> QED BY <3>2, <4>1, <4>2 DEF DropDatabase
    <3> QED BY <2>6, <3>1, <3>2
  <2>7. CASE \E inTime \in BOOLEAN : Verify(r, inTime)
    BY <2>7 DEF Verify
  <2>8. CASE \/ RejectPath(r) \/ Dump(r) \/ LookForDatabase(r) \/ LoseCreate(r)
             \/ RestoreFails(r) \/ DropFails(r) \/ WriteReport(r) \/ Abort(r)
    BY <2>8 DEF RejectPath, Dump, LookForDatabase, LoseCreate, RestoreFails, DropFails,
      WriteReport, Abort
  <2> QED BY <1>2, <2>1, <2>2, <2>3, <2>4, <2>5, <2>6, <2>7, <2>8 DEF Step
<1>3. CASE UNCHANGED rehearsalVars
  BY <1>3 DEF rehearsalVars
<1> QED BY <1>1, <1>2, <1>3 DEF RehearsalNext

(* The types of RecoveryRehearsal hold in every reachable state. *)
THEOREM RehearsalTypeCorrect == RehearsalSpec => []RehearsalTypeOK
BY InitTyped, NextTyped, PTL DEF RehearsalSpec

-----------------------------------------------------------------------------
(* Who owns a scratch database: a run owns at most the one it was told to   *)
(* use, from CREATE DATABASE until it drops it or dies, and knows it.       *)
Ownership ==
  /\ \A r \in Rehearsals, n \in Names :
       database[n] = r => name[r] = n /\ stage[r] \in {"restore", "verify", "drop", "failed"}
  /\ \A r \in Rehearsals :
       /\ stage[r] \in {"create", "restore", "verify", "drop", "exists", "digest", "publish",
                        "dump", "evidence", "snapshot"} => name[r] \in Names
       /\ stage[r] \in {"restore", "verify", "drop"} => database[name[r]] = r

(* Every step keeps the ownership of scratch databases. *)
LEMMA OwnershipStep == RehearsalTypeOK /\ Ownership /\ [RehearsalNext]_rehearsalVars => Ownership'
<1> SUFFICES ASSUME RehearsalTypeOK, Ownership, [RehearsalNext]_rehearsalVars PROVE Ownership'
  OBVIOUS
<1> USE RehearsalAssumption DEF RehearsalTypeOK, Labels, Ownership, Enter, sharedVars, runVars
<1>1. CASE Ingest
  BY <1>1 DEF Ingest
<1>2. ASSUME NEW r \in Rehearsals, Step(r) PROVE Ownership'
  <2>1. ASSUME NEW n \in Names, Start(r, n) PROVE Ownership'
    BY <2>1 DEF Start
  <2>2. CASE ExportSnapshot(r)
    BY <2>2 DEF ExportSnapshot
  <2>3. ASSUME NEW t \in Tables, ReadTable(r, t) PROVE Ownership'
    <3> DEFINE label == IF unread[r] = {t} THEN "dump" ELSE "evidence"
    <3>1. /\ stage' = [stage EXCEPT ![r] = label] /\ stage[r] = "evidence"
          /\ UNCHANGED <<database, name>>
      BY <2>3 DEF ReadTable
    <3>2. label \in {"dump", "evidence"}
      OBVIOUS
    <3> HIDE DEF label
    <3> QED BY <3>1, <3>2
  <2>4. CASE PublishBackup(r) \/ ReadDigest(r) \/ Restore(r)
    BY <2>4 DEF PublishBackup, ReadDigest, Restore
  <2>5. CASE CreateDatabase(r)
    BY <2>5 DEF CreateDatabase
  <2>9. CASE CreateUnanswered(r)
    BY <2>9 DEF CreateUnanswered
  <2>6. CASE DropDatabase(r)
    <3> DEFINE label == IF Checked(r) THEN "report" ELSE "failed"
    <3>1. /\ stage' = [stage EXCEPT ![r] = label] /\ stage[r] = "drop"
          /\ database' = [database EXCEPT ![name[r]] = Nothing]
          /\ UNCHANGED name
      BY <2>6 DEF DropDatabase
    <3>2. label \in {"report", "failed"}
      OBVIOUS
    <3>3. \A q \in Rehearsals \ {r} : stage[q] \in {"restore", "verify", "drop"} => name[q] # name[r]
      BY <3>1
    <3> HIDE DEF label
    <3> QED BY <3>1, <3>2, <3>3
  <2>7. CASE \E inTime \in BOOLEAN : Verify(r, inTime)
    BY <2>7 DEF Verify
  <2>8. CASE \/ RejectPath(r) \/ Dump(r) \/ LookForDatabase(r) \/ LoseCreate(r)
             \/ RestoreFails(r) \/ DropFails(r) \/ WriteReport(r) \/ Abort(r)
    BY <2>8 DEF RejectPath, Dump, LookForDatabase, LoseCreate, RestoreFails, DropFails,
      WriteReport, Abort
  <2> QED BY <1>2, <2>1, <2>2, <2>3, <2>4, <2>5, <2>6, <2>7, <2>8, <2>9 DEF Step
<1>3. CASE UNCHANGED rehearsalVars
  BY <1>3 DEF rehearsalVars
<1> QED BY <1>1, <1>2, <1>3 DEF RehearsalNext

(* Nobody owns a database before the first step. *)
LEMMA InitOwnership == RehearsalInit => Ownership
BY RehearsalAssumption DEF RehearsalInit, Ownership

(* A run never drops a database it did not create, whatever other runs do   *)
(* with the same name between its look-up and its CREATE DATABASE.          *)
THEOREM AlwaysDropsOwn == RehearsalSpec => DropsOnlyItsOwn
<1> DEFINE OnlyOwn == \A r \in Rehearsals, n \in Names :
             stage[r] = "drop" /\ stage'[r] # "drop" /\ database[n] # database'[n] => database[n] = r
<1>1. RehearsalTypeOK /\ Ownership /\ [RehearsalNext]_rehearsalVars => [OnlyOwn]_rehearsalVars
  <2> SUFFICES ASSUME RehearsalTypeOK, Ownership, RehearsalNext, NEW r \in Rehearsals, NEW n \in Names,
                      stage[r] = "drop", stage'[r] # "drop", database[n] # database'[n]
               PROVE  database[n] = r
    OBVIOUS
  <2> USE DEF RehearsalTypeOK, Enter, sharedVars, runVars
  <2>1. PICK q \in Rehearsals : Step(q)
    BY DEF RehearsalNext, Ingest
  <2>2. q = r
    BY <2>1 DEF Step, RejectPath, Start, ExportSnapshot, ReadTable, Dump, PublishBackup,
      ReadDigest, LookForDatabase, CreateDatabase, CreateUnanswered, LoseCreate, Restore,
      RestoreFails, Verify, DropDatabase, DropFails, WriteReport, Abort
  <2>3. DropDatabase(r)
    BY <2>1, <2>2 DEF Step, RejectPath, Start, ExportSnapshot, ReadTable, Dump,
      PublishBackup, ReadDigest, LookForDatabase, CreateDatabase, CreateUnanswered,
      LoseCreate, Restore, RestoreFails, Verify, DropFails, WriteReport, Abort
  <2> QED BY <2>3 DEF DropDatabase, Ownership
<1> QED BY <1>1, RehearsalTypeCorrect, InitOwnership, OwnershipStep, InitTyped, NextTyped, PTL
       DEF RehearsalSpec, DropsOnlyItsOwn

-----------------------------------------------------------------------------
Begun == {"evidence", "dump", "publish", "digest", "exists", "create", "restore", "verify",
          "drop", "report", "done"}

(* What a run knows of its evidence, its file and the restored file.  This  *)
(* is where the runs must have backup paths of their own: between two steps *)
(* of a run nobody else replaces its file.                                  *)
Faithful(r) ==
  /\ \A t \in Tables \ unread[r] : evidence[r][t] = snapshot[r]
  /\ stage[r] \in {"idle", "snapshot"} => unread[r] = Tables
  /\ stage[r] \in Begun \ {"evidence"} => unread[r] = {}
  /\ stage[r] \in Begun \ {"evidence", "dump", "publish"} => backup[PathOf[r]] = File(r)
  /\ stage[r] \in Begun \ {"evidence", "dump", "publish", "digest"} => digest[r] = File(r)
  /\ stage[r] = "verify" \/ Checked(r) => unread[r] = {} /\ restored[r] = File(r)
  /\ stage[r] \in {"report", "done"} => Checked(r)
  /\ Checked(r) => stage[r] \in {"drop", "report", "done", "failed"}
  /\ verdict[r] = "pass" => Reconciles(r)

OwnPaths == \A r, q \in Rehearsals : PathOf[r] = PathOf[q] => r = q

(* A run that does nothing is untouched by the step of another. *)
LEMMA OthersFaithful ==
  ASSUME NEW r \in Rehearsals, Faithful(r),
         stage'[r] = stage[r], unread'[r] = unread[r], evidence'[r] = evidence[r],
         snapshot'[r] = snapshot[r], digest'[r] = digest[r], restored'[r] = restored[r],
         verdict'[r] = verdict[r], backup'[PathOf[r]] = backup[PathOf[r]]
  PROVE  Faithful(r)'
BY DEF Faithful, File, Checked, Reconciles

(* The run that takes a step keeps what it knows. *)
LEMMA StepFaithful ==
  ASSUME RehearsalTypeOK, NEW r \in Rehearsals, Faithful(r), Step(r)
  PROVE  Faithful(r)'
<1> USE RehearsalAssumption DEF RehearsalTypeOK, Enter, sharedVars, runVars, Begun, File
<1>1. ASSUME NEW n \in Names, Start(r, n) PROVE Faithful(r)'
  BY <1>1 DEF Start, Faithful, Checked, Reconciles
<1>2. CASE ExportSnapshot(r)
  BY <1>2 DEF ExportSnapshot, Faithful, Checked, Reconciles
<1>3. ASSUME NEW t \in Tables, ReadTable(r, t) PROVE Faithful(r)'
  <2> DEFINE label == IF unread[r] = {t} THEN "dump" ELSE "evidence"
  <2>1. /\ stage'[r] = label /\ stage[r] = "evidence"
        /\ unread'[r] = unread[r] \ {t}
        /\ evidence'[r] = [evidence[r] EXCEPT ![t] = snapshot[r]]
        /\ UNCHANGED <<snapshot, backup, digest, restored, verdict>>
    BY <1>3 DEF ReadTable
  <2>2. label \in {"dump", "evidence"} /\ (label = "dump" => unread'[r] = {})
    BY <2>1
  <2>3. \A q \in Tables \ unread'[r] : evidence'[r][q] = snapshot[r]
    BY <2>1 DEF Faithful
  <2>4. ~Checked(r) /\ verdict[r] # "pass"
    BY <2>1 DEF Faithful, Checked
  <2> HIDE DEF label
  <2> QED BY <2>1, <2>2, <2>3, <2>4 DEF Faithful, Checked, Reconciles
<1>4. CASE PublishBackup(r)
  BY <1>4 DEF PublishBackup, Faithful, Checked, Reconciles
<1>5. CASE ReadDigest(r) \/ Restore(r)
  <2>1. CASE ReadDigest(r)
    BY <2>1 DEF ReadDigest, Faithful, Checked, Reconciles
  <2>2. CASE Restore(r)
    BY <2>2 DEF Restore, Faithful, Checked, Reconciles
  <2> QED BY <1>5, <2>1, <2>2
<1>6. CASE CreateDatabase(r) \/ CreateUnanswered(r) \/ DropDatabase(r)
  <2>1. CASE CreateDatabase(r) \/ CreateUnanswered(r)
    BY <2>1 DEF CreateDatabase, CreateUnanswered, Faithful, Checked, Reconciles
  <2>2. CASE DropDatabase(r)
    BY <2>2 DEF DropDatabase, Faithful, Checked, Reconciles
  <2> QED BY <1>6, <2>1, <2>2
<1>7. ASSUME NEW inTime \in BOOLEAN, Verify(r, inTime) PROVE Faithful(r)'
  BY <1>7 DEF Verify, Faithful, Checked, Reconciles
<1>8. CASE \/ RejectPath(r) \/ Dump(r) \/ LookForDatabase(r) \/ LoseCreate(r)
           \/ RestoreFails(r) \/ DropFails(r) \/ WriteReport(r) \/ Abort(r)
  BY <1>8 DEF RejectPath, Dump, LookForDatabase, LoseCreate, RestoreFails, DropFails,
    WriteReport, Abort, Faithful, Checked, Reconciles
<1> QED BY <1>1, <1>2, <1>3, <1>4, <1>5, <1>6, <1>7, <1>8 DEF Step

(* Every step of the system keeps every run faithful, paths being their own. *)
LEMMA FaithfulStep ==
  ASSUME OwnPaths
  PROVE  RehearsalTypeOK /\ (\A r \in Rehearsals : Faithful(r)) /\ [RehearsalNext]_rehearsalVars
           => (\A r \in Rehearsals : Faithful(r))'
<1> SUFFICES ASSUME RehearsalTypeOK, \A r \in Rehearsals : Faithful(r), [RehearsalNext]_rehearsalVars,
                    NEW r \in Rehearsals
             PROVE  Faithful(r)'
  OBVIOUS
<1> USE RehearsalAssumption DEF RehearsalTypeOK, Enter, sharedVars, runVars
<1>1. CASE Ingest \/ UNCHANGED rehearsalVars
  BY <1>1, OthersFaithful DEF Ingest, rehearsalVars
<1>2. ASSUME NEW q \in Rehearsals, Step(q) PROVE Faithful(r)'
  <2>1. CASE q = r
    BY <1>2, <2>1, StepFaithful
  <2>2. CASE q # r
    <3>1. PathOf[q] # PathOf[r]
      BY <2>2 DEF OwnPaths
    <3>2. backup'[PathOf[r]] = backup[PathOf[r]]
      BY <1>2, <3>1 DEF Step, RejectPath, Start, ExportSnapshot, ReadTable, Dump,
        PublishBackup, ReadDigest, LookForDatabase, CreateDatabase, CreateUnanswered,
        LoseCreate, Restore, RestoreFails, Verify, DropDatabase, DropFails, WriteReport, Abort
    <3>3. stage'[r] = stage[r] /\ snapshot'[r] = snapshot[r] /\ digest'[r] = digest[r]
          /\ restored'[r] = restored[r] /\ verdict'[r] = verdict[r]
      BY <1>2, <2>2 DEF Step, RejectPath, Start, ExportSnapshot, ReadTable, Dump,
        PublishBackup, ReadDigest, LookForDatabase, CreateDatabase, CreateUnanswered,
        LoseCreate, Restore, RestoreFails, Verify, DropDatabase, DropFails, WriteReport, Abort
    <3>4. unread'[r] = unread[r] /\ evidence'[r] = evidence[r]
      BY <1>2, <2>2 DEF Step, RejectPath, Start, ExportSnapshot, ReadTable, Dump,
        PublishBackup, ReadDigest, LookForDatabase, CreateDatabase, CreateUnanswered,
        LoseCreate, Restore, RestoreFails, Verify, DropDatabase, DropFails, WriteReport, Abort
    <3> QED BY <3>2, <3>3, <3>4, OthersFaithful
  <2> QED BY <2>1, <2>2
<1> QED BY <1>1, <1>2 DEF RehearsalNext

(* Nothing is claimed of a run before it starts. *)
LEMMA InitFaithful == RehearsalInit => \A r \in Rehearsals : Faithful(r)
<1> SUFFICES ASSUME RehearsalInit, NEW r \in Rehearsals PROVE Faithful(r)
  OBVIOUS
<1>1. stage[r] = "idle" /\ unread[r] = Tables /\ verdict[r] = Nothing
  BY DEF RehearsalInit
<1>2. verdict[r] # "pass"
  BY <1>1, RehearsalAssumption
<1> QED BY <1>1, <1>2 DEF Faithful, Checked, Begun

(* With backup paths of their own, no ingestion and no other rehearsal can  *)
(* make the evidence of a run disagree with its restored backup.            *)
THEOREM NeverFalseAlarm == ASSUME OwnPaths PROVE RehearsalSpec => []NoFalseAlarm
<1>1. (\A r \in Rehearsals : Faithful(r)) => NoFalseAlarm
  <2> SUFFICES ASSUME NEW r \in Rehearsals, Faithful(r), Checked(r), NEW t \in Tables
               PROVE  evidence[r][t] = restored[r].version
    BY DEF NoFalseAlarm, Reconciles
  <2>1. unread[r] = {} /\ restored[r] = File(r)
    BY DEF Faithful
  <2>2. evidence[r][t] = snapshot[r]
    BY <2>1 DEF Faithful
  <2> QED BY <2>1, <2>2 DEF File
<1> QED BY <1>1, InitTyped, NextTyped, InitFaithful, FaithfulStep, PTL DEF RehearsalSpec

(* With backup paths of their own, a report means that the scratch database *)
(* is gone and, when it passes, that the reported file is the restored one. *)
THEOREM AlwaysClean == ASSUME OwnPaths PROVE RehearsalSpec => []ReportMeansClean
<1>1. Ownership /\ (\A r \in Rehearsals : Faithful(r)) => ReportMeansClean
  <2> SUFFICES ASSUME Ownership, \A r \in Rehearsals : Faithful(r), NEW r \in Rehearsals,
                      stage[r] \in {"report", "done"}
               PROVE  /\ \A n \in Names : database[n] # r
                      /\ verdict[r] = "pass" => digest[r] = restored[r] /\ Reconciles(r)
    BY DEF ReportMeansClean
  <2>1. \A n \in Names : database[n] # r
    BY DEF Ownership
  <2>2. Checked(r) /\ digest[r] = File(r) /\ restored[r] = File(r)
    BY DEF Faithful, Begun
  <2>3. verdict[r] = "pass" => Reconciles(r)
    BY DEF Faithful
  <2> QED BY <2>1, <2>2, <2>3
<1> QED BY <1>1, InitTyped, NextTyped, InitFaithful, FaithfulStep, InitOwnership,
       OwnershipStep, PTL DEF RehearsalSpec
=============================================================================
