-------------------------- MODULE SqliteStoreProofs --------------------------
(***************************************************************************)
(* SqliteStore keeps data sets whole and implements CaseStore between      *)
(* refreshes, for any sessions, refreshers, keys and batches.              *)
(***************************************************************************)
EXTENDS SqliteStore, FiniteSetTheorems, TLAPS

(* At most one writer is between its lock and its commit. *)
OneWriter ==
  /\ \A s, t \in Sessions : Writing(s) /\ Writing(t) => s = t
  /\ \A q, r \in Refreshers : Refreshing(q) /\ Refreshing(r) => q = r
  /\ \A s \in Sessions, r \in Refreshers : ~(Writing(s) /\ Refreshing(r))

(* What the writer found while it held the lock is still true. *)
FoundStaysTrue ==
  \A s \in Sessions :
    /\ pc[s] \in {"insert", "commit"} => receipts[Key(s)] = None
    /\ pc[s] = "commit" => \A r \in Rows(Batch(s)) : stored[r] = None

(* Rows and receipts come with the whole of their batch. *)
RowsAreWhole ==
  \A r \in RowIds : stored[r] # None => \A q \in Rows(stored[r]) : stored[q] = stored[r]
ReceiptsAreBacked ==
  \A k \in Keys : receipts[k] # None => \A q \in Rows(receipts[k]) : stored[q] = receipts[k]

(* Rows without a receipt are of one generated data set. *)
Loose(r)   == stored[r] # None /\ \A k \in Keys : receipts[k] # stored[r]
OneDataSet ==
  /\ \A r \in RowIds : Loose(r) => stored[r] \in Generated
  /\ \A q, r \in RowIds : Loose(q) /\ Loose(r) => stored[q] = stored[r]

(* The inductive invariant. *)
IInv == TypeOK /\ OneWriter /\ FoundStaysTrue /\ RowsAreWhole /\ ReceiptsAreBacked /\ OneDataSet

-----------------------------------------------------------------------------
(* The primary keys of a batch are row ids. *)
LEMMA RowsAreIds == \A p \in Payloads : Rows(p) \subseteq RowIds
<1> SUFFICES ASSUME NEW p \in Payloads PROVE Rows(p) \subseteq RowIds
  OBVIOUS
<1>1. CaseOrder[p] \in Seq(RowIds) /\ EventOrder[p] \in Seq(RowIds)
  BY OrderAssumption DEF RowIds
<1>2. Plan(p) \in Seq(RowIds)
  BY <1>1 DEF Plan
<1> QED BY <1>2 DEF Rows

(* Answers of the store are results. *)
LEMMA ResultTypes ==
  /\ Conflict \in Results /\ Error \in Results
  /\ \A p \in Payloads : Accepted(p) \in Results /\ Replayed(p) \in Results
BY DEF Conflict, Error, Accepted, Replayed, Results, Kinds

(* A session that is not idle has a call. *)
LEMMA CallTypes ==
  ASSUME TypeOK, NEW s \in Sessions, pc[s] # "idle"
  PROVE  call[s] \in Calls /\ Key(s) \in Keys /\ Batch(s) \in Payloads
<1>1. call[s] \in Calls
  BY DEF TypeOK
<1> QED BY <1>1 DEF Calls, Key, Batch

(* The initial states are well typed. *)
LEMMA InitType == Init => TypeOK
BY DEF Init, TypeOK

(* Every step of a session preserves the types. *)
LEMMA SessionType ==
  ASSUME TypeOK, NEW s \in Sessions,
         Ingest(s) \/ Crash(s) \/ \E k \in Keys, p \in Payloads : Call(s, k, p)
  PROVE  TypeOK'
<1> USE DEF TypeOK, storeVars, sessionVars, refreshVars
<1>1. ASSUME NEW k \in Keys, NEW p \in Payloads, Call(s, k, p) PROVE TypeOK'
  BY <1>1 DEF Call, Calls
<1>2. ASSUME NEW label \in {"lookup", "insert", "commit"}, pc[s] # "idle", Goto(s, label),
             UNCHANGED <<stored, receipts, result>>
      PROVE  TypeOK'
  BY <1>2 DEF Goto
<1>3. ASSUME NEW r \in Results, pc[s] # "idle", Finish(s, r),
             stored' \in [RowIds -> Payloads \cup {None}], receipts' \in [Keys -> Payloads \cup {None}]
      PROVE  TypeOK'
  BY <1>3 DEF Finish, Goto
<1>4. ASSUME BeginImmediate(s) \/ FindNoReceipt(s) \/ InsertBatch(s) PROVE TypeOK'
  BY <1>2, <1>4 DEF BeginImmediate, FindNoReceipt, InsertBatch
<1>5. ASSUME ReplayReceipt(s) PROVE TypeOK'
  <2>1. Replayed(receipts[Key(s)]) \in Results /\ pc[s] # "idle"
    BY <1>5, CallTypes, ResultTypes DEF ReplayReceipt
  <2> QED BY <1>3, <1>5, <2>1 DEF ReplayReceipt, Rollback
<1>6. ASSUME RejectReusedKey(s) \/ ViolateUnique(s) \/ BusyTimeout(s) PROVE TypeOK'
  <2>1. pc[s] # "idle" /\ (Rollback(s, Conflict) \/ Rollback(s, Error))
    BY <1>6 DEF RejectReusedKey, ViolateUnique, BusyTimeout
  <2> QED BY <1>3, <2>1, ResultTypes DEF Rollback
<1>7. ASSUME Commit(s) PROVE TypeOK'
  <2>1. pc[s] # "idle" /\ Key(s) \in Keys /\ Batch(s) \in Payloads
    BY <1>7, CallTypes DEF Commit
  <2>2. stored' \in [RowIds -> Payloads \cup {None}] /\ receipts' \in [Keys -> Payloads \cup {None}]
    BY <1>7, <2>1 DEF Commit, WithBatch
  <2> QED BY <1>3, <1>7, <2>1, <2>2, ResultTypes DEF Commit
<1>8. ASSUME Answer(s) PROVE TypeOK'
  <2>1. call[s] \in Calls /\ result[s] \in Results
    BY <1>8 DEF Answer
  <2>2. answered' \subseteq Answers
    BY <1>8, <2>1 DEF Answer, AnswerTo, Answers, Results
  <2> QED BY <1>8, <2>2 DEF Answer, Hangup
<1>9. ASSUME Crash(s) PROVE TypeOK'
  BY <1>9 DEF Crash, Hangup
<1> QED BY <1>1, <1>4, <1>5, <1>6, <1>7, <1>8, <1>9 DEF Ingest

(* So does every step of a refresh. *)
LEMMA RefreshType ==
  ASSUME TypeOK, NEW r \in Refreshers, StartPipeline(r) \/ FindNoDatabase(r) \/ Refresh(r)
  PROVE  TypeOK'
<1> USE DEF TypeOK, storeVars, sessionVars, refreshVars, Advance
<1>1. CASE StartPipeline(r) \/ FindNoDatabase(r) \/ CreateSchema(r) \/ AbandonReplace(r)
  BY <1>1 DEF StartPipeline, FindNoDatabase, CreateSchema, AbandonReplace
<1>2. ASSUME NEW g \in Generated, ReplaceAll(r, g) PROVE TypeOK'
  <2>1. g # None
    BY RefreshAssumption, NoneAssumption
  <2> QED BY <1>2, <2>1 DEF ReplaceAll
<1>3. CASE CommitReplace(r)
  <2>1. batch[r] \in Payloads
    BY <1>3, RefreshAssumption DEF CommitReplace
  <2>2. stored' \in [RowIds -> Payloads \cup {None}] /\ receipts' \in [Keys -> Payloads \cup {None}]
    BY <1>3, <2>1 DEF CommitReplace
  <2> QED BY <1>3, <2>2 DEF CommitReplace
<1> QED BY <1>1, <1>2, <1>3 DEF Refresh

(* Every step preserves the types. *)
LEMMA NextType == TypeOK /\ [Next]_vars => TypeOK'
<1> SUFFICES ASSUME TypeOK, [Next]_vars PROVE TypeOK'
  OBVIOUS
<1>1. CASE StartApi
  BY <1>1 DEF StartApi, TypeOK, sessionVars, refreshVars
<1>2. CASE UNCHANGED vars
  BY <1>2 DEF vars, TypeOK, storeVars, sessionVars, refreshVars
<1> QED BY <1>1, <1>2, SessionType, RefreshType DEF Next

(* The model's variables keep their types. *)
THEOREM TypeCorrect == Spec => []TypeOK
BY InitType, NextType, PTL DEF Spec

-----------------------------------------------------------------------------
(* A step of a session, seen from the other writers and from the store. *)
LEMMA SessionStep ==
  ASSUME TypeOK, NEW s \in Sessions,
         Ingest(s) \/ Crash(s) \/ \E k \in Keys, p \in Payloads : Call(s, k, p)
  PROVE  /\ \A t \in Sessions \ {s} : pc'[t] = pc[t] /\ call'[t] = call[t]
         /\ rpc' = rpc
         /\ Writing(s)' => Writing(s) \/ WriterFree
         /\ UNCHANGED <<stored, receipts>> \/ Commit(s)
         /\ pc'[s] \in {"insert", "commit"} =>
              receipts[Key(s)] = None /\ call'[s] = call[s] /\ UNCHANGED <<stored, receipts>>
         /\ pc'[s] = "commit" => \A r \in Rows(Batch(s)) : stored[r] = None
<1> USE DEF TypeOK, Goto, refreshVars, storeVars, Writing
<1>1. ASSUME NEW k \in Keys, NEW p \in Payloads, Call(s, k, p)
      PROVE  /\ \A t \in Sessions \ {s} : pc'[t] = pc[t] /\ call'[t] = call[t]
             /\ rpc' = rpc /\ pc'[s] = "begin" /\ UNCHANGED <<stored, receipts>>
  BY <1>1 DEF Call
<1>2. ASSUME NEW r, Finish(s, r)
      PROVE  /\ \A t \in Sessions \ {s} : pc'[t] = pc[t] /\ call'[t] = call[t]
             /\ rpc' = rpc /\ pc'[s] = "done"
  BY <1>2 DEF Finish
<1>3. ASSUME Answer(s) \/ Crash(s)
      PROVE  /\ \A t \in Sessions \ {s} : pc'[t] = pc[t] /\ call'[t] = call[t]
             /\ rpc' = rpc /\ pc'[s] = "idle" /\ UNCHANGED <<stored, receipts>>
  BY <1>3 DEF Answer, Crash, Hangup
<1>4. ASSUME ReplayReceipt(s) \/ RejectReusedKey(s) \/ ViolateUnique(s) \/ BusyTimeout(s)
      PROVE  UNCHANGED <<stored, receipts>> /\ \E r : Finish(s, r)
  BY <1>4 DEF ReplayReceipt, RejectReusedKey, ViolateUnique, BusyTimeout, Rollback
<1>5. ASSUME BeginImmediate(s)
      PROVE  /\ \A t \in Sessions \ {s} : pc'[t] = pc[t] /\ call'[t] = call[t]
             /\ rpc' = rpc /\ pc'[s] = "lookup" /\ WriterFree /\ UNCHANGED <<stored, receipts>>
  BY <1>5 DEF BeginImmediate
<1>6. ASSUME FindNoReceipt(s)
      PROVE  /\ \A t \in Sessions \ {s} : pc'[t] = pc[t] /\ call'[t] = call[t]
             /\ rpc' = rpc /\ pc'[s] = "insert" /\ pc[s] = "lookup" /\ receipts[Key(s)] = None
             /\ UNCHANGED <<stored, receipts, call>>
  BY <1>6 DEF FindNoReceipt
<1>7. ASSUME InsertBatch(s)
      PROVE  /\ \A t \in Sessions \ {s} : pc'[t] = pc[t] /\ call'[t] = call[t]
             /\ rpc' = rpc /\ pc'[s] = "commit" /\ pc[s] = "insert" /\ receipts[Key(s)] = None
             /\ UNCHANGED <<stored, receipts, call>> /\ \A r \in Rows(Batch(s)) : stored[r] = None
  BY <1>7 DEF InsertBatch
<1>8. ASSUME Commit(s) PROVE \E r : Finish(s, r)
  BY <1>8 DEF Commit
<1> QED BY <1>1, <1>2, <1>3, <1>4, <1>5, <1>6, <1>7, <1>8 DEF Ingest

(* A step of a refresh. *)
LEMMA RefreshStep ==
  ASSUME TypeOK, NEW r \in Refreshers, StartPipeline(r) \/ FindNoDatabase(r) \/ Refresh(r)
  PROVE  /\ UNCHANGED <<pc, call>>
         /\ \A q \in Refreshers \ {r} : rpc'[q] = rpc[q]
         /\ Refreshing(r)' => WriterFree
         /\ UNCHANGED <<stored, receipts>> \/ CommitReplace(r)
<1> USE DEF TypeOK, sessionVars, storeVars, Advance, Refreshing
<1>1. CASE StartPipeline(r) \/ FindNoDatabase(r) \/ CreateSchema(r) \/ AbandonReplace(r)
  BY <1>1 DEF StartPipeline, FindNoDatabase, CreateSchema, AbandonReplace
<1>2. ASSUME NEW g \in Generated, ReplaceAll(r, g)
      PROVE  /\ UNCHANGED <<pc, call, stored, receipts>>
             /\ \A q \in Refreshers \ {r} : rpc'[q] = rpc[q]
             /\ WriterFree
  BY <1>2 DEF ReplaceAll
<1>3. CASE CommitReplace(r)
  BY <1>3 DEF CommitReplace
<1> QED BY <1>1, <1>2, <1>3 DEF Refresh

(* The write lock is handed on, never shared. *)
LEMMA OneWriterStep ==
  ASSUME TypeOK, OneWriter, [Next]_vars
  PROVE  OneWriter'
<1>1. ASSUME NEW s \in Sessions,
             Ingest(s) \/ Crash(s) \/ \E k \in Keys, p \in Payloads : Call(s, k, p)
      PROVE  OneWriter'
  <2>1. /\ \A t \in Sessions \ {s} : Writing(t)' = Writing(t)
        /\ \A r \in Refreshers : Refreshing(r)' = Refreshing(r)
        /\ Writing(s)' => Writing(s) \/ WriterFree
    <3>1. /\ \A t \in Sessions \ {s} : pc'[t] = pc[t]
          /\ rpc' = rpc /\ (Writing(s)' => Writing(s) \/ WriterFree)
      BY <1>1, SessionStep
    <3> QED BY <3>1 DEF Writing, Refreshing
  <2> HIDE DEF Writing, Refreshing
  <2> QED BY <2>1 DEF OneWriter, WriterFree
<1>2. ASSUME NEW r \in Refreshers, StartPipeline(r) \/ FindNoDatabase(r) \/ Refresh(r)
      PROVE  OneWriter'
  <2>1. /\ \A t \in Sessions : Writing(t)' = Writing(t)
        /\ \A q \in Refreshers \ {r} : Refreshing(q)' = Refreshing(q)
        /\ Refreshing(r)' => WriterFree
    <3>1. /\ pc' = pc /\ \A q \in Refreshers \ {r} : rpc'[q] = rpc[q]
          /\ Refreshing(r)' => WriterFree
      BY <1>2, RefreshStep
    <3> QED BY <3>1 DEF Writing, Refreshing
  <2> QED BY <2>1 DEF OneWriter, WriterFree
<1>3. CASE StartApi
  BY <1>3 DEF StartApi, sessionVars, refreshVars, OneWriter, Writing, Refreshing
<1>4. CASE UNCHANGED vars
  BY <1>4 DEF vars, sessionVars, refreshVars, OneWriter, Writing, Refreshing
<1> QED BY <1>1, <1>2, <1>3, <1>4 DEF Next

(* Nobody commits between what a writer finds and its own commit. *)
LEMMA FoundStep ==
  ASSUME TypeOK, OneWriter, FoundStaysTrue, [Next]_vars
  PROVE  FoundStaysTrue'
<1> DEFINE Found(t) ==
      /\ pc[t] \in {"insert", "commit"} => receipts[Key(t)] = None
      /\ pc[t] = "commit" => \A r \in Rows(Batch(t)) : stored[r] = None
<1>0. ASSUME NEW t \in Sessions, pc'[t] = pc[t], call'[t] = call[t], UNCHANGED <<stored, receipts>>
      PROVE  Found(t)'
  BY <1>0 DEF FoundStaysTrue, Key, Batch
<1>1. ASSUME NEW s \in Sessions,
             Ingest(s) \/ Crash(s) \/ \E k \in Keys, p \in Payloads : Call(s, k, p),
             NEW t \in Sessions
      PROVE  Found(t)'
  <2>1. /\ \A u \in Sessions \ {s} : pc'[u] = pc[u] /\ call'[u] = call[u]
        /\ UNCHANGED <<stored, receipts>> \/ Commit(s)
        /\ pc'[s] \in {"insert", "commit"} =>
             receipts[Key(s)] = None /\ call'[s] = call[s] /\ UNCHANGED <<stored, receipts>>
        /\ pc'[s] = "commit" => \A r \in Rows(Batch(s)) : stored[r] = None
    BY <1>1, SessionStep
  <2>2. CASE t = s
    BY <2>1, <2>2 DEF Key, Batch
  <2>3. CASE t # s /\ UNCHANGED <<stored, receipts>>
    BY <1>0, <2>1, <2>3
  <2>4. CASE t # s /\ Commit(s)
    <3>1. Writing(s) /\ pc'[t] = pc[t]
      BY <2>1, <2>4 DEF Commit, Writing
    <3>2. ~Writing(t)
      BY <2>4, <3>1 DEF OneWriter
    <3> QED BY <3>1, <3>2 DEF Writing
  <2> QED BY <2>1, <2>2, <2>3, <2>4
<1>2. ASSUME NEW r \in Refreshers, StartPipeline(r) \/ FindNoDatabase(r) \/ Refresh(r),
             NEW t \in Sessions
      PROVE  Found(t)'
  <2>1. pc' = pc /\ call' = call /\ (UNCHANGED <<stored, receipts>> \/ CommitReplace(r))
    BY <1>2, RefreshStep
  <2>2. CASE CommitReplace(r)
    <3>1. ~Writing(t)
      BY <2>2 DEF CommitReplace, Refreshing, OneWriter
    <3> QED BY <2>1, <3>1 DEF Writing
  <2> QED BY <1>0, <2>1, <2>2
<1>3. ASSUME StartApi \/ UNCHANGED vars, NEW t \in Sessions PROVE Found(t)'
  BY <1>0, <1>3 DEF StartApi, vars, storeVars, sessionVars, refreshVars
<1>4. \A t \in Sessions : Found(t)'
  <2> HIDE DEF Found
  <2> QED BY <1>1, <1>2, <1>3 DEF Next
<1> QED BY <1>4 DEF FoundStaysTrue

(* The three facts about the data. *)
DataIsWhole == RowsAreWhole /\ ReceiptsAreBacked /\ OneDataSet

(* A commit of the API fills free rows under a free key. *)
LEMMA CommitWhole ==
  ASSUME TypeOK, FoundStaysTrue, DataIsWhole, NEW s \in Sessions, Commit(s)
  PROVE  DataIsWhole'
<1> DEFINE b == Batch(s)
           k == Key(s)
<1>1. b \in Payloads /\ k \in Keys /\ b # None /\ Rows(b) \subseteq RowIds
  BY CallTypes, RowsAreIds, NoneAssumption DEF Commit
<1>2. receipts[k] = None /\ \A r \in Rows(b) : stored[r] = None
  BY DEF FoundStaysTrue, Commit
<1>3. /\ \A r \in RowIds : stored'[r] = IF r \in Rows(b) THEN b ELSE stored[r]
      /\ \A l \in Keys : receipts'[l] = IF l = k THEN b ELSE receipts[l]
  BY <1>1 DEF Commit, WithBatch, TypeOK
<1> HIDE DEF b, k
<1>4. RowsAreWhole'
  <2> SUFFICES ASSUME NEW r \in RowIds, stored'[r] # None, NEW q \in Rows(stored'[r])
               PROVE  stored'[q] = stored'[r]
    BY DEF RowsAreWhole
  <2>1. CASE r \in Rows(b)
    BY <1>1, <1>3, <2>1
  <2>2. CASE r \notin Rows(b)
    <3>1. stored'[r] = stored[r] /\ stored[r] \in Payloads
      BY <1>3, <2>2 DEF TypeOK
    <3>2. q \in RowIds /\ stored[q] = stored[r]
      BY <3>1, RowsAreIds DEF DataIsWhole, RowsAreWhole
    <3>3. q \notin Rows(b)
      BY <1>2, <3>1, <3>2
    <3> QED BY <1>3, <3>1, <3>2, <3>3
  <2> QED BY <2>1, <2>2
<1>5. ReceiptsAreBacked'
  <2> SUFFICES ASSUME NEW l \in Keys, receipts'[l] # None, NEW q \in Rows(receipts'[l])
               PROVE  stored'[q] = receipts'[l]
    BY DEF ReceiptsAreBacked
  <2>1. CASE l = k
    BY <1>1, <1>3, <2>1
  <2>2. CASE l # k
    <3>1. receipts'[l] = receipts[l] /\ receipts[l] \in Payloads
      BY <1>3, <2>2 DEF TypeOK
    <3>2. q \in RowIds /\ stored[q] = receipts[l] /\ stored[q] # None
      BY <3>1, RowsAreIds, NoneAssumption DEF DataIsWhole, ReceiptsAreBacked
    <3>3. q \notin Rows(b)
      BY <1>2, <3>2
    <3> QED BY <1>3, <3>1, <3>2, <3>3
  <2> QED BY <2>1, <2>2
<1>6. ASSUME NEW r \in RowIds, Loose(r)' PROVE Loose(r) /\ stored'[r] = stored[r]
  <2>1. r \notin Rows(b)
    BY <1>1, <1>3, <1>6 DEF Loose
  <2>2. stored'[r] = stored[r] /\ stored[r] # None
    BY <1>3, <1>6, <2>1 DEF Loose
  <2>3. ASSUME NEW l \in Keys PROVE receipts[l] # stored[r]
    BY <1>2, <1>3, <1>6, <2>2, <2>3 DEF Loose
  <2> QED BY <2>2, <2>3 DEF Loose
<1>7. OneDataSet'
  BY <1>6 DEF DataIsWhole, OneDataSet
<1> QED BY <1>4, <1>5, <1>7 DEF DataIsWhole

(* A refresh leaves one data set and no receipt. *)
LEMMA RefreshWhole ==
  ASSUME TypeOK, NEW r \in Refreshers, CommitReplace(r)
  PROVE  DataIsWhole'
<1>1. batch[r] \in Generated /\ batch[r] \in Payloads /\ batch[r] # None
  BY RefreshAssumption, NoneAssumption DEF CommitReplace, TypeOK
<1>2. /\ \A x \in RowIds : stored'[x] = IF x \in Rows(batch[r]) THEN batch[r] ELSE None
      /\ \A k \in Keys : receipts'[k] = None
  BY DEF CommitReplace
<1>3. Rows(batch[r]) \subseteq RowIds
  BY <1>1, RowsAreIds
<1>4. RowsAreWhole'
  BY <1>2, <1>3 DEF RowsAreWhole
<1>5. ReceiptsAreBacked'
  BY <1>2 DEF ReceiptsAreBacked
<1>6. OneDataSet'
  BY <1>1, <1>2 DEF OneDataSet, Loose
<1> QED BY <1>4, <1>5, <1>6 DEF DataIsWhole

(* Every step keeps the data sets whole. *)
LEMMA DataStep ==
  ASSUME TypeOK, FoundStaysTrue, DataIsWhole, [Next]_vars
  PROVE  DataIsWhole'
<1>1. CASE UNCHANGED <<stored, receipts>>
  BY <1>1 DEF DataIsWhole, RowsAreWhole, ReceiptsAreBacked, OneDataSet, Loose
<1>2. \/ UNCHANGED <<stored, receipts>>
      \/ \E s \in Sessions : Commit(s)
      \/ \E r \in Refreshers : CommitReplace(r)
  <2>1. CASE StartApi \/ UNCHANGED vars
    BY <2>1 DEF StartApi, vars, storeVars
  <2> QED BY <2>1, SessionStep, RefreshStep DEF Next
<1> QED BY <1>1, <1>2, CommitWhole, RefreshWhole

(* The inductive invariant holds at first and is kept by every step. *)
LEMMA Invariance == Spec => []IInv
<1>1. Init => IInv
  BY InitType DEF Init, IInv, OneWriter, FoundStaysTrue, RowsAreWhole, ReceiptsAreBacked,
     OneDataSet, Loose, Writing, Refreshing
<1>2. IInv /\ [Next]_vars => IInv'
  BY NextType, OneWriterStep, FoundStep, DataStep DEF IInv, DataIsWhole
<1> QED BY <1>1, <1>2, PTL DEF Spec

(* Whatever refreshes and ingestions interleave, no state of the warehouse  *)
(* mixes data sets.                                                         *)
THEOREM BatchesAlwaysWhole == Spec => []BatchesAreWhole
<1>1. IInv => BatchesAreWhole
  <2> SUFFICES ASSUME IInv PROVE BatchesAreWhole
    OBVIOUS
  <2> DEFINE loose == {stored[r] : r \in RowIds} \ ({receipts[k] : k \in Keys} \cup {None})
  <2>1. \A x \in loose : \E r \in RowIds : x = stored[r] /\ Loose(r)
    BY DEF Loose
  <2>2. loose \subseteq Generated /\ \A x, y \in loose : x = y
    BY <2>1 DEF IInv, OneDataSet
  <2>3. Cardinality(loose) <= 1
    <3>1. CASE loose = {}
      BY <3>1, FS_EmptySet
    <3>2. CASE loose # {}
      <4>1. PICK x \in loose : TRUE
        BY <3>2
      <4>2. loose = {x}
        BY <2>2, <4>1
      <4>3. Cardinality({x}) = 1
        BY FS_Singleton
      <4> QED BY <4>2, <4>3
    <3> QED BY <3>1, <3>2
  <2> QED BY <2>2, <2>3 DEF BatchesAreWhole, IInv, RowsAreWhole, ReceiptsAreBacked
<1> QED BY <1>1, Invariance, PTL

-----------------------------------------------------------------------------
(* A step of a session is a step of the abstract store, or none. *)
LEMMA SessionSimulation ==
  ASSUME IInv, NEW s \in Sessions,
         Ingest(s) \/ Crash(s) \/ \E k \in Keys, p \in Payloads : Call(s, k, p)
  PROVE  [Ledger!Next]_Ledger!vars
<1> USE DEF Goto, storeVars, refreshVars
<1>t. TypeOK
  BY DEF IInv
<1>p. \A p : Ledger!Rows(p) = Rows(p) /\ \A q : Ledger!SameBatch(p, q) = SameBatch(p, q)
  BY DEF Ledger!Plan, Plan, Ledger!Rows, Rows, Ledger!SameBatch, SameBatch
<1>r. /\ Ledger!Conflict = Conflict /\ Ledger!Error = Error
      /\ \A p : Ledger!Accepted(p) = Accepted(p) /\ Ledger!Replayed(p) = Replayed(p)
  BY DEF Ledger!Conflict, Conflict, Ledger!Error, Error,
     Ledger!Accepted, Accepted, Ledger!Replayed, Replayed
<1>1. ASSUME NEW k \in Keys, NEW p \in Payloads, Call(s, k, p)
      PROVE  Ledger!Call(s, k, p)
  BY <1>t, <1>1 DEF Call, Ledger!Call, TypeOK
<1>2. ASSUME BeginImmediate(s) \/ FindNoReceipt(s) \/ InsertBatch(s)
      PROVE  UNCHANGED Ledger!vars
  BY <1>t, <1>2 DEF BeginImmediate, FindNoReceipt, InsertBatch, Ledger!vars, TypeOK
<1>f. ASSUME NEW r, Finish(s, r) PROVE Ledger!Finish(s, r)
  BY <1>t, <1>f DEF Finish, Ledger!Finish, TypeOK
<1>3. ASSUME ReplayReceipt(s) PROVE Ledger!Replay(s)
  <2>1. /\ Ledger!Finish(s, Ledger!Replayed(receipts[Key(s)]))
        /\ UNCHANGED <<stored, receipts>>
    BY <1>t, <1>r, <1>3 DEF ReplayReceipt, Rollback, Finish, Ledger!Finish, TypeOK
  <2>2. /\ receipts[Key(s)] # None
        /\ Ledger!SameBatch(receipts[Key(s)], Batch(s))
        /\ pc[s] = "lookup"
    BY <1>p, <1>3 DEF ReplayReceipt
  <2> QED BY <2>1, <2>2 DEF Ledger!Replay, Key, Batch
<1>4. ASSUME RejectReusedKey(s) PROVE Ledger!Refuse(s)
  BY <1>f, <1>p, <1>r, <1>4 DEF RejectReusedKey, Rollback, Key, Batch, Ledger!Refuse, Ledger!Refused
<1>5. ASSUME ViolateUnique(s) PROVE Ledger!Refuse(s)
  <2>1. receipts[Key(s)] = None /\ \E r \in Rows(Batch(s)) : stored[r] # None
    BY <1>5 DEF ViolateUnique, IInv, FoundStaysTrue
  <2>2. Ledger!Refused(call[s])
    BY <1>p, <2>1 DEF Ledger!Refused, Key, Batch
  <2>3. Ledger!Finish(s, Ledger!Conflict) /\ UNCHANGED <<stored, receipts>> /\ pc[s] = "insert"
    BY <1>f, <1>r, <1>5 DEF ViolateUnique, Rollback
  <2> QED BY <2>2, <2>3 DEF Ledger!Refuse
<1>6. ASSUME Commit(s) PROVE Ledger!Accept(s)
  <2>1. receipts[Key(s)] = None /\ \A r \in Rows(Batch(s)) : stored[r] = None
    BY <1>6 DEF Commit, IInv, FoundStaysTrue
  <2>2. Ledger!StoreBatch(Key(s), Batch(s))
    BY <1>p, <1>6 DEF Commit, Ledger!StoreBatch, WithBatch, Ledger!WithBatch, RowIds, Ledger!RowIds
  <2>3. \E r \in {Ledger!Accepted(Batch(s)), Ledger!Error} : Ledger!Finish(s, r)
    BY <1>f, <1>r, <1>6 DEF Commit
  <2> QED BY <1>p, <1>6, <2>1, <2>2, <2>3 DEF Commit, Ledger!Accept, Key, Batch
<1>7. ASSUME BusyTimeout(s) PROVE Ledger!Fail(s)
  <2>1. pc[s] \notin {"idle", "done"} /\ Rollback(s, Error)
    BY <1>7 DEF BusyTimeout
  <2> QED BY <1>f, <1>r, <2>1 DEF Rollback, Ledger!Fail
<1>8. ASSUME Answer(s) PROVE Ledger!Answer(s)
  BY <1>t, <1>8 DEF Answer, AnswerTo, Hangup, Ledger!Answer, Ledger!AnswerTo, Ledger!Hangup, TypeOK
<1>9. ASSUME Crash(s) PROVE Ledger!Vanish(s)
  BY <1>t, <1>9 DEF Crash, Hangup, Ledger!Vanish, Ledger!Hangup, TypeOK
<1> QED BY <1>1, <1>2, <1>3, <1>4, <1>5, <1>6, <1>7, <1>8, <1>9
        DEF Ingest, Ledger!Next, Ledger!Step

(* A refresh is invisible to the abstract store but for its commit. *)
LEMMA RefreshSimulation ==
  ASSUME TypeOK, NEW r \in Refreshers, StartPipeline(r) \/ FindNoDatabase(r) \/ Refresh(r)
  PROVE  UNCHANGED Ledger!vars \/ RefreshCommits
<1> USE DEF TypeOK, sessionVars, storeVars, Advance, Ledger!vars
<1>1. CASE StartPipeline(r) \/ FindNoDatabase(r) \/ CreateSchema(r) \/ AbandonReplace(r)
  BY <1>1 DEF StartPipeline, FindNoDatabase, CreateSchema, AbandonReplace
<1>2. ASSUME NEW g \in Generated, ReplaceAll(r, g) PROVE UNCHANGED Ledger!vars
  BY <1>2 DEF ReplaceAll
<1>3. CASE CommitReplace(r)
  BY <1>3 DEF CommitReplace, RefreshCommits, Refreshing
<1> QED BY <1>1, <1>2, <1>3 DEF Refresh

(* SQLiteCaseStore is the store the API was promised, between refreshes. *)
THEOREM Implementation == Spec => ImplementsLedger
<1>1. Init => Ledger!Init
  BY DEF Init, Ledger!Init, RowIds, Ledger!RowIds
<1>2. IInv /\ [Next]_vars => [Ledger!Next \/ RefreshCommits]_(Ledger!vars)
  <2> SUFFICES ASSUME IInv, [Next]_vars PROVE [Ledger!Next \/ RefreshCommits]_(Ledger!vars)
    OBVIOUS
  <2>1. CASE StartApi \/ UNCHANGED vars
    BY <2>1 DEF StartApi, vars, storeVars, sessionVars, refreshVars, Ledger!vars
  <2>2. ASSUME NEW r \in Refreshers, StartPipeline(r) \/ FindNoDatabase(r) \/ Refresh(r)
        PROVE  UNCHANGED Ledger!vars \/ RefreshCommits
    BY <2>2, RefreshSimulation DEF IInv
  <2> QED BY <2>1, <2>2, SessionSimulation DEF Next
<1> QED BY <1>1, <1>2, Invariance, PTL DEF Spec, ImplementsLedger

(* What SQLite keeps between refreshes: everything.                         *)
KeptUntilRefresh ==
  [][~RefreshCommits =>
       /\ \A r \in RowIds : stored[r] # None => stored'[r] = stored[r]
       /\ \A k \in Keys : receipts[k] # None => receipts'[k] = receipts[k]]_vars

(* Only the commit of a refresh ever removes or rebinds a committed row or  *)
(* receipt, whatever calls, timeouts and crashes do (load_warehouse).       *)
THEOREM OnlyRefreshesForget == Spec => KeptUntilRefresh
<1>1. ASSUME IInv, NEW s \in Sessions, Commit(s)
      PROVE  /\ \A r \in RowIds : stored[r] # None => stored'[r] = stored[r]
             /\ \A k \in Keys : receipts[k] # None => receipts'[k] = receipts[k]
  <2>1. receipts[Key(s)] = None /\ \A r \in Rows(Batch(s)) : stored[r] = None
    BY <1>1 DEF Commit, IInv, FoundStaysTrue
  <2>2. /\ stored \in [RowIds -> Payloads \cup {None}]
        /\ receipts \in [Keys -> Payloads \cup {None}]
    BY <1>1 DEF IInv, TypeOK
  <2> QED BY <1>1, <2>1, <2>2 DEF Commit, WithBatch
<1>2. ASSUME IInv, NEW s \in Sessions,
             Ingest(s) \/ Crash(s) \/ \E k \in Keys, p \in Payloads : Call(s, k, p)
      PROVE  UNCHANGED <<stored, receipts>> \/ Commit(s)
  BY <1>2 DEF Ingest, BeginImmediate, FindNoReceipt, ReplayReceipt, RejectReusedKey, InsertBatch,
     ViolateUnique, BusyTimeout, Answer, Crash, Call, Rollback, Finish, AnswerTo, Hangup, storeVars, Goto
<1>3. ASSUME IInv, NEW r \in Refreshers, StartPipeline(r) \/ FindNoDatabase(r) \/ Refresh(r)
      PROVE  UNCHANGED <<stored, receipts>> \/ RefreshCommits
  BY <1>3, RefreshSimulation DEF IInv, Ledger!vars
<1>4. IInv /\ [Next]_vars =>
        [~RefreshCommits =>
           /\ \A r \in RowIds : stored[r] # None => stored'[r] = stored[r]
           /\ \A k \in Keys : receipts[k] # None => receipts'[k] = receipts[k]]_vars
  <2> SUFFICES ASSUME IInv, Next, ~RefreshCommits
               PROVE  /\ \A r \in RowIds : stored[r] # None => stored'[r] = stored[r]
                      /\ \A k \in Keys : receipts[k] # None => receipts'[k] = receipts[k]
    OBVIOUS
  <2>1. CASE StartApi
    BY <2>1 DEF StartApi, storeVars
  <2> QED BY <2>1, <1>1, <1>2, <1>3 DEF Next
<1> QED BY <1>4, Invariance, PTL DEF Spec, KeptUntilRefresh
=============================================================================
