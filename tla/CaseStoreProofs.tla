--------------------------- MODULE CaseStoreProofs ---------------------------
(***************************************************************************)
(* The promises of CaseStore, for any sessions, keys and batches.          *)
(***************************************************************************)
EXTENDS CaseStore, TLAPS

(* What a call is about to answer is already true of the store: the link   *)
(* between the instant a call takes effect and the moment it is answered.  *)
ResultsHold ==
  \A s \in Sessions : phase[s] = "done" =>
    /\ result[s].kind \in {"accepted", "replayed"} => Stored(call[s], result[s].batch)
    /\ result[s].kind = "conflict" => Refused(call[s])

(* The inductive invariant. *)
IInv == TypeOK /\ LedgerMatchesReceipts /\ ResultsHold /\ AckedIsDurable /\ ConflictIsFinal

-----------------------------------------------------------------------------
(* The primary keys of a batch are row ids. *)
LEMMA RowsAreIds == \A p \in Payloads : Rows(p) \subseteq RowIds
<1> SUFFICES ASSUME NEW p \in Payloads PROVE Rows(p) \subseteq RowIds
  OBVIOUS
<1>1. CaseOrder[p] \in Seq(CaseIds) /\ EventOrder[p] \in Seq(EventIds)
  BY OrderAssumption
<1>2. CaseOrder[p] \in Seq(RowIds) /\ EventOrder[p] \in Seq(RowIds)
  BY <1>1 DEF RowIds
<1>3. Plan(p) \in Seq(RowIds)
  BY <1>2 DEF Plan
<1> QED
  BY <1>3 DEF Rows

(* One digest, one set of rows. *)
LEMMA SameBatchSameRows ==
  \A p, q \in Payloads : SameBatch(p, q) => Rows(p) = Rows(q)
  BY FingerprintAssumption DEF SameBatch, Rows, Plan

(* The initial states are well typed. *)
LEMMA InitType == Init => TypeOK
  BY DEF Init, TypeOK, Calls, Results, Answers, Kinds

(* Every step preserves the types. *)
LEMMA NextType == TypeOK /\ [Next]_vars => TypeOK'
<1> SUFFICES ASSUME TypeOK, [Next]_vars PROVE TypeOK'
  OBVIOUS
<1> USE DEF TypeOK, Calls, Results, Answers, Kinds
<1>1. ASSUME NEW s \in Sessions, NEW k \in Keys, NEW p \in Payloads, Call(s, k, p)
      PROVE TypeOK'
  BY <1>1 DEF Call
<1>2. ASSUME NEW s \in Sessions, Accept(s) PROVE TypeOK'
  <2>1. call[s] \in Calls
    BY <1>2 DEF Accept
  <2>2. PICK r \in {Accepted(call[s].payload), Error} : Finish(s, r)
    BY <1>2 DEF Accept
  <2>3. r \in Results
    BY <2>1, <2>2 DEF Accepted, Error
  <2>4. stored' \in [RowIds -> Payloads \cup {None}] /\ receipts' \in [Keys -> Payloads \cup {None}]
    BY <1>2, <2>1 DEF Accept, StoreBatch, WithBatch
  <2> QED
    BY <1>2, <2>1, <2>2, <2>3, <2>4 DEF Finish
<1>3. ASSUME NEW s \in Sessions, Replay(s) PROVE TypeOK'
  <2>1. call[s] \in Calls /\ receipts[call[s].key] \in Payloads
    BY <1>3 DEF Replay
  <2>2. Replayed(receipts[call[s].key]) \in Results
    BY <2>1 DEF Replayed
  <2> QED
    BY <1>3, <2>1, <2>2 DEF Replay, Finish
<1>4. ASSUME NEW s \in Sessions, Refuse(s) \/ Fail(s) PROVE TypeOK'
  <2>1. Conflict \in Results /\ Error \in Results
    BY DEF Conflict, Error
  <2> QED
    BY <1>4, <2>1 DEF Refuse, Fail, Finish
<1>5. ASSUME NEW s \in Sessions, Answer(s) PROVE TypeOK'
  <2>1. call[s] \in Calls /\ result[s] \in Results
    BY <1>5 DEF Answer, AnswerTo
  <2>2. answered' \subseteq Answers
    BY <1>5, <2>1 DEF Answer, AnswerTo
  <2> QED
    BY <1>5, <2>2 DEF Answer, AnswerTo, Hangup
<1>6. ASSUME NEW s \in Sessions, Vanish(s) PROVE TypeOK'
  BY <1>6 DEF Vanish, Hangup
<1>7. ASSUME UNCHANGED vars PROVE TypeOK'
  BY <1>7 DEF vars, Stored, Refused
<1> QED
  BY <1>1, <1>2, <1>3, <1>4, <1>5, <1>6, <1>7 DEF Next, Step

(* The state a well-behaved caller and the store agree on has its types in *)
(* every behaviour.                                                        *)
THEOREM TypeCorrect == Spec => []TypeOK
  BY InitType, NextType, PTL DEF Spec

-----------------------------------------------------------------------------
(* Only Accept touches the store; it fills what was empty. *)
LEMMA StoreChange ==
  ASSUME TypeOK, [Next]_vars
  PROVE  \/ UNCHANGED <<stored, receipts>>
         \/ \E s \in Sessions : Accept(s)
  BY DEF Next, Step, vars, Call, Replay, Refuse, Fail, Answer, AnswerTo, Vanish, Hangup

(* What Accept does, in terms of the key and the batch. *)
LEMMA AcceptStep ==
  ASSUME TypeOK, NEW s \in Sessions, Accept(s)
  PROVE  \E k \in Keys, p \in Payloads :
           /\ call[s] = [key |-> k, payload |-> p]
           /\ receipts[k] = None
           /\ \A r \in Rows(p) : stored[r] = None
           /\ StoreBatch(k, p)
<1>1. call[s] \in Calls
  BY DEF Accept, TypeOK
<1>2. call[s] = [key |-> call[s].key, payload |-> call[s].payload]
      /\ call[s].key \in Keys /\ call[s].payload \in Payloads
  BY <1>1 DEF Calls
<1> QED
  BY <1>2 DEF Accept

(* A committed row or receipt stays as it is. *)
LEMMA AppendOnlyStep ==
  ASSUME TypeOK, [Next]_vars
  PROVE  /\ \A r \in RowIds : stored[r] # None => stored'[r] = stored[r]
         /\ \A k \in Keys : receipts[k] # None => receipts'[k] = receipts[k]
<1>1. CASE UNCHANGED <<stored, receipts>>
  BY <1>1
<1>2. CASE \E s \in Sessions : Accept(s)
  <2>1. PICK k \in Keys, p \in Payloads :
          /\ receipts[k] = None
          /\ \A r \in Rows(p) : stored[r] = None
          /\ StoreBatch(k, p)
    BY <1>2, AcceptStep
  <2> QED
    BY <2>1 DEF StoreBatch, WithBatch, TypeOK
<1> QED
  BY <1>1, <1>2, StoreChange

(* A batch that is stored whole stays so, and a refusal stays justified. *)
LEMMA Stable ==
  ASSUME TypeOK, [Next]_vars, NEW c \in Calls
  PROVE  /\ \A p \in Payloads \cup {None} : Stored(c, p) => Stored(c, p)'
         /\ Refused(c) => Refused(c)'
<1>0. c.key \in Keys /\ c.payload \in Payloads /\ Rows(c.payload) \subseteq RowIds
  BY RowsAreIds DEF Calls
<1>1. ASSUME NEW p \in Payloads \cup {None}, Stored(c, p) PROVE Stored(c, p)'
  BY <1>0, <1>1, AppendOnlyStep DEF Stored
<1>2. ASSUME Refused(c) PROVE Refused(c)'
  <2>1. CASE receipts[c.key] # None
    BY <1>0, <1>2, <2>1, AppendOnlyStep DEF Refused
  <2>2. CASE receipts[c.key] = None
    <3>1. PICK r \in Rows(c.payload) : stored[r] # None
      BY <1>2, <2>2 DEF Refused
    <3>2. stored'[r] # None
      BY <1>0, <3>1, AppendOnlyStep
    <3>3. CASE receipts'[c.key] = None
      BY <3>2, <3>3 DEF Refused
    <3>4. CASE receipts'[c.key] # None
      <4>1. PICK k \in Keys, p \in Payloads :
              /\ receipts[k] = None
              /\ \A x \in Rows(p) : stored[x] = None
              /\ StoreBatch(k, p)
        BY <2>2, <3>4, StoreChange, AcceptStep
      <4>2. receipts'[c.key] = p
        BY <1>0, <2>2, <3>4, <4>1 DEF StoreBatch, WithBatch, TypeOK
      <4>3. ~SameBatch(p, c.payload)
        BY <1>0, <3>1, <4>1, SameBatchSameRows
      <4> QED
        BY <3>4, <4>2, <4>3 DEF Refused
    <3> QED
      BY <3>3, <3>4
  <2> QED
    BY <2>1, <2>2
<1> QED
  BY <1>1, <1>2

(* The ledger stays the disjoint union of the receipted batches. *)
LEMMA LedgerStep ==
  ASSUME TypeOK, LedgerMatchesReceipts, [Next]_vars
  PROVE  LedgerMatchesReceipts'
<1>1. CASE UNCHANGED <<stored, receipts>>
  BY <1>1 DEF LedgerMatchesReceipts
<1>2. CASE \E s \in Sessions : Accept(s)
  <2>1. PICK k \in Keys, p \in Payloads :
          /\ receipts[k] = None
          /\ \A r \in Rows(p) : stored[r] = None
          /\ StoreBatch(k, p)
    BY <1>2, AcceptStep
  <2>2. p # None /\ Rows(p) \subseteq RowIds
    BY NoneAssumption, RowsAreIds
  <2>3. /\ \A l \in Keys : receipts'[l] = IF l = k THEN p ELSE receipts[l]
        /\ \A r \in RowIds : stored'[r] = IF r \in Rows(p) THEN p ELSE stored[r]
    BY <2>1 DEF StoreBatch, WithBatch, TypeOK
  <2>4. \A l \in Keys : receipts[l] # None => Rows(receipts[l]) \cap Rows(p) = {}
    BY <2>1, RowsAreIds DEF LedgerMatchesReceipts, TypeOK
  <2>5. ASSUME NEW l \in Keys, receipts'[l] # None
        PROVE  \A r \in Rows(receipts'[l]) : stored'[r] = receipts'[l]
    <3>1. CASE l = k
      BY <2>2, <2>3, <3>1
    <3>2. CASE l # k
      <4>1. receipts'[l] = receipts[l] /\ receipts[l] \in Payloads
        BY <2>3, <2>5, <3>2 DEF TypeOK
      <4>2. Rows(receipts[l]) \subseteq RowIds
        BY <4>1, RowsAreIds
      <4> QED
        BY <2>3, <2>4, <2>5, <4>1, <4>2 DEF LedgerMatchesReceipts
    <3> QED
      BY <3>1, <3>2
  <2>6. ASSUME NEW r \in RowIds, stored'[r] # None
        PROVE  \E l \in Keys : receipts'[l] = stored'[r] /\ r \in Rows(receipts'[l])
    <3>1. CASE r \in Rows(p)
      BY <2>3, <3>1
    <3>2. CASE r \notin Rows(p)
      <4>1. stored'[r] = stored[r]
        BY <2>3, <3>2
      <4>2. PICK l \in Keys : receipts[l] = stored[r] /\ r \in Rows(receipts[l])
        BY <2>6, <4>1 DEF LedgerMatchesReceipts
      <4>3. l # k
        BY <2>1, <2>6, <4>1, <4>2
      <4> QED
        BY <2>3, <4>1, <4>2, <4>3
    <3> QED
      BY <3>1, <3>2
  <2>7. ASSUME NEW l \in Keys, NEW m \in Keys, l # m, receipts'[l] # None, receipts'[m] # None
        PROVE  Rows(receipts'[l]) \cap Rows(receipts'[m]) = {}
    BY <2>3, <2>4, <2>7 DEF LedgerMatchesReceipts
  <2> QED
    BY <2>5, <2>6, <2>7 DEF LedgerMatchesReceipts
<1> QED
  BY <1>1, <1>2, StoreChange

(* The instant a call takes effect makes its answer true; it stays true. *)
LEMMA ResultsStep ==
  ASSUME TypeOK, LedgerMatchesReceipts, ResultsHold, [Next]_vars
  PROVE  ResultsHold'
<1> DEFINE Holds(s) ==
       /\ result[s].kind \in {"accepted", "replayed"} => Stored(call[s], result[s].batch)
       /\ result[s].kind = "conflict" => Refused(call[s])
<1> SUFFICES ASSUME NEW s \in Sessions, phase'[s] = "done" PROVE Holds(s)'
  BY DEF ResultsHold
<1>1. CASE phase[s] = "done" /\ call'[s] = call[s] /\ result'[s] = result[s]
  <2>1. call[s] \in Calls /\ result[s].batch \in Payloads \cup {None}
    BY <1>1 DEF TypeOK, Results
  <2>2. PICK c \in Calls, p \in Payloads \cup {None} : c = call[s] /\ p = result[s].batch
    BY <2>1
  <2>3. /\ result[s].kind \in {"accepted", "replayed"} => Stored(c, p)
        /\ result[s].kind = "conflict" => Refused(c)
    BY <1>1, <2>2 DEF ResultsHold
  <2>4. /\ result[s].kind \in {"accepted", "replayed"} => Stored(c, p)'
        /\ result[s].kind = "conflict" => Refused(c)'
    BY <2>3, Stable
  <2> QED
    BY <1>1, <2>2, <2>4 DEF Stored, Refused
<1>2. CASE Accept(s)
  <2>1. PICK k \in Keys, p \in Payloads :
          /\ call[s] = [key |-> k, payload |-> p]
          /\ StoreBatch(k, p)
    BY <1>2, AcceptStep
  <2>2. /\ call'[s] = [key |-> k, payload |-> p]
        /\ result'[s] = Accepted(p) \/ result'[s] = Error
    BY <1>2, <2>1 DEF Accept, Finish, TypeOK
  <2>3. CASE result'[s] = Error
    BY <2>3 DEF Error
  <2>4. CASE result'[s] = Accepted(p)
    <3>1. p # None /\ receipts'[k] = p /\ \A r \in Rows(p) : stored'[r] = p
      BY <2>1, NoneAssumption, RowsAreIds DEF StoreBatch, WithBatch, TypeOK
    <3>2. result'[s].batch = p /\ result'[s].kind = "accepted"
      BY <2>4 DEF Accepted
    <3>3. Stored(call[s], result[s].batch)'
      BY <2>2, <3>1, <3>2 DEF Stored, SameBatch
    <3> QED
      BY <3>2, <3>3
  <2> QED
    BY <2>2, <2>3, <2>4
<1>3. CASE Replay(s)
  <2>1. call[s] \in Calls /\ receipts[call[s].key] \in Payloads
    BY <1>3 DEF Replay, TypeOK, Calls
  <2>2. PICK p \in Payloads : p = receipts[call[s].key]
    BY <2>1
  <2>3. /\ call'[s] = call[s] /\ UNCHANGED <<stored, receipts>>
        /\ result'[s].batch = p /\ result'[s].kind = "replayed"
    BY <1>3, <2>2 DEF Replay, Finish, Replayed, TypeOK
  <2>4. \A r \in Rows(call[s].payload) : stored[r] = p
    <3>1. SameBatch(p, call[s].payload) /\ p # None /\ call[s].key \in Keys /\ call[s].payload \in Payloads
      BY <1>3, <2>1, <2>2, NoneAssumption DEF Replay, Calls
    <3>2. Rows(p) = Rows(call[s].payload)
      BY <3>1, SameBatchSameRows
    <3> QED
      BY <2>2, <3>1, <3>2 DEF LedgerMatchesReceipts
  <2>5. Stored(call[s], result[s].batch)'
    BY <1>3, <2>2, <2>3, <2>4, NoneAssumption DEF Replay, Stored, SameBatch
  <2> QED
    BY <2>3, <2>5
<1>4. CASE Refuse(s)
  <2>1. result'[s] = Conflict /\ call'[s] = call[s] /\ UNCHANGED <<stored, receipts>>
    BY <1>4 DEF Refuse, Finish, TypeOK
  <2>2. Refused(call[s])'
    BY <1>4, <2>1 DEF Refuse, Refused
  <2> QED
    BY <2>1, <2>2 DEF Conflict
<1>5. CASE Fail(s)
  BY <1>5 DEF Fail, Finish, Error, TypeOK
<1> HIDE DEF Holds
<1>6. \/ phase[s] = "done" /\ call'[s] = call[s] /\ result'[s] = result[s]
      \/ Accept(s) \/ Replay(s) \/ Refuse(s) \/ Fail(s)
  <2>1. CASE UNCHANGED vars
    BY <2>1 DEF vars
  <2>2. ASSUME NEW t \in Sessions, t # s, Step(t)
        PROVE  phase[s] = "done" /\ call'[s] = call[s] /\ result'[s] = result[s]
    BY <2>2 DEF Step, Call, Accept, Replay, Refuse, Fail, Finish, Answer, Vanish, Hangup, TypeOK
  <2>3. CASE Step(s)
    BY <2>3 DEF Step, Call, Answer, Vanish, Hangup, TypeOK
  <2> QED
    BY <2>1, <2>2, <2>3 DEF Next
<1> QED
  BY <1>1, <1>2, <1>3, <1>4, <1>5, <1>6

(* An answer records what its call found, and later steps keep it true. *)
LEMMA AnsweredStep ==
  ASSUME TypeOK, ResultsHold, AckedIsDurable, ConflictIsFinal, [Next]_vars
  PROVE  AckedIsDurable' /\ ConflictIsFinal'
<1>1. ASSUME NEW a \in answered'
      PROVE  /\ a.kind \in {"accepted", "replayed"} => Stored(a.call, a.batch)
             /\ a.kind = "conflict" => Refused(a.call)
             /\ a.call \in Calls /\ a.batch \in Payloads \cup {None}
  <2>1. CASE a \in answered
    BY <2>1 DEF AckedIsDurable, ConflictIsFinal, TypeOK, Answers
  <2>2. CASE a \notin answered
    <3>1. PICK s \in Sessions : Answer(s)
      BY <2>2 DEF Next, Step, vars, Call, Accept, Replay, Refuse, Fail, Finish, Vanish
    <3>2. /\ phase[s] = "done"
          /\ a = [call |-> call[s], kind |-> result[s].kind, batch |-> result[s].batch]
      BY <2>2, <3>1 DEF Answer, AnswerTo
    <3>3. /\ a.call = call[s] /\ a.kind = result[s].kind /\ a.batch = result[s].batch
          /\ call[s] \in Calls /\ result[s] \in Results
      BY <3>2 DEF TypeOK
    <3> QED
      BY <3>2, <3>3 DEF ResultsHold, Results
  <2> QED
    BY <2>1, <2>2
<1>2. ASSUME NEW a \in answered'
      PROVE  /\ a.kind \in {"accepted", "replayed"} => Stored(a.call, a.batch)'
             /\ a.kind = "conflict" => Refused(a.call)'
  <2>1. PICK c \in Calls, p \in Payloads \cup {None} : c = a.call /\ p = a.batch
    BY <1>1
  <2>2. /\ Stored(c, p) => Stored(c, p)'
        /\ Refused(c) => Refused(c)'
    BY Stable
  <2>3. /\ Stored(c, p)' => Stored(a.call, a.batch)'
        /\ Refused(c)' => Refused(a.call)'
    BY <2>1 DEF Stored, Refused
  <2> QED
    BY <1>1, <2>1, <2>2, <2>3
<1> QED
  BY <1>2 DEF AckedIsDurable, ConflictIsFinal

-----------------------------------------------------------------------------
(* The inductive invariant holds at first and is kept by every step. *)
LEMMA Invariance == Spec => []IInv
<1>1. Init => IInv
  BY InitType DEF Init, IInv, LedgerMatchesReceipts, ResultsHold, AckedIsDurable, ConflictIsFinal
<1>2. IInv /\ [Next]_vars => IInv'
  BY NextType, LedgerStep, ResultsStep, AnsweredStep DEF IInv
<1> QED
  BY <1>1, <1>2, PTL DEF Spec

(* The ledger is at all times exactly the receipted batches, all of each. *)
THEOREM LedgerAlwaysMatches == Spec => []LedgerMatchesReceipts
  BY Invariance, PTL DEF IInv

(* A 201 or 200 is never taken back. *)
THEOREM AckedAlwaysDurable == Spec => []AckedIsDurable
  BY Invariance, PTL DEF IInv

(* A 409 is never contradicted. *)
THEOREM ConflictAlwaysFinal == Spec => []ConflictIsFinal
  BY Invariance, PTL DEF IInv

(* Committed rows and receipts are never removed or rewritten. *)
THEOREM NeverRewritten == Spec => AppendOnly
<1>1. TypeOK /\ [Next]_vars =>
        [/\ \A r \in RowIds : stored[r] # None => stored'[r] = stored[r]
         /\ \A k \in Keys : receipts[k] # None => receipts'[k] = receipts[k]]_vars
  BY AppendOnlyStep
<1> QED
  BY <1>1, TypeCorrect, PTL DEF Spec, AppendOnly
=============================================================================
