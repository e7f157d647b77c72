------------------------------ MODULE CaseStore ------------------------------
(***************************************************************************)
(* What civicflow.store.CaseStore promises to the API, whatever the        *)
(* backend: ingest() takes effect at one instant, wholly or not at all,    *)
(* and a request key stays bound to the first batch that was stored under  *)
(* it.  The backends (PostgresStore, SqliteStore) implement this           *)
(* specification; the properties below are stated and proved here once.    *)
(*                                                                         *)
(* The two ledger tables are one map from primary key to the batch whose   *)
(* row is stored under it; a receipt is the batch it was written for,      *)
(* which determines the digest and the two counts the code stores.         *)
(***************************************************************************)
EXTENDS Batches

VARIABLES
  stored,       \* committed ledger rows: primary key -> payload
  receipts,     \* committed ingestion_receipt rows: request key -> payload
  phase,        \* progress of each session's call
  call,         \* the arguments of each session's call
  result,       \* what the call is about to answer
  answered      \* history: the 201, 200 and 409 answers callers received

vars == <<stored, receipts, phase, call, result, answered>>

(* The call's batch is stored whole under its key, as batch p. *)
Stored(c, p) ==
  /\ p # None
  /\ receipts[c.key] = p
  /\ SameBatch(p, c.payload)
  /\ \A r \in Rows(c.payload) : stored[r] = p

(* The key is bound to another batch, or it is free and an id is taken. *)
Refused(c) ==
  \/ receipts[c.key] # None /\ ~SameBatch(receipts[c.key], c.payload)
  \/ receipts[c.key] = None /\ \E r \in Rows(c.payload) : stored[r] # None

-----------------------------------------------------------------------------
Init ==
  /\ stored = [r \in RowIds |-> None]
  /\ receipts = [k \in Keys |-> None]
  /\ phase = [s \in Sessions |-> "idle"]
  /\ call = [s \in Sessions |-> None]
  /\ result = [s \in Sessions |-> None]
  /\ answered = {}

Call(s, k, p) ==
  /\ phase[s] = "idle"
  /\ phase' = [phase EXCEPT ![s] = "open"]
  /\ call' = [call EXCEPT ![s] = [key |-> k, payload |-> p]]
  /\ UNCHANGED <<stored, receipts, result, answered>>

Finish(s, r) ==
  /\ phase' = [phase EXCEPT ![s] = "done"]
  /\ result' = [result EXCEPT ![s] = r]
  /\ UNCHANGED <<call, answered>>

StoreBatch(k, p) ==
  /\ stored' = WithBatch(stored, p)
  /\ receipts' = [receipts EXCEPT ![k] = p]

(* Mutant: INSERT OR REPLACE, so ids that are taken change hands. *)
AcceptOverTaken(s) ==
  LET k == call[s].key
      p == call[s].payload
  IN /\ phase[s] = "open"
     /\ receipts[k] = None
     /\ StoreBatch(k, p)
     /\ \E r \in {Accepted(p), Error} : Finish(s, r)

(* The batch and its receipt become visible together.  A connection lost   *)
(* during COMMIT leaves the caller with an error although the batch is in. *)
Accept(s) ==
  LET k == call[s].key
      p == call[s].payload
  IN /\ phase[s] = "open"
     /\ receipts[k] = None
     /\ \A r \in Rows(p) : stored[r] = None
     /\ StoreBatch(k, p)
     /\ \E r \in {Accepted(p), Error} : Finish(s, r)

(* The key is bound to this very batch: answer from the stored receipt. *)
Replay(s) ==
  LET k == call[s].key
      p == call[s].payload
  IN /\ phase[s] = "open"
     /\ receipts[k] # None
     /\ SameBatch(receipts[k], p)
     /\ Finish(s, Replayed(receipts[k]))
     /\ UNCHANGED <<stored, receipts>>

Refuse(s) ==
  /\ phase[s] = "open"
  /\ Refused(call[s])
  /\ Finish(s, Conflict)
  /\ UNCHANGED <<stored, receipts>>

(* A database error: nothing was stored. *)
Fail(s) ==
  /\ phase[s] = "open"
  /\ Finish(s, Error)
  /\ UNCHANGED <<stored, receipts>>

Hangup(s) ==
  /\ phase' = [phase EXCEPT ![s] = "idle"]
  /\ call' = [call EXCEPT ![s] = None]
  /\ result' = [result EXCEPT ![s] = None]
  /\ UNCHANGED <<stored, receipts>>

(* An error promises nothing, so the history does not keep it. *)
Answer(s) ==
  /\ phase[s] = "done"
  /\ answered' = IF result[s].kind = "error" THEN answered
                 ELSE answered \cup {AnswerTo(call[s], result[s])}
  /\ Hangup(s)

(* The replica dies, or the answer is lost on its way. *)
Vanish(s) ==
  /\ phase[s] # "idle"
  /\ Hangup(s)
  /\ UNCHANGED answered

Step(s) ==
  \/ \E k \in Keys, p \in Payloads : Call(s, k, p)
  \/ Accept(s)
  \/ Replay(s)
  \/ Refuse(s)
  \/ Fail(s)
  \/ Answer(s)
  \/ Vanish(s)

Next == \E s \in Sessions : Step(s)

Spec == Init /\ [][Next]_vars

-----------------------------------------------------------------------------
TypeOK ==
  /\ stored \in [RowIds -> Payloads \cup {None}]
  /\ receipts \in [Keys -> Payloads \cup {None}]
  /\ phase \in [Sessions -> {"idle", "open", "done"}]
  /\ call \in [Sessions -> Calls \cup {None}]
  /\ result \in [Sessions -> Results \cup {None}]
  /\ \A s \in Sessions : /\ phase[s] # "idle" => call[s] \in Calls
                         /\ phase[s] = "done" => result[s] \in Results
  /\ answered \subseteq Answers

(* The ledger is exactly the disjoint union of the receipted batches: no   *)
(* row of a batch without the rest of it, no batch without its receipt,    *)
(* and no row shared by two receipts (the one transaction of ingest()).    *)
LedgerMatchesReceipts ==
  /\ \A k \in Keys : receipts[k] # None =>
       \A r \in Rows(receipts[k]) : stored[r] = receipts[k]
  /\ \A r \in RowIds : stored[r] # None =>
       \E k \in Keys : receipts[k] = stored[r] /\ r \in Rows(receipts[k])
  /\ \A k, l \in Keys : k # l /\ receipts[k] # None /\ receipts[l] # None =>
       Rows(receipts[k]) \cap Rows(receipts[l]) = {}

(* A caller told 201 or 200 finds its batch stored whole, under its key,   *)
(* for ever after, and was told the counts of the batch that is stored.    *)
AckedIsDurable ==
  \A a \in answered : a.kind \in {"accepted", "replayed"} => Stored(a.call, a.batch)

(* 409 is final: the refused batch is never stored under that key, so no   *)
(* caller is refused and another accepted for the same key and batch.      *)
ConflictIsFinal == \A a \in answered : a.kind = "conflict" => Refused(a.call)

(* The ledger is append-only: a committed row or receipt is never removed, *)
(* replaced or rebound ("immutable lifecycle facts").                      *)
AppendOnly ==
  [][/\ \A r \in RowIds : stored[r] # None => stored'[r] = stored[r]
     /\ \A k \in Keys : receipts[k] # None => receipts'[k] = receipts[k]]_vars
=============================================================================
