------------------------------- MODULE Batches -------------------------------
(***************************************************************************)
(* What the case stores ingest and answer.  A payload stands for a batch   *)
(* (cases, events) that validate_cases and validate_status_events accept.  *)
(***************************************************************************)
EXTENDS Naturals, Sequences, Functions

CONSTANTS
  Sessions,     \* concurrent invocations of ingest(): workers of all replicas
  Keys,         \* request_id values
  Payloads,     \* validated batches
  None,         \* no such row, no call in progress, no result yet
  CaseIds,      \* primary keys of dim_case
  EventIds,     \* primary keys of fact_case_status_event
  CaseOrder,    \* the case ids of a payload, in payload order
  EventOrder,   \* the event ids of a payload, in payload order
  Fingerprint   \* payload_fingerprint: SHA-256 over the normalised records

ASSUME NoneAssumption == None \notin Payloads

(* validate_cases and validate_status_events reject repeated ids. *)
ASSUME OrderAssumption ==
  /\ CaseOrder \in [Payloads -> Seq(CaseIds)]
  /\ EventOrder \in [Payloads -> Seq(EventIds)]
  /\ CaseIds \cap EventIds = {}
  /\ \A p \in Payloads : IsInjective(CaseOrder[p]) /\ IsInjective(EventOrder[p])

(* The digest is over every field of every record, timestamps moved to UTC: *)
(* batches with one digest carry the same ids in the same order.            *)
ASSUME FingerprintAssumption ==
  \A p, q \in Payloads :
    Fingerprint[p] = Fingerprint[q] => /\ CaseOrder[p] = CaseOrder[q]
                                       /\ EventOrder[p] = EventOrder[q]

RowIds == CaseIds \cup EventIds

(* The rows of a batch in the order the stores insert them. *)
Plan(p) == CaseOrder[p] \o EventOrder[p]

(* The primary keys a batch occupies. *)
Rows(p) == {Plan(p)[i] : i \in DOMAIN Plan(p)}

SameBatch(p, q) == Fingerprint[p] = Fingerprint[q]

Calls == [key : Keys, payload : Payloads]

(* IngestionResult (201 accepted, 200 replayed), IngestionConflict (409) and *)
(* any other exception (500).  batch is the one whose counts are reported.   *)
Kinds   == {"accepted", "replayed", "conflict", "error"}
Results == [kind : Kinds, batch : Payloads \cup {None}]
Answers == [call : Calls, kind : Kinds, batch : Payloads \cup {None}]

Accepted(p) == [kind |-> "accepted", batch |-> p]
Replayed(p) == [kind |-> "replayed", batch |-> p]
Conflict    == [kind |-> "conflict", batch |-> None]
Error       == [kind |-> "error", batch |-> None]

AnswerTo(c, r) == [call |-> c, kind |-> r.kind, batch |-> r.batch]

(* Inserting a whole batch into the ledger map. *)
WithBatch(ledger, p) == [r \in RowIds |-> IF r \in Rows(p) THEN p ELSE ledger[r]]
=============================================================================
