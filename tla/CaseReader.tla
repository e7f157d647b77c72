------------------------------ MODULE CaseReader ------------------------------
(***************************************************************************)
(* A client that walks the pages of GET /v1/cases while the warehouse      *)
(* grows and is replaced under it.  Every statement reads the rows         *)
(* committed when it runs: both backends give each SELECT a snapshot of    *)
(* its own.                                                                *)
(*                                                                         *)
(* Cases are numbers in the order of ORDER BY opened_at DESC, case_id.     *)
(***************************************************************************)
EXTENDS Integers, FiniteSets

CONSTANTS
  Cases,
  Limit         \* the page size the client asks for

ASSUME ReaderAssumption ==
  Cases \subseteq Nat /\ IsFiniteSet(Cases) /\ Limit \in 1..500

VARIABLES
  stored,       \* the committed cases; their events are committed with them
  edition,      \* how often load_warehouse has replaced them
  walk          \* the client: its offset, what it saw, what it saw twice

readerVars == <<stored, edition, walk>>

Rank(c) == Cardinality({d \in stored : d <= c})

(* Mutant: the offset counts pages. *)
PageByNumber(offset) ==
  {c \in stored : offset * Limit < Rank(c) /\ Rank(c) <= (offset + 1) * Limit}

Page(offset) == {c \in stored : offset < Rank(c) /\ Rank(c) <= offset + Limit}

-----------------------------------------------------------------------------
NoWalk == [state |-> "none", offset |-> 0, total |-> 0, seen |-> {}, again |-> {},
           from |-> {}, edition |-> 0]

ReaderInit ==
  /\ stored = {}
  /\ edition = 0
  /\ walk = NoWalk

(* A batch is committed: cases and their events in one transaction. *)
Ingest(batch) ==
  /\ batch \cap stored = {}
  /\ stored' = stored \cup batch
  /\ UNCHANGED <<edition, walk>>

(* load_warehouse deletes every row and inserts its own, in one transaction. *)
Refresh(batch) ==
  /\ stored' = batch
  /\ edition' = edition + 1
  /\ UNCHANGED walk

BeginWalk ==
  /\ walk.state = "none"
  /\ walk' = [NoWalk EXCEPT !.state = "count", !.from = stored, !.edition = edition]
  /\ UNCHANGED <<stored, edition>>

CountCases ==
  /\ walk.state = "count"
  /\ walk' = [walk EXCEPT !.state = "select", !.total = Cardinality(stored)]
  /\ UNCHANGED <<stored, edition>>

(* The client goes on until a page is not full. *)
SelectPage ==
  LET page == Page(walk.offset)
  IN  /\ walk.state = "select"
      /\ walk' = [walk EXCEPT !.state = IF Cardinality(page) < Limit THEN "ended" ELSE "count",
                              !.offset = @ + Limit,
                              !.seen = @ \cup page,
                              !.again = @ \cup (page \cap walk.seen)]
      /\ UNCHANGED <<stored, edition>>

LeaveWalk ==
  /\ walk.state # "none"
  /\ walk' = NoWalk
  /\ UNCHANGED <<stored, edition>>

ReaderStep == BeginWalk \/ CountCases \/ SelectPage \/ LeaveWalk

-----------------------------------------------------------------------------
(* Unless the warehouse was replaced, a walk to the last page has shown     *)
(* every case that was stored when it began, whatever batches were          *)
(* committed between its requests, since new rows only move the others to   *)
(* later pages; and it shows a case twice only if the ledger grew.          *)
NothingSkipped ==
  walk.state # "none" /\ walk.edition = edition =>
    /\ walk.state = "ended" => walk.from \subseteq walk.seen
    /\ walk.again # {} => walk.from # stored
=============================================================================
