---------------------------- MODULE CaseLifecycle ----------------------------
(***************************************************************************)
(* One service case, from the system of record that logs its transitions   *)
(* to what the contract accepts (validate_cases, validate_status_events),  *)
(* what the warehouse's current_case_state view shows of it, and what the  *)
(* cycle-time report and the dashboard measure.  A case may also come from *)
(* the pipeline's generator, which derives its events from its snapshot.   *)
(***************************************************************************)
EXTENDS Naturals, Sequences

CONSTANTS
  None,         \* no previous status, no closed_at
  MaxTime,      \* instants are 0..MaxTime
  Offsets,      \* UTC offsets in which a client may write a timestamp
  EventIds,     \* the event ids of the case: numbers, in their text order
  MaxEvents     \* bounds the length of a history

Statuses == {"open", "in_progress", "resolved", "closed"}
Times    == 0..MaxTime

ASSUME LifecycleAssumption ==
  /\ MaxTime \in Nat /\ MaxEvents \in Nat
  /\ Offsets \subseteq Nat /\ EventIds \subseteq Nat
  /\ None \notin Statuses /\ None \notin Nat

(* The generator numbers its events from 1 and writes UTC. *)
Event == [id : EventIds \cup 1..4, at : Times, offset : Offsets \cup {0},
          from : Statuses \cup {None}, to : Statuses]
Case  == [opened : Times, status : Statuses, closed : Times \cup {None}]

VARIABLES
  log,       \* the transitions as they happened
  case,      \* the submitted case, or None
  payload,   \* the submitted events, in payload order
  verdict    \* "pending", "accepted" or "rejected"

vars == <<log, case, payload, verdict>>

(* The stable order of sorted(history, key=occurred_at), on positions. *)
Before(h, i, j) == h[i].at < h[j].at \/ (h[i].at = h[j].at /\ i < j)
IsFirst(h, i)   == \A j \in DOMAIN h : j = i \/ Before(h, i, j)
IsLast(h, i)    == \A j \in DOMAIN h : j = i \/ Before(h, j, i)
(* Mutant: the history is checked in payload order. *)
AdjacentUnsorted(h, i, j) == j = i + 1

Adjacent(h, i, j) ==
  Before(h, i, j) /\ \A k \in DOMAIN h : ~(Before(h, i, k) /\ Before(h, k, j))

ValidCase(c) == c.closed # None => c.closed >= c.opened

(* Mutant: the snapshot's status is not compared with the last event. *)
ValidEventsAnyStatus(c, h) ==
  /\ h # <<>>
  /\ \A i \in DOMAIN h :
       IsFirst(h, i) => (h[i].from = None /\ h[i].to = "open" /\ h[i].at = c.opened)
  /\ \A i, j \in DOMAIN h : Adjacent(h, i, j) => h[j].from = h[i].to
  /\ \A i \in DOMAIN h : IsLast(h, i) => (c.closed # None => h[i].at = c.closed)

ValidEvents(c, h) ==
  /\ h # <<>>
  /\ \A i \in DOMAIN h :
       IsFirst(h, i) => (h[i].from = None /\ h[i].to = "open" /\ h[i].at = c.opened)
  /\ \A i, j \in DOMAIN h : Adjacent(h, i, j) => h[j].from = h[i].to
  /\ \A i \in DOMAIN h :
       IsLast(h, i) => (h[i].to = c.status /\ (c.closed # None => h[i].at = c.closed))

(* current_case_state: ORDER BY occurred_at DESC, event_id DESC LIMIT 1.    *)
(* TIMESTAMPTZ orders by the instant; SQLite's TEXT by the local time first *)
(* and then by the offset, as isoformat() writes them.                      *)
LaterRow(e, f) == e.at > f.at \/ (e.at = f.at /\ e.id > f.id)
LaterText(e, f) ==
  LET local(x) == x.at + x.offset
  IN  \/ local(e) > local(f)
      \/ local(e) = local(f) /\ e.offset > f.offset
      \/ local(e) = local(f) /\ e.offset = f.offset /\ e.id > f.id

Latest(h, i)     == \A j \in DOMAIN h : j = i \/ LaterRow(h[i], h[j])
LatestText(h, i) == \A j \in DOMAIN h : j = i \/ LaterText(h[i], h[j])

(* build_cycle_time_report: for each status the last event in payload order. *)
Reached(h, s) == {i \in DOMAIN h : h[i].to = s}

(* Mutant: the timestamp of in_progress is read where that of open is meant. *)
StampSwapped(h, s) ==
  LET t == IF s = "open" THEN "in_progress" ELSE IF s = "in_progress" THEN "open" ELSE s
  IN  h[CHOOSE i \in Reached(h, t) : \A j \in Reached(h, t) : j <= i].at

Stamp(h, s)   == h[CHOOSE i \in Reached(h, s) : \A j \in Reached(h, s) : j <= i].at
Completed(h)  == \A s \in {"open", "in_progress", "resolved"} : Reached(h, s) # {}

(* build_dashboard_metrics pivots with aggfunc="min". *)
FirstStamp(h, s) == h[CHOOSE i \in Reached(h, s) : \A j \in Reached(h, s) : h[i].at <= h[j].at].at

(* generate_status_events: the statuses up to the snapshot's, spread evenly *)
(* over the time from opened to the last event, which the interpolation     *)
(* reaches exactly.                                                         *)
Path == <<"open", "in_progress", "resolved", "closed">>
Generated(opened, terminal, length) ==
  [i \in 1..length |->
     [id |-> i, at |-> opened + ((terminal - opened) * (i - 1)) \div (IF length = 1 THEN 1 ELSE length - 1),
      offset |-> 0, from |-> IF i = 1 THEN None ELSE Path[i - 1], to |-> Path[i]]]

(* Mutant: the events of a closed case are spread until now. *)
TerminalNow(opened, closed, lag) ==
  IF opened + lag < MaxTime THEN opened + lag ELSE MaxTime

(* closed_at, or min(as_of, opened_at + at most twelve hours); as_of is MaxTime. *)
Terminal(opened, closed, lag) ==
  IF closed # None THEN closed
  ELSE IF opened + lag < MaxTime THEN opened + lag ELSE MaxTime

-----------------------------------------------------------------------------
Init ==
  /\ log = <<>>
  /\ case = None
  /\ payload = <<>>
  /\ verdict = "pending"

UsedIds == {log[i].id : i \in DOMAIN log}
Now     == IF log = <<>> THEN 0 ELSE log[Len(log)].at
Current == IF log = <<>> THEN None ELSE log[Len(log)].to

(* The case is opened, or moves to another status; cases may be reopened. *)
Transition(to, at, offset, id) ==
  /\ Len(log) < MaxEvents
  /\ at >= Now
  /\ IF log = <<>> THEN to = "open" ELSE to # Current
  /\ id \notin UsedIds
  /\ log' = Append(log, [id |-> id, at |-> at, offset |-> offset, from |-> Current, to |-> to])
  /\ UNCHANGED <<case, payload, verdict>>

(* The client sends a case with the events of the log that pick selects, in *)
(* the order pick gives them.                                               *)
Submit(status, closed, pick) ==
  /\ log # <<>>
  /\ payload' = [i \in DOMAIN pick |-> log[pick[i]]]
  /\ case' = [opened |-> log[1].at, status |-> status, closed |-> closed]
  /\ verdict' = IF ValidCase(case') /\ ValidEvents(case', payload')
                  THEN "accepted" ELSE "rejected"
  /\ UNCHANGED log

(* Sequences of distinct positions of the log. *)
Picks == UNION {{p \in [1..n -> DOMAIN log] : \A i, j \in 1..n : p[i] = p[j] => i = j} :
                  n \in 1..Len(log)}

(* generate_cases: cases with a closed_at are resolved or closed, others not. *)
Generate(opened, closed, lag, length) ==
  /\ log = <<>>
  /\ closed # None => closed >= opened
  /\ (closed # None) <=> Path[length] \in {"resolved", "closed"}
  /\ case' = [opened |-> opened, status |-> Path[length], closed |-> closed]
  /\ payload' = Generated(opened, Terminal(opened, closed, lag), length)
  /\ verdict' = IF ValidCase(case') /\ ValidEvents(case', payload')
                  THEN "accepted" ELSE "rejected"
  /\ UNCHANGED log

Next ==
  /\ verdict = "pending"
  /\ \/ \E to \in Statuses, at \in Times, offset \in Offsets, id \in EventIds :
          Transition(to, at, offset, id)
     \/ \E status \in Statuses, closed \in Times \cup {None}, pick \in Picks :
          Submit(status, closed, pick)
     \/ \E opened, lag \in Times, closed \in Times \cup {None}, length \in 1..4 :
          Generate(opened, closed, lag, length)

Spec == Init /\ [][Next]_vars

-----------------------------------------------------------------------------
Accepted == verdict = "accepted"
DistinctInstants == \A i, j \in DOMAIN payload : payload[i].at = payload[j].at => i = j
OneOffset == \A i, j \in DOMAIN payload : payload[i].offset = payload[j].offset

TypeOK ==
  /\ log \in Seq(Event)
  /\ case \in Case \cup {None}
  /\ payload \in Seq(Event)
  /\ verdict \in {"pending", "accepted", "rejected"}

(* The contract never refuses a true history: all events, in any order that *)
(* keeps simultaneous ones in theirs, with the status the case has and the  *)
(* instant of its last transition, if any, as closed_at.                    *)
Truthful ==
  /\ Len(payload) = Len(log)
  /\ \A i, j \in DOMAIN payload :
       i < j /\ payload[i].at = payload[j].at
         => \E k, l \in DOMAIN log : k < l /\ log[k] = payload[i] /\ log[l] = payload[j]
  /\ case.status = Current
  /\ case.closed \in {None, Now}
TruthIsAccepted == verdict # "pending" /\ Truthful => Accepted

(* The pipeline never fails on its own data: every generated case passes    *)
(* the contract, and the view shows its status even if all its events       *)
(* happen at one instant.                                                   *)
GeneratedPasses ==
  verdict # "pending" /\ log = <<>> =>
    /\ Accepted
    /\ \A i \in DOMAIN payload :
         Latest(payload, i) \/ LatestText(payload, i) => payload[i].to = case.status

(* Of an accepted case whose newest event is alone at its instant both      *)
(* views show the submitted status, SQLite's if all is in one offset.       *)
NewestAlone ==
  \A i, j \in DOMAIN payload :
    (\A k \in DOMAIN payload : payload[k].at <= payload[i].at) /\ payload[j].at = payload[i].at => i = j
ViewShowsStatus ==
  Accepted /\ NewestAlone =>
    \A i \in DOMAIN payload :
      /\ Latest(payload, i) => payload[i].to = case.status
      /\ OneOffset /\ LatestText(payload, i) => payload[i].to = case.status

(* Cycle times of an accepted case that was only resolved while in          *)
(* progress: the dashboard's are never negative, reopened or not; the       *)
(* report's are not if the case went straight, and then both measure the    *)
(* same, whatever the order of the events in the payload.                   *)
Straight == \A i, j \in DOMAIN payload : payload[i].to = payload[j].to => i = j
CycleTimesOrdered ==
  Accepted /\ Completed(payload)
    /\ (\A i \in DOMAIN payload : payload[i].to = "resolved" => payload[i].from = "in_progress")
    => /\ FirstStamp(payload, "open") <= FirstStamp(payload, "in_progress")
       /\ FirstStamp(payload, "in_progress") <= FirstStamp(payload, "resolved")
       /\ Straight => \A s \in {"open", "in_progress", "resolved"} :
                        Stamp(payload, s) = FirstStamp(payload, s)

(* README.md: "The current_case_state view resolves the latest event".      *)
(* SQLite, histories with different instants.                               *)
TextViewShowsLatest ==
  Accepted /\ DistinctInstants =>
    \A i, j \in DOMAIN payload : LatestText(payload, i) => payload[j].at <= payload[i].at
=============================================================================
