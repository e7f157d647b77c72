------------------------- MODULE CaseLifecycleProofs -------------------------
(***************************************************************************)
(* Proofs about CaseLifecycle, for histories of any length and any clock.  *)
(***************************************************************************)
EXTENDS CaseLifecycle, FiniteSetTheorems, WellFoundedInduction, TLAPS

(* What a client sends is a sequence of logged events. *)
LEMMA PickTyped ==
  ASSUME TypeOK, NEW pick \in Picks
  PROVE  [i \in DOMAIN pick |-> log[pick[i]]] \in Seq(Event)
<1>1. PICK n \in 1..Len(log) : pick \in [1..n -> DOMAIN log]
  BY DEF Picks
<1>2. n \in Nat /\ DOMAIN pick = 1..n
  BY <1>1 DEF TypeOK
<1>3. \A i \in 1..n : log[pick[i]] \in Event
  BY <1>1 DEF TypeOK
<1> QED BY <1>2, <1>3

(* Everything starts with values of its type. *)
LEMMA InitTyped == Init => TypeOK
BY DEF Init, TypeOK

(* The interpolation of the generator never leaves the interval. *)
LEMMA Between ==
  ASSUME NEW d \in Nat, NEW k \in 0..3, NEW m \in 1..3, k <= m
  PROVE  (d * k) \div m \in 0..d /\ (k = m => (d * k) \div m = d)
<1>1. CASE m = 1
  <2>1. k \in {0, 1}
    BY <1>1
  <2> QED BY <1>1, <2>1
<1>2. CASE m = 2
  <2>1. k \in {0, 1, 2}
    BY <1>2
  <2> QED BY <1>2, <2>1
<1>3. CASE m = 3
  <2>1. k \in {0, 1, 2, 3}
    BY <1>3
  <2> QED BY <1>3, <2>1
<1> QED BY <1>1, <1>2, <1>3

(* Later steps of the interpolation are never earlier. *)
LEMMA Monotone ==
  ASSUME NEW d \in Nat, NEW k \in 0..3, NEW l \in 0..3, k <= l, NEW m \in 1..3
  PROVE  (d * k) \div m <= (d * l) \div m
<1>1. k \in {0, 1, 2, 3} /\ l \in {0, 1, 2, 3} /\ m \in {1, 2, 3}
  OBVIOUS
<1> QED BY <1>1

(* The last generated event is not before the case was opened. *)
LEMMA TerminalTyped ==
  ASSUME NEW opened \in Times, NEW lag \in Times, NEW closed \in Times \cup {None},
         closed # None => closed >= opened
  PROVE  Terminal(opened, closed, lag) \in opened..MaxTime
<1>1. MaxTime \in Nat /\ opened \in Nat /\ lag \in Nat /\ opened <= MaxTime
  BY LifecycleAssumption DEF Times
<1>2. CASE closed # None
  <2>1. closed \in Nat /\ closed <= MaxTime /\ closed >= opened
    BY <1>2, LifecycleAssumption DEF Times
  <2> QED BY <1>1, <1>2, <2>1 DEF Terminal
<1>3. CASE closed = None
  BY <1>1, <1>3 DEF Terminal
<1> QED BY <1>2, <1>3

(* The steps between two generated events. *)
Steps(length) == IF length = 1 THEN 1 ELSE length - 1

(* What the generator writes is a sequence of events in the order of their  *)
(* positions, from the opening to the terminal instant.                     *)
LEMMA GeneratedTyped ==
  ASSUME NEW opened \in Times, NEW length \in 1..4, NEW terminal \in opened..MaxTime
  PROVE  LET h == Generated(opened, terminal, length)
         IN  /\ h \in Seq(Event) /\ DOMAIN h = 1..length
             /\ h[1].at = opened
             /\ length > 1 => h[length].at = terminal
             /\ \A i, j \in 1..length : i <= j => h[i].at <= h[j].at
<1> DEFINE h == Generated(opened, terminal, length)
           at(i) == opened + ((terminal - opened) * (i - 1)) \div Steps(length)
<1>1. MaxTime \in Nat /\ opened \in Nat /\ terminal \in Nat /\ opened <= terminal /\ terminal <= MaxTime
  BY LifecycleAssumption DEF Times
<1>2. DEFINE d == terminal - opened
<1>3. d \in Nat /\ opened + d = terminal
  BY <1>1
<1>4. Steps(length) \in 1..3 /\ (length > 1 => Steps(length) = length - 1)
  BY DEF Steps
<1>5. \A i \in 1..length : i - 1 \in 0..3 /\ i - 1 <= Steps(length)
  BY DEF Steps
<1>6. \A i \in 1..length : at(i) \in opened..terminal
  <2> TAKE i \in 1..length
  <2>1. (d * (i - 1)) \div Steps(length) \in 0..d
    BY <1>3, <1>4, <1>5, Between
  <2> QED BY <1>1, <1>3, <2>1
<1>7. \A i, j \in 1..length : i <= j => at(i) <= at(j)
  <2> SUFFICES ASSUME NEW i \in 1..length, NEW j \in 1..length, i <= j PROVE at(i) <= at(j)
    OBVIOUS
  <2>1. (d * (i - 1)) \div Steps(length) <= (d * (j - 1)) \div Steps(length)
    <3>1. i - 1 <= j - 1
      OBVIOUS
    <3> QED BY <1>3, <1>4, <1>5, <3>1, Monotone
  <2>2. /\ (d * (i - 1)) \div Steps(length) \in 0..d
        /\ (d * (j - 1)) \div Steps(length) \in 0..d
    BY <1>3, <1>4, <1>5, Between
  <2> QED BY <1>1, <1>3, <2>1, <2>2
<1>8. at(1) = opened
  <2>1. (d * 0) \div Steps(length) = 0
    <3>1. Steps(length) \in {1, 2, 3}
      BY <1>4
    <3> QED BY <1>3, <3>1
  <2> QED BY <1>1, <1>3, <2>1
<1>9. ASSUME length > 1 PROVE at(length) = terminal
  <2>1. (d * (length - 1)) \div Steps(length) = d
    BY <1>3, <1>4, <1>5, <1>9, Between
  <2> QED BY <1>3, <2>1
<1>10. h = [i \in 1..length |->
              [id |-> i, at |-> at(i), offset |-> 0,
               from |-> IF i = 1 THEN None ELSE Path[i - 1], to |-> Path[i]]]
  BY DEF Generated, Steps
<1> HIDE DEF at, d, h
<1>11. \A i \in 1..length : h[i].at = at(i)
  BY <1>10
<1>12. \A i \in 1..4 : Path[i] \in Statuses
  BY DEF Path, Statuses
<1>13. \A i \in 1..length : h[i] \in Event
  <2> TAKE i \in 1..length
  <2>1. at(i) \in Times
    BY <1>1, <1>6 DEF Times
  <2>2. i \in 1..4 /\ (i # 1 => i - 1 \in 1..4)
    OBVIOUS
  <2>3. (IF i = 1 THEN None ELSE Path[i - 1]) \in Statuses \cup {None}
    BY <1>12, <2>2
  <2> QED BY <1>10, <1>12, <2>1, <2>2, <2>3 DEF Event
<1>14. h \in Seq(Event) /\ DOMAIN h = 1..length
  BY <1>10, <1>13
<1> QED BY <1>7, <1>8, <1>9, <1>11, <1>14 DEF h

(* Every step keeps the types. *)
LEMMA NextTyped == TypeOK /\ [Next]_vars => TypeOK'
<1> SUFFICES ASSUME TypeOK, [Next]_vars PROVE TypeOK'
  OBVIOUS
<1>1. ASSUME NEW to \in Statuses, NEW at \in Times, NEW offset \in Offsets, NEW id \in EventIds,
             verdict = "pending", Transition(to, at, offset, id)
      PROVE  TypeOK'
  <2>1. Current \in Statuses \cup {None}
    <3>1. CASE log = <<>>
      BY <3>1 DEF Current
    <3>2. CASE log # <<>>
      <4>1. Len(log) \in 1..Len(log)
        BY <3>2 DEF TypeOK
      <4>2. log[Len(log)] \in Event
        BY <4>1 DEF TypeOK
      <4>3. log[Len(log)].to \in Statuses
        BY <4>2 DEF Event
      <4> QED BY <3>2, <4>3 DEF Current
    <3> QED BY <3>1, <3>2
  <2>2. [id |-> id, at |-> at, offset |-> offset, from |-> Current, to |-> to] \in Event
    BY <2>1 DEF Event
  <2> QED BY <1>1, <2>2 DEF Transition, TypeOK
<1>2. ASSUME NEW status \in Statuses, NEW closed \in Times \cup {None}, NEW pick \in Picks,
             Submit(status, closed, pick)
      PROVE  TypeOK'
  <2>1. payload' \in Seq(Event)
    BY <1>2, PickTyped DEF Submit
  <2>2. log[1] \in Event
    BY <1>2 DEF Submit, TypeOK
  <2>3. case' \in Case
    BY <1>2, <2>2 DEF Submit, Case, Event
  <2> QED BY <1>2, <2>1, <2>3 DEF Submit, TypeOK
<1>3. ASSUME NEW opened \in Times, NEW lag \in Times, NEW closed \in Times \cup {None},
             NEW length \in 1..4, Generate(opened, closed, lag, length)
      PROVE  TypeOK'
  <2>1. payload' \in Seq(Event)
    BY <1>3, GeneratedTyped, TerminalTyped DEF Generate
  <2>2. Path[length] \in Statuses
    BY DEF Path, Statuses
  <2>3. case' \in Case
    BY <1>3, <2>2 DEF Generate, Case
  <2> QED BY <1>3, <2>1, <2>3 DEF Generate, TypeOK
<1>4. CASE UNCHANGED vars
  BY <1>4 DEF vars, TypeOK
<1> QED BY <1>1, <1>2, <1>3, <1>4 DEF Next

(* The types of CaseLifecycle hold in every reachable state. *)
THEOREM TypeCorrect == Spec => []TypeOK
BY InitTyped, NextTyped, PTL DEF Spec

-----------------------------------------------------------------------------
(* The contract stands behind every accepted case. *)
AcceptedIsValid == Accepted => case \in Case /\ ValidEvents(case, payload)

(* Only Submit and Generate accept, after the checks. *)
LEMMA AcceptedStep == TypeOK /\ AcceptedIsValid /\ [Next]_vars => AcceptedIsValid'
<1> SUFFICES ASSUME TypeOK, AcceptedIsValid, [Next]_vars PROVE AcceptedIsValid'
  OBVIOUS
<1>1. ASSUME NEW to \in Statuses, NEW at \in Times, NEW offset \in Offsets, NEW id \in EventIds,
             verdict = "pending", Transition(to, at, offset, id)
      PROVE  AcceptedIsValid'
  BY <1>1 DEF Transition, AcceptedIsValid, Accepted
<1>2. ASSUME NEW status \in Statuses, NEW closed \in Times \cup {None}, NEW pick \in Picks,
             Submit(status, closed, pick)
      PROVE  AcceptedIsValid'
  <2>1. log[1] \in Event
    BY <1>2 DEF Submit, TypeOK
  <2>2. case' \in Case
    BY <1>2, <2>1 DEF Submit, Case, Event
  <2>3. Accepted' => ValidEvents(case', payload')
    BY <1>2 DEF Submit, Accepted
  <2> QED BY <2>2, <2>3 DEF AcceptedIsValid, ValidEvents, IsFirst, IsLast, Adjacent, Before
<1>3. ASSUME NEW opened \in Times, NEW lag \in Times, NEW closed \in Times \cup {None},
             NEW length \in 1..4, Generate(opened, closed, lag, length)
      PROVE  AcceptedIsValid'
  <2>1. Path[length] \in Statuses
    BY DEF Path, Statuses
  <2>2. case' \in Case
    BY <1>3, <2>1 DEF Generate, Case
  <2>3. Accepted' => ValidEvents(case', payload')
    BY <1>3 DEF Generate, Accepted
  <2> QED BY <2>2, <2>3 DEF AcceptedIsValid, ValidEvents, IsFirst, IsLast, Adjacent, Before
<1>4. CASE UNCHANGED vars
  BY <1>4 DEF vars, AcceptedIsValid, Accepted, ValidEvents, IsFirst, IsLast, Adjacent, Before
<1> QED BY <1>1, <1>2, <1>3, <1>4 DEF Next

(* The row the view picks is at the latest instant, and the event the       *)
(* contract takes for the last one if no other happened then.               *)
LEMMA LatestIsLast ==
  ASSUME NEW h \in Seq(Event), NEW i \in DOMAIN h, Latest(h, i),
         \A a, b \in DOMAIN h :
           (\A k \in DOMAIN h : h[k].at <= h[a].at) /\ h[b].at = h[a].at => a = b
  PROVE  IsLast(h, i)
<1>1. \A j \in DOMAIN h : h[j].at \in Nat
  <2> TAKE j \in DOMAIN h
  <2>1. h[j] \in Event
    OBVIOUS
  <2> QED BY <2>1, LifecycleAssumption DEF Event, Times
<1>2. \A j \in DOMAIN h : h[j].at <= h[i].at
  BY <1>1 DEF Latest, LaterRow
<1> SUFFICES ASSUME NEW j \in DOMAIN h, j # i PROVE Before(h, j, i)
  BY DEF IsLast
<1>3. h[j].at # h[i].at
  BY <1>2
<1> QED BY <1>1, <1>2, <1>3 DEF Before

(* In one offset, the text of a timestamp orders events as instants do. *)
LEMMA TextIsRow ==
  ASSUME NEW h \in Seq(Event), \A i, j \in DOMAIN h : h[i].offset = h[j].offset,
         NEW i \in DOMAIN h, LatestText(h, i)
  PROVE  Latest(h, i)
<1> SUFFICES ASSUME NEW j \in DOMAIN h, j # i PROVE LaterRow(h[i], h[j])
  BY DEF Latest
<1>1. h[i] \in Event /\ h[j] \in Event
  OBVIOUS
<1>2. h[i].at \in Nat /\ h[j].at \in Nat
  BY <1>1, LifecycleAssumption DEF Event, Times
<1>3. h[i].offset \in Offsets \cup {0} /\ Offsets \subseteq Nat
  BY <1>1, LifecycleAssumption DEF Event
<1>4. h[i].offset \in Nat
  <2>1. Offsets \cup {0} \subseteq Nat
    BY <1>3
  <2> QED BY <1>3, <2>1
<1>5. h[i].offset = h[j].offset
  OBVIOUS
<1>6. LaterText(h[i], h[j])
  BY DEF LatestText
<1> QED BY <1>2, <1>4, <1>5, <1>6 DEF LaterText, LaterRow

(* The operational view agrees with the submitted snapshot of every case    *)
(* whose newest event is alone at its instant, SQLite's if the events are   *)
(* written in one offset.                                                   *)
THEOREM ViewAlwaysShowsStatus == Spec => []ViewShowsStatus
<1>1. Init => AcceptedIsValid
  BY DEF Init, AcceptedIsValid, Accepted
<1>2. TypeOK /\ AcceptedIsValid => ViewShowsStatus
  <2> SUFFICES ASSUME TypeOK, AcceptedIsValid, Accepted, NewestAlone,
                      NEW i \in DOMAIN payload
               PROVE  /\ Latest(payload, i) => payload[i].to = case.status
                      /\ OneOffset /\ LatestText(payload, i) => payload[i].to = case.status
    BY DEF ViewShowsStatus
  <2>1. payload \in Seq(Event)
    BY DEF TypeOK
  <2>2. ASSUME Latest(payload, i) PROVE payload[i].to = case.status
    <3>1. IsLast(payload, i)
      BY <2>1, <2>2, LatestIsLast DEF NewestAlone
    <3> QED BY <3>1 DEF AcceptedIsValid, ValidEvents
  <2>3. ASSUME OneOffset, LatestText(payload, i) PROVE Latest(payload, i)
    BY <2>1, <2>3, TextIsRow DEF OneOffset
  <2> QED BY <2>2, <2>3
<1> QED BY <1>1, <1>2, InitTyped, NextTyped, AcceptedStep, PTL DEF Spec

-----------------------------------------------------------------------------
(* What the pipeline's generator has written. *)
IsGenerated(c, h) ==
  \E opened \in Times, closed \in Times \cup {None}, length \in 1..4 :
    \E terminal \in opened..MaxTime :
      /\ (closed # None) <=> Path[length] \in {"resolved", "closed"}
      /\ closed # None => closed >= opened /\ terminal = closed
      /\ c = [opened |-> opened, status |-> Path[length], closed |-> closed]
      /\ h = Generated(opened, terminal, length)

(* A generated history starts at its first position and ends at its last. *)
LEMMA GeneratedOrder ==
  ASSUME NEW opened \in Times, NEW length \in 1..4, NEW terminal \in opened..MaxTime,
         NEW h, h = Generated(opened, terminal, length)
  PROVE  /\ \A i, j \in 1..length : Before(h, i, j) <=> i < j
         /\ \A i \in 1..length : IsFirst(h, i) => i = 1
         /\ \A i \in 1..length : IsLast(h, i) => i = length
         /\ \A i, j \in 1..length : Adjacent(h, i, j) => j = i + 1
         /\ \A i \in 1..length : Latest(h, i) \/ LatestText(h, i) => i = length
<1>1. /\ h \in Seq(Event) /\ DOMAIN h = 1..length
      /\ \A i, j \in 1..length : i <= j => h[i].at <= h[j].at
  BY GeneratedTyped
<1>2. \A i \in 1..length : h[i].id = i /\ h[i].offset = 0
  BY DEF Generated
<1>3. \A i \in 1..length : h[i].at \in Nat
  <2> TAKE i \in 1..length
  <2>1. h[i] \in Event
    BY <1>1
  <2> QED BY <2>1, LifecycleAssumption DEF Event, Times
<1>4. \A i, j \in 1..length : Before(h, i, j) <=> i < j
  BY <1>1, <1>3 DEF Before
<1>5. \A i \in 1..length : IsFirst(h, i) => i = 1
  <2> SUFFICES ASSUME NEW i \in 1..length, IsFirst(h, i), i # 1 PROVE FALSE
    OBVIOUS
  <2>1. 1 \in 1..length
    OBVIOUS
  <2> QED BY <1>1, <1>4, <2>1 DEF IsFirst
<1>6. \A i \in 1..length : IsLast(h, i) => i = length
  <2> SUFFICES ASSUME NEW i \in 1..length, IsLast(h, i), i # length PROVE FALSE
    OBVIOUS
  <2>1. length \in 1..length
    OBVIOUS
  <2> QED BY <1>1, <1>4, <2>1 DEF IsLast
<1>7. \A i, j \in 1..length : Adjacent(h, i, j) => j = i + 1
  <2> SUFFICES ASSUME NEW i \in 1..length, NEW j \in 1..length, Adjacent(h, i, j), j # i + 1 PROVE FALSE
    OBVIOUS
  <2>1. i < j
    BY <1>4 DEF Adjacent
  <2>2. i + 1 \in 1..length
    BY <2>1
  <2>3. Before(h, i, i + 1) /\ Before(h, i + 1, j)
    BY <1>4, <2>1, <2>2
  <2> QED BY <1>1, <2>2, <2>3 DEF Adjacent
<1>8. \A i \in 1..length : Latest(h, i) \/ LatestText(h, i) => i = length
  <2> SUFFICES ASSUME NEW i \in 1..length, Latest(h, i) \/ LatestText(h, i), i # length PROVE FALSE
    OBVIOUS
  <2>1. length \in 1..length /\ i < length
    OBVIOUS
  <2>2. LaterRow(h[i], h[length]) \/ LaterText(h[i], h[length])
    BY <1>1, <2>1 DEF Latest, LatestText
  <2>3. h[i].at <= h[length].at
    BY <1>1, <2>1
  <2> QED BY <1>2, <1>3, <2>1, <2>2, <2>3 DEF LaterRow, LaterText
<1> QED BY <1>4, <1>5, <1>6, <1>7, <1>8

(* The contract accepts what the generator writes. *)
LEMMA GeneratedIsValid ==
  ASSUME NEW c, NEW h, IsGenerated(c, h)
  PROVE  /\ ValidCase(c) /\ ValidEvents(c, h)
         /\ \A i \in DOMAIN h : Latest(h, i) \/ LatestText(h, i) => h[i].to = c.status
<1>1. PICK opened \in Times, closed \in Times \cup {None}, length \in 1..4 :
        \E terminal \in opened..MaxTime :
          /\ (closed # None) <=> Path[length] \in {"resolved", "closed"}
          /\ closed # None => closed >= opened /\ terminal = closed
          /\ c = [opened |-> opened, status |-> Path[length], closed |-> closed]
          /\ h = Generated(opened, terminal, length)
  BY DEF IsGenerated
<1>2. PICK terminal \in opened..MaxTime :
          /\ (closed # None) <=> Path[length] \in {"resolved", "closed"}
          /\ closed # None => closed >= opened /\ terminal = closed
          /\ c = [opened |-> opened, status |-> Path[length], closed |-> closed]
          /\ h = Generated(opened, terminal, length)
  BY <1>1
<1>3. /\ h \in Seq(Event) /\ DOMAIN h = 1..length
      /\ h[1].at = opened /\ (length > 1 => h[length].at = terminal)
  BY <1>2, GeneratedTyped
<1>4. \A i \in 1..length : h[i].to = Path[i] /\ h[i].from = IF i = 1 THEN None ELSE Path[i - 1]
  BY <1>2 DEF Generated
<1>5. c.opened = opened /\ c.status = Path[length] /\ c.closed = closed
  BY <1>2
<1>6. closed # None => length > 1
  BY <1>2 DEF Path
<1>7. ValidCase(c)
  BY <1>2, <1>5 DEF ValidCase
<1>8. h # <<>>
  BY <1>3
<1>9. \A i \in DOMAIN h :
        IsFirst(h, i) => (h[i].from = None /\ h[i].to = "open" /\ h[i].at = c.opened)
  BY <1>2, <1>3, <1>4, <1>5, GeneratedOrder DEF Path
<1>10. \A i, j \in DOMAIN h : Adjacent(h, i, j) => h[j].from = h[i].to
  <2> SUFFICES ASSUME NEW i \in 1..length, NEW j \in 1..length, Adjacent(h, i, j)
               PROVE  h[j].from = h[i].to
    BY <1>3
  <2>1. j = i + 1
    BY <1>2, GeneratedOrder
  <2> QED BY <1>4, <2>1
<1>11. \A i \in DOMAIN h :
         IsLast(h, i) => (h[i].to = c.status /\ (c.closed # None => h[i].at = c.closed))
  BY <1>2, <1>3, <1>4, <1>5, <1>6, GeneratedOrder
<1>12. ValidEvents(c, h)
  BY <1>8, <1>9, <1>10, <1>11 DEF ValidEvents
<1>13. \A i \in DOMAIN h : Latest(h, i) \/ LatestText(h, i) => h[i].to = c.status
  BY <1>2, <1>3, <1>4, <1>5, GeneratedOrder
<1> QED BY <1>7, <1>12, <1>13

(* A submission without a log is the generator's. *)
FromGenerator ==
  verdict # "pending" /\ log = <<>> => IsGenerated(case, payload) /\ Accepted

(* Every step keeps that. *)
LEMMA GeneratorStep == TypeOK /\ FromGenerator /\ [Next]_vars => FromGenerator'
<1> SUFFICES ASSUME TypeOK, FromGenerator, [Next]_vars PROVE FromGenerator'
  OBVIOUS
<1>1. ASSUME NEW to \in Statuses, NEW at \in Times, NEW offset \in Offsets, NEW id \in EventIds,
             verdict = "pending", Transition(to, at, offset, id)
      PROVE  FromGenerator'
  BY <1>1 DEF Transition, FromGenerator
<1>2. ASSUME NEW status \in Statuses, NEW closed \in Times \cup {None}, NEW pick \in Picks,
             Submit(status, closed, pick)
      PROVE  FromGenerator'
  BY <1>2 DEF Submit, FromGenerator
<1>3. ASSUME NEW opened \in Times, NEW lag \in Times, NEW closed \in Times \cup {None},
             NEW length \in 1..4, Generate(opened, closed, lag, length)
      PROVE  FromGenerator'
  <2>1. Terminal(opened, closed, lag) \in opened..MaxTime
    BY <1>3, TerminalTyped DEF Generate
  <2>2. closed # None => Terminal(opened, closed, lag) = closed
    BY DEF Terminal
  <2>3. IsGenerated(case', payload')
    BY <1>3, <2>1, <2>2 DEF Generate, IsGenerated
  <2>4. ValidCase(case') /\ ValidEvents(case', payload')
    BY <2>3, GeneratedIsValid
  <2>5. verdict' = "accepted"
    BY <1>3, <2>4 DEF Generate
  <2> QED BY <2>3, <2>5 DEF FromGenerator, Accepted, IsGenerated
<1>4. CASE UNCHANGED vars
  BY <1>4 DEF vars, FromGenerator, Accepted, IsGenerated
<1> QED BY <1>1, <1>2, <1>3, <1>4 DEF Next

(* The pipeline never fails on what its own generator wrote, for any clock. *)
THEOREM GeneratedAlwaysPasses == Spec => []GeneratedPasses
<1>1. Init => FromGenerator
  BY DEF Init, FromGenerator
<1>2. FromGenerator => GeneratedPasses
  BY GeneratedIsValid DEF FromGenerator, GeneratedPasses
<1> QED BY <1>1, <1>2, InitTyped, NextTyped, GeneratorStep, PTL DEF Spec

-----------------------------------------------------------------------------
(* The order of the natural numbers. *)
Smaller == {p \in Nat \X Nat : p[1] < p[2]}

(* A set of natural numbers has a least element. *)
LEMMA Least ==
  ASSUME NEW S \in SUBSET Nat, S # {}
  PROVE  \E m \in S : \A n \in S : m <= n
<1>1. IsWellFoundedOn(Smaller, Nat)
  BY NatLessThanWellFounded DEF Smaller, OpToRel
<1>2. PICK m \in S : \A n \in S : <<n, m>> \notin Smaller
  BY <1>1, WFMin
<1>3. \A n \in S : ~(n < m)
  BY <1>2 DEF Smaller
<1> QED BY <1>3

(* The instants of a history. *)
LEMMA Instants ==
  ASSUME NEW h \in Seq(Event)
  PROVE  \A i \in DOMAIN h : i \in Nat /\ i <= Len(h) /\ h[i].at \in Nat /\ h[i].at <= MaxTime
<1> TAKE i \in DOMAIN h
<1>1. h[i] \in Event
  OBVIOUS
<1>2. MaxTime \in Nat
  BY LifecycleAssumption
<1> QED BY <1>1, <1>2 DEF Event, Times

(* Some event of a part of a history comes first, *)
LEMMA EarliestOf ==
  ASSUME NEW h \in Seq(Event), NEW S \in SUBSET DOMAIN h, S # {}
  PROVE  \E m \in S : \A n \in S : n = m \/ Before(h, m, n)
<1>1. PICK t \in {h[i].at : i \in S} : \A n \in {h[i].at : i \in S} : t <= n
  <2>1. {h[i].at : i \in S} \in SUBSET Nat /\ {h[i].at : i \in S} # {}
    BY Instants
  <2> QED BY <2>1, Least
<1>2. PICK m \in {i \in S : h[i].at = t} : \A n \in {i \in S : h[i].at = t} : m <= n
  <2>1. {i \in S : h[i].at = t} \in SUBSET Nat /\ {i \in S : h[i].at = t} # {}
    BY <1>1, Instants
  <2> QED BY <2>1, Least
<1>3. ASSUME NEW n \in S, n # m PROVE Before(h, m, n)
  <2>1. t <= h[n].at /\ h[m].at = t /\ (h[n].at = t => m <= n)
    BY <1>1, <1>2
  <2>2. t \in Nat /\ h[n].at \in Nat /\ m \in Nat /\ n \in Nat
    BY <1>2, Instants
  <2> QED BY <1>3, <2>1, <2>2 DEF Before
<1> QED BY <1>2, <1>3

(* and some event comes last. *)
LEMMA LatestOf ==
  ASSUME NEW h \in Seq(Event), NEW S \in SUBSET DOMAIN h, S # {}
  PROVE  \E m \in S : \A n \in S : n = m \/ Before(h, n, m)
<1> DEFINE left(i) == MaxTime - h[i].at
           behind(i) == Len(h) - i
<1>0. /\ \A i \in DOMAIN h : left(i) \in Nat /\ h[i].at = MaxTime - left(i)
      /\ \A i \in DOMAIN h : behind(i) \in Nat /\ i = Len(h) - behind(i)
  BY Instants, LifecycleAssumption
<1>1. PICK t \in {left(i) : i \in S} : \A n \in {left(i) : i \in S} : t <= n
  <2> HIDE DEF left
  <2>1. {left(i) : i \in S} \in SUBSET Nat /\ {left(i) : i \in S} # {}
    BY <1>0
  <2> QED BY <2>1, Least
<1>2. PICK b \in {behind(i) : i \in {k \in S : left(k) = t}} :
        \A n \in {behind(i) : i \in {k \in S : left(k) = t}} : b <= n
  <2> HIDE DEF left, behind
  <2>1. /\ {behind(i) : i \in {k \in S : left(k) = t}} \in SUBSET Nat
        /\ {behind(i) : i \in {k \in S : left(k) = t}} # {}
    BY <1>0, <1>1
  <2> QED BY <2>1, Least
<1>3. PICK m \in S : left(m) = t /\ behind(m) = b
  BY <1>2
<1>4. ASSUME NEW n \in S, n # m PROVE Before(h, n, m)
  <2>1. left(m) <= left(n) /\ (left(n) = left(m) => behind(m) <= behind(n))
    BY <1>1, <1>2, <1>3
  <2>2. h[m].at \in Nat /\ h[n].at \in Nat /\ m \in Nat /\ n \in Nat /\ Len(h) \in Nat /\ MaxTime \in Nat
    BY Instants, LifecycleAssumption
  <2> QED BY <1>4, <2>1, <2>2 DEF Before
<1> QED BY <1>4

(* Every event of a history but the first follows another. *)
LEMMA Predecessor ==
  ASSUME NEW h \in Seq(Event), NEW j \in DOMAIN h, ~IsFirst(h, j)
  PROVE  \E i \in DOMAIN h : Adjacent(h, i, j)
<1>1. PICK k \in DOMAIN h : k # j /\ ~Before(h, j, k)
  BY DEF IsFirst
<1>2. Before(h, k, j)
  BY <1>1, Instants DEF Before
<1> DEFINE S == {i \in DOMAIN h : Before(h, i, j)}
<1>3. PICK i \in S : \A n \in S : n = i \/ Before(h, n, i)
  <2>1. S \in SUBSET DOMAIN h /\ S # {}
    BY <1>2
  <2> QED BY <2>1, LatestOf
<1>4. \A n \in DOMAIN h : ~(Before(h, i, n) /\ Before(h, n, j))
  BY <1>3, Instants DEF Before
<1> QED BY <1>3, <1>4 DEF Adjacent

(* The dashboard's stamp is the earliest of those that reached the status. *)
LEMMA FirstStampIsLeast ==
  ASSUME NEW h \in Seq(Event), NEW s, Reached(h, s) # {}
  PROVE  /\ \E c \in Reached(h, s) : FirstStamp(h, s) = h[c].at
         /\ \A i \in Reached(h, s) : FirstStamp(h, s) <= h[i].at
<1>1. Reached(h, s) \in SUBSET DOMAIN h
  BY DEF Reached
<1>2. PICK m \in Reached(h, s) : \A n \in Reached(h, s) : n = m \/ Before(h, m, n)
  BY <1>1, EarliestOf
<1>3. \A n \in Reached(h, s) : h[m].at <= h[n].at
  BY <1>1, <1>2, Instants DEF Before
<1>4. LET c == CHOOSE i \in Reached(h, s) : \A j \in Reached(h, s) : h[i].at <= h[j].at
      IN  c \in Reached(h, s) /\ \A j \in Reached(h, s) : h[c].at <= h[j].at
  BY <1>3
<1> QED BY <1>4 DEF FirstStamp

(* Cycle times of accepted histories of any length are never negative, and  *)
(* the report and the dashboard agree on those of a straight case.          *)
THEOREM CycleTimesAlwaysOrdered == Spec => []CycleTimesOrdered
<1>1. Init => AcceptedIsValid
  BY DEF Init, AcceptedIsValid, Accepted
<1>2. TypeOK /\ AcceptedIsValid => CycleTimesOrdered
  <2> DEFINE h == payload
             first(s) == FirstStamp(h, s)
  <2> SUFFICES ASSUME TypeOK, AcceptedIsValid, Accepted, Completed(h),
                      \A i \in DOMAIN h : h[i].to = "resolved" => h[i].from = "in_progress"
               PROVE  /\ first("open") <= first("in_progress")
                      /\ first("in_progress") <= first("resolved")
                      /\ Straight => \A s \in {"open", "in_progress", "resolved"} :
                                       Stamp(h, s) = first(s)
    BY DEF CycleTimesOrdered
  <2>1. h \in Seq(Event) /\ ValidEvents(case, h)
    BY DEF TypeOK, AcceptedIsValid
  <2>2. \A s \in {"open", "in_progress", "resolved"} : Reached(h, s) # {}
    BY DEF Completed
  <2>3. \A s \in {"open", "in_progress", "resolved"} :
          /\ \E c \in Reached(h, s) : first(s) = h[c].at
          /\ \A i \in Reached(h, s) : first(s) <= h[i].at
    BY <2>1, <2>2, FirstStampIsLeast
  <2>4. \A s \in {"open", "in_progress", "resolved"} : first(s) \in Nat
    BY <2>1, <2>3, Instants DEF Reached
  <2>5. first("open") <= first("in_progress")
    <3>1. PICK m \in DOMAIN h : \A n \in DOMAIN h : n = m \/ Before(h, m, n)
      <4>1. DOMAIN h # {}
        BY <2>2 DEF Reached
      <4> QED BY <2>1, <4>1, EarliestOf
    <3>2. IsFirst(h, m)
      BY <3>1 DEF IsFirst
    <3>3. m \in Reached(h, "open")
      BY <2>1, <3>2 DEF ValidEvents, Reached
    <3>4. PICK c \in Reached(h, "in_progress") : first("in_progress") = h[c].at
      BY <2>3
    <3>5. h[m].at <= h[c].at
      BY <2>1, <3>1, <3>4, Instants DEF Before, Reached
    <3>6. first("open") <= h[m].at
      BY <2>3, <3>3
    <3> HIDE DEF first
    <3> QED BY <2>1, <2>4, <3>3, <3>4, <3>5, <3>6, Instants DEF Reached
  <2>6. first("in_progress") <= first("resolved")
    <3>1. PICK r \in Reached(h, "resolved") : first("resolved") = h[r].at
      BY <2>3
    <3>2. r \in DOMAIN h /\ h[r].from = "in_progress"
      BY <3>1 DEF Reached
    <3>3. ~IsFirst(h, r)
      <4>1. "in_progress" # None
        BY LifecycleAssumption DEF Statuses
      <4> QED BY <2>1, <3>2, <4>1 DEF ValidEvents
    <3>4. PICK i \in DOMAIN h : Adjacent(h, i, r)
      BY <2>1, <3>2, <3>3, Predecessor
    <3>5. i \in Reached(h, "in_progress")
      BY <2>1, <3>2, <3>4 DEF ValidEvents, Reached
    <3>6. h[i].at <= h[r].at
      BY <2>1, <3>2, <3>4, Instants DEF Adjacent, Before
    <3>7. first("in_progress") <= h[i].at
      BY <2>3, <3>5
    <3> HIDE DEF first
    <3> QED BY <2>1, <2>4, <3>1, <3>2, <3>4, <3>6, <3>7, Instants
  <2>7. ASSUME Straight, NEW s \in {"open", "in_progress", "resolved"}
        PROVE  Stamp(h, s) = first(s)
    <3>1. PICK c \in Reached(h, s) : TRUE
      BY <2>2
    <3>2. Reached(h, s) = {c}
      BY <2>7, <3>1 DEF Straight, Reached
    <3>3. c \in Nat /\ h[c].at \in Nat
      BY <2>1, <3>1, Instants DEF Reached
    <3>4. Stamp(h, s) = h[c].at
      BY <3>2, <3>3 DEF Stamp
    <3>5. FirstStamp(h, s) = h[c].at
      BY <3>2, <3>3 DEF FirstStamp
    <3> QED BY <3>4, <3>5
  <2> QED BY <2>5, <2>6, <2>7
<1> QED BY <1>1, <1>2, InitTyped, NextTyped, AcceptedStep, PTL DEF Spec

-----------------------------------------------------------------------------
(* The log of the system of record is a history: it opens the case, each    *)
(* event starts where the one before it ended and not before it, and no     *)
(* event id is used twice.                                                  *)
TrueLog ==
  /\ log # <<>> => log[1].from = None /\ log[1].to = "open"
  /\ \A i \in 1..Len(log) : i + 1 <= Len(log) => log[i + 1].from = log[i].to
  /\ \A i, j \in 1..Len(log) : i <= j => log[i].at <= log[j].at
  /\ \A i, j \in 1..Len(log) : log[i].id = log[j].id => i = j

(* A client's submission selects events of the log and is judged as it is. *)
Submitted ==
  verdict # "pending" /\ log # <<>> =>
    /\ \E pick \in Picks : payload = [i \in DOMAIN pick |-> log[pick[i]]]
    /\ case \in Case /\ case.opened = log[1].at
    /\ verdict = IF ValidCase(case) /\ ValidEvents(case, payload) THEN "accepted" ELSE "rejected"

(* A step either appends to the log or leaves it. *)
LEMMA TrueLogStep == TypeOK /\ TrueLog /\ [Next]_vars => TrueLog'
<1> SUFFICES ASSUME TypeOK, TrueLog, [Next]_vars PROVE TrueLog'
  OBVIOUS
<1>1. ASSUME NEW to \in Statuses, NEW at \in Times, NEW offset \in Offsets, NEW id \in EventIds,
             verdict = "pending", Transition(to, at, offset, id)
      PROVE  TrueLog'
  <2> DEFINE e == [id |-> id, at |-> at, offset |-> offset, from |-> Current, to |-> to]
             n == Len(log)
  <2>1. /\ log' = Append(log, e) /\ at >= Now /\ id \notin UsedIds
        /\ IF log = <<>> THEN to = "open" ELSE to # Current
    BY <1>1 DEF Transition
  <2>2. log \in Seq(Event) /\ n \in Nat /\ at \in Nat
    BY LifecycleAssumption DEF TypeOK, Times
  <2>3. Len(log') = n + 1 /\ (\A i \in 1..n : log'[i] = log[i]) /\ log'[n + 1] = e
    BY <2>1, <2>2
  <2>4. CASE log = <<>>
    <3>1. n = 0 /\ Current = None
      BY <2>4 DEF Current
    <3> QED BY <2>1, <2>2, <2>3, <2>4, <3>1 DEF TrueLog
  <2>5. CASE log # <<>>
    <3>1. n \in 1..n /\ Current = log[n].to /\ Now = log[n].at
      BY <2>2, <2>5 DEF Current, Now
    <3>2. \A i \in 1..n : log[i].at \in Nat /\ log[i].at <= at /\ log[i].id # id
      <4> TAKE i \in 1..n
      <4>1. log[i].at \in Nat /\ log[n].at \in Nat
        BY <2>2, <3>1, Instants
      <4>2. log[i].at <= log[n].at
        BY <3>1, <2>2 DEF TrueLog
      <4>3. log[i].id # id
        BY <2>1, <2>2 DEF UsedIds
      <4> QED BY <2>1, <2>2, <3>1, <4>1, <4>2, <4>3
    <3>3. \A i \in 1..(n + 1) : i \in 1..n \/ i = n + 1
      BY <2>2
    <3> HIDE DEF n
    <3>4. log'[1].from = None /\ log'[1].to = "open"
      BY <2>2, <2>3, <2>5, <3>1 DEF TrueLog
    <3>5. \A i \in 1..(n + 1) : i + 1 <= n + 1 => log'[i + 1].from = log'[i].to
      <4> SUFFICES ASSUME NEW i \in 1..(n + 1), i + 1 <= n + 1 PROVE log'[i + 1].from = log'[i].to
        OBVIOUS
      <4>1. CASE i = n
        BY <2>2, <2>3, <3>1, <4>1
      <4>2. CASE i # n
        <5>1. i \in 1..n /\ i + 1 \in 1..n
          BY <2>2, <4>2
        <5> QED BY <2>2, <2>3, <5>1 DEF TrueLog, n
      <4> QED BY <4>1, <4>2
    <3>6. \A i, j \in 1..(n + 1) : i <= j => log'[i].at <= log'[j].at
      <4> SUFFICES ASSUME NEW i \in 1..(n + 1), NEW j \in 1..(n + 1), i <= j
                   PROVE  log'[i].at <= log'[j].at
        OBVIOUS
      <4>1. CASE j = n + 1
        BY <2>2, <2>3, <3>2, <3>3, <4>1
      <4>2. CASE j # n + 1
        <5>1. i \in 1..n /\ j \in 1..n
          BY <2>2, <4>2
        <5> QED BY <2>3, <5>1 DEF TrueLog, n
      <4> QED BY <4>1, <4>2
    <3>7. \A i, j \in 1..(n + 1) : log'[i].id = log'[j].id => i = j
      <4> SUFFICES ASSUME NEW i \in 1..(n + 1), NEW j \in 1..(n + 1), log'[i].id = log'[j].id
                   PROVE  i = j
        OBVIOUS
      <4>1. CASE i \in 1..n /\ j \in 1..n
        BY <2>3, <4>1 DEF TrueLog, n
      <4>2. CASE i = n + 1 \/ j = n + 1
        BY <2>3, <3>2, <3>3, <4>2
      <4> QED BY <3>3, <4>1, <4>2
    <3> QED BY <2>3, <3>4, <3>5, <3>6, <3>7 DEF TrueLog
  <2> QED BY <2>4, <2>5
<1>2. ASSUME UNCHANGED log PROVE TrueLog'
  BY <1>2 DEF TrueLog
<1>3. ASSUME NEW status \in Statuses, NEW closed \in Times \cup {None}, NEW pick \in Picks,
             Submit(status, closed, pick)
      PROVE  UNCHANGED log
  BY <1>3 DEF Submit
<1>4. ASSUME NEW opened \in Times, NEW lag \in Times, NEW closed \in Times \cup {None},
             NEW length \in 1..4, Generate(opened, closed, lag, length)
      PROVE  UNCHANGED log
  BY <1>4 DEF Generate
<1>5. CASE UNCHANGED vars
  BY <1>2, <1>5 DEF vars
<1> QED BY <1>1, <1>2, <1>3, <1>4, <1>5 DEF Next

(* Only Submit judges a submission of logged events. *)
LEMMA SubmittedStep == TypeOK /\ Submitted /\ [Next]_vars => Submitted'
<1> SUFFICES ASSUME TypeOK, Submitted, [Next]_vars PROVE Submitted'
  OBVIOUS
<1>1. ASSUME NEW to \in Statuses, NEW at \in Times, NEW offset \in Offsets, NEW id \in EventIds,
             verdict = "pending", Transition(to, at, offset, id)
      PROVE  Submitted'
  BY <1>1 DEF Transition, Submitted
<1>2. ASSUME NEW status \in Statuses, NEW closed \in Times \cup {None}, NEW pick \in Picks,
             Submit(status, closed, pick)
      PROVE  Submitted'
  <2>1. log[1] \in Event
    BY <1>2 DEF Submit, TypeOK
  <2>2. case' \in Case /\ case'.opened = log[1].at
    BY <1>2, <2>1 DEF Submit, Case, Event
  <2>3. Picks' = Picks /\ log' = log
    BY <1>2 DEF Submit, Picks
  <2>4. payload' = [i \in DOMAIN pick |-> log[pick[i]]]
    BY <1>2 DEF Submit
  <2>5. verdict' = IF ValidCase(case') /\ ValidEvents(case', payload') THEN "accepted" ELSE "rejected"
    BY <1>2 DEF Submit
  <2> QED BY <2>2, <2>3, <2>4, <2>5
          DEF Submitted, ValidCase, ValidEvents, IsFirst, IsLast, Adjacent, Before
<1>3. ASSUME NEW opened \in Times, NEW lag \in Times, NEW closed \in Times \cup {None},
             NEW length \in 1..4, Generate(opened, closed, lag, length)
      PROVE  Submitted'
  BY <1>3 DEF Generate, Submitted
<1>4. CASE UNCHANGED vars
  BY <1>4 DEF vars, Submitted, Picks, ValidCase, ValidEvents, IsFirst, IsLast, Adjacent, Before
<1> QED BY <1>1, <1>2, <1>3, <1>4 DEF Next

(* A history of n events in the order that pick gives their positions. *)
OrderedBy(h, n, pick) ==
  /\ DOMAIN h = 1..n /\ pick \in [1..n -> 1..n]
  /\ \A k \in 1..n : \E i \in 1..n : pick[i] = k
  /\ \A i, j \in 1..n : Before(h, i, j) <=> pick[i] < pick[j]

(* Two neighbours of an interval. *)
LEMMA Neighbours ==
  ASSUME NEW n \in Nat, NEW a \in 1..n, NEW b \in 1..n, a < b
  PROVE  a + 1 \in 1..n /\ a \in 1..(n - 1) /\ (~(a + 1 < b) => b = a + 1)
OBVIOUS

(* Where the order of a payload is that of the log, the contract's first,   *)
(* last and adjacent events are the log's.                                  *)
LEMMA FirstPicked ==
  ASSUME NEW h, NEW n \in Nat, n > 0, NEW pick, OrderedBy(h, n, pick), NEW i \in 1..n, IsFirst(h, i)
  PROVE  pick[i] = 1
<1> SUFFICES ASSUME pick[i] # 1 PROVE FALSE
  OBVIOUS
<1>1. PICK j \in 1..n : pick[j] = 1
  BY DEF OrderedBy
<1>2. Before(h, i, j)
  BY <1>1 DEF IsFirst, OrderedBy
<1>3. pick[i] < 1 /\ pick[i] \in 1..n
  BY <1>1, <1>2 DEF OrderedBy
<1> QED BY <1>3

LEMMA LastPicked ==
  ASSUME NEW h, NEW n \in Nat, n > 0, NEW pick, OrderedBy(h, n, pick), NEW i \in 1..n, IsLast(h, i)
  PROVE  pick[i] = n
<1> SUFFICES ASSUME pick[i] # n PROVE FALSE
  OBVIOUS
<1>1. PICK j \in 1..n : pick[j] = n
  BY DEF OrderedBy
<1>2. Before(h, j, i)
  BY <1>1 DEF IsLast, OrderedBy
<1>3. n < pick[i] /\ pick[i] \in 1..n
  BY <1>1, <1>2 DEF OrderedBy
<1> QED BY <1>3

LEMMA AdjacentPicked ==
  ASSUME NEW h, NEW n \in Nat, n > 0, NEW pick, OrderedBy(h, n, pick),
         NEW i \in 1..n, NEW j \in 1..n, Adjacent(h, i, j)
  PROVE  pick[i] \in 1..(n - 1) /\ pick[j] = pick[i] + 1
<1>1. \A k \in 1..n : pick[k] \in 1..n
  BY DEF OrderedBy
<1>2. pick[i] < pick[j]
  BY DEF Adjacent, OrderedBy
<1>3. /\ pick[i] + 1 \in 1..n /\ pick[i] \in 1..(n - 1)
      /\ ~(pick[i] + 1 < pick[j]) => pick[j] = pick[i] + 1
  BY <1>1, <1>2, Neighbours
<1>4. PICK k \in 1..n : pick[k] = pick[i] + 1
  BY <1>3 DEF OrderedBy
<1>5. pick[i] < pick[k]
  BY <1>1, <1>4
<1>6. Before(h, i, k)
  BY <1>5 DEF OrderedBy
<1>7. ~Before(h, k, j)
  BY <1>6 DEF Adjacent, OrderedBy
<1>8. ~(pick[k] < pick[j])
  BY <1>7 DEF OrderedBy
<1> QED BY <1>3, <1>4, <1>8

(* A complete submission that keeps simultaneous events in their order puts *)
(* every event of the log somewhere, and Before is the order of the log.    *)
LEMMA CompletePick ==
  ASSUME TypeOK, TrueLog, log # <<>>, NEW pick \in Picks,
         payload = [i \in DOMAIN pick |-> log[pick[i]]], Truthful
  PROVE  LET n == Len(log)
         IN  /\ n \in Nat /\ n > 0 /\ OrderedBy(payload, n, pick)
             /\ \A i \in 1..n : payload[i] = log[pick[i]]
<1> DEFINE n == Len(log)
<1>1. n \in Nat /\ n > 0 /\ DOMAIN log = 1..n /\ log \in Seq(Event)
  BY DEF TypeOK
<1>2. PICK m \in 1..n : pick \in [1..m -> 1..n] /\ \A i, j \in 1..m : pick[i] = pick[j] => i = j
  BY <1>1 DEF Picks
<1>3. payload = [i \in 1..m |-> log[pick[i]]]
  BY <1>2
<1>4. Len(payload) = m /\ DOMAIN payload = 1..m
  BY <1>2, <1>3, <1>1
<1>5. m = n
  BY <1>4 DEF Truthful
<1> HIDE DEF n
<1>6. pick \in [1..n -> 1..n] /\ \A i \in 1..n : payload[i] = log[pick[i]]
  BY <1>2, <1>3, <1>5
<1>7. \A k \in 1..n : \E i \in 1..n : pick[i] = k
  <2>1. IsFiniteSet(1..n)
    BY <1>1, FS_Interval
  <2>2. pick \in Injection(1..n, 1..n)
    BY <1>2, <1>5 DEF Injection, IsInjective
  <2>3. pick \in Surjection(1..n, 1..n)
    BY <2>1, <2>2, FS_Injection
  <2> QED BY <2>3 DEF Surjection
<1>8. ASSUME NEW i \in 1..n, NEW j \in 1..n PROVE Before(payload, i, j) <=> pick[i] < pick[j]
  <2>1. /\ pick[i] \in Nat /\ pick[j] \in Nat /\ i \in Nat /\ j \in Nat
        /\ payload[i].at \in Nat /\ payload[j].at \in Nat
    <3>1. pick[i] \in DOMAIN log /\ pick[j] \in DOMAIN log
      BY <1>1, <1>6 DEF n
    <3> QED BY <1>1, <1>6, <3>1, Instants
  <2>2. /\ pick[i] <= pick[j] => payload[i].at <= payload[j].at
        /\ pick[j] <= pick[i] => payload[j].at <= payload[i].at
    BY <1>1, <1>6 DEF TrueLog, n
  <2>3. ASSUME NEW a \in 1..n, NEW b \in 1..n, a < b, payload[a].at = payload[b].at
        PROVE  pick[a] < pick[b]
    <3>1. PICK k \in DOMAIN log, l \in DOMAIN log : k < l /\ log[k] = payload[a] /\ log[l] = payload[b]
      BY <1>4, <1>5, <2>3 DEF Truthful
    <3>2. k = pick[a] /\ l = pick[b]
      BY <1>1, <1>6, <3>1 DEF TrueLog, n
    <3> QED BY <3>1, <3>2
  <2>4. pick[i] = pick[j] => i = j
    BY <1>2, <1>5
  <2>5. CASE payload[i].at = payload[j].at
    <3>1. i < j => pick[i] < pick[j]
      BY <2>3, <2>5
    <3>2. j < i => pick[j] < pick[i]
      BY <2>3, <2>5
    <3>3. Before(payload, i, j) <=> i < j
      BY <2>1, <2>5 DEF Before
    <3> QED BY <2>1, <3>1, <3>2, <3>3
  <2>6. CASE payload[i].at # payload[j].at
    BY <2>1, <2>2, <2>6 DEF Before
  <2> QED BY <2>5, <2>6
<1>9. OrderedBy(payload, n, pick)
  BY <1>4, <1>5, <1>6, <1>7, <1>8 DEF OrderedBy
<1> QED BY <1>1, <1>6, <1>9 DEF n

(* The contract never refuses a true history, however long it is and in     *)
(* whatever order its events are sent.                                      *)
THEOREM TruthAlwaysAccepted == Spec => []TruthIsAccepted
<1>1. Init => TrueLog /\ Submitted /\ FromGenerator
  BY DEF Init, TrueLog, Submitted, FromGenerator
<1>2. TypeOK /\ TrueLog /\ Submitted /\ FromGenerator => TruthIsAccepted
  <2> SUFFICES ASSUME TypeOK, TrueLog, Submitted, FromGenerator, verdict # "pending", Truthful
               PROVE  Accepted
    BY DEF TruthIsAccepted
  <2>1. CASE log = <<>>
    BY <2>1 DEF FromGenerator
  <2>2. CASE log # <<>>
    <3> DEFINE size == Len(log)
    <3>1. PICK pick \in Picks : payload = [i \in DOMAIN pick |-> log[pick[i]]]
      BY <2>2 DEF Submitted
    <3>2. /\ size \in Nat /\ size > 0 /\ OrderedBy(payload, size, pick)
          /\ \A i \in 1..size : payload[i] = log[pick[i]]
      BY <2>2, <3>1, CompletePick
    <3>3. case.opened = log[1].at /\ case.status = log[size].to /\ case.closed \in {None, log[size].at}
      BY <2>2 DEF Submitted, Truthful, Current, Now
    <3>4. log[1].at <= log[size].at /\ log[1].from = None /\ log[1].to = "open"
      BY <2>2, <3>2 DEF TrueLog
    <3>5. \A i \in 1..(size - 1) : log[i + 1].from = log[i].to
      BY <3>2 DEF TrueLog
    <3> HIDE DEF size
    <3>6. size \in Nat /\ size > 0 /\ OrderedBy(payload, size, pick)
      BY <3>2
    <3>7. DOMAIN payload = 1..size
      BY <3>2 DEF OrderedBy
    <3>8. ValidCase(case)
      BY <3>3, <3>4 DEF ValidCase
    <3>9. payload # <<>>
      BY <3>2, <3>7
    <3>10. ASSUME NEW i \in 1..size, IsFirst(payload, i)
           PROVE  payload[i].from = None /\ payload[i].to = "open" /\ payload[i].at = case.opened
      <4>1. payload[i] = log[1]
        <5>1. pick[i] = 1
          BY <3>6, <3>10, FirstPicked
        <5> QED BY <3>2, <5>1
      <4> QED BY <3>3, <3>4, <4>1
    <3>11. ASSUME NEW i \in 1..size, NEW j \in 1..size, Adjacent(payload, i, j)
           PROVE  payload[j].from = payload[i].to
      <4>1. pick[i] \in 1..(size - 1) /\ pick[j] = pick[i] + 1
        BY <3>6, <3>11, AdjacentPicked
      <4>2. payload[i] = log[pick[i]] /\ payload[j] = log[pick[i] + 1]
        BY <3>2, <4>1
      <4> QED BY <3>5, <4>1, <4>2
    <3>12. ASSUME NEW i \in 1..size, IsLast(payload, i)
           PROVE  payload[i].to = case.status /\ (case.closed # None => payload[i].at = case.closed)
      <4>1. payload[i] = log[size]
        <5>1. pick[i] = size
          BY <3>6, <3>12, LastPicked
        <5> QED BY <3>2, <5>1
      <4> QED BY <3>3, <4>1
    <3>13. ValidEvents(case, payload)
      BY <3>7, <3>9, <3>10, <3>11, <3>12 DEF ValidEvents
    <3> QED BY <2>2, <3>8, <3>13 DEF Submitted, Accepted
  <2> QED BY <2>1, <2>2
<1> QED BY <1>1, <1>2, InitTyped, NextTyped, TrueLogStep, SubmittedStep, GeneratorStep, PTL DEF Spec
=============================================================================
