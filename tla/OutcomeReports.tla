---------------------------- MODULE OutcomeReports ----------------------------
(***************************************************************************)
(* What the pipeline's reports and the dashboard compute from a set of     *)
(* cases: analytics.py, workflow.py, geography.py, the metrics of          *)
(* dashboard.py, and the queue and the training split of prediction.py.    *)
(* The two were written apart: the reports in Python, the dashboard in     *)
(* pandas.  Instants and durations are whole hours; a rate is kept as its  *)
(* two counts, so nothing is rounded.                                      *)
(***************************************************************************)
EXTENDS Integers, FiniteSetsExt

CONSTANTS
  None,         \* no closed_at, no in_progress event, no figure
  Facts,        \* case -> its row
  MonthHours,   \* the length of an intake month
  MinClosed,    \* MIN_CLOSED_CASES
  MinLabeled    \* the closed cases a risk model needs

ASSUME ReportAssumption ==
  /\ MonthHours \in Nat \ {0} /\ MinClosed \in Nat \ {0} /\ MinLabeled \in Nat
  /\ \A c \in DOMAIN Facts :
       /\ Facts[c].opened \in Nat /\ Facts[c].target \in Nat \ {0} /\ Facts[c].risk \in 0..100
       /\ Facts[c].closed # None =>
            /\ Facts[c].closed \in Nat /\ Facts[c].opened <= Facts[c].closed
            /\ Facts[c].started # None =>
                 /\ Facts[c].started \in Nat
                 /\ Facts[c].opened <= Facts[c].started /\ Facts[c].started <= Facts[c].closed

-----------------------------------------------------------------------------
(* ServiceCase *)
Closed(F)    == {c \in F : Facts[c].closed # None}
Open(F)      == F \ Closed(F)
Elapsed(c)   == Facts[c].closed - Facts[c].opened
MetSla(c)    == Elapsed(c) <= Facts[c].target
Age(c, asOf) == asOf - Facts[c].opened
Overdue(F, asOf) == {c \in Open(F) : Age(c, asOf) > Facts[c].target}

Departments(F) == {Facts[c].department : c \in F}
Districts(F)   == {Facts[c].district : c \in F}
Of(F, d)       == {c \in F : Facts[c].department = d}
In(F, d)       == {c \in F : Facts[c].district = d}
Month(c)       == Facts[c].opened \div MonthHours

(* The k-th of sorted(values); the values of a group are a function of its  *)
(* cases.                                                                   *)
Nth(v, k) ==
  v[CHOOSE c \in DOMAIN v :
      k = Cardinality({d \in DOMAIN v : v[d] < v[c] \/ (v[d] = v[c] /\ d <= c)})]

(* Mutant: the rank is rounded down. *)
RankBelow(n, p) == IF p * n < 100 THEN 1 ELSE (p * n) \div 100

(* _percentile: the ceil(p * n)-th, p in percent *)
RankOf(n, p) == IF p * n < 100 THEN 1 ELSE (p * n + 99) \div 100

NearestRank(v, p) == Nth(v, RankOf(Cardinality(DOMAIN v), p))

(* Series.quantile and Series.median, times 100: linear between neighbours. *)
Interpolated(v, p) ==
  LET place == (Cardinality(DOMAIN v) - 1) * p
      below == place \div 100 + 1
      part  == place % 100
  IN  IF part = 0 THEN 100 * Nth(v, below)
      ELSE (100 - part) * Nth(v, below) + part * Nth(v, below + 1)

-----------------------------------------------------------------------------
(* The reports: functions from a group to its row. *)
SlaReport(F) ==
  [d \in Departments(F) |->
     LET rows == Of(F, d)
     IN  [total |-> Cardinality(rows), closed |-> Cardinality(Closed(rows)),
          open |-> Cardinality(rows) - Cardinality(Closed(rows)),
          breached |-> Cardinality({c \in Closed(rows) : ~MetSla(c)})]]

(* Mutant: a case that falls due at this instant is no longer due. *)
DueSoonStrict(F, asOf) ==
  {c \in Open(F) : 0 < Facts[c].target - Age(c, asOf) /\ Facts[c].target - Age(c, asOf) <= 24}

DueSoon(F, asOf) ==
  {c \in Open(F) : 0 <= Facts[c].target - Age(c, asOf) /\ Facts[c].target - Age(c, asOf) <= 24}

(* Mutant: the buckets share their bounds. *)
AgeBucketsShared(F, asOf) ==
  LET aged(low, high) == {c \in Open(F) : low <= Age(c, asOf) /\ Age(c, asOf) <= high}
  IN  <<Cardinality(aged(0, 24)), Cardinality(aged(24, 72)), Cardinality(aged(72, 168)),
        Cardinality({c \in Open(F) : Age(c, asOf) > 168})>>

AgeBuckets(F, asOf) ==
  LET aged(low, high) == {c \in Open(F) : low < Age(c, asOf) /\ Age(c, asOf) <= high}
  IN  <<Cardinality({c \in Open(F) : Age(c, asOf) <= 24}), Cardinality(aged(24, 72)),
        Cardinality(aged(72, 168)), Cardinality({c \in Open(F) : Age(c, asOf) > 168})>>

(* Defined when no open case is younger than asOf. *)
BacklogReport(F, asOf) ==
  [d \in Departments(Open(F)) |->
     LET rows == Of(F, d)
     IN  [open |-> Cardinality(Open(rows)), breached |-> Cardinality(Overdue(rows, asOf)),
          due |-> Cardinality(DueSoon(rows, asOf)), ages |-> AgeBuckets(rows, asOf)]]

(* build_cycle_time_report, of cases that were resolved when they were      *)
(* closed and entered no status twice; it passes over those without one.    *)
Completed(F)   == {c \in Closed(F) : Facts[c].started # None}
FirstAction(F) == [c \in F |-> Facts[c].started - Facts[c].opened]
ActiveWork(F)  == [c \in F |-> Facts[c].closed - Facts[c].started]
Resolution(F)  == [c \in F |-> Elapsed(c)]
CycleReport(F) ==
  [d \in Departments(Completed(F)) |->
     LET rows == Completed(Of(F, d))
         both(v) == <<NearestRank(v, 50), NearestRank(v, 90)>>
     IN  [completed |-> Cardinality(rows), first |-> both(FirstAction(rows)),
          active |-> both(ActiveWork(rows)), all |-> both(Resolution(rows))]]

Cohort(F, m, d) == {c \in Of(F, d) : Month(c) = m}
CohortReport(F) ==
  [g \in {<<Month(c), Facts[c].department>> : c \in F} |->
     LET rows   == Cohort(F, g[1], g[2])
         closed == Closed(rows)
     IN  [total |-> Cardinality(rows), closed |-> Cardinality(closed),
          breached |-> Cardinality({c \in closed : ~MetSla(c)}),
          median |-> IF closed = {} THEN None ELSE NearestRank(Resolution(closed), 50)]]

(* A district's rate s/n next to the citywide rate S/N: S/N is outside the  *)
(* 95% Wilson interval of s/n exactly when it fails the score test,         *)
(* |s/n - S/N| > 1.96 sqrt(S/N (1 - S/N) / n).                              *)
Compare(s, n, S, N) ==
  IF 10000 * (s * N - S * n) * (s * N - S * n) <= 38416 * n * S * (N - S) THEN "no_clear_difference"
  ELSE IF s * N < S * n THEN "statistically_lower" ELSE "statistically_higher"

(* district_metric_from_counts *)
DistrictMetric(total, closed, compliant, S, N) ==
  [total |-> total, closed |-> closed, open |-> total - closed,
   compliant  |-> IF closed < MinClosed THEN None ELSE compliant,
   comparison |-> IF closed < MinClosed THEN "suppressed" ELSE Compare(compliant, closed, S, N)]

(* build_district_service_report; the dashboard passes the same counts. *)
DistrictReport(F) ==
  LET met(R) == Cardinality({c \in Closed(R) : MetSla(c)})
  IN  [d \in Districts(F) |->
         DistrictMetric(Cardinality(In(F, d)), Cardinality(Closed(In(F, d))), met(In(F, d)),
                        met(F), Cardinality(Closed(F)))]

-----------------------------------------------------------------------------
(* build_dashboard_metrics: figures of the selected cases, the cycle times  *)
(* of the cases F whose events were loaded.                                 *)
DashboardCycle(F) ==
  [d \in Departments(Completed(F)) |->
     LET rows == Completed(Of(F, d))
     IN  [completed |-> Cardinality(rows),
          first  |-> <<Interpolated(FirstAction(rows), 50), Interpolated(FirstAction(rows), 90)>>,
          active |-> <<Interpolated(ActiveWork(rows), 50)>>]]

DashboardCohorts(F) ==
  [g \in {<<Month(c), Facts[c].department>> : c \in Closed(F)} |->
     LET rows == Closed(Cohort(F, g[1], g[2]))
     IN  [closed |-> Cardinality(rows), met |-> Cardinality({c \in rows : MetSla(c)}),
          median |-> Interpolated(Resolution(rows), 50)]]

Kpis(F, asOf) ==
  [total |-> Cardinality(F), open |-> Cardinality(Open(F)),
   breaches |-> Cardinality(Overdue(F, asOf)),
   met |-> Cardinality({c \in Closed(F) : MetSla(c)})]

-----------------------------------------------------------------------------
(* train_sla_risk_model_frame fits on the oldest 60%, calibrates on the     *)
(* next 20% and tests on the newest: each part needs both outcomes.         *)
Trainable(F) ==
  LET labeled == Closed(F)
      n       == Cardinality(labeled)
      place(c) == Cardinality({d \in labeled : Facts[d].opened < Facts[c].opened})
      part(low, high) == {MetSla(c) : c \in {d \in labeled : low <= place(d) /\ place(d) < high}}
      fitted == (n * 6) \div 10
      calibrated == (n * 8) \div 10
  IN  /\ n >= MinLabeled
      /\ part(0, fitted) = BOOLEAN /\ part(fitted, calibrated) = BOOLEAN /\ part(calibrated, n) = BOOLEAN

Band(c) == IF Facts[c].risk <= 35 THEN "low" ELSE IF Facts[c].risk <= 65 THEN "medium" ELSE "high"

(* Mutant: the queue is sorted in ascending order. *)
QueuesAscending(F, limit) ==
  LET open == Open(F)
  IN  {Q \in kSubset(Min({limit, Cardinality(open)}), open) :
         \A c \in Q, d \in open \ Q : Facts[c].risk <= Facts[d].risk}

(* score_open_cases_frame: the head of the ranking, ties in any order. *)
Queues(F, limit) ==
  LET open == Open(F)
  IN  {Q \in kSubset(Min({limit, Cardinality(open)}), open) :
         \A c \in Q, d \in open \ Q : Facts[c].risk >= Facts[d].risk}
=============================================================================
