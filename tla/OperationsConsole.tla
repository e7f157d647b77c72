-------------------------- MODULE OperationsConsole --------------------------
(***************************************************************************)
(* The operations console (dashboard.py) and the exports of reporting.py   *)
(* over a warehouse that the API grows and the pipeline replaces, next to  *)
(* the reports the pipeline wrote when it did.  Both read the same clock.  *)
(*                                                                         *)
(* The console only reads, and so does a client that walks the pages: one  *)
(* of the two is at work at a time.                                        *)
(***************************************************************************)
EXTENDS CaseReader, OutcomeReports

CONSTANTS
  Batches,      \* what clients may ingest: disjoint sets of cases
  Generated,    \* what the pipeline may generate
  Instants,     \* the hours at which something happens
  RiskLimit,    \* the length of the displayed risk queue
  MaxEditions   \* bounds the pipeline's runs

ASSUME ConsoleAssumption ==
  /\ Cases \subseteq DOMAIN Facts
  /\ Batches \subseteq SUBSET Cases /\ Generated \subseteq SUBSET Cases
  /\ Instants \subseteq Nat /\ RiskLimit \in Nat \ {0} /\ MaxEditions \in Nat
  /\ \A c, d \in Cases : c < d => Facts[c].opened >= Facts[d].opened

VARIABLES
  clock,
  report,       \* the pipeline's reports: when, of which cases, for which edition
  view          \* the console's page, from its first query on

vars == <<readerVars, clock, report, view>>

NoReport == [at |-> 0, cases |-> {}, edition |-> 0]
NoView   == [state |-> "none", cases |-> {}, edition |-> 0, events |-> {}, eventEdition |-> 0,
             asOf |-> 0, departments |-> {}, districts |-> {}, queue |-> {}]

Init ==
  /\ ReaderInit
  /\ clock \in Instants
  /\ report = NoReport
  /\ view = NoView

(* Nothing is opened or closed in the future. *)
Happened(c) == /\ Facts[c].opened <= clock
               /\ Facts[c].closed # None => Facts[c].closed <= clock

Tick(t) ==
  /\ t > clock
  /\ clock' = t
  /\ UNCHANGED <<readerVars, report, view>>

Arrive(batch) ==
  /\ \A c \in batch : Happened(c)
  /\ Ingest(batch)
  /\ UNCHANGED <<clock, report, view>>

(* cli.main: the reports are computed and written first, the warehouse is   *)
(* replaced last.  Without closed cases of both outcomes it raises.         *)
WriteReports(cases) ==
  /\ edition < MaxEditions /\ report.edition <= edition
  /\ \A c \in cases : Happened(c)
  /\ Closed(cases) # {} /\ Trainable(cases)
  /\ report' = [at |-> clock, cases |-> cases, edition |-> edition + 1]
  /\ UNCHANGED <<readerVars, clock, view>>

LoadWarehouse ==
  /\ report.edition = edition + 1
  /\ Refresh(report.cases)
  /\ UNCHANGED <<clock, report, view>>

-----------------------------------------------------------------------------
(* Mutant: the events are read before the cases. *)
FramesReversed(which) == IF which = "cases" THEN view.state = "events" ELSE view.state = "none"

(* load_dashboard_frames: first the cases, then the events. *)
FrameIsNext(which) == IF which = "cases" THEN view.state = "none" ELSE view.state = "cases"

LoadCases ==
  /\ walk.state = "none"
  /\ FrameIsNext("cases")
  /\ view' = [view EXCEPT !.state = IF @ = "none" THEN "cases" ELSE "loaded",
                          !.cases = stored, !.edition = edition]
  /\ UNCHANGED <<readerVars, clock, report>>

LoadEvents ==
  /\ walk.state = "none"
  /\ FrameIsNext("events")
  /\ view' = [view EXCEPT !.state = IF @ = "none" THEN "events" ELSE "loaded",
                          !.events = stored, !.eventEdition = edition]
  /\ UNCHANGED <<readerVars, clock, report>>

(* filter_frames *)
Selected(cases, departments, districts) ==
  {c \in cases : Facts[c].department \in departments /\ Facts[c].district \in districts}

(* render: an empty selection ends in a warning, a history no model can be  *)
(* trained on in an error.  The model is trained on all cases, the queue is *)
(* of the selected ones.                                                    *)
Render ==
  LET trainable == Trainable(view.cases)
  IN  /\ view.state = "loaded"
      /\ \E departments \in SUBSET Departments(view.cases), districts \in SUBSET Districts(view.cases) :
           LET selected == Selected(view.cases, departments, districts)
           IN  \/ /\ selected = {} \/ ~trainable
                  /\ view' = NoView
               \/ /\ selected # {} /\ trainable
                  /\ \E queue \in Queues(selected, RiskLimit) :
                       view' = [view EXCEPT !.state = "shown", !.asOf = clock, !.queue = queue,
                                            !.departments = departments, !.districts = districts]
      /\ UNCHANGED <<readerVars, clock, report>>

(* Every interaction runs the script again. *)
Rerun ==
  /\ view.state = "shown"
  /\ view' = NoView
  /\ UNCHANGED <<readerVars, clock, report>>

Next ==
  \/ \E t \in Instants : Tick(t)
  \/ \E batch \in Batches : Arrive(batch)
  \/ \E cases \in Generated : WriteReports(cases)
  \/ LoadWarehouse
  \/ view = NoView /\ ReaderStep /\ UNCHANGED <<clock, report, view>>
  \/ LoadCases \/ LoadEvents \/ Render \/ Rerun

Spec == Init /\ [][Next]_vars

-----------------------------------------------------------------------------
(* What the page and its downloads show. *)
Shown  == Selected(view.cases, view.departments, view.districts)
Events == view.events \cap Shown
Brief  == [kpis |-> Kpis(Shown, view.asOf),
           highRisk |-> Cardinality({c \in view.queue : Band(c) = "high"})]
Extract == [cases |-> Shown, events |-> Events, brief |-> Brief]

Summed(rows, column) == SumFunction([g \in DOMAIN rows |-> rows[g][column]])

(* Whatever is selected, the KPIs, the department, cohort and district rows *)
(* and the age buckets count the same cases, the way the reports count      *)
(* them; and no district is below the overall rate unless another one is    *)
(* above it.                                                                *)
FiguresAddUp ==
  view.state = "shown" =>
    LET kpis    == Kpis(Shown, view.asOf)
        sla     == SlaReport(Shown)
        backlog == BacklogReport(Shown, view.asOf)
        cohorts == CohortReport(Shown)
        monthly == DashboardCohorts(Shown)
        city    == DistrictReport(Shown)
    IN  /\ \A total \in {Summed(sla, "total"), Summed(cohorts, "total"), Summed(city, "total")} :
             total = kpis.total
        /\ \A open \in {Summed(sla, "open"), Summed(city, "open"), Summed(backlog, "open")} :
             open = kpis.open
        /\ SumFunction([d \in DOMAIN backlog |-> SumFunction(backlog[d].ages)]) = kpis.open
        /\ Summed(backlog, "breached") = kpis.breaches
        /\ Summed(sla, "closed") - Summed(sla, "breached") = kpis.met
        /\ Summed(monthly, "met") = kpis.met
        /\ \A g \in DOMAIN cohorts :
             IF g \in DOMAIN monthly
               THEN /\ cohorts[g].closed = monthly[g].closed
                    /\ cohorts[g].closed - cohorts[g].breached = monthly[g].met
               ELSE cohorts[g].closed = 0
        /\ (\A d \in DOMAIN city : city[d].comparison # "suppressed") =>
             ~ \A d \in DOMAIN city : city[d].comparison = "statistically_lower"

(* README.md: "The p90 uses the auditable nearest-rank definition".  A      *)
(* percentile of the reports is the least value with that share of the      *)
(* cases at or below it, and the interpolated one the dashboard shows for   *)
(* it lies in the gap next to it, if its frames are of one edition.         *)
Fits(v, p, nearest, interpolated) ==
  LET n == Cardinality(DOMAIN v)
      share(x) == 100 * Cardinality({c \in DOMAIN v : v[c] <= x})
  IN  /\ share(nearest) >= p * n
      /\ \A c \in DOMAIN v :
           /\ v[c] < nearest => share(v[c]) < p * n
           /\ nearest < v[c] => interpolated <= 100 * v[c]
           /\ v[c] < nearest => interpolated >= 100 * v[c]
PercentilesFit ==
  view.state = "shown" /\ view.edition = view.eventEdition =>
    LET cycle   == CycleReport(Shown)
        page    == DashboardCycle(Events)
        cohorts == CohortReport(Shown)
        monthly == DashboardCohorts(Shown)
    IN  /\ \A d \in DOMAIN cycle :
             LET rows == Completed(Of(Shown, d))
             IN  /\ Fits(FirstAction(rows), 50, cycle[d].first[1], page[d].first[1])
                 /\ Fits(FirstAction(rows), 90, cycle[d].first[2], page[d].first[2])
                 /\ Fits(ActiveWork(rows), 50, cycle[d].active[1], page[d].active[1])
        /\ \A g \in DOMAIN monthly :
             Fits(Resolution(Closed(Cohort(Shown, g[1], g[2]))), 50, cohorts[g].median, monthly[g].median)

(* The backlog report announces what the console will show: of the edition  *)
(* it was written for, the breaches shown within 24 hours are at least      *)
(* those reported, and at most those and the cases reported as due, but for *)
(* cases ingested since.                                                    *)
BreachesWereDue ==
  /\ view.state = "shown"
  /\ view.edition = report.edition
  /\ view.asOf - report.at <= 24
  /\ view.districts = Districts(view.cases)
  => LET backlog  == BacklogReport(report.cases, report.at)
         asked    == view.departments \cap DOMAIN backlog
         reported == SumFunction([d \in asked |-> backlog[d].breached])
         due      == SumFunction([d \in asked |-> backlog[d].due])
         breaches == Kpis(Shown, view.asOf).breaches
     IN  /\ reported <= breaches
         /\ breaches <= reported + due + Cardinality(Open(Shown \ report.cases))

(* If both frames are of one edition, every case of the extract has its     *)
(* history in it, whatever was committed between the two queries; and the   *)
(* briefing in it counts as many high-risk cases as there are, up to the    *)
(* length of the queue.                                                     *)
ExtractIsWhole ==
  view.state = "shown" /\ view.edition = view.eventEdition =>
    /\ Extract.cases \subseteq Extract.events
    /\ Extract.brief.highRisk =
         Min({RiskLimit, Cardinality({c \in Open(Extract.cases) : Band(c) = "high"})})
=============================================================================
