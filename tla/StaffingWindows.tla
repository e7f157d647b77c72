--------------------------- MODULE StaffingWindows ---------------------------
(***************************************************************************)
(* Which weeks of a growing intake history the staffing planner learns     *)
(* from and is judged on: build_staffing_backtest_frame next to the        *)
(* forecasts of build_staffing_scenario_frame, from the weeks before the   *)
(* current one.  The two windows differ: the scenarios' default is twelve  *)
(* weeks, and the backtest is called with eight.  Means, volatility and    *)
(* staffing are functions of the weekly counts of these windows, left out. *)
(***************************************************************************)
EXTENDS Integers, Sequences, FiniteSetsExt

CONSTANTS
  WeekDays,         \* days in a week
  FirstWeekday,     \* weekday of the first day, 0 for the start of a week
  PlannerWeeks,     \* history_weeks of the planner's scenarios
  BacktestWeeks,    \* history_weeks of the backtest's scenario
  ValidationWeeks,  \* validation_weeks
  MaxDays,          \* bounds the history
  MaxLate           \* bounds the cases that arrive late

ASSUME StaffingAssumption ==
  /\ WeekDays \in Nat \ {0} /\ FirstWeekday \in 0..(WeekDays - 1)
  /\ BacktestWeeks \in Nat \ {0} /\ PlannerWeeks \in Nat /\ PlannerWeeks >= BacktestWeeks
  /\ ValidationWeeks \in Nat \ {0} /\ MaxDays \in Nat /\ MaxLate \in Nat

VARIABLES
  intake,    \* cases opened on each day, as far as they have arrived
  delayed,   \* how many of them arrived after their day
  live,      \* history: per week, the counts its last forecast was made from
  arrived    \* history: per week, the cases that arrived late since that forecast

staffingVars == <<intake, delayed, live, arrived>>

Days      == DOMAIN intake
Week(d)   == (FirstWeekday + d - 1) \div WeekDays
Opened    == {d \in Days : intake[d] > 0}
Weeks     == 0..(MaxDays \div WeekDays + 1)
DaysOf(w) == {d \in Days : Week(d) = w}
Count(w)  == SumFunction([d \in DaysOf(w) |-> intake[d]])

(* current_week_start: the week of the newest case. *)
Current == Week(Max(Opened))

(* Cases before the current week. *)
Prepared == {d \in Opened : Week(d) < Current}

(* Mutant: the boundary week is kept. *)
FirstObservedWeek == Min({Week(d) : d \in Prepared})

FirstCompleteWeek == Min({Week(d) : d \in Prepared}) + 1

AllWeeks == FirstCompleteWeek..(Current - 1)

Accepted ==
  Opened # {} /\ Prepared # {}
    /\ Current - FirstCompleteWeek >= BacktestWeeks + ValidationWeeks

Evaluation == (Current - ValidationWeeks)..(Current - 1)

(* Mutant: loc[: target_week], so the week itself is trained on. *)
TrainingWithTarget(w) == {v \in AllWeeks : v > w - BacktestWeeks /\ v <= w}

(* loc[: target_week - 1 week].tail(history_weeks) *)
Training(w) == {v \in AllWeeks : v >= w - BacktestWeeks /\ v < w}

(* The weekly counts a backtest of week w computes its forecast from. *)
Trained(w) == [v \in Training(w) |-> Count(v)]

(* _prepare_case_history: the weeks before the current one, come what may. *)
ScenarioWeeks(w) == (w - PlannerWeeks)..(w - 1)
ScenarioAccepted == Opened # {} /\ \E d \in Prepared : Week(d) \in ScenarioWeeks(Current)

-----------------------------------------------------------------------------
NoneLate == [v \in Weeks |-> 0]

StaffingInit ==
  /\ intake = <<>>
  /\ delayed = 0
  /\ live = [w \in Weeks |-> <<>>]
  /\ arrived = [w \in Weeks |-> NoneLate]

(* A day on which n cases are opened and arrive. *)
Day(n) ==
  /\ Len(intake) < MaxDays
  /\ intake' = Append(intake, n)
  /\ UNCHANGED <<delayed, live, arrived>>

(* A case that was opened on day d arrives later: opened_at is the client's. *)
ArriveLate(d) ==
  /\ delayed < MaxLate
  /\ delayed' = delayed + 1
  /\ intake' = [intake EXCEPT ![d] = @ + 1]
  /\ arrived' = [w \in Weeks |-> IF live[w] = <<>> THEN arrived[w]
                              ELSE [arrived[w] EXCEPT ![Week(d)] = @ + 1]]
  /\ UNCHANGED live

(* The planner's forecast of the current week. *)
Forecast ==
  /\ ScenarioAccepted
  /\ live' = [live EXCEPT ![Current] = [v \in ScenarioWeeks(Current) |-> Count(v)]]
  /\ arrived' = [arrived EXCEPT ![Current] = NoneLate]
  /\ UNCHANGED <<intake, delayed>>

StaffingNext == (\E n \in {0, 1} : Day(n)) \/ (\E d \in Days : ArriveLate(d)) \/ Forecast

StaffingSpec == StaffingInit /\ [][StaffingNext]_staffingVars

-----------------------------------------------------------------------------
(* "no future intake enters an earlier forecast": the counts the backtest   *)
(* trains on for a week are those the planner's forecast of that week saw    *)
(* in the same weeks, while it was the current one, and in addition only     *)
(* cases of these weeks that arrived after it.                               *)
BacktestIsLive ==
  Accepted =>
    \A w \in Evaluation : live[w] # <<>> =>
      Trained(w) = [v \in (w - BacktestWeeks)..(w - 1) |-> live[w][v] + arrived[w][v]]

(* "every training and evaluation bucket represents seven complete days":   *)
(* all days of these weeks lie between the first and the newest case.  And  *)
(* what passed the first checks has a full window for every evaluated week: *)
(* "backtest training window is incomplete" is never raised.                *)
Whole(w) == \E a, b \in Opened : Week(a) < w /\ w < Week(b)
BucketsAreWhole ==
  Accepted => \A w \in Evaluation :
    /\ Whole(w) /\ \A v \in Training(w) : Whole(v)
    /\ Cardinality(Training(w)) = BacktestWeeks
=============================================================================
