--------------------------- MODULE AnalysisSpend ---------------------------
(***************************************************************************)
(* The paid calls of opportunity analyses: the attempts and the routing of *)
(* opportunity_analysis.py, and PostgreSQLAICallRecorder of                *)
(* persistence/ai_telemetry.py, which reserves the cost of a call against  *)
(* a daily and a monthly limit before it is made and records what it cost  *)
(* afterwards.  An analysis is one run of RoutedOpportunityAnalyzer.       *)
(***************************************************************************)
EXTENDS Integers, FiniteSets

CONSTANTS
  Analyses,           \* analyses that may run, in any number of processes
  HasFallback,        \* opportunity_analysis_fallback_enabled
  MaxOutputAttempts,  \* max_output_attempts
  Reserve,            \* reserve_cost of the price of each route
  Costs,              \* what a call of each route may cost by its token counts
  DailyLimit, MonthlyLimit,
  DaysPerMonth,
  MaxDay,             \* bound of the calendar
  Nobody              \* the advisory lock is free

Routes == {"primary", "fallback"}
Attempts == 1..MaxOutputAttempts
Calls == Analyses \X Routes \X Attempts
Days == 0..MaxDay
Month(day) == day \div DaysPerMonth

ASSUME SpendAssumption ==
  /\ IsFiniteSet(Analyses)
  /\ HasFallback \in BOOLEAN
  /\ MaxOutputAttempts \in 1..5
  /\ Reserve \in [Routes -> Nat] /\ Costs \in [Routes -> SUBSET Nat]
  /\ {DailyLimit, MonthlyLimit, MaxDay} \subseteq Nat /\ DaysPerMonth \in Nat \ {0}
  /\ Nobody \notin Analyses

VARIABLES
  today,     \* the date of the database
  row,       \* ai_call_telemetry by call
  analysis,  \* where each analysis is
  lock       \* the holder of the spend guard's advisory lock
spendVars == <<today, row, analysis, lock>>

Finished == {"succeeded", "invalid_output", "request_failed"}
(* "raised" and "dead" leave a call open: an exception _request does not translate, and a
   cancelled or crashed worker. *)
Ended == {"analysed", "over budget", "failed", "raised", "dead"}

SpendInit ==
  /\ today = 0
  /\ row = [c \in Calls |-> [status |-> "absent", cost |-> 0, day |-> 0]]
  /\ analysis = [a \in Analyses |->
                   [step |-> "ready", route |-> "primary", attempt |-> 1, day |-> 0]]
  /\ lock = Nobody

At(a, step) == analysis[a].step = step
Goes(a, step) == analysis' = [analysis EXCEPT ![a].step = step]
Call(a) == <<a, analysis[a].route, analysis[a].attempt>>

-----------------------------------------------------------------------------
(* The reservation: one transaction, whose now() is the start of it *)

Begins(a) ==
  /\ At(a, "ready")
  /\ analysis' = [analysis EXCEPT ![a].step = "begun", ![a].day = today]
  /\ UNCHANGED <<today, row, lock>>

(* A sum of amounts, in the smallest unit of the cost column, is the number of their units. *)
Total(calls, cost) == Cardinality(UNION {{c} \X (1..cost[c]) : c \in calls})

Recorded == {c \in Calls : row[c].status # "absent"}
Cost == [c \in Calls |-> row[c].cost]

(* _check_spend_guard: both windows have no end. *)
SinceDay(day) == {c \in Recorded : row[c].day >= day}
SinceMonth(day) == {c \in Recorded : Month(row[c].day) >= Month(day)}

WithinLimits(a) ==
  LET requested == Reserve[analysis[a].route]
      day == analysis[a].day
  IN  /\ Total(SinceDay(day), Cost) + requested <= DailyLimit
      /\ Total(SinceMonth(day), Cost) + requested <= MonthlyLimit

(* Fault: the advisory lock is not taken. *)
PassesGuardUnlocked(a) ==
  /\ At(a, "begun") /\ WithinLimits(a)
  /\ Goes(a, "granted")
  /\ UNCHANGED <<today, row, lock>>

PassesGuard(a) ==
  /\ At(a, "begun") /\ lock = Nobody /\ WithinLimits(a)
  /\ lock' = a
  /\ Goes(a, "granted")
  /\ UNCHANGED <<today, row>>

(* AIBudgetExceeded rolls the transaction back; the routed analyzer keeps a primary result
   when it is the fallback that is refused. *)
Refused(a) ==
  /\ At(a, "begun") /\ lock = Nobody /\ ~WithinLimits(a)
  /\ Goes(a, IF analysis[a].route = "fallback" THEN "analysed" ELSE "over budget")
  /\ UNCHANGED <<today, row, lock>>

Reserves(a) ==
  /\ At(a, "granted")
  /\ row' = [row EXCEPT ![Call(a)] = [status |-> "started", day |-> analysis[a].day,
                                      cost |-> Reserve[analysis[a].route]]]
  /\ lock' = Nobody
  /\ Goes(a, "calling")
  /\ UNCHANGED today

-----------------------------------------------------------------------------
(* The call and its end *)

(* What finish may leave as the cost: the reserve when the answer has no usage. *)
FinishedCost(a) == Costs[analysis[a].route] \cup {Reserve[analysis[a].route]}

Finishes(a, status, cost) ==
  row' = [row EXCEPT ![Call(a)].status = status, ![Call(a)].cost = cost]

(* A timeout while the answer is read is no URLError: nothing is recorded. *)
RequestRaises(a) ==
  /\ At(a, "calling")
  /\ Goes(a, "raised")
  /\ UNCHANGED <<today, row, lock>>

NextAttempt(a) ==
  IF analysis[a].attempt = MaxOutputAttempts
  THEN Goes(a, "failed")
  ELSE analysis' = [analysis EXCEPT ![a].step = "ready", ![a].attempt = @ + 1]

RequestFails(a) ==
  /\ At(a, "calling")
  /\ Finishes(a, "request_failed", row[Call(a)].cost)
  /\ Goes(a, "failed")
  /\ UNCHANGED <<today, lock>>

OutputIsInvalid(a) ==
  /\ At(a, "calling")
  /\ \E cost \in FinishedCost(a) : Finishes(a, "invalid_output", cost)
  /\ NextAttempt(a)
  /\ UNCHANGED <<today, lock>>

(* RoutedOpportunityAnalyzer.analyze: a primary result of low confidence goes on with the
   fallback route. *)
OutputIsValid(a) ==
  /\ At(a, "calling")
  /\ \E cost \in Costs[analysis[a].route] : Finishes(a, "succeeded", cost)
  /\ \/ Goes(a, "analysed")
     \/ /\ HasFallback /\ analysis[a].route = "primary"
        /\ analysis' = [analysis EXCEPT ![a].step = "ready", ![a].route = "fallback",
                                        ![a].attempt = 1]
  /\ UNCHANGED <<today, lock>>

(* A crash, a lost connection or a cancelled handler; its transaction rolls back. *)
Dies(a) ==
  /\ analysis[a].step \notin Ended
  /\ Goes(a, "dead")
  /\ lock' = IF lock = a THEN Nobody ELSE lock
  /\ UNCHANGED <<today, row>>

NextDay ==
  /\ today < MaxDay
  /\ today' = today + 1
  /\ UNCHANGED <<row, analysis, lock>>

Steps(a) ==
  \/ Begins(a) \/ PassesGuard(a) \/ Refused(a) \/ Reserves(a)
  \/ RequestFails(a) \/ RequestRaises(a) \/ OutputIsInvalid(a) \/ OutputIsValid(a)

SpendNext ==
  \/ NextDay
  \/ \E a \in Analyses : Steps(a) \/ Dies(a)

SpendSpec == SpendInit /\ [][SpendNext]_spendVars

-----------------------------------------------------------------------------
(* Properties *)

(* What a call takes of the budget that the guard granted it. *)
Granted ==
  [c \in Calls |-> IF row[c].cost < Reserve[c[2]] THEN row[c].cost ELSE Reserve[c[2]]]

(* However many analyses reserve at once, and whenever their calls finish, the calls of a
   day and of a month stay within the limit, but for what single calls cost beyond their
   reserve (README.md:138, "with reserves for in-flight calls"). *)
LimitsHold ==
  \A d \in Days :
    /\ Total({c \in Recorded : row[c].day = d}, Granted) <= DailyLimit
    /\ Total({c \in Recorded : Month(row[c].day) = Month(d)}, Granted) <= MonthlyLimit
=============================================================================
