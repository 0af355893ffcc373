---- MODULE Subscription ----
(***************************************************************************)
(* One user's subscription: persistence/subscriptions.py, payments.py,     *)
(* entitlements.py, the pure evaluation of billing.py and the trial start  *)
(* of persistence/search_profiles.py.  Every transaction reads now() when  *)
(* it starts and locks the user row later, so the time a transaction       *)
(* evaluates at may lie behind the state it finds.  A webhook transaction  *)
(* first inserts evidence, and the foreign key gives it a share of the     *)
(* user row; what it inserts is seen by others when it commits.            *)
(***************************************************************************)
EXTENDS Integers, FiniteSets

CONSTANTS
  Tx,              \* database connections, each with one transaction at a time
  None,            \* no value (SQL NULL)
  Offers,          \* verified webhook events the provider may send, repeatedly
  TrialDays,       \* DEFAULT_TRIAL_DURATION
  MaxTime,         \* bound of the clock
  MaxCommands      \* bound on the user's commands and the failures together

States == {"trial_not_started", "trial_active", "paid_active", "expired", "cancelled", "paused"}
Stopped == {"paused", "cancelled"}
EventIds == {e.id : e \in Offers}
Payments == {e.payment : e \in Offers}
Time == 0..MaxTime

ASSUME OffersAreEvents ==
  /\ IsFiniteSet(Offers)
  /\ \A e \in Offers : e.from \in Int /\ e.to \in Int
  /\ \A e \in Offers : e.status = "succeeded" => e.from < e.to
  /\ None \notin Offers /\ None \notin Payments /\ None \notin Time
ASSUME BoundsAreNaturals ==
  /\ TrialDays \in Nat \ {0}
  /\ {MaxTime, MaxCommands} \subseteq Nat

VARIABLES
  now,        \* the clock of the database
  trial,      \* users.trial_started_at
  event,      \* payment_provider_events by provider_event_id
  period,     \* subscription_periods by provider_payment_id
  sub,        \* the user's row of subscription_states
  newest,     \* the user's newest row of subscription_state_events
  tx,         \* the open transactions
  commands    \* number of commands and failures so far, for the bound
vars == <<now, trial, event, period, sub, newest, tx, commands>>

NoTx == [op |-> "none", step |-> "none", started |-> 0, offer |-> None,
         newEvent |-> FALSE, newPeriod |-> FALSE]
NoSub == [state |-> "none", version |-> 0, period |-> None]
NoEvent == [from |-> "none", to |-> "none", version |-> 0]

Init ==
  /\ now = 0
  /\ trial = None
  /\ event = [i \in EventIds |-> None]
  /\ period = [p \in Payments |-> None]
  /\ sub = NoSub
  /\ newest = NoEvent
  /\ tx = [t \in Tx |-> NoTx]
  /\ commands = 0

-----------------------------------------------------------------------------
(* The projection of trial and periods on a state *)

Covers(interval, at) == interval.from <= at /\ at < interval.to

\* The active period with the latest end, then the latest start; ties go by row id.
LatestPeriod(rows, active) ==
  CHOOSE p \in active : \A q \in active :
    \/ rows[p].to > rows[q].to
    \/ rows[p].to = rows[q].to /\ rows[p].from >= rows[q].from

InTrial(started, at) == at < started + TrialDays

NaturalProjection(started, rows, at) ==
  LET paid == {p \in Payments : rows[p] # None}
      active == {p \in paid : Covers(rows[p], at)}
  IN  CASE active # {} -> [state |-> "paid_active", period |-> LatestPeriod(rows, active)]
        [] active = {} /\ started # None ->
             [state |-> IF InTrial(started, at) THEN "trial_active" ELSE "expired",
              period |-> None]
        [] OTHER -> [state |-> IF paid # {} THEN "expired" ELSE "trial_not_started",
                     period |-> None]

\* evaluate_subscription_entitlement with the row a check has just reconciled.
Evaluate(row, started, rows, at) ==
  IF row.state \in Stopped THEN [granted |-> FALSE, state |-> row.state]
  ELSE IF row.period # None /\ Covers(rows[row.period], at)
  THEN [granted |-> TRUE, state |-> "paid_active"]
  ELSE IF started = None
  THEN [granted |-> FALSE,
        state |-> IF row.state = "expired" THEN "expired" ELSE "trial_not_started"]
  ELSE [granted |-> InTrial(started, at),
        state |-> IF InTrial(started, at) THEN "trial_active" ELSE "expired"]

Row(natural, version) ==
  [state |-> natural.state, version |-> version, period |-> natural.period]

Transition(row, natural) == Row(natural, row.version + 1)

\* What _record_event inserts for a row that was written.
EventOf(before, row) ==
  IF row = before THEN newest
  ELSE [from |-> before.state, to |-> row.state, version |-> row.version]

SameState(row, natural) == row.state = natural.state  \* renewal not noticed
SameProjection(row, natural) == row.state = natural.state /\ row.period = natural.period

ReconciledAlways(row, started, rows, at) ==  \* paused and cancelled not respected
  LET natural == NaturalProjection(started, rows, at)
  IN  IF row = NoSub THEN Row(natural, 1)
      ELSE IF SameProjection(row, natural) THEN row ELSE Transition(row, natural)

Reconciled(row, started, rows, at) ==
  LET natural == NaturalProjection(started, rows, at)
  IN  IF row = NoSub THEN Row(natural, 1)
      ELSE IF row.state \in Stopped \/ SameProjection(row, natural) THEN row
      ELSE Transition(row, natural)

-----------------------------------------------------------------------------
(* The rows a transaction sees, and what it waits for *)

SeenPeriods(t) ==
  IF tx[t].newPeriod THEN [period EXCEPT ![tx[t].offer.payment] = tx[t].offer] ELSE period

SharesUser(t) == tx[t].newEvent \/ tx[t].newPeriod

Open(t, op, step) == tx[t].op = op /\ tx[t].step = step

\* The transaction needs the user row for itself next (SELECT ... FOR UPDATE).
WantsUser(t) ==
  \/ tx[t].op \in {"check", "activate", "pause", "cancel", "resume"}
  \/ Open(t, "webhook", "paid")

WaitsWithoutEventKey(t, u) ==  \* no unique constraint on the provider event
  /\ t # u
  /\ \/ Open(t, "webhook", "evidenced") /\ tx[u].newPeriod
          /\ tx[u].offer.payment = tx[t].offer.payment
     \/ WantsUser(t) /\ SharesUser(u)

WaitsFor(t, u) ==
  /\ t # u
  /\ \/ Open(t, "webhook", "begun") /\ tx[u].newEvent /\ tx[u].offer.id = tx[t].offer.id
     \/ Open(t, "webhook", "evidenced") /\ tx[u].newPeriod
          /\ tx[u].offer.payment = tx[t].offer.payment
     \/ WantsUser(t) /\ SharesUser(u)

Blocked(t) == \E u \in Tx : WaitsFor(t, u)

Deadlocked(t) ==
  \E S \in SUBSET Tx :
    /\ t \in S
    /\ \A x \in S : (\E y \in S : WaitsFor(x, y)) /\ (\E y \in S : WaitsFor(y, x))

-----------------------------------------------------------------------------
(* Transactions *)

Begins(t, op, offer) ==
  /\ tx[t] = NoTx
  /\ tx' = [tx EXCEPT ![t] = [NoTx EXCEPT !.op = op, !.step = "begun", !.started = now,
                                          !.offer = offer]]
  /\ UNCHANGED <<now, trial, event, period, sub, newest>>

BeginsCheck(t) == Begins(t, "check", None) /\ UNCHANGED commands

BeginsWebhook(t) == \E offer \in Offers : Begins(t, "webhook", offer) /\ UNCHANGED commands

BeginsCommand(t) ==
  /\ commands < MaxCommands
  /\ \E op \in {"activate", "pause", "cancel", "resume"} : Begins(t, op, None)
  /\ commands' = commands + 1

RollsBack(t) ==
  /\ tx' = [tx EXCEPT ![t] = NoTx]
  /\ UNCHANGED <<now, trial, event, period, sub, newest>>

\* record_verified_event: insert the event or validate the stored one.
RecordsEvent(t) ==
  LET offer == tx[t].offer IN
  /\ Open(t, "webhook", "begun") /\ ~Blocked(t)
  /\ IF event[offer.id] \in {None, offer}
     THEN /\ tx' = [tx EXCEPT ![t].step = "evidenced",
                              ![t].newEvent = event[offer.id] = None]
          /\ UNCHANGED <<now, trial, event, period, sub, newest, commands>>
     ELSE RollsBack(t) /\ UNCHANGED commands

SamePeriod(stored, offer) == stored.from = offer.from /\ stored.to = offer.to

\* ... and for a successful payment insert the period or validate the stored one.
RecordsPeriod(t) ==
  LET offer == tx[t].offer
      stored == period[offer.payment]
  IN
  /\ Open(t, "webhook", "evidenced") /\ ~Blocked(t) /\ offer.status = "succeeded"
  /\ IF stored = None \/ SamePeriod(stored, offer)
     THEN /\ tx' = [tx EXCEPT ![t].step = "paid", ![t].newPeriod = stored = None]
          /\ UNCHANGED <<now, trial, event, period, sub, newest, commands>>
     ELSE RollsBack(t) /\ UNCHANGED commands

\* The commit: the inserted evidence and the new state row become visible, and a
\* changed row has its event in the history.
Commits(t, row) ==
  /\ event' = IF tx[t].newEvent THEN [event EXCEPT ![tx[t].offer.id] = tx[t].offer] ELSE event
  /\ period' = SeenPeriods(t)
  /\ sub' = row
  /\ newest' = EventOf(sub, row)
  /\ tx' = [tx EXCEPT ![t] = NoTx]
  /\ UNCHANGED now

\* A payment that did not succeed only leaves its event.
RecordsUnpaidEvent(t) ==
  /\ Open(t, "webhook", "evidenced") /\ tx[t].offer.status # "succeeded"
  /\ Commits(t, sub)
  /\ UNCHANGED <<trial, commands>>

\* The rest of a transaction that holds the user row, up to its commit.
Locks(t, op) == tx[t].op = op /\ WantsUser(t) /\ ~Blocked(t)

ReconciledBy(t) == Reconciled(sub, trial, SeenPeriods(t), tx[t].started)

\* The entitlement decision a check returns to delivery.
Verdict(t) == Evaluate(ReconciledBy(t), trial, period, tx[t].started)

ConfirmsPayment(t) ==
  /\ Locks(t, "webhook")
  /\ Commits(t, ReconciledBy(t))
  /\ UNCHANGED <<trial, commands>>

Checks(t) ==
  /\ Locks(t, "check")
  /\ Commits(t, ReconciledBy(t))
  /\ UNCHANGED <<trial, commands>>

ActivatesAgain(t) ==  \* trial_started_at IS NULL not checked
  /\ Locks(t, "activate")
  /\ trial' = tx[t].started
  /\ Commits(t, sub)
  /\ UNCHANGED commands

\* activate_primary, of which this module keeps the user's trial.
Activates(t) ==
  /\ Locks(t, "activate")
  /\ trial' = IF trial = None THEN tx[t].started ELSE trial
  /\ Commits(t, sub)
  /\ UNCHANGED <<commands>>

StateForTransition(t) == IF sub = NoSub THEN ReconciledBy(t) ELSE sub

MovesTo(t, current, state) ==
  IF current.state = state THEN current
  ELSE Transition(current, [state |-> state, period |-> None])

Stops(t, op, state, allowed) ==
  /\ Locks(t, op)
  /\ IF StateForTransition(t).state \in allowed \cup {state}
     THEN LET created == StateForTransition(t)
              row == MovesTo(t, created, state)
          IN  /\ sub' = row
              /\ newest' = IF row = created THEN EventOf(sub, row) ELSE EventOf(created, row)
              /\ tx' = [tx EXCEPT ![t] = NoTx]
              /\ UNCHANGED <<now, trial, event, period, commands>>
     ELSE RollsBack(t) /\ UNCHANGED commands

Pauses(t) == Stops(t, "pause", "paused", {"paid_active"})
Cancels(t) == Stops(t, "cancel", "cancelled", {"trial_active", "paid_active", "paused"})

ResumedRow(t) ==
  IF sub = NoSub THEN ReconciledBy(t)
  ELSE IF sub.state \notin Stopped THEN sub
  ELSE Transition(sub, NaturalProjection(trial, period, tx[t].started))

Resumes(t) ==
  /\ Locks(t, "resume")
  /\ Commits(t, ResumedRow(t))
  /\ UNCHANGED <<trial, commands>>

\* The deadlock detector of the database aborts one transaction of a cycle.
DeadlockAborts(t) == Deadlocked(t) /\ RollsBack(t) /\ UNCHANGED commands

\* A lost connection or a failed statement rolls a transaction back at any step.
Fails(t) ==
  /\ tx[t] # NoTx /\ commands < MaxCommands
  /\ RollsBack(t)
  /\ commands' = commands + 1

Tick ==
  /\ now < MaxTime
  /\ now' = now + 1
  /\ UNCHANGED <<trial, event, period, sub, newest, tx, commands>>

Steps(t) ==
  \/ RecordsEvent(t) \/ RecordsPeriod(t) \/ RecordsUnpaidEvent(t) \/ ConfirmsPayment(t)
  \/ Checks(t) \/ Activates(t) \/ Pauses(t) \/ Cancels(t) \/ Resumes(t)

Next ==
  \/ Tick
  \/ \E t \in Tx :
       \/ BeginsCheck(t) \/ BeginsWebhook(t) \/ BeginsCommand(t)
       \/ Steps(t) \/ DeadlockAborts(t) \/ Fails(t)

Spec == Init /\ [][Next]_vars

-----------------------------------------------------------------------------
(* What the tables hold: their columns, foreign keys and check constraints *)

\* One row for each event of the provider, and a success with its period.
PaymentProviderEvents ==
  \A i \in EventIds : event[i] # None =>
    /\ event[i] \in Offers /\ event[i].id = i
    /\ event[i].status = "succeeded" => event[i].from < event[i].to

\* One row for each payment, of an event that is stored and says it succeeded.
SubscriptionPeriods ==
  \A p \in Payments : period[p] # None =>
    /\ period[p] \in Offers /\ period[p].payment = p
    /\ period[p].status = "succeeded" /\ event[period[p].id] = period[p]

\* paid_state_requires_period, for the row and for its events; a version is an event.
SubscriptionStates ==
  \/ sub = NoSub
  \/ /\ sub.state \in States /\ sub.version \in Nat \ {0}
     /\ sub.period # None => period[sub.period] # None
     /\ sub.state = "paid_active" <=> sub.period # None

SubscriptionStateEvents ==
  \/ newest = NoEvent /\ sub = NoSub
  \/ /\ newest.from \in States \cup {"none"} /\ newest.to \in States
     /\ newest.version = sub.version
     /\ newest.from = "none" <=> newest.version = 1

SubscriptionState ==
  [state : States \cup {"none"}, version : Nat, period : Payments \cup {None}]
StateEvent == [from : States \cup {"none"}, to : States \cup {"none"}, version : Nat]
Transaction ==
  [op : {"none", "check", "webhook", "activate", "pause", "cancel", "resume"},
   step : {"none", "begun", "evidenced", "paid"}, started : Time,
   offer : Offers \cup {None}, newEvent : BOOLEAN, newPeriod : BOOLEAN]

TypeOK ==
  /\ now \in Time /\ trial \in Time \cup {None}
  /\ event \in [EventIds -> Offers \cup {None}] /\ period \in [Payments -> Offers \cup {None}]
  /\ sub \in SubscriptionState /\ newest \in StateEvent
  /\ tx \in [Tx -> Transaction]
  /\ PaymentProviderEvents /\ SubscriptionPeriods
  /\ SubscriptionStates /\ SubscriptionStateEvents
  /\ \A t \in Tx : /\ tx[t].started <= now
                  /\ tx[t].newPeriod => tx[t].offer.status = "succeeded"
                  /\ tx[t].offer # None <=> tx[t].op = "webhook"
  /\ commands \in 0..MaxCommands

-----------------------------------------------------------------------------
(* Properties *)

\* Stored evidence is never rewritten, the trial never starts again, and the history of the
\* state ends at the row and has no gap and no fork, whatever transactions overlap
\* (payments.py:72-77 "without updating historical rows").  Stopping a user without a row
\* adds two events at once.
HistoryIsImmutable ==
  [][/\ newest'.to = sub'.state /\ newest'.version = sub'.version
     /\ newest' # newest =>
          \/ newest'.version = newest.version + 1 /\ newest'.from = newest.to
          \/ newest.version = 0 /\ newest'.version = 2
     /\ \A i \in EventIds : event[i] # None => event'[i] = event[i]
     /\ \A p \in Payments : period[p] # None => period'[p] = period[p]
     /\ trial # None => trial' = trial]_vars

\* A time at which the committed trial or a committed paid period gives access.
HasGrounds(at) ==
  \/ trial # None /\ InTrial(trial, at)
  \/ \E p \in Payments : period[p] # None /\ Covers(period[p], at)

\* A check grants access exactly when the user has grounds for it at the time it evaluates
\* at and has not paused or cancelled, and it reports the state it leaves in the table:
\* the projection of subscriptions.py and the evaluation of billing.py agree, although
\* the evaluation sees only the current period of the row.
AccessFollowsEvidence ==
  [][\A t \in Tx : Checks(t) =>
       /\ Verdict(t).granted <=> (sub'.state \notin Stopped /\ HasGrounds(tx[t].started))
       /\ Verdict(t).state = sub'.state]_vars

\* Payments, checks and activations never end a pause or a cancellation: only a resume
\* does, or a cancel that ends a pause.
StoppedUntilResumed ==
  [][\A t \in Tx : tx'[t] # tx[t] /\ sub.state \in Stopped /\ sub' # sub =>
       \/ tx[t].op = "resume"
       \/ sub.state = "paused" /\ sub'.state = "cancelled"]_vars

\* Repeated deliveries of one event wait for each other and never deadlock; webhooks of
\* different events of one user can, both holding a share of the user row that each needs
\* for itself.
DuplicatesDoNotDeadlock ==
  \A t, u \in Tx : t # u /\ Deadlocked(t) /\ Deadlocked(u) =>
    tx[t].offer.id # tx[u].offer.id
====
