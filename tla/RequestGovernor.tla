---- MODULE RequestGovernor ----
(***************************************************************************)
(* The gate in front of active Telegram requests of one collector account: *)
(* telegram_request_governor.py and its row telegram_collector_operation_  *)
(* state.  A task takes the lock of its process, polls the row until it    *)
(* can reserve it, runs one operation and records its outcome.  Deadlines  *)
(* are the time that is left until them, 0 when they have passed.  The     *)
(* status paused, which no code writes, is left out.                       *)
(***************************************************************************)
EXTENDS Integers

CONSTANTS
  Tasks,        \* callers of TelegramRequestGovernor.run
  Processes,    \* processes with a governor for the account
  Home,         \* the process of each task
  NoTask,       \* no reservation token
  Lease,        \* telegram_governor_lease_seconds
  Lag,          \* bound on the time from reading the clock to locking the row in reserve
  OpTime,       \* bound on the time from that clock reading to the commit of finish
  Delays,       \* the pacing delays and source cooldowns that may be drawn
  ShortestDelay,  \* the lower of their configured minima
  FloodWaits    \* the waits Telegram may demand

ASSUME TasksHaveHomes == Home \in [Tasks -> Processes] /\ NoTask \notin Tasks
ASSUME TimesArePositive ==
  /\ {Lease, OpTime} \subseteq Nat \ {0} /\ Lag \in Nat /\ Lag < Lease /\ Lag < OpTime
  /\ ShortestDelay \in Nat /\ FloodWaits \subseteq Nat \ {0}
  /\ \A d \in Delays : d \in Nat /\ d >= ShortestDelay

VARIABLES
  status, token, lease, next, cooldown,  \* the row of the account
  at,        \* where each task is
  age,       \* time since the clock reading of its reservation
  answer,    \* outcome of its operation, not yet recorded
  due,       \* time until the deadline that finish will record
  barred,    \* time for which Telegram demands silence
  pace,      \* time until the shortest delay after the last served operation is over
  lost       \* history: some answer was never recorded
row == <<status, token, lease, next, cooldown>>
task == <<at, age, answer, due>>
vars == <<row, task, barred, pace, lost>>

Active(t) == at[t] \in {"requesting", "ended"}
Left(time) == IF time > 0 THEN time - 1 ELSE 0

Init ==
  /\ status = "ready" /\ token = NoTask /\ lease = 0 /\ next = 0 /\ cooldown = 0
  /\ at = [t \in Tasks |-> "idle"]
  /\ age = [t \in Tasks |-> 0]
  /\ answer = [t \in Tasks |-> "none"]
  /\ due = [t \in Tasks |-> 0]
  /\ barred = 0 /\ pace = 0 /\ lost = FALSE

-----------------------------------------------------------------------------
(* The row: reserve and finish *)

FloodWaitActive == status = "floodwait" /\ cooldown > 0
LeaseNeverExpires == token # NoTask
LeaseIgnored == FALSE
LeaseHeld == token # NoTask /\ lease > 0
PacingIgnored == FALSE
Pacing == next > 0

ReserveRow(t, lag) ==
  /\ ~FloodWaitActive /\ ~LeaseHeld /\ ~Pacing
  /\ status' = "pacing" /\ token' = t /\ lease' = Lease - lag /\ cooldown' = 0
  /\ UNCHANGED next

CooldownForgotten(outcome, time) ==  \* FloodWait recorded like an error
  status' = "ready" /\ cooldown' = 0 /\ next' = 0
FinishRow(outcome, time) ==
  /\ status' = IF outcome = "floodwait" THEN "floodwait" ELSE "ready"
  /\ cooldown' = IF outcome = "floodwait" THEN time ELSE 0
  /\ next' = time

-----------------------------------------------------------------------------
(* A task in TelegramRequestGovernor.run *)

LockFree(p) == \A t \in Tasks : Home[t] = p => at[t] = "idle"

Moves(t, place) ==
  /\ at' = [at EXCEPT ![t] = place]
  /\ UNCHANGED <<age, answer, due>>

Returns(t) ==
  /\ at' = [at EXCEPT ![t] = "idle"]
  /\ age' = [age EXCEPT ![t] = 0]
  /\ answer' = [answer EXCEPT ![t] = "none"]
  /\ due' = [due EXCEPT ![t] = 0]

\* The local lock is taken before the first poll and held until run returns.
Enters(t) ==
  /\ at[t] = "idle" /\ LockFree(Home[t])
  /\ Moves(t, "waiting")
  /\ UNCHANGED <<row, barred, pace, lost>>

\* before_reserve finds the value, or the task is cancelled while it sleeps.
LeavesUnserved(t) ==
  /\ at[t] = "waiting" /\ Returns(t)
  /\ UNCHANGED <<row, barred, pace, lost>>

RefusedByFloodWait(t) ==
  /\ at[t] = "waiting" /\ FloodWaitActive /\ Returns(t)
  /\ UNCHANGED <<row, barred, pace, lost>>

Reserves(t) ==
  /\ at[t] = "waiting"
  /\ \E lag \in 0..Lag :
       /\ ReserveRow(t, lag)
       /\ age' = [age EXCEPT ![t] = lag]
  /\ at' = [at EXCEPT ![t] = "requesting"]
  /\ UNCHANGED <<answer, due, barred, pace, lost>>

\* The operation returns or raises; the clock is read at once and the delay drawn.
Ends(t) ==
  /\ at[t] = "requesting"
  /\ at' = [at EXCEPT ![t] = "ended"]
  /\ \/ /\ answer' = [answer EXCEPT ![t] = "completed"]
        /\ pace' = ShortestDelay
        /\ \E d \in Delays : due' = [due EXCEPT ![t] = d]
        /\ UNCHANGED barred
     \/ /\ answer' = [answer EXCEPT ![t] = "floodwait"]
        /\ \E w \in FloodWaits :
             /\ due' = [due EXCEPT ![t] = w]
             /\ barred' = IF w > barred THEN w ELSE barred
        /\ UNCHANGED pace
  /\ UNCHANGED <<row, age, lost>>

Finishes(t) ==
  /\ at[t] = "ended" /\ token = t
  /\ FinishRow(answer[t], due[t]) /\ token' = NoTask /\ lease' = 0
  /\ Returns(t)
  /\ UNCHANGED <<barred, pace, lost>>

\* The token was taken over: RuntimeError, and the answer is recorded nowhere.  A failed
\* transaction and a cancellation of finish lose it as well, and leave the reservation.
FinishFails(t) ==
  /\ at[t] = "ended"
  /\ Returns(t) /\ lost' = TRUE
  /\ UNCHANGED <<row, barred, pace>>

\* The process of some tasks stops without a word; a new one starts idle.
Crashes(p) ==
  LET gone == {t \in Tasks : Home[t] = p} IN
  /\ \E t \in gone : at[t] # "idle"
  /\ at' = [t \in Tasks |-> IF t \in gone THEN "idle" ELSE at[t]]
  /\ age' = [t \in Tasks |-> IF t \in gone THEN 0 ELSE age[t]]
  /\ answer' = [t \in Tasks |-> IF t \in gone THEN "none" ELSE answer[t]]
  /\ due' = [t \in Tasks |-> IF t \in gone THEN 0 ELSE due[t]]
  /\ lost' = (lost \/ \E t \in gone : Active(t))
  /\ UNCHANGED <<row, barred, pace>>

Tick ==
  /\ \A t \in Tasks : Active(t) => age[t] < OpTime
  /\ lease' = Left(lease) /\ next' = Left(next) /\ cooldown' = Left(cooldown)
  /\ barred' = Left(barred) /\ pace' = Left(pace)
  /\ due' = [t \in Tasks |-> Left(due[t])]
  /\ age' = [t \in Tasks |-> IF Active(t) THEN age[t] + 1 ELSE 0]
  /\ UNCHANGED <<status, token, at, answer, lost>>

Runs(t) ==
  \/ Enters(t) \/ LeavesUnserved(t) \/ RefusedByFloodWait(t) \/ Reserves(t)
  \/ Ends(t) \/ Finishes(t) \/ FinishFails(t)

Next == Tick \/ (\E t \in Tasks : Runs(t)) \/ (\E p \in Processes : Crashes(p))

Spec == Init /\ [][Next]_vars

\* Time passes, operations end and are recorded, and somebody who can reserve the row does.
Fairness ==
  /\ WF_vars(Tick)
  /\ \A t \in Tasks : WF_vars(Ends(t)) /\ WF_vars(Finishes(t) \/ FinishFails(t))
                      /\ WF_vars(RefusedByFloodWait(t))
  /\ WF_vars(\E t \in Tasks : Reserves(t))

FairSpec == Spec /\ Fairness

-----------------------------------------------------------------------------
(* Properties *)

\* The row respects its CHECK constraints, a recorded cooldown is what the next request waits
\* for, and a task has an answer exactly when its operation has ended.
TypeOK ==
  /\ status \in {"ready", "pacing", "floodwait"} /\ token \in Tasks \cup {NoTask}
  /\ lease \in 0..Lease /\ next \in Nat /\ cooldown \in Nat
  /\ (status = "pacing") = (token # NoTask) /\ (token = NoTask => lease = 0)
  /\ cooldown <= next
  /\ at \in [Tasks -> {"idle", "waiting", "requesting", "ended"}]
  /\ age \in [Tasks -> 0..OpTime]
  /\ answer \in [Tasks -> {"none", "completed", "floodwait"}]
  /\ \A t \in Tasks : (answer[t] # "none") = (at[t] = "ended")
  /\ due \in [Tasks -> Nat]
  /\ barred \in Nat /\ pace \in Nat /\ lost \in BOOLEAN

\* telegram_request_governor.py:35-37: commands using the same collector account "cannot
\* issue active requests concurrently".  True only while no operation outlives its lease.
OneActiveRequest ==
  \A t, u \in Tasks : Active(t) /\ Active(u) => t = u

\* An operation that has outlived the lease of its reservation.
Overran(t) == Active(t) /\ age[t] >= Lease

\* Two requests of the account overlap only when one of them has outlived its lease: not
\* because of a crash, of another process's lag or of a late finish.
OverlapNeedsOverrun ==
  \A t, u \in Tasks : Active(t) /\ Active(u) /\ t # u => Overran(t) \/ Overran(u)

\* A reservation that is running is ended by its own task only, whoever else finishes late.
NoStolenReservation ==
  [][\A t \in Tasks : token = t /\ lease > 0 /\ token' # t => Finishes(t)]_vars

\* No request is sent while Telegram demands silence, whichever process was told, unless the
\* answer that said so was lost with its process or its transaction, or cannot be recorded
\* yet because a request has outlived its lease.
FloodWaitHonoured ==
  [][\A t \in Tasks : Reserves(t) /\ barred > 0 => lost \/ \E u \in Tasks : Overran(u)]_vars

\* Two requests of the account keep the shortest delay between the end of one and the start
\* of the next, across processes, on the same condition; after a FloodWait the wait Telegram
\* named is the delay.
PacingHonoured ==
  [][\A t \in Tasks : Reserves(t) /\ pace > 0 => lost \/ \E u \in Tasks : Overran(u)]_vars

\* The gate opens again: a task does not wait for ever while nobody sends a request, even
\* when the process that holds the reservation died.
GateReopens ==
  \A t \in Tasks : at[t] = "waiting" ~> (at[t] # "waiting" \/ \E u \in Tasks : Active(u))
====
