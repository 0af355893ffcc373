--------------------------- MODULE TelegramProofs ---------------------------
(***************************************************************************)
(* Proofs about what the collector asks of Telegram: the gate in front of  *)
(* its requests (RequestGovernor), for any tasks and processes, any        *)
(* delays, lags and FloodWaits and operations of any length; and the       *)
(* search for chats (ChatDiscovery), for any processes, topics and chats,  *)
(* and any bounds on tries, screens, buckets and faults.  The search on    *)
(* the Web (WebRules) follows: what its governor does with a backend that  *)
(* refused for good.                                                       *)
(***************************************************************************)
EXTENDS RequestGovernor, ChatDiscovery, WebRules, FiniteSetTheorems, TLAPS

-----------------------------------------------------------------------------
(* The request governor                                                    *)

LEMMA LeftType == ASSUME NEW n \in Nat PROVE Left(n) \in Nat /\ Left(n) <= n
BY DEF Left

LEMMA ReturnsType ==
  ASSUME TypeOK, NEW t \in Tasks, Returns(t)
  PROVE  /\ at' \in [Tasks -> {"idle", "waiting", "requesting", "ended"}]
         /\ age' \in [Tasks -> 0..OpTime]
         /\ answer' \in [Tasks -> {"none", "completed", "floodwait"}]
         /\ \A u \in Tasks : (answer'[u] # "none") = (at'[u] = "ended")
         /\ due' \in [Tasks -> Nat]
BY TimesArePositive DEF TypeOK, Returns

LEMMA TickType == ASSUME TypeOK, Tick PROVE TypeOK'
<1>1. /\ Left(lease) \in 0..Lease /\ Left(next) \in Nat /\ Left(cooldown) \in Nat
      /\ Left(barred) \in Nat /\ Left(pace) \in Nat
      /\ (token = NoTask => Left(lease) = 0)
      /\ Left(cooldown) <= Left(next)
  BY TimesArePositive DEF TypeOK, Left
<1>2. age' \in [Tasks -> 0..OpTime]
  <2>1. ASSUME NEW t \in Tasks
        PROVE  (IF Active(t) THEN age[t] + 1 ELSE 0) \in 0..OpTime
    BY TimesArePositive DEF TypeOK, Tick
  <2> QED
    BY <2>1 DEF Tick
<1>3. due' \in [Tasks -> Nat]
  BY LeftType DEF TypeOK, Tick
<1> QED
  BY <1>1, <1>2, <1>3 DEF TypeOK, Tick

LEMMA CrashType == ASSUME TypeOK, NEW p \in Processes, Crashes(p) PROVE TypeOK'
<1>1. age' \in [Tasks -> 0..OpTime] /\ due' \in [Tasks -> Nat]
  BY TimesArePositive DEF TypeOK, Crashes
<1>2. /\ at' \in [Tasks -> {"idle", "waiting", "requesting", "ended"}]
      /\ answer' \in [Tasks -> {"none", "completed", "floodwait"}]
      /\ \A u \in Tasks : (answer'[u] # "none") = (at'[u] = "ended")
  BY DEF TypeOK, Crashes
<1>3. lost' \in BOOLEAN
  BY DEF TypeOK, Crashes
<1> QED
  BY <1>1, <1>2, <1>3 DEF TypeOK, Crashes, row

LEMMA RunsType == ASSUME TypeOK, NEW t \in Tasks, Runs(t) PROVE TypeOK'
<1>1. CASE Enters(t)
  BY <1>1 DEF Enters, Moves, TypeOK, row
<1>2. CASE LeavesUnserved(t)
  BY <1>2, ReturnsType DEF LeavesUnserved, TypeOK, row
<1>3. CASE RefusedByFloodWait(t)
  BY <1>3, ReturnsType DEF RefusedByFloodWait, TypeOK, row
<1>4. CASE Reserves(t)
  <2>1. PICK lag \in 0..Lag : ReserveRow(t, lag) /\ age' = [age EXCEPT ![t] = lag]
    BY <1>4 DEF Reserves
  <2>2. lag \in 0..OpTime /\ Lease - lag \in 0..Lease /\ t # NoTask
    BY TimesArePositive, TasksHaveHomes
  <2> QED
    BY <1>4, <2>1, <2>2 DEF Reserves, ReserveRow, TypeOK
<1>5. CASE Ends(t)
  <2>1. pace' \in Nat /\ barred' \in Nat /\ due' \in [Tasks -> Nat]
    BY <1>5, TimesArePositive DEF Ends, TypeOK
  <2> QED
    BY <1>5, <2>1 DEF Ends, TypeOK, row
<1>6. CASE Finishes(t)
  <2>1. answer[t] \in {"completed", "floodwait"} /\ due[t] \in Nat
    BY <1>6 DEF Finishes, TypeOK
  <2> QED
    BY <1>6, <2>1, ReturnsType, TimesArePositive DEF Finishes, FinishRow, TypeOK
<1>7. CASE FinishFails(t)
  BY <1>7, ReturnsType DEF FinishFails, TypeOK, row
<1> QED
  BY <1>1, <1>2, <1>3, <1>4, <1>5, <1>6, <1>7 DEF Runs

LEMMA InitType == Init => TypeOK
<1> SUFFICES ASSUME Init PROVE TypeOK
  OBVIOUS
<1>1. /\ at \in [Tasks -> {"idle", "waiting", "requesting", "ended"}]
      /\ answer \in [Tasks -> {"none", "completed", "floodwait"}]
      /\ \A t \in Tasks : (answer[t] # "none") = (at[t] = "ended")
  BY DEF Init
<1>2. age \in [Tasks -> 0..OpTime] /\ due \in [Tasks -> Nat]
  BY TimesArePositive DEF Init
<1>3. lease \in 0..Lease /\ next \in Nat /\ cooldown \in Nat /\ barred \in Nat /\ pace \in Nat
      /\ cooldown <= next
  BY TimesArePositive DEF Init
<1>4. (status = "pacing") = (token # NoTask) /\ lost \in BOOLEAN
  BY DEF Init
<1> QED
  BY <1>1, <1>2, <1>3, <1>4 DEF Init, TypeOK

LEMMA NextType == TypeOK /\ [Next]_vars => TypeOK'
<1> SUFFICES ASSUME TypeOK, [Next]_vars PROVE TypeOK'
  OBVIOUS
<1>1. CASE UNCHANGED vars
  BY <1>1 DEF TypeOK, vars, row, task
<1>2. CASE Next
  BY <1>2, TickType, RunsType, CrashType DEF Next
<1> QED
  BY <1>1, <1>2

\* Every variable keeps its type, the row its CHECK constraints, and a task has an answer
\* exactly between the end of its operation and finish.
THEOREM TypeCorrect == Spec => []TypeOK
<1>1. TypeOK /\ [Next]_vars => TypeOK'
  BY NextType
<1> QED
  BY InitType, <1>1, PTL DEF Spec

-----------------------------------------------------------------------------
(* One request at a time, until an operation outlives its lease.  Before     *)
(* that the task owns the token, and the lease and the age of its operation  *)
(* add up to Lease: so the lease runs out no sooner than the age reaches it. *)

ActiveOwnsLease ==
  \A t \in Tasks : Active(t) => Overran(t) \/ (token = t /\ lease + age[t] = Lease)

LEMMA FitIsUnique == ASSUME ActiveOwnsLease PROVE OverlapNeedsOverrun
BY DEF ActiveOwnsLease, OverlapNeedsOverrun

\* A task reserves the row only when every active one has outlived its lease.
LEMMA ReservesAlone ==
  ASSUME TypeOK, ActiveOwnsLease, NEW t \in Tasks, Reserves(t)
  PROVE  \A u \in Tasks : Active(u) => Overran(u)
<1> SUFFICES ASSUME NEW u \in Tasks, Active(u), ~Overran(u) PROVE FALSE
  OBVIOUS
<1>1. token = u /\ lease + age[u] = Lease
  BY DEF ActiveOwnsLease
<1>2. age[u] \in Nat /\ lease \in Nat /\ age[u] < Lease
  BY TimesArePositive DEF TypeOK, Overran
<1>3. lease > 0
  BY <1>1, <1>2, TimesArePositive
<1>4. ~LeaseHeld
  BY DEF Reserves, ReserveRow
<1> QED
  BY <1>1, <1>3, <1>4, TasksHaveHomes DEF LeaseHeld

LEMMA NextOwnsLease ==
  ASSUME TypeOK, ActiveOwnsLease, [Next]_vars
  PROVE  ActiveOwnsLease'
<1> SUFFICES ASSUME NEW u \in Tasks, Active(u)', ~Overran(u)'
             PROVE  token' = u /\ lease' + age'[u] = Lease
  BY DEF ActiveOwnsLease
<1>1. CASE UNCHANGED vars
  BY <1>1 DEF ActiveOwnsLease, Overran, Active, vars, row, task
<1>2. CASE Tick
  <2>1. Active(u)
    BY <1>2 DEF Tick, Active
  <2>2. age[u] \in Nat /\ lease \in Nat /\ age'[u] = age[u] + 1 /\ age'[u] < Lease
    BY <1>2, <2>1, TimesArePositive DEF Tick, TypeOK, Overran
  <2>3. token = u /\ lease + age[u] = Lease
    BY <2>1, <2>2, TimesArePositive DEF ActiveOwnsLease, Overran
  <2>4. lease' = lease - 1 /\ token' = token
    BY <1>2, <2>2, <2>3, TimesArePositive DEF Tick, Left
  <2> QED
    BY <2>2, <2>3, <2>4, TimesArePositive
<1>3. CASE \E p \in Processes : Crashes(p)
  <2>1. PICK p \in Processes : Crashes(p)
    BY <1>3
  <2>2. Active(u) /\ age'[u] = age[u] /\ token' = token /\ lease' = lease
    BY <2>1 DEF Crashes, Active, TypeOK, row
  <2> QED
    BY <2>2 DEF ActiveOwnsLease, Overran
<1>4. ASSUME NEW t \in Tasks, Runs(t)
      PROVE  token' = u /\ lease' + age'[u] = Lease
  <2>1. CASE Enters(t)
    BY <2>1 DEF Enters, Moves, ActiveOwnsLease, Overran, Active, TypeOK, row
  <2>2. CASE LeavesUnserved(t)
    BY <2>2 DEF LeavesUnserved, Returns, ActiveOwnsLease, Overran, Active, TypeOK, row
  <2>3. CASE RefusedByFloodWait(t)
    BY <2>3 DEF RefusedByFloodWait, Returns, ActiveOwnsLease, Overran, Active, TypeOK, row
  <2>4. CASE Reserves(t)
    <3>1. u = t
      BY <2>4, ReservesAlone DEF Reserves, Active, Overran, TypeOK
    <3>2. PICK lag \in 0..Lag : token' = t /\ lease' = Lease - lag /\ age'[t] = lag
      BY <2>4 DEF Reserves, ReserveRow, TypeOK
    <3> QED
      BY <3>1, <3>2, TimesArePositive
  <2>5. CASE Ends(t)
    BY <2>5 DEF Ends, ActiveOwnsLease, Overran, Active, TypeOK, row
  <2>6. CASE Finishes(t)
    <3>1. u # t /\ Active(u)
      BY <2>6 DEF Finishes, Returns, Active, TypeOK
    <3>2. token = t
      BY <2>6 DEF Finishes
    <3>3. ~Overran(u)
      BY <2>6, <3>1 DEF Finishes, Returns, Active, Overran, TypeOK
    <3> QED
      BY <3>1, <3>2, <3>3 DEF ActiveOwnsLease
  <2>7. CASE FinishFails(t)
    BY <2>7 DEF FinishFails, Returns, ActiveOwnsLease, Overran, Active, TypeOK, row
  <2> QED
    BY <1>4, <2>1, <2>2, <2>3, <2>4, <2>5, <2>6, <2>7 DEF Runs
<1> QED
  BY <1>1, <1>2, <1>3, <1>4 DEF Next

\* telegram_request_governor.py:35-37 holds until an operation outlives its lease: requests
\* of the account overlap for no other reason, in all processes together, through crashes.
THEOREM OverlapOnlyAfterOverrun == Spec => []OverlapNeedsOverrun
<1>1. Init => ActiveOwnsLease
  BY DEF Init, ActiveOwnsLease, Active
<1>2. TypeOK /\ ActiveOwnsLease /\ [Next]_vars => ActiveOwnsLease'
  BY NextOwnsLease
<1>3. ActiveOwnsLease => OverlapNeedsOverrun
  BY FitIsUnique
<1> QED
  BY <1>1, <1>2, <1>3, TypeCorrect, PTL DEF Spec

\* So a lease longer than any operation is what the docstring needs.
THEOREM OneRequestAtATime ==
  ASSUME OpTime < Lease
  PROVE  Spec => []OneActiveRequest
<1>1. TypeOK /\ OverlapNeedsOverrun => OneActiveRequest
  <2> SUFFICES ASSUME TypeOK, OverlapNeedsOverrun, NEW t \in Tasks, NEW u \in Tasks,
                      Active(t), Active(u), t # u
               PROVE  FALSE
    BY DEF OneActiveRequest
  <2>1. age[t] <= OpTime /\ age[u] <= OpTime /\ age[t] \in Nat /\ age[u] \in Nat
    BY TimesArePositive DEF TypeOK
  <2> QED
    BY <2>1, TimesArePositive DEF OverlapNeedsOverrun, Overran
<1> QED
  BY <1>1, TypeCorrect, OverlapOnlyAfterOverrun, PTL

-----------------------------------------------------------------------------
(* FloodWait and pacing.  As long as no answer was lost, what Telegram demands *)
(* and the shortest delay are covered by next while no operation is active,    *)
(* and, while the owner of the token is the only active task, by its due once  *)
(* its operation has ended; until then they are over.                          *)

Demanded(time) == pace <= time /\ barred <= time
Alone(t) == token = t /\ \A u \in Tasks : Active(u) => u = t

AnswersKept ==
  ~lost =>
    /\ \A t \in Tasks : at[t] = "requesting" /\ Alone(t) => Demanded(0)
    /\ \A t \in Tasks : at[t] = "ended" /\ Alone(t) => Demanded(due[t])
    /\ (\A t \in Tasks : ~Active(t)) => Demanded(next)

\* A task that reserves the row finds both waits over.
LEMMA ReservesInTime ==
  ASSUME TypeOK, AnswersKept, ~lost, NEW t \in Tasks, Reserves(t),
         \A u \in Tasks : ~Active(u)
  PROVE  barred = 0 /\ pace = 0
<1>1. Demanded(next)
  BY DEF AnswersKept
<1>2. next = 0
  BY DEF Reserves, ReserveRow, Pacing, TypeOK
<1> QED
  BY <1>1, <1>2 DEF Demanded, TypeOK

LEMMA TickKeepsAnswers ==
  ASSUME TypeOK, AnswersKept, ~lost, Tick
  PROVE  AnswersKept'
<1>1. /\ pace' = Left(pace) /\ barred' = Left(barred) /\ next' = Left(next)
      /\ at' = at /\ token' = token
      /\ \A t \in Tasks : due'[t] = Left(due[t])
  BY DEF Tick
<1>2. ASSUME NEW n \in Nat, Demanded(n) PROVE Left(pace) <= Left(n) /\ Left(barred) <= Left(n)
  BY <1>2 DEF Demanded, Left, TypeOK
<1>3. Left(0) = 0
  BY DEF Left
<1>4. ASSUME NEW t \in Tasks, at'[t] = "requesting", Alone(t)' PROVE Demanded(0)'
  BY <1>1, <1>2, <1>3, <1>4 DEF AnswersKept, Demanded, Alone, Active
<1>5. ASSUME NEW t \in Tasks, at'[t] = "ended", Alone(t)' PROVE Demanded(due[t])'
  BY <1>1, <1>2, <1>5 DEF AnswersKept, Demanded, Alone, Active, TypeOK
<1>6. ASSUME \A t \in Tasks : ~Active(t)' PROVE Demanded(next)'
  BY <1>1, <1>2, <1>6 DEF AnswersKept, Demanded, Active, TypeOK
<1> QED
  BY <1>4, <1>5, <1>6 DEF AnswersKept

LEMMA CrashKeepsAnswers ==
  ASSUME TypeOK, AnswersKept, ~lost, NEW p \in Processes, Crashes(p)
  PROVE  AnswersKept'
<1> SUFFICES ASSUME ~lost' PROVE AnswersKept'
  BY DEF AnswersKept
<1>1. \A t \in Tasks : (Active(t)' <=> Active(t)) /\ (Active(t) => at'[t] = at[t] /\ due'[t] = due[t])
  BY DEF Crashes, Active, TypeOK
<1>2. pace' = pace /\ barred' = barred /\ next' = next /\ token' = token
  BY DEF Crashes, row
<1> QED
  BY <1>1, <1>2 DEF AnswersKept, Demanded, Alone, Active

LEMMA NextKeepsAnswers ==
  ASSUME TypeOK, AnswersKept, [Next]_vars
  PROVE  AnswersKept'
<1> SUFFICES ASSUME ~lost' PROVE AnswersKept'
  BY DEF AnswersKept
<1>1. ~lost
  BY DEF Next, Runs, Enters, LeavesUnserved, RefusedByFloodWait, Reserves, Ends, Finishes,
         FinishFails, Crashes, Tick, vars
<1>2. CASE UNCHANGED vars
  BY <1>2 DEF AnswersKept, Demanded, Alone, Active, vars, row, task
<1>3. ASSUME NEW t \in Tasks, Runs(t) PROVE AnswersKept'
  <2>1. CASE Enters(t) \/ LeavesUnserved(t) \/ RefusedByFloodWait(t)
    <3>1. \A u \in Tasks : (Active(u)' <=> Active(u)) /\ (Active(u) => at'[u] = at[u] /\ due'[u] = due[u])
      BY <2>1 DEF Enters, LeavesUnserved, RefusedByFloodWait, Moves, Returns, Active, TypeOK
    <3>2. pace' = pace /\ barred' = barred /\ next' = next /\ token' = token
      BY <2>1 DEF Enters, LeavesUnserved, RefusedByFloodWait, row
    <3> QED
      BY <1>1, <3>1, <3>2 DEF AnswersKept, Demanded, Alone, Active
  <2>2. CASE Reserves(t)
    <3>1. at'[t] = "requesting" /\ token' = t /\ \A u \in Tasks \ {t} : at'[u] = at[u]
      BY <2>2 DEF Reserves, ReserveRow, TypeOK
    <3>2. ASSUME NEW u \in Tasks, Alone(u)' PROVE u = t /\ Demanded(0)'
      <4>1. u = t /\ \A v \in Tasks : ~Active(v)
        BY <2>2, <3>1, <3>2 DEF Alone, Active, Reserves
      <4>2. pace' = 0 /\ barred' = 0
        BY <1>1, <2>2, <4>1, ReservesInTime DEF Reserves
      <4> QED
        BY <4>1, <4>2 DEF Demanded
    <3>3. Active(t)'
      BY <3>1 DEF Active
    <3> QED
      BY <3>1, <3>2, <3>3 DEF AnswersKept
  <2>3. CASE Ends(t)
    <3>1. /\ at[t] = "requesting" /\ at'[t] = "ended" /\ token' = token
          /\ \A u \in Tasks : Active(u)' <=> Active(u)
      BY <2>3 DEF Ends, Active, TypeOK, row
    <3>2. ASSUME NEW u \in Tasks, Alone(u)' PROVE u = t /\ Demanded(due[t])'
      <4>1. u = t /\ Alone(t)
        BY <3>1, <3>2 DEF Alone, Active
      <4>2. pace = 0 /\ barred = 0
        BY <1>1, <3>1, <4>1 DEF AnswersKept, Demanded, TypeOK
      <4>3. Demanded(due[t])'
        BY <2>3, <4>2, TimesArePositive DEF Ends, Demanded, TypeOK
      <4> QED
        BY <4>1, <4>3
    <3>3. Active(t)'
      BY <3>1 DEF Active
    <3> QED
      BY <3>1, <3>2, <3>3 DEF AnswersKept
  <2>4. CASE Finishes(t)
    <3>1. token = t /\ token' = NoTask /\ at[t] = "ended" /\ at'[t] = "idle"
      BY <2>4 DEF Finishes, Returns, TypeOK
    <3>2. \A u \in Tasks : ~Alone(u)'
      BY <3>1, TasksHaveHomes DEF Alone
    <3>3. ASSUME \A u \in Tasks : ~Active(u)' PROVE Demanded(next)'
      <4>1. Alone(t)
        BY <2>4, <3>1, <3>3 DEF Alone, Active, Finishes, Returns, TypeOK
      <4> QED
        BY <1>1, <2>4, <3>1, <4>1 DEF Finishes, FinishRow, AnswersKept, Demanded
    <3> QED
      BY <3>2, <3>3 DEF AnswersKept
  <2>5. CASE FinishFails(t)
    BY <2>5 DEF FinishFails
  <2> QED
    BY <1>3, <2>1, <2>2, <2>3, <2>4, <2>5 DEF Runs
<1> QED
  BY <1>1, <1>2, <1>3, TickKeepsAnswers, CrashKeepsAnswers DEF Next

LEMMA InitKeepsAnswers == Init => AnswersKept /\ ActiveOwnsLease
BY DEF Init, AnswersKept, ActiveOwnsLease, Active, Demanded

LEMMA RequestsComeInTime ==
  ASSUME TypeOK, ActiveOwnsLease, AnswersKept
  PROVE  /\ [\A t \in Tasks : Reserves(t) /\ barred > 0 => lost \/ \E u \in Tasks : Overran(u)]_vars
         /\ [\A t \in Tasks : Reserves(t) /\ pace > 0 => lost \/ \E u \in Tasks : Overran(u)]_vars
<1>1. ASSUME NEW t \in Tasks, Reserves(t), ~lost, ~ \E u \in Tasks : Overran(u)
      PROVE  ~(barred > 0) /\ ~(pace > 0)
  BY <1>1, ReservesAlone, ReservesInTime
<1> QED
  BY <1>1

\* No request is sent while Telegram demands silence unless the answer that said so was lost
\* with a crash or a failed finish, or a request has outlived its lease: the wait that one
\* process was told binds them all.
THEOREM FloodWaitIsHonoured == Spec => FloodWaitHonoured
<1>1. Init => AnswersKept /\ ActiveOwnsLease
  BY InitKeepsAnswers
<1>2. TypeOK /\ ActiveOwnsLease /\ AnswersKept /\ [Next]_vars => ActiveOwnsLease' /\ AnswersKept'
  BY NextOwnsLease, NextKeepsAnswers
<1>3. TypeOK /\ ActiveOwnsLease /\ AnswersKept =>
        [\A t \in Tasks : Reserves(t) /\ barred > 0 => lost \/ \E u \in Tasks : Overran(u)]_vars
  BY RequestsComeInTime
<1> QED
  BY <1>1, <1>2, <1>3, TypeCorrect, PTL DEF Spec, FloodWaitHonoured

\* The shortest delay lies between the end of a served request and the next one, across
\* processes, under the same conditions.
THEOREM PacingIsHonoured == Spec => PacingHonoured
<1>1. Init => AnswersKept /\ ActiveOwnsLease
  BY InitKeepsAnswers
<1>2. TypeOK /\ ActiveOwnsLease /\ AnswersKept /\ [Next]_vars => ActiveOwnsLease' /\ AnswersKept'
  BY NextOwnsLease, NextKeepsAnswers
<1>3. TypeOK /\ ActiveOwnsLease /\ AnswersKept =>
        [\A t \in Tasks : Reserves(t) /\ pace > 0 => lost \/ \E u \in Tasks : Overran(u)]_vars
  BY RequestsComeInTime
<1> QED
  BY <1>1, <1>2, <1>3, TypeCorrect, PTL DEF Spec, PacingHonoured

-----------------------------------------------------------------------------
LEMMA OnlyOwnerEnds ==
  ASSUME TypeOK, [Next]_vars
  PROVE  [\A t \in Tasks : token = t /\ lease > 0 /\ token' # t => Finishes(t)]_vars
<1>1. ASSUME NEW t \in Tasks, Next, token = t, lease > 0, token' # t PROVE Finishes(t)
  <2>1. LeaseHeld
    BY <1>1, TasksHaveHomes DEF LeaseHeld
  <2>2. ASSUME NEW u \in Tasks, Runs(u) PROVE Finishes(u)
    BY <1>1, <2>1, <2>2 DEF Runs, Enters, LeavesUnserved, RefusedByFloodWait, Reserves,
       ReserveRow, Ends, FinishFails, row
  <2>3. PICK u \in Tasks : Finishes(u)
    BY <1>1, <2>2 DEF Next, Tick, Crashes, row
  <2> QED
    BY <1>1, <2>3 DEF Finishes
<1> QED
  BY <1>1

\* A reservation whose lease is running is ended by its own task only: the token that finish
\* compares (telegram_operation_state.py:243-249) protects it from every late finish.
THEOREM ReservationsAreNotStolen == Spec => NoStolenReservation
<1>1. TypeOK /\ [Next]_vars =>
        [\A t \in Tasks : token = t /\ lease > 0 /\ token' # t => Finishes(t)]_vars
  BY OnlyOwnerEnds
<1> QED
  BY <1>1, TypeCorrect, PTL DEF Spec, NoStolenReservation

-----------------------------------------------------------------------------
(* The search for chats                                                    *)

(* A process without a handler has no key.                                 *)
IdleHasNoJob == \A w \in Workers : worker[w].pc = "idle" => worker[w] = Idle

(* Handlers of one job know that they are not alone (history).             *)
SideBySide ==
    \A v, w \in Workers :
        v # w /\ worker[v].key = worker[w].key /\ worker[v].key # NoKey
        => worker[v].beside /\ worker[w].beside

(* What is handled was enqueued.                                           *)
HandlersHaveJobs ==
    \A w \in Workers : worker[w].pc # "idle" => job[worker[w].key].state # "absent"

(* The screen of a chat that is not contested is the only one, and its     *)
(* claim is on the row.                                                    *)
ScreensAreAlone ==
    \A p \in Peers \ contested :
        /\ \A v, w \in InScreen(p) : v = w
        /\ InScreen(p) # {} => peer[p].status = "running"

(* A chat with a source is never screened again.                           *)
WatchedAreKnown == \A p \in Peers : peer[p].by = "screen" => peer[p].bucket = "known"

(* Only a screen without a verdict makes a chat wait.                      *)
WaitsAfterScreen == \A p \in Peers : peer[p].wait => peer[p].status \in {"unclear", "failed"}

(* There is no job beyond the next screen, and none of an unknown chat.    *)
JobsFollowCount ==
    \A p \in Peers, n \in 1..MaxScreens :
        job[ScreenKey(p, n)].state # "absent"
        => n <= peer[p].count + 1 /\ peer[p].bucket # "absent"

(* A screen in progress has been counted.                                  *)
ScreensAreCounted ==
    \A w \in Workers :
        worker[w].pc = "screen" => worker[w].key.n <= peer[worker[w].key.of].count

(* Once the next screen has a job the chat is claimed only by counting on; *)
(* it waits for the screen only if a search enqueued it too early.         *)
NextIsUnclaimed ==
    \A p \in Peers :
        peer[p].count < MaxScreens /\ job[NextScreen(p)].state # "absent"
        => /\ peer[p].status # "running"
           /\ peer[p].wait => peer[p].bucket = "known" \/ p \in early

(* The next screen ends without a claim only if there is nothing to claim. *)
NothingToScreen(p) ==
    peer[p].bucket = "known" \/ peer[p].status \in {"watch", "skip"} \/ p \in early

NextEndsEmpty ==
    \A p \in Peers : peer[p].count < MaxScreens =>
        /\ job[NextScreen(p)].state = "completed" => NothingToScreen(p)
        /\ \A w \in Workers : worker[w].pc = "return" /\ worker[w].key = NextScreen(p)
                              => NothingToScreen(p)

-----------------------------------------------------------------------------
LEMMA ChatBounds ==
    /\ JobTries \in Nat \ {0} /\ ScreenLimit \in Nat \ {0}
    /\ MaxBucket \in Nat \ {0} /\ MaxScreens \in Nat \ {0}
    /\ MaxFaults \in Nat /\ IsFiniteSet(Workers)
BY ChatAssumption

(* The keys of the jobs name what they are for.                            *)
LEMMA KeysNameTheirChat ==
    /\ \A k \in Keys :
         \/ k.kind = "search" /\ k \in Searches /\ k.of \in Topics
         \/ /\ k.kind = "screen" /\ k.of \in Peers /\ k.n \in 1..MaxScreens
            /\ k = ScreenKey(k.of, k.n)
    /\ \A k \in Searches : k \in Keys /\ k.kind = "search" /\ k.of \in Topics
    /\ \A t \in Topics, b \in 1..MaxBucket : SearchKey(t, b) \in Searches
    /\ \A p \in Peers, n \in 1..MaxScreens : ScreenKey(p, n) \in Keys \ Searches
    /\ NoKey \notin Keys
  <1>1. \A t \in Topics, b \in 1..MaxBucket : SearchKey(t, b) \in Searches
    BY DEF Searches
  <1>2. \A k \in Searches : k \in Keys /\ k.kind = "search" /\ k.of \in Topics
    BY DEF Keys, Searches, SearchKey
  <1>3. ASSUME NEW p \in Peers, NEW n \in 1..MaxScreens
        PROVE  /\ ScreenKey(p, n).kind = "screen" /\ ScreenKey(p, n).of = p
               /\ ScreenKey(p, n).n = n /\ ScreenKey(p, n) \in Keys
    BY DEF Keys, ScreenKey
  <1>4. \A p \in Peers, n \in 1..MaxScreens : ScreenKey(p, n) \in Keys \ Searches
    <2>1. "screen" # "search"
      OBVIOUS
    <2> QED
      BY <1>2, <1>3, <2>1
  <1>5. ASSUME NEW k \in Keys, k \notin Searches
        PROVE  /\ k.kind = "screen" /\ k.of \in Peers /\ k.n \in 1..MaxScreens
               /\ k = ScreenKey(k.of, k.n)
    <2>1. PICK p \in Peers, n \in 1..MaxScreens : k = ScreenKey(p, n)
      BY <1>5 DEF Keys
    <2> QED
      BY <1>3, <2>1
  <1>6. NoKey.kind = "none" /\ "none" # "search" /\ "none" # "screen"
    BY DEF NoKey
  <1>7. NoKey \notin Keys
    BY <1>2, <1>5, <1>6
  <1> QED
    BY <1>1, <1>2, <1>4, <1>5, <1>7

LEMMA ScreenKeysDiffer ==
    ASSUME NEW p, NEW n
    PROVE  /\ ScreenKey(p, n).kind = "screen" /\ ScreenKey(p, n).of = p
           /\ ScreenKey(p, n).n = n
  BY DEF ScreenKey

(* What enqueue does to the table.                                         *)
LEMMA EnqueuedJobs ==
    ASSUME job \in [Keys -> JobRow], NEW ks
    PROVE  /\ Enqueued(job, ks) \in [Keys -> JobRow]
           /\ \A k \in Keys :
                /\ Enqueued(job, ks)[k].state # "absent" <=> k \in ks \/ job[k].state # "absent"
                /\ Enqueued(job, ks)[k].state = "completed" <=> job[k].state = "completed"
  <1>1. \A k \in Keys : job[k] \in JobRow
    OBVIOUS
  <1>2. \A k \in Keys : Enqueued(job, ks)[k] =
           IF k \in ks /\ job[k].state = "absent" THEN [job[k] EXCEPT !.state = "queued"] ELSE job[k]
    BY DEF Enqueued
  <1>3. \A k \in Keys : Enqueued(job, ks)[k] \in JobRow
    BY <1>1, <1>2 DEF JobRow
  <1>4. DOMAIN Enqueued(job, ks) = Keys /\ Enqueued(job, ks) = [k \in Keys |-> Enqueued(job, ks)[k]]
    BY DEF Enqueued
  <1> QED
    BY <1>1, <1>2, <1>3, <1>4 DEF JobRow

-----------------------------------------------------------------------------
(* The types of the rows and handlers, with the place of idle processes.   *)
ChatTypes == ChatTypeOK /\ IdleHasNoJob

LEMMA InitTypes == ChatInit => ChatTypes
  <1> SUFFICES ASSUME ChatInit PROVE ChatTypes
    OBVIOUS
  <1>1. topic \in [Topics -> TopicRow]
    BY ChatBounds DEF ChatInit, TopicRow
  <1>2. peer \in [Peers -> PeerRow]
    BY ChatBounds DEF ChatInit, PeerRow
  <1>3. job \in [Keys -> JobRow]
    BY ChatBounds DEF ChatInit, JobRow
  <1>4. /\ worker \in [Workers -> Handler]
        /\ \A w \in Workers : worker[w] = Idle /\ worker[w].pc = "idle"
    BY ChatBounds DEF ChatInit, Handler, Idle
  <1>5. run \in [Searches -> RunStatus] /\ source \in [Peers -> BOOLEAN]
    BY DEF ChatInit, RunStatus
  <1>6. /\ bucket \in 1..MaxBucket /\ faults \in 0..MaxFaults
        /\ early \subseteq Peers /\ contested \subseteq Peers
    BY ChatBounds DEF ChatInit
  <1>7. "idle" # "request" /\ "idle" # "screen"
    OBVIOUS
  <1> QED
    BY <1>1, <1>2, <1>3, <1>4, <1>5, <1>6, <1>7 DEF ChatTypes, ChatTypeOK, IdleHasNoJob

(* What a step of a handler leaves of the others.                          *)
LEMMA HandlerGoes ==
    ASSUME ChatTypes, NEW w \in Workers, NEW pc, Goes(w, pc), worker[w].pc # "idle",
           pc \in {"begin", "request", "screen", "return", "raise", "released"},
           pc = "request" => worker[w].key.kind = "search",
           pc = "screen" => worker[w].key.kind = "screen"
    PROVE  /\ worker' \in [Workers -> Handler]
           /\ \A v \in Workers :
                /\ worker'[v].pc = IF v = w THEN pc ELSE worker[v].pc
                /\ worker'[v].key = worker[v].key /\ worker'[v].try = worker[v].try
                /\ worker'[v].beside = worker[v].beside
                /\ v # w => worker'[v] = worker[v]
                /\ worker'[v].pc # "idle" => worker'[v].key \in Keys
                /\ worker'[v].pc = "request" => worker'[v].key.kind = "search"
                /\ worker'[v].pc = "screen" => worker'[v].key.kind = "screen"
                /\ worker'[v].pc = "idle" => worker'[v] = Idle
  <1> USE DEF ChatTypes, ChatTypeOK, IdleHasNoJob
  <1>1. worker \in [Workers -> Handler] /\ worker' = [worker EXCEPT ![w].pc = pc]
    BY DEF Goes
  <1>2. worker[w] \in Handler
    BY <1>1
  <1>3. worker'[w] = [worker[w] EXCEPT !.pc = pc] /\ worker'[w] \in Handler
    BY <1>1, <1>2 DEF Handler
  <1>4. \A v \in Workers : v # w => worker'[v] = worker[v]
    BY <1>1
  <1>5. worker' \in [Workers -> Handler]
    BY <1>1, <1>3, <1>4
  <1>6. /\ worker'[w].pc = pc /\ worker'[w].key = worker[w].key
        /\ worker'[w].try = worker[w].try /\ worker'[w].beside = worker[w].beside
    BY <1>2, <1>3 DEF Handler
  <1>7. worker[w].key \in Keys
    OBVIOUS
  <1> QED
    BY <1>4, <1>5, <1>6, <1>7

LEMMA HandlerEnds ==
    ASSUME ChatTypes, NEW w \in Workers, worker' = [worker EXCEPT ![w] = Idle]
    PROVE  /\ worker' \in [Workers -> Handler]
           /\ worker'[w] = Idle /\ Idle.pc = "idle" /\ Idle.key = NoKey
           /\ \A v \in Workers : v # w => worker'[v] = worker[v]
           /\ \A v \in Workers :
                /\ worker'[v].pc # "idle" => worker'[v].key \in Keys
                /\ worker'[v].pc = "request" => worker'[v].key.kind = "search"
                /\ worker'[v].pc = "screen" => worker'[v].key.kind = "screen"
                /\ worker'[v].pc = "idle" => worker'[v] = Idle
  <1> USE DEF ChatTypes, ChatTypeOK, IdleHasNoJob
  <1>1. Idle \in Handler /\ Idle.pc = "idle" /\ Idle.key = NoKey
    BY ChatBounds DEF Idle, Handler
  <1>2. worker'[w] = Idle /\ \A v \in Workers : v # w => worker'[v] = worker[v]
    OBVIOUS
  <1>3. worker' \in [Workers -> Handler]
    BY <1>1, <1>2
  <1> QED
    BY <1>1, <1>2, <1>3

LEMMA WorkerStays ==
    ASSUME ChatTypes, UNCHANGED worker
    PROVE  /\ worker' \in [Workers -> Handler]
           /\ \A v \in Workers :
                /\ worker'[v].pc # "idle" => worker'[v].key \in Keys
                /\ worker'[v].pc = "request" => worker'[v].key.kind = "search"
                /\ worker'[v].pc = "screen" => worker'[v].key.kind = "screen"
                /\ worker'[v].pc = "idle" => worker'[v] = Idle
  BY DEF ChatTypes, ChatTypeOK, IdleHasNoJob

(* A claim gives a free process a new try, and tells the handlers that     *)
(* already have the job.                                                   *)
LEMMA ClaimTypes ==
    ASSUME ChatTypes, NEW w \in Workers, NEW k \in Keys, ClaimJob(w, k)
    PROVE  /\ ChatTypes'
           /\ worker[w].pc = "idle" /\ worker[w].key = NoKey
           /\ worker'[w].pc = "begin" /\ worker'[w].key = k
           /\ worker'[w].beside <=> \E v \in Workers : worker[v].key = k
           /\ \A v \in Workers : v # w =>
                /\ worker'[v].pc = worker[v].pc /\ worker'[v].key = worker[v].key
                /\ worker'[v].beside <=> worker[v].beside \/ worker[v].key = k
           /\ job[k].state \in {"queued", "running"}
           /\ \A l \in Keys : job'[l].state = IF l = k THEN "running" ELSE job[l].state
  <1> DEFINE others == {v \in Workers : worker[v].key = k}
  <1> USE DEF ChatTypes, ChatTypeOK, IdleHasNoJob
  <1>1. /\ worker[w].pc = "idle" /\ worker[w] = Idle /\ Idle.key = NoKey
        /\ job[k].state \in {"queued", "running"} /\ job[k].tries < JobTries
        /\ worker' = [v \in Workers |->
              IF v = w THEN [pc |-> "begin", key |-> k, try |-> job[k].tries + 1,
                             beside |-> others # {}]
              ELSE [worker[v] EXCEPT !.beside = @ \/ v \in others]]
        /\ faults' = faults + Cardinality(others) /\ faults' <= MaxFaults
        /\ job' = [job EXCEPT ![k] = [state |-> "running", tries |-> @.tries + 1]]
        /\ UNCHANGED <<bucket, topic, run, peer, source, early, contested>>
    BY DEF ClaimJob, Idle
  <1>2. job[k] \in JobRow /\ job[k].tries + 1 \in 0..JobTries
    BY <1>1, ChatBounds DEF JobRow
  <1>3. job' \in [Keys -> JobRow]
    BY <1>1, <1>2 DEF JobRow
  <1>4. \A l \in Keys : job'[l].state = IF l = k THEN "running" ELSE job[l].state
    BY <1>1
  <1>5. Cardinality(others) \in Nat
    <2>1. IsFiniteSet(others)
      BY ChatBounds, FS_Subset
    <2> QED
      BY <2>1, FS_CardinalityType
  <1>6. faults' \in 0..MaxFaults
    BY <1>1, <1>5, ChatBounds
  <1>7. /\ worker'[w].pc = "begin" /\ worker'[w].key = k
        /\ worker'[w].beside <=> \E v \in Workers : worker[v].key = k
        /\ worker'[w] \in Handler
    <2>1. worker'[w] = [pc |-> "begin", key |-> k, try |-> job[k].tries + 1,
                        beside |-> others # {}]
      BY <1>1
    <2>2. others # {} <=> \E v \in Workers : worker[v].key = k
      OBVIOUS
    <2>3. (others # {}) \in BOOLEAN
      OBVIOUS
    <2> HIDE DEF others
    <2>4. worker'[w] \in Handler
      BY <2>1, <2>3, <1>2 DEF Handler
    <2>5. /\ worker'[w].pc = "begin" /\ worker'[w].key = k
          /\ worker'[w].beside = (others # {})
      BY <2>1
    <2> QED
      BY <2>2, <2>4, <2>5
  <1>8. ASSUME NEW v \in Workers, v # w
        PROVE  /\ worker'[v].pc = worker[v].pc /\ worker'[v].key = worker[v].key
               /\ worker'[v].beside <=> worker[v].beside \/ worker[v].key = k
               /\ worker'[v] \in Handler
               /\ v \notin others => worker'[v] = worker[v]
    <2>1. worker[v] \in Handler
      OBVIOUS
    <2>2. worker'[v] = [worker[v] EXCEPT !.beside = @ \/ v \in others]
      BY <1>1, <1>8
    <2>3. v \in others <=> worker[v].key = k
      OBVIOUS
    <2>4. worker[v].beside \in BOOLEAN
      BY <2>1 DEF Handler
    <2>5. (worker[v].beside \/ v \in others) \in BOOLEAN
      OBVIOUS
    <2>6. /\ worker'[v].pc = worker[v].pc /\ worker'[v].key = worker[v].key
          /\ worker'[v].beside = (worker[v].beside \/ v \in others)
          /\ worker'[v] \in Handler
      BY <2>1, <2>2, <2>5 DEF Handler
    <2>7. v \notin others => worker'[v] = worker[v]
      BY <2>1, <2>2, <2>4, <2>5 DEF Handler
    <2> QED
      BY <2>3, <2>6, <2>7
  <1>9. worker' \in [Workers -> Handler]
    BY <1>1, <1>7, <1>8
  <1>10. ASSUME NEW v \in Workers
         PROVE  /\ worker'[v].pc # "idle" => worker'[v].key \in Keys
                /\ worker'[v].pc = "request" => worker'[v].key.kind = "search"
                /\ worker'[v].pc = "screen" => worker'[v].key.kind = "screen"
                /\ worker'[v].pc = "idle" => worker'[v] = Idle
    <2>1. CASE v = w
      BY <2>1, <1>7
    <2>2. CASE v # w
      <3>1. worker[v].pc = "idle" => v \notin others
        BY <1>1, KeysNameTheirChat
      <3> QED
        BY <2>2, <3>1, <1>8
    <2> QED
      BY <2>1, <2>2
  <1>11. ChatTypes'
    BY <1>1, <1>3, <1>6, <1>9, <1>10
  <1> QED
    BY <1>1, <1>4, <1>7, <1>8, <1>11

-----------------------------------------------------------------------------
(* What the operations on the row of a chat leave and change.              *)
LEMMA FinishedRow ==
    ASSUME peer \in [Peers -> PeerRow], NEW p \in Peers,
           NEW outcome \in {"watch", "skip", "unclear", "failed"}
    PROVE  /\ Finished(p, outcome) \in PeerRow
           /\ Finished(p, outcome).bucket = peer[p].bucket
           /\ Finished(p, outcome).by = peer[p].by
           /\ Finished(p, outcome).count = peer[p].count
           /\ peer[p].status # "running" => Finished(p, outcome) = peer[p]
           /\ peer[p].status = "running" =>
                /\ Finished(p, outcome).status = outcome
                /\ Finished(p, outcome).wait => outcome \in {"unclear", "failed"}
  <1>1. peer[p] \in PeerRow
    OBVIOUS
  <1>2. (outcome \in {"unclear", "failed"}) \in BOOLEAN
    OBVIOUS
  <1>3. CASE peer[p].status = "running"
    <2> DEFINE w == (outcome \in {"unclear", "failed"})
    <2>1. Finished(p, outcome) = [peer[p] EXCEPT !.status = outcome, !.wait = w]
      BY <1>3 DEF Finished
    <2>2. w => outcome \in {"unclear", "failed"}
      OBVIOUS
    <2>3. w \in BOOLEAN
      OBVIOUS
    <2> HIDE DEF w
    <2> QED
      BY <1>1, <1>3, <2>1, <2>2, <2>3 DEF PeerRow
  <1>4. CASE peer[p].status # "running"
    BY <1>1, <1>4 DEF Finished
  <1> QED
    BY <1>3, <1>4

LEMMA ReleasedRow ==
    ASSUME peer \in [Peers -> PeerRow], NEW p \in Peers
    PROVE  /\ Released(p) \in PeerRow
           /\ Released(p).bucket = peer[p].bucket /\ Released(p).by = peer[p].by
           /\ Released(p).count = peer[p].count
           /\ peer[p].status # "running" => Released(p) = peer[p]
           /\ peer[p].status = "running" => /\ Released(p).status = "pending"
                                            /\ Released(p).wait = FALSE
  <1>1. peer[p] \in PeerRow
    OBVIOUS
  <1> QED
    BY <1>1 DEF Released, PeerRow

LEMMA UpsertedRow ==
    ASSUME peer \in [Peers -> PeerRow], NEW p \in Peers, NEW private
    PROVE  /\ Upserted(p, p \in private) \in PeerRow
           /\ Upserted(p, p \in private).bucket \in {"new", "known"}
           /\ peer[p].bucket = "known" => Upserted(p, p \in private) = peer[p]
           /\ Upserted(p, p \in private).by = "screen" => peer[p].by = "screen"
           /\ Upserted(p, p \in private).count = peer[p].count
           /\ Upserted(p, p \in private).status = peer[p].status
           /\ Upserted(p, p \in private).wait = peer[p].wait
  <1> DEFINE is == p \in private
  <1>1. peer[p] \in PeerRow /\ is \in BOOLEAN
    OBVIOUS
  <1>2. Upserted(p, is) =
          IF peer[p].bucket = "absent"
          THEN [peer[p] EXCEPT !.bucket = IF source[p] THEN "known" ELSE "new", !.private = is]
          ELSE IF source[p] /\ peer[p].bucket = "new"
          THEN [peer[p] EXCEPT !.bucket = "known", !.by = "search"] ELSE peer[p]
    BY DEF Upserted
  <1> HIDE DEF is
  <1>3. /\ Upserted(p, is) \in PeerRow
        /\ Upserted(p, is).bucket \in {"new", "known"}
        /\ peer[p].bucket = "known" => Upserted(p, is) = peer[p]
        /\ Upserted(p, is).by = "screen" => peer[p].by = "screen"
        /\ Upserted(p, is).count = peer[p].count
        /\ Upserted(p, is).status = peer[p].status
        /\ Upserted(p, is).wait = peer[p].wait
    BY <1>1, <1>2 DEF PeerRow
  <1> QED
    BY <1>3 DEF is

(* What finish_search leaves and changes.                                  *)
LEMMA FinishedSearch ==
    ASSUME ChatTypes, NEW k \in Searches, NEW outcome \in {"completed", "failed"},
           NEW when \in 0..MaxBucket + 1, FinishSearch(k, outcome, when)
    PROVE  /\ run' \in [Searches -> RunStatus]
           /\ topic' \in [Topics -> TopicRow]
           /\ \A l \in Searches : run'[l] = IF l = k /\ run[l] = "running" THEN outcome ELSE run[l]
  <1> USE DEF ChatTypes, ChatTypeOK
  <1>1. k.of \in Topics
    BY KeysNameTheirChat
  <1>2. [due |-> when, status |-> outcome] \in TopicRow
    BY DEF TopicRow
  <1>3. topic' \in [Topics -> TopicRow]
    BY <1>1, <1>2 DEF FinishSearch
  <1>4. run' \in [Searches -> RunStatus]
    BY DEF FinishSearch, RunStatus
  <1>5. \A l \in Searches : run'[l] = IF l = k /\ run[l] = "running" THEN outcome ELSE run[l]
    BY DEF FinishSearch
  <1> QED
    BY <1>3, <1>4, <1>5

(* A finished screen, whatever it found.                                   *)
LEMMA EndScreenTypes ==
    ASSUME ChatTypes, NEW w \in Workers, worker[w].pc = "screen",
           NEW outcome \in {"watch", "skip", "unclear", "failed"}, NEW pc \in {"return", "raise"},
           EndScreen(w, outcome, pc)
    PROVE  ChatTypes'
  <1> USE DEF ChatTypes, ChatTypeOK, IdleHasNoJob
  <1>1. Goes(w, pc)
    BY DEF EndScreen
  <1>2. worker[w].key.of \in Peers
    BY KeysNameTheirChat
  <1>3. peer' \in [Peers -> PeerRow]
    BY <1>2, FinishedRow DEF EndScreen
  <1>4. UNCHANGED <<bucket, topic, run, source, job, faults, early, contested>>
    BY DEF EndScreen
  <1>5. pc # "request" /\ pc # "screen" /\ worker[w].pc # "idle"
    OBVIOUS
  <1> QED
    BY <1>1, <1>3, <1>4, <1>5, HandlerGoes

LEMMA TypesNext == ChatTypes /\ [ChatNext]_chatVars => ChatTypes'
  <1> SUFFICES ASSUME ChatTypes, [ChatNext]_chatVars PROVE ChatTypes'
    OBVIOUS
  <1> USE DEF ChatTypes, ChatTypeOK, IdleHasNoJob
  <1>1. ASSUME NEW w \in Workers, NEW k \in Keys, ClaimJob(w, k) PROVE ChatTypes'
    BY <1>1, ClaimTypes
  <1>2. ASSUME NEW w \in Workers, SettleJob(w) PROVE ChatTypes'
    <2> DEFINE k == worker[w].key
               end == IF worker[w].pc = "return" THEN "completed"
                      ELSE IF job[k].tries < JobTries THEN "queued" ELSE "failed"
    <2>1. worker[w].pc # "idle" /\ k \in Keys /\ job[k] \in JobRow
      BY <1>2 DEF SettleJob
    <2>2. job' = IF Owns(w) THEN [job EXCEPT ![k].state = end] ELSE job
      BY <1>2 DEF SettleJob
    <2>3. end \in {"completed", "queued", "failed"}
      OBVIOUS
    <2> HIDE DEF end
    <2>4. job' \in [Keys -> JobRow]
      BY <2>1, <2>2, <2>3 DEF JobRow
    <2>5. /\ worker' = [worker EXCEPT ![w] = Idle]
          /\ UNCHANGED <<bucket, topic, run, peer, source, faults, early, contested>>
      BY <1>2 DEF SettleJob
    <2> QED
      BY <2>4, <2>5, HandlerEnds
  <1>3. ASSUME NEW w \in Workers, Dies(w) PROVE ChatTypes'
    <2>1. /\ worker' = [worker EXCEPT ![w] = Idle] /\ faults' \in 0..MaxFaults
          /\ UNCHANGED <<bucket, topic, run, peer, source, job, early, contested>>
      BY <1>3, ChatBounds DEF Dies
    <2> QED
      BY <2>1, HandlerEnds
  <1>4. ASSUME NEW w \in Workers, Cancel(w) PROVE ChatTypes'
    <2>1. /\ Goes(w, "released") /\ worker[w].pc # "idle" /\ faults' \in 0..MaxFaults
          /\ UNCHANGED <<bucket, topic, run, source, job, early>>
      BY <1>4, ChatBounds DEF Cancel
    <2>2. peer' \in [Peers -> PeerRow] /\ contested' \subseteq Peers
      <3>1. CASE worker[w].key.kind = "screen"
        <4>1. worker[w].key.of \in Peers
          BY <2>1, <3>1, KeysNameTheirChat
        <4>2. peer' = [peer EXCEPT ![worker[w].key.of] = Released(worker[w].key.of)]
          BY <1>4, <3>1 DEF Cancel
        <4>3. contested' = contested \/ contested' = contested \cup {worker[w].key.of}
          BY <1>4, <3>1 DEF Cancel
        <4> QED
          BY <4>1, <4>2, <4>3, ReleasedRow
      <3>2. CASE worker[w].key.kind # "screen"
        BY <1>4, <3>2 DEF Cancel
      <3> QED
        BY <3>1, <3>2
    <2> QED
      BY <2>1, <2>2, HandlerGoes
  <1>5. ASSUME NEW w \in Workers, StartSearch(w) PROVE ChatTypes'
    <2> DEFINE k == worker[w].key
               pc == IF run[k] = "completed" THEN "return" ELSE "request"
    <2>1. /\ worker[w].pc = "begin" /\ k.kind = "search" /\ Goes(w, pc)
          /\ run' = [run EXCEPT ![k] = IF @ = "completed" THEN @ ELSE "running"]
          /\ topic' = topic \/ topic' = [topic EXCEPT ![k.of].status = "running"]
          /\ UNCHANGED <<bucket, peer, source, job, faults, early, contested>>
      BY <1>5 DEF StartSearch
    <2>2. k \in Searches /\ k.of \in Topics
      BY <2>1, KeysNameTheirChat
    <2>3. run' \in [Searches -> RunStatus]
      BY <2>1, <2>2 DEF RunStatus
    <2>4. topic' \in [Topics -> TopicRow]
      BY <2>1, <2>2 DEF TopicRow
    <2>5. pc \in {"request", "return"}
      OBVIOUS
    <2> HIDE DEF pc
    <2> QED
      BY <2>1, <2>3, <2>4, <2>5, HandlerGoes
  <1>6. ASSUME NEW w \in Workers, FailSearch(w) PROVE ChatTypes'
    <2>1. /\ worker[w].pc = "request" /\ FinishSearch(worker[w].key, "failed", 0)
          /\ Goes(w, "raise") /\ UNCHANGED <<bucket, peer, source, job, early, contested>>
          /\ faults' \in 0..MaxFaults
      BY <1>6, ChatBounds DEF FailSearch
    <2>2. worker[w].key \in Searches
      BY <2>1, KeysNameTheirChat
    <2>3. 0 \in 0..MaxBucket + 1
      BY ChatBounds
    <2>4. run' \in [Searches -> RunStatus] /\ topic' \in [Topics -> TopicRow]
      BY <2>1, <2>2, <2>3, FinishedSearch
    <2> QED
      BY <2>1, <2>4, HandlerGoes
  <1>7. ASSUME NEW w \in Workers, NEW met \in SUBSET Peers, NEW private \in SUBSET Peers,
               StoreSearch(w, met, private)
        PROVE  ChatTypes'
    <2> DEFINE new == [p \in Peers |-> IF p \in met THEN Upserted(p, p \in private) ELSE peer[p]]
               todo == {p \in met : Screenable(new[p])}
    <2>1. /\ worker[w].pc = "request" /\ FinishSearch(worker[w].key, "completed", bucket + 1)
          /\ Goes(w, "return") /\ UNCHANGED <<bucket, source, faults, contested>>
          /\ peer' = new /\ job' = Enqueued(job, {NextScreen(p) : p \in todo})
          /\ early' = early \cup {p \in todo : new[p].status # "pending" /\ new[p].wait}
      BY <1>7 DEF StoreSearch
    <2>2. worker[w].key \in Searches
      BY <2>1, KeysNameTheirChat
    <2>3. bucket + 1 \in 0..MaxBucket + 1
      BY ChatBounds
    <2>4. run' \in [Searches -> RunStatus] /\ topic' \in [Topics -> TopicRow]
      BY <2>1, <2>2, <2>3, FinishedSearch
    <2>5. peer' \in [Peers -> PeerRow]
      <3>1. \A p \in Peers : Upserted(p, p \in private) \in PeerRow
        BY UpsertedRow
      <3> QED
        BY <2>1, <3>1
    <2>6. job' \in [Keys -> JobRow]
      BY <2>1, EnqueuedJobs
    <2>7. early' \subseteq Peers
      BY <2>1
    <2> QED
      BY <2>1, <2>4, <2>5, <2>6, <2>7, HandlerGoes
  <1>8. ASSUME NEW w \in Workers, ClaimScreen(w) PROVE ChatTypes'
    <2> DEFINE p == worker[w].key.of
    <2>1. /\ worker[w].pc = "begin" /\ worker[w].key.kind = "screen"
          /\ UNCHANGED <<bucket, topic, run, source, job, faults>>
      BY <1>8 DEF ClaimScreen
    <2>2. p \in Peers
      BY <2>1, KeysNameTheirChat
    <2>3. CASE Goes(w, "return") /\ UNCHANGED <<peer, early, contested>>
      BY <2>1, <2>3, HandlerGoes
    <2>4. CASE /\ Claimable(peer[p]) /\ peer[p].count < MaxScreens
               /\ peer' = [peer EXCEPT ![p].status = "running", ![p].count = @ + 1]
               /\ Goes(w, "screen")
               /\ early' = early \ {p}
               /\ contested' = IF InScreen(p) = {} THEN contested ELSE contested \cup {p}
      <3>1. peer[p] \in PeerRow
        BY <2>2
      <3>2. peer[p].count + 1 \in 0..MaxScreens
        BY <2>4, <3>1, ChatBounds DEF PeerRow
      <3>3. peer' \in [Peers -> PeerRow]
        BY <2>2, <2>4, <3>1, <3>2 DEF PeerRow
      <3>4. early' \subseteq Peers /\ contested' \subseteq Peers
        BY <2>2, <2>4
      <3> QED
        BY <2>1, <2>4, <3>3, <3>4, HandlerGoes
    <2> QED
      BY <1>8, <2>3, <2>4 DEF ClaimScreen
  <1>9. ASSUME NEW w \in Workers, SkipPrivate(w) \/ NoProvider(w) \/ Decide(w) \/ FailScreen(w)
        PROVE  ChatTypes'
    BY <1>9, EndScreenTypes DEF SkipPrivate, NoProvider, Decide, FailScreen, Screens
  <1>10. ASSUME NEW w \in Workers, Watch(w) PROVE ChatTypes'
    <2> DEFINE p == worker[w].key.of
    <2>1. /\ worker[w].pc = "screen" /\ Goes(w, "return")
          /\ peer' = [peer EXCEPT ![p] = [Finished(p, "watch") EXCEPT !.bucket = "known", !.by = "screen"]]
          /\ source' = [source EXCEPT ![p] = TRUE]
          /\ UNCHANGED <<bucket, topic, run, job, faults, early, contested>>
      BY <1>10 DEF Watch, Screens
    <2>2. p \in Peers
      BY <2>1, KeysNameTheirChat
    <2>3. [Finished(p, "watch") EXCEPT !.bucket = "known", !.by = "screen"] \in PeerRow
      <3>1. Finished(p, "watch") \in PeerRow
        BY <2>2, FinishedRow
      <3> QED
        BY <3>1 DEF PeerRow
    <2>4. peer' \in [Peers -> PeerRow] /\ source' \in [Peers -> BOOLEAN]
      BY <2>1, <2>2, <2>3
    <2> QED
      BY <2>1, <2>4, HandlerGoes
  <1>11. ASSUME NEW k \in Keys, LeaseExpires(k) PROVE ChatTypes'
    <2>1. job' \in [Keys -> JobRow]
      BY <1>11 DEF LeaseExpires, JobRow
    <2> QED
      BY <1>11, <2>1, WorkerStays DEF LeaseExpires
  <1>12. ASSUME NEW t \in Topics, ScheduleSearch(t) PROVE ChatTypes'
    <2>1. job' \in [Keys -> JobRow]
      BY <1>12, EnqueuedJobs DEF ScheduleSearch
    <2> QED
      BY <1>12, <2>1, WorkerStays DEF ScheduleSearch
  <1>13. ASSUME NEW p \in Peers, ScreenDue(p) PROVE ChatTypes'
    <2>1. peer' \in [Peers -> PeerRow]
      BY <1>13 DEF ScreenDue, PeerRow
    <2> QED
      BY <1>13, <2>1, WorkerStays DEF ScreenDue
  <1>14. ASSUME NEW p \in Peers, SourceAppears(p) PROVE ChatTypes'
    BY <1>14, WorkerStays DEF SourceAppears
  <1>15. ASSUME ScreenPending PROVE ChatTypes'
    <2>1. peer' \in [Peers -> PeerRow]
      BY <1>15, ReleasedRow DEF ScreenPending
    <2>2. job' \in [Keys -> JobRow]
      BY <1>15, EnqueuedJobs DEF ScreenPending
    <2>3. contested' \subseteq Peers /\ UNCHANGED <<bucket, topic, run, source, worker, faults, early>>
      BY <1>15 DEF ScreenPending
    <2> QED
      BY <2>1, <2>2, <2>3, WorkerStays
  <1>16. CASE NextBucket
    BY <1>16, WorkerStays, ChatBounds DEF NextBucket
  <1>17. CASE UNCHANGED chatVars
    BY <1>17, WorkerStays DEF chatVars
  <1> QED
    BY <1>1, <1>2, <1>3, <1>4, <1>5, <1>6, <1>7, <1>8, <1>9, <1>10, <1>11, <1>12,
       <1>13, <1>14, <1>15, <1>16, <1>17 DEF ChatNext

-----------------------------------------------------------------------------
(* A handler that was there before keeps its job, and is told of others.   *)
LEMMA HandlersKeepTheirJob ==
    ASSUME ChatTypes, [ChatNext]_chatVars, NEW v \in Workers, worker'[v].pc # "idle",
           \A k \in Keys : ~ClaimJob(v, k)
    PROVE  /\ worker[v].pc # "idle" /\ worker'[v].key = worker[v].key
           /\ worker[v].beside => worker'[v].beside
           /\ worker'[v].pc = "screen" => worker[v].pc = "screen" \/ ClaimScreen(v)
           /\ worker'[v].pc = "request" => worker[v].pc = "request" \/ StartSearch(v)
  <1> DEFINE Kept == /\ worker[v].pc # "idle" /\ worker'[v].key = worker[v].key
                     /\ worker[v].beside => worker'[v].beside
                     /\ worker'[v].pc = "screen" => worker[v].pc = "screen" \/ ClaimScreen(v)
                     /\ worker'[v].pc = "request" => worker[v].pc = "request" \/ StartSearch(v)
  <1>1. ASSUME NEW w \in Workers, NEW k \in Keys, ClaimJob(w, k) PROVE Kept
    BY <1>1, ClaimTypes
  <1>2. ASSUME NEW w \in Workers, worker' = [worker EXCEPT ![w] = Idle] PROVE Kept
    BY <1>2, HandlerEnds
  <1>3. ASSUME NEW w \in Workers, NEW pc \in {"request", "screen", "return", "raise", "released"},
               worker[w].pc # "idle", Goes(w, pc),
               pc = "screen" => ClaimScreen(w), pc = "request" => StartSearch(w)
        PROVE  Kept
    <2>1. worker \in [Workers -> Handler] /\ worker[w] \in Handler
      BY DEF ChatTypes, ChatTypeOK
    <2>2. v # w => worker'[v] = worker[v]
      BY <1>3, <2>1 DEF Goes
    <2>3. worker'[w] = [worker[w] EXCEPT !.pc = pc]
      BY <1>3, <2>1 DEF Goes
    <2> QED
      BY <1>3, <2>1, <2>2, <2>3 DEF Handler
  <1>4. CASE UNCHANGED worker
    BY <1>4
  <1>5. ASSUME NEW w \in Workers, SettleJob(w) \/ Dies(w) PROVE Kept
    BY <1>2, <1>5 DEF SettleJob, Dies
  <1>6. ASSUME NEW w \in Workers, Cancel(w) \/ FailSearch(w) PROVE Kept
    BY <1>3, <1>6 DEF Cancel, FailSearch
  <1>7. ASSUME NEW w \in Workers, StartSearch(w) PROVE Kept
    <2>1. /\ worker[w].pc = "begin" /\ worker[w].key.kind = "search"
          /\ Goes(w, "return") \/ Goes(w, "request")
      BY <1>7 DEF StartSearch
    <2> QED
      BY <1>3, <1>7, <2>1
  <1>8. ASSUME NEW w \in Workers, NEW met \in SUBSET Peers, NEW private \in SUBSET Peers,
               StoreSearch(w, met, private)
        PROVE  Kept
    BY <1>3, <1>8 DEF StoreSearch, ChatTypes, ChatTypeOK
  <1>9. ASSUME NEW w \in Workers, ClaimScreen(w) PROVE Kept
    <2>1. worker[w].pc = "begin" /\ (Goes(w, "return") \/ Goes(w, "screen"))
      BY <1>9 DEF ClaimScreen
    <2> QED
      BY <1>3, <1>9, <2>1
  <1>10. ASSUME NEW w \in Workers,
                SkipPrivate(w) \/ NoProvider(w) \/ Decide(w) \/ FailScreen(w) \/ Watch(w)
         PROVE  Kept
    <2>1. worker[w].pc = "screen" /\ (Goes(w, "return") \/ Goes(w, "raise"))
      BY <1>10 DEF SkipPrivate, NoProvider, Decide, FailScreen, Watch, Screens, EndScreen
    <2> QED
      BY <1>3, <2>1
  <1>11. ASSUME \/ \E k \in Keys : LeaseExpires(k)
                \/ \E t \in Topics : ScheduleSearch(t)
                \/ \E p \in Peers : ScreenDue(p) \/ SourceAppears(p)
                \/ ScreenPending \/ NextBucket \/ UNCHANGED chatVars
         PROVE  Kept
    BY <1>4, <1>11 DEF LeaseExpires, ScheduleSearch, ScreenDue, SourceAppears, ScreenPending,
                       NextBucket, chatVars
  <1> QED
    BY <1>1, <1>5, <1>6, <1>7, <1>8, <1>9, <1>10, <1>11 DEF ChatNext

(* A job stays in the table.                                               *)
LEMMA JobsStay ==
    ASSUME ChatTypes, [ChatNext]_chatVars, NEW k \in Keys, job[k].state # "absent"
    PROVE  job'[k].state # "absent"
  <1> USE DEF ChatTypes, ChatTypeOK
  <1>1. job \in [Keys -> JobRow]
    OBVIOUS
  <1>2. ASSUME NEW w \in Workers, NEW l \in Keys, ClaimJob(w, l) PROVE job'[k].state # "absent"
    BY <1>2, ClaimTypes
  <1>3. ASSUME NEW w \in Workers, SettleJob(w) PROVE job'[k].state # "absent"
    <2> DEFINE l == worker[w].key
               end == IF worker[w].pc = "return" THEN "completed"
                      ELSE IF job[l].tries < JobTries THEN "queued" ELSE "failed"
    <2>1. l \in Keys
      BY <1>3 DEF SettleJob
    <2>2. job' = IF Owns(w) THEN [job EXCEPT ![l].state = end] ELSE job
      BY <1>3 DEF SettleJob
    <2>3. end # "absent"
      OBVIOUS
    <2> HIDE DEF end
    <2> QED
      BY <1>1, <2>1, <2>2, <2>3 DEF JobRow
  <1>4. ASSUME NEW l \in Keys, LeaseExpires(l) PROVE job'[k].state # "absent"
    BY <1>1, <1>4 DEF LeaseExpires, JobRow
  <1>5. ASSUME NEW ks, job' = Enqueued(job, ks) PROVE job'[k].state # "absent"
    BY <1>1, <1>5, EnqueuedJobs
  <1>6. CASE UNCHANGED job
    BY <1>6
  <1>7. ASSUME NEW w \in Workers, Dies(w) \/ Cancel(w) \/ StartSearch(w) \/ FailSearch(w)
                                  \/ ClaimScreen(w) \/ SkipPrivate(w) \/ NoProvider(w)
                                  \/ Decide(w) \/ Watch(w) \/ FailScreen(w)
        PROVE  job'[k].state # "absent"
    BY <1>6, <1>7 DEF Dies, Cancel, StartSearch, FailSearch, ClaimScreen, SkipPrivate,
                      NoProvider, Decide, Watch, FailScreen, EndScreen
  <1>8. ASSUME NEW w \in Workers, NEW met \in SUBSET Peers, NEW private \in SUBSET Peers,
               StoreSearch(w, met, private)
        PROVE  job'[k].state # "absent"
    BY <1>5, <1>8 DEF StoreSearch
  <1>9. ASSUME (\E t \in Topics : ScheduleSearch(t)) \/ ScreenPending
        PROVE  job'[k].state # "absent"
    BY <1>5, <1>9 DEF ScheduleSearch, ScreenPending
  <1>10. ASSUME (\E p \in Peers : ScreenDue(p) \/ SourceAppears(p)) \/ NextBucket \/ UNCHANGED chatVars
         PROVE  job'[k].state # "absent"
    BY <1>6, <1>10 DEF ScreenDue, SourceAppears, NextBucket, chatVars
  <1> QED
    BY <1>2, <1>3, <1>4, <1>7, <1>8, <1>9, <1>10 DEF ChatNext

LEMMA SideBySideNext ==
    ChatTypes /\ SideBySide /\ HandlersHaveJobs /\ [ChatNext]_chatVars
    => SideBySide' /\ HandlersHaveJobs'
  <1> SUFFICES ASSUME ChatTypes, SideBySide, HandlersHaveJobs, [ChatNext]_chatVars
               PROVE  SideBySide' /\ HandlersHaveJobs'
    OBVIOUS
  <1>1. ChatTypes'
    BY TypesNext
  <1>2. \A v \in Workers : /\ worker[v].pc # "idle" => worker[v].key \in Keys
                           /\ worker[v].pc = "idle" => worker[v].key = NoKey
                           /\ worker'[v].pc # "idle" => worker'[v].key \in Keys
                           /\ worker'[v].pc = "idle" => worker'[v].key = NoKey
    BY <1>1 DEF ChatTypes, ChatTypeOK, IdleHasNoJob, Idle
  <1>3. ASSUME NEW v \in Workers, NEW w \in Workers, v # w,
               worker'[v].key = worker'[w].key, worker'[v].key # NoKey
        PROVE  worker'[v].beside /\ worker'[w].beside
    <2>1. worker'[v].pc # "idle" /\ worker'[w].pc # "idle"
      BY <1>2, <1>3
    <2>2. ASSUME NEW u \in Workers, NEW k \in Keys, ClaimJob(u, k)
          PROVE  worker'[v].beside /\ worker'[w].beside
      <3>1. NoKey \notin Keys
        BY KeysNameTheirChat
      <3>2. /\ worker'[u].key = k
            /\ worker'[u].beside <=> \E x \in Workers : worker[x].key = k
            /\ worker[u].key = NoKey
            /\ \A x \in Workers : x # u => /\ worker'[x].key = worker[x].key
                                           /\ worker'[x].beside <=> worker[x].beside \/ worker[x].key = k
        BY <2>2, ClaimTypes
      <3>3. CASE v = u
        BY <1>3, <3>2, <3>3
      <3>4. CASE w = u
        BY <1>3, <3>2, <3>4
      <3>5. CASE v # u /\ w # u
        BY <1>3, <3>2, <3>5 DEF SideBySide
      <3> QED
        BY <3>3, <3>4, <3>5
    <2>3. CASE \A k \in Keys : ~ClaimJob(v, k) /\ ~ClaimJob(w, k)
      <3>1. /\ worker'[v].key = worker[v].key /\ (worker[v].beside => worker'[v].beside)
            /\ worker'[w].key = worker[w].key /\ (worker[w].beside => worker'[w].beside)
        BY <2>1, <2>3, HandlersKeepTheirJob
      <3> QED
        BY <1>3, <3>1 DEF SideBySide
    <2> QED
      BY <2>2, <2>3
  <1>4. ASSUME NEW v \in Workers, worker'[v].pc # "idle"
        PROVE  job'[worker'[v].key].state # "absent"
    <2>1. CASE \E k \in Keys : ClaimJob(v, k)
      BY <2>1, ClaimTypes
    <2>2. CASE \A k \in Keys : ~ClaimJob(v, k)
      BY <1>2, <1>4, <2>2, HandlersKeepTheirJob, JobsStay DEF HandlersHaveJobs
    <2> QED
      BY <2>1, <2>2
  <1> QED
    BY <1>3, <1>4 DEF SideBySide, HandlersHaveJobs

-----------------------------------------------------------------------------
(* A run that is completed was not completed by a handler that still asks. *)
LEMMA CompletedSearchIsOverNext ==
    ChatTypes /\ SideBySide /\ CompletedSearchIsOver /\ [ChatNext]_chatVars => CompletedSearchIsOver'
  <1> SUFFICES ASSUME ChatTypes, SideBySide, CompletedSearchIsOver, [ChatNext]_chatVars,
                      NEW w \in Workers, worker'[w].pc = "request",
                      run'[worker'[w].key] = "completed"
               PROVE  worker'[w].beside
    BY DEF CompletedSearchIsOver
  <1> DEFINE k == worker[w].key
  <1>0. ~ \E l \in Keys : ClaimJob(w, l)
    BY ClaimTypes
  <1>1. /\ worker[w].pc # "idle" /\ worker'[w].key = k
        /\ worker[w].beside => worker'[w].beside
        /\ worker[w].pc = "request" \/ StartSearch(w)
    BY <1>0, HandlersKeepTheirJob
  <1>2. k \in Searches
    <2>1. k \in Keys /\ k.kind = "search"
      BY <1>1 DEF ChatTypes, ChatTypeOK, StartSearch
    <2> QED
      BY <2>1, KeysNameTheirChat
  <1>3. run \in [Searches -> RunStatus] /\ worker \in [Workers -> Handler]
    BY DEF ChatTypes, ChatTypeOK
  <1>4. ASSUME NEW v \in Workers, StartSearch(v) PROVE worker'[w].beside
    <2>1. /\ worker[v].pc = "begin" /\ worker[v].key \in Searches
          /\ run' = [run EXCEPT ![worker[v].key] = IF @ = "completed" THEN @ ELSE "running"]
          /\ Goes(v, IF run[worker[v].key] = "completed" THEN "return" ELSE "request")
      <3>1. worker[v].pc = "begin" /\ worker[v].key.kind = "search"
        BY <1>4 DEF StartSearch
      <3>2. worker[v].key \in Searches
        BY <3>1, KeysNameTheirChat DEF ChatTypes, ChatTypeOK
      <3> QED
        BY <1>4, <3>1, <3>2 DEF StartSearch
    <2>2. run[k] = "completed"
      BY <1>1, <1>2, <1>3, <2>1
    <2>3. v # w
      <3>1. CASE v = w
        <4>1. Goes(w, "return")
          BY <2>1, <2>2, <3>1
        <4>2. worker'[w].pc = "return"
          BY <4>1, <1>3 DEF Goes, Handler
        <4> QED
          BY <4>2
      <3> QED
        BY <3>1
    <2>4. worker'[w] = worker[w]
      BY <1>3, <2>1, <2>3 DEF Goes
    <2> QED
      BY <2>2, <2>4 DEF CompletedSearchIsOver
  <1>5. ASSUME NEW v \in Workers, NEW met \in SUBSET Peers, NEW private \in SUBSET Peers,
               StoreSearch(v, met, private)
        PROVE  worker'[w].beside
    <2>1. /\ worker[v].pc = "request" /\ Goes(v, "return")
          /\ run' = [run EXCEPT ![worker[v].key] = IF @ = "running" THEN "completed" ELSE @]
      BY <1>5 DEF StoreSearch, FinishSearch
    <2>2. v # w
      <3>1. CASE v = w
        BY <1>3, <2>1, <3>1 DEF Goes, Handler
      <3> QED
        BY <3>1
    <2>3. worker'[w] = worker[w]
      BY <1>3, <2>1, <2>2 DEF Goes
    <2>4. CASE worker[v].key = k
      <3>1. k # NoKey
        BY <1>2, KeysNameTheirChat
      <3> QED
        BY <2>2, <2>3, <2>4, <3>1 DEF SideBySide
    <2>5. CASE worker[v].key # k
      BY <1>1, <1>2, <1>3, <2>1, <2>3, <2>5 DEF CompletedSearchIsOver
    <2> QED
      BY <2>4, <2>5
  <1>6. ASSUME NEW v \in Workers, FailSearch(v) PROVE worker'[w].beside
    <2>1. /\ worker[v].pc = "request" /\ Goes(v, "raise")
          /\ run' = [run EXCEPT ![worker[v].key] = IF @ = "running" THEN "failed" ELSE @]
      BY <1>6 DEF FailSearch, FinishSearch
    <2>2. worker'[w] = worker[w]
      BY <1>3, <2>1 DEF Goes, Handler
    <2>3. run[k] = "completed"
      BY <1>1, <1>2, <1>3, <2>1
    <2> QED
      BY <2>2, <2>3 DEF CompletedSearchIsOver
  <1>7. CASE UNCHANGED run /\ ~StartSearch(w)
    BY <1>1, <1>7 DEF CompletedSearchIsOver
  <1>8. ASSUME NEW v \in Workers,
               \/ \E l \in Keys : ClaimJob(v, l)
               \/ SettleJob(v) \/ Dies(v) \/ Cancel(v) \/ ClaimScreen(v) \/ SkipPrivate(v)
               \/ NoProvider(v) \/ Decide(v) \/ Watch(v) \/ FailScreen(v)
        PROVE  UNCHANGED run
    BY <1>8 DEF ClaimJob, SettleJob, Dies, Cancel, ClaimScreen, SkipPrivate, NoProvider, Decide,
                Watch, FailScreen, EndScreen
  <1>9. ASSUME \/ \E l \in Keys : LeaseExpires(l)
               \/ \E t \in Topics : ScheduleSearch(t)
               \/ \E p \in Peers : ScreenDue(p) \/ SourceAppears(p)
               \/ ScreenPending \/ NextBucket \/ UNCHANGED chatVars
        PROVE  UNCHANGED run
    BY <1>9 DEF LeaseExpires, ScheduleSearch, ScreenDue, SourceAppears, ScreenPending,
                NextBucket, chatVars
  <1> QED
    BY <1>4, <1>5, <1>6, <1>7, <1>8, <1>9 DEF ChatNext

-----------------------------------------------------------------------------
(* A handler comes into a screen of a chat by claiming it.                 *)
LEMMA ScreensBeginByClaim ==
    ASSUME ChatTypes, [ChatNext]_chatVars, NEW p \in Peers, NEW w \in InScreen(p)'
    PROVE  w \in InScreen(p) \/ (ClaimScreen(w) /\ worker[w].key.of = p)
  <1>1. w \in Workers /\ worker'[w].pc = "screen" /\ worker'[w].key.of = p
    BY DEF InScreen
  <1>2. ~ \E k \in Keys : ClaimJob(w, k)
    BY <1>1, ClaimTypes
  <1> QED
    BY <1>1, <1>2, HandlersKeepTheirJob DEF InScreen

ContestedInv == ScreensAreAlone /\ WatchedAreKnown /\ WatchedUnlessContested

LEMMA ContestedNext == ChatTypes /\ ContestedInv /\ [ChatNext]_chatVars => ContestedInv'
  <1> SUFFICES ASSUME ChatTypes, ContestedInv, [ChatNext]_chatVars, NEW p \in Peers
               PROVE  /\ p \notin contested' =>
                           /\ \A v, w \in InScreen(p)' : v = w
                           /\ InScreen(p)' # {} => peer'[p].status = "running"
                      /\ peer'[p].by = "screen" => peer'[p].bucket = "known"
                      /\ peer'[p].by = "screen" => peer'[p].status = "watch" \/ p \in contested'
    BY DEF ContestedInv, ScreensAreAlone, WatchedAreKnown, WatchedUnlessContested
  <1> DEFINE Goal == /\ p \notin contested' =>
                           /\ \A v, w \in InScreen(p)' : v = w
                           /\ InScreen(p)' # {} => peer'[p].status = "running"
                     /\ peer'[p].by = "screen" => peer'[p].bucket = "known"
                     /\ peer'[p].by = "screen" => peer'[p].status = "watch" \/ p \in contested'
  <1>1. /\ p \notin contested => /\ \A v, w \in InScreen(p) : v = w
                                 /\ InScreen(p) # {} => peer[p].status = "running"
        /\ peer[p].by = "screen" => peer[p].bucket = "known"
        /\ peer[p].by = "screen" => peer[p].status = "watch" \/ p \in contested
    BY DEF ContestedInv, ScreensAreAlone, WatchedAreKnown, WatchedUnlessContested
  <1>2. /\ peer \in [Peers -> PeerRow] /\ peer[p] \in PeerRow
        /\ worker \in [Workers -> Handler]
    BY DEF ChatTypes, ChatTypeOK
  <1>3. ASSUME contested \subseteq contested',
               peer'[p].by = "screen" => peer[p].by = "screen",
               peer[p].bucket = "known" => peer'[p].bucket = "known",
               peer'[p].status = peer[p].status,
               ~ \E w \in Workers : ClaimScreen(w) /\ worker[w].key.of = p
        PROVE  Goal
    <2>1. InScreen(p)' \subseteq InScreen(p)
      BY <1>3, ScreensBeginByClaim DEF InScreen
    <2> QED
      BY <1>1, <1>3, <2>1
  <1>4. ASSUME UNCHANGED <<peer, contested>> PROVE Goal
    <2>1. CASE \E w \in Workers : ClaimScreen(w) /\ worker[w].key.of = p
      <3>1. PICK w \in Workers : ClaimScreen(w) /\ worker[w].key.of = p
        BY <2>1
      <3>2. Goes(w, "return")
        <4>1. CASE Goes(w, "screen") /\ peer' = [peer EXCEPT ![p].status = "running", ![p].count = @ + 1]
          <5>1. peer'[p].count = peer[p].count + 1 /\ peer[p].count \in Nat
            BY <1>2, <4>1 DEF PeerRow
          <5> QED
            BY <1>4, <5>1
        <4> QED
          BY <3>1, <4>1 DEF ClaimScreen
      <3>3. InScreen(p)' \subseteq InScreen(p)
        <4>1. \A v \in Workers : worker'[v].pc = "screen" => worker'[v] = worker[v]
          BY <1>2, <3>2 DEF Goes, Handler
        <4> QED
          BY <4>1 DEF InScreen
      <3> QED
        BY <1>1, <1>4, <3>3
    <2> QED
      BY <1>3, <1>4, <2>1
  <1>5. ASSUME NEW w \in Workers,
               \/ \E k \in Keys : ClaimJob(w, k)
               \/ SettleJob(w) \/ Dies(w) \/ StartSearch(w) \/ FailSearch(w)
        PROVE  Goal
    BY <1>4, <1>5 DEF ClaimJob, SettleJob, Dies, StartSearch, FailSearch
  <1>6. ASSUME \/ \E k \in Keys : LeaseExpires(k)
               \/ \E t \in Topics : ScheduleSearch(t)
               \/ \E q \in Peers : SourceAppears(q)
               \/ NextBucket \/ UNCHANGED chatVars
        PROVE  Goal
    BY <1>4, <1>6 DEF LeaseExpires, ScheduleSearch, SourceAppears, NextBucket, chatVars
  <1>7. ASSUME NEW w \in Workers, NEW met \in SUBSET Peers, NEW private \in SUBSET Peers,
               StoreSearch(w, met, private)
        PROVE  Goal
    <2>1. peer'[p] = IF p \in met THEN Upserted(p, p \in private) ELSE peer[p]
      BY <1>7 DEF StoreSearch
    <2>2. /\ Upserted(p, p \in private).by = "screen" => peer[p].by = "screen"
          /\ peer[p].bucket = "known" => Upserted(p, p \in private) = peer[p]
          /\ Upserted(p, p \in private).status = peer[p].status
      BY <1>2, UpsertedRow
    <2>3. /\ peer'[p].by = "screen" => peer[p].by = "screen"
          /\ peer[p].bucket = "known" => peer'[p].bucket = "known"
          /\ peer'[p].status = peer[p].status
      BY <2>1, <2>2
    <2>4. contested' = contested /\ worker[w].pc = "request" /\ Goes(w, "return")
      BY <1>7 DEF StoreSearch
    <2>5. InScreen(p)' \subseteq InScreen(p)
      <3>1. \A v \in Workers : worker'[v].pc = "screen" => worker'[v] = worker[v]
        BY <1>2, <2>4 DEF Goes, Handler
      <3> QED
        BY <3>1 DEF InScreen
    <2> QED
      BY <1>1, <2>3, <2>4, <2>5
  <1>8. ASSUME NEW q \in Peers, ScreenDue(q) PROVE Goal
    <2>1. /\ peer'[p].by = peer[p].by /\ peer'[p].bucket = peer[p].bucket
          /\ peer'[p].status = peer[p].status
      BY <1>2, <1>8 DEF ScreenDue, PeerRow
    <2>2. UNCHANGED <<worker, contested>>
      BY <1>8 DEF ScreenDue
    <2> QED
      BY <1>1, <2>1, <2>2 DEF InScreen
  <1>9. ASSUME ScreenPending PROVE Goal
    <2> DEFINE orphaned == {q \in Peers : /\ peer[q].status = "running"
                                          /\ job[ScreenKey(q, peer[q].count)].state # "running"}
    <2>1. /\ peer'[p] = IF p \in orphaned THEN Released(p) ELSE peer[p]
          /\ contested' = contested \cup {q \in orphaned : InScreen(q) # {}}
          /\ worker' = worker
      BY <1>9 DEF ScreenPending
    <2>2. InScreen(p)' = InScreen(p)
      BY <2>1 DEF InScreen
    <2>3. CASE p \in orphaned
      <3>1. /\ peer'[p].by = peer[p].by /\ peer'[p].bucket = peer[p].bucket
            /\ peer[p].status = "running"
        BY <1>2, <2>1, <2>3, ReleasedRow
      <3>2. InScreen(p) # {} => p \in contested'
        BY <2>1, <2>3
      <3> HIDE DEF orphaned
      <3> QED
        BY <1>1, <2>1, <2>2, <3>1, <3>2
    <2>4. CASE p \notin orphaned
      <3> HIDE DEF orphaned
      <3> QED
        BY <1>1, <2>1, <2>2, <2>4
    <2> QED
      BY <2>3, <2>4
  <1>10. ASSUME NEW w \in Workers, Cancel(w) PROVE Goal
    <2>1. Goes(w, "released") /\ worker[w].pc # "idle"
      BY <1>10 DEF Cancel
    <2>2. \A v \in Workers : worker'[v].pc = "screen" => v # w /\ worker'[v] = worker[v]
      BY <1>2, <2>1 DEF Goes, Handler
    <2>3. InScreen(p)' \subseteq InScreen(p) \ {w}
      BY <2>2 DEF InScreen
    <2>4. CASE worker[w].key.kind = "screen" /\ worker[w].key.of = p
      <3>1. /\ peer'[p] = Released(p)
            /\ contested' = IF InScreen(p) \subseteq {w} THEN contested ELSE contested \cup {p}
        BY <1>2, <1>10, <2>4 DEF Cancel
      <3>2. peer'[p].by = peer[p].by /\ peer'[p].bucket = peer[p].bucket
        BY <1>2, <3>1, ReleasedRow
      <3>3. peer[p].status = "watch" => peer'[p] = peer[p]
        BY <1>2, <3>1, ReleasedRow
      <3>4. p \notin contested' => InScreen(p)' = {}
        BY <2>3, <3>1
      <3>5. p \in contested => p \in contested'
        BY <3>1
      <3> QED
        BY <1>1, <3>2, <3>3, <3>4, <3>5
    <2>5. CASE ~(worker[w].key.kind = "screen" /\ worker[w].key.of = p)
      <3>1. peer'[p] = peer[p]
        BY <1>2, <1>10, <2>5 DEF Cancel
      <3>2. p \in contested' <=> p \in contested
        BY <1>10, <2>5 DEF Cancel
      <3> QED
        BY <1>1, <2>3, <3>1, <3>2
    <2> QED
      BY <2>4, <2>5
  <1>11. ASSUME NEW w \in Workers, worker[w].pc = "screen",
                NEW outcome \in {"watch", "skip", "unclear", "failed"}, NEW pc \in {"return", "raise"},
                EndScreen(w, outcome, pc)
         PROVE  Goal
    <2>1. Goes(w, pc) /\ contested' = contested
          /\ peer' = [peer EXCEPT ![worker[w].key.of] = Finished(worker[w].key.of, outcome)]
      BY <1>11 DEF EndScreen
    <2>2. \A v \in Workers : worker'[v].pc = "screen" => v # w /\ worker'[v] = worker[v]
      BY <1>2, <2>1 DEF Goes, Handler
    <2>3. InScreen(p)' \subseteq InScreen(p) \ {w}
      BY <2>2 DEF InScreen
    <2>4. CASE worker[w].key.of = p
      <3>1. peer'[p] = Finished(p, outcome)
        BY <1>2, <2>1, <2>4
      <3>2. /\ peer'[p].by = peer[p].by /\ peer'[p].bucket = peer[p].bucket
            /\ peer[p].status = "watch" => peer'[p] = peer[p]
        BY <1>2, <3>1, FinishedRow
      <3>3. w \in InScreen(p)
        BY <1>11, <2>4 DEF InScreen
      <3>4. p \notin contested => InScreen(p)' = {}
        BY <1>1, <2>3, <3>3
      <3> QED
        BY <1>1, <2>1, <3>2, <3>4
    <2>5. CASE worker[w].key.of # p
      BY <1>1, <1>2, <2>1, <2>3, <2>5
    <2> QED
      BY <2>4, <2>5
  <1>12. ASSUME NEW w \in Workers, SkipPrivate(w) \/ NoProvider(w) \/ Decide(w) \/ FailScreen(w)
         PROVE  Goal
    BY <1>11, <1>12 DEF SkipPrivate, NoProvider, Decide, FailScreen, Screens
  <1>13. ASSUME NEW w \in Workers, Watch(w) PROVE Goal
    <2> DEFINE q == worker[w].key.of
    <2>1. /\ worker[w].pc = "screen" /\ Goes(w, "return") /\ contested' = contested
          /\ peer' = [peer EXCEPT ![q] = [Finished(q, "watch") EXCEPT !.bucket = "known", !.by = "screen"]]
      BY <1>13 DEF Watch, Screens
    <2>2. \A v \in Workers : worker'[v].pc = "screen" => v # w /\ worker'[v] = worker[v]
      BY <1>2, <2>1 DEF Goes, Handler
    <2>3. InScreen(p)' \subseteq InScreen(p) \ {w}
      BY <2>2 DEF InScreen
    <2>4. CASE q = p
      <3>1. Finished(p, "watch") \in PeerRow
        BY <1>2, FinishedRow
      <3>2. /\ peer'[p].bucket = "known" /\ peer'[p].status = Finished(p, "watch").status
        BY <1>2, <2>1, <2>4, <3>1 DEF PeerRow
      <3>3. w \in InScreen(p)
        BY <2>1, <2>4 DEF InScreen
      <3>4. p \notin contested => InScreen(p)' = {} /\ peer[p].status = "running"
        BY <1>1, <2>3, <3>3
      <3>5. p \notin contested => peer'[p].status = "watch"
        BY <1>2, <3>2, <3>4, FinishedRow
      <3> QED
        BY <2>1, <3>2, <3>4, <3>5
    <2>5. CASE q # p
      BY <1>1, <1>2, <2>1, <2>3, <2>5
    <2> QED
      BY <2>4, <2>5
  <1>14. ASSUME NEW w \in Workers, ClaimScreen(w) PROVE Goal
    <2> DEFINE q == worker[w].key.of
    <2>1. CASE UNCHANGED <<peer, contested>>
      BY <1>4, <2>1
    <2>2. CASE /\ Claimable(peer[q])
               /\ peer' = [peer EXCEPT ![q].status = "running", ![q].count = @ + 1]
               /\ Goes(w, "screen")
               /\ contested' = IF InScreen(q) = {} THEN contested ELSE contested \cup {q}
      <3>1. \A v \in Workers : v # w => worker'[v] = worker[v]
        BY <1>2, <2>2 DEF Goes
      <3>2. worker'[w].key = worker[w].key
        BY <1>2, <2>2 DEF Goes, Handler
      <3>3. CASE q = p
        <4>1. /\ peer'[p].status = "running" /\ peer'[p].by = peer[p].by
              /\ peer'[p].bucket = peer[p].bucket
          BY <1>2, <2>2, <3>3 DEF PeerRow
        <4>2. peer[p].bucket = "new"
          BY <2>2, <3>3 DEF Claimable
        <4>3. peer[p].by # "screen"
          BY <1>1, <4>2
        <4>4. InScreen(p)' \subseteq InScreen(p) \cup {w}
          BY <3>1 DEF InScreen
        <4>5. p \notin contested' => InScreen(p) = {}
          BY <2>2, <3>3
        <4> QED
          BY <4>1, <4>3, <4>4, <4>5
      <3>4. CASE q # p
        <4>1. InScreen(p)' \subseteq InScreen(p)
          BY <3>1, <3>2, <3>4 DEF InScreen
        <4>2. peer'[p] = peer[p] /\ (p \in contested' <=> p \in contested)
          BY <1>2, <2>2, <3>4
        <4> QED
          BY <1>1, <4>1, <4>2
      <3> QED
        BY <3>3, <3>4
    <2> QED
      BY <1>14, <2>1, <2>2 DEF ClaimScreen
  <1> QED
    BY <1>5, <1>6, <1>7, <1>8, <1>9, <1>10, <1>12, <1>13, <1>14 DEF ChatNext

-----------------------------------------------------------------------------
ScreenInv == /\ WaitsAfterScreen /\ JobsFollowCount /\ ScreensAreCounted
             /\ NextIsUnclaimed /\ NextEndsEmpty

(* What the invariant says of one chat.                                    *)
ScreenInvOf(p) ==
    /\ peer[p].wait => peer[p].status \in {"unclear", "failed"}
    /\ \A n \in 1..MaxScreens : job[ScreenKey(p, n)].state # "absent" =>
          n <= peer[p].count + 1 /\ peer[p].bucket # "absent"
    /\ \A w \in Workers : worker[w].pc = "screen" /\ worker[w].key.of = p
                          => worker[w].key.n <= peer[p].count
    /\ peer[p].count < MaxScreens /\ job[NextScreen(p)].state # "absent" =>
          /\ peer[p].status # "running"
          /\ peer[p].wait => peer[p].bucket = "known" \/ p \in early
    /\ peer[p].count < MaxScreens /\ job[NextScreen(p)].state = "completed" => NothingToScreen(p)
    /\ peer[p].count < MaxScreens =>
          \A w \in Workers : worker[w].pc = "return" /\ worker[w].key = NextScreen(p)
                             => NothingToScreen(p)

LEMMA ScreenInvByChat == ChatTypes => (ScreenInv <=> \A p \in Peers : ScreenInvOf(p))
  <1> SUFFICES ASSUME ChatTypes PROVE ScreenInv <=> \A p \in Peers : ScreenInvOf(p)
    OBVIOUS
  <1>1. \A w \in Workers : worker[w].pc = "screen" => worker[w].key.of \in Peers
    BY KeysNameTheirChat DEF ChatTypes, ChatTypeOK
  <1>2. ASSUME ScreenInv, NEW p \in Peers PROVE ScreenInvOf(p)
    BY <1>2 DEF ScreenInv, ScreenInvOf, WaitsAfterScreen, JobsFollowCount, ScreensAreCounted,
                NextIsUnclaimed, NextEndsEmpty
  <1>3. ASSUME \A p \in Peers : ScreenInvOf(p) PROVE ScreenInv
    <2>1. WaitsAfterScreen /\ JobsFollowCount
      BY <1>3 DEF ScreenInvOf, WaitsAfterScreen, JobsFollowCount
    <2>2. ScreensAreCounted
      BY <1>1, <1>3 DEF ScreenInvOf, ScreensAreCounted
    <2>3. NextIsUnclaimed /\ NextEndsEmpty
      BY <1>3 DEF ScreenInvOf, NextIsUnclaimed, NextEndsEmpty
    <2> QED
      BY <2>1, <2>2, <2>3 DEF ScreenInv
  <1> QED
    BY <1>2, <1>3

(* No handler comes into a screen, and none returns but from one, or from  *)
(* a search.                                                               *)
NoScreenBegins ==
    \A w \in Workers :
        /\ worker'[w].pc = "screen" => worker'[w] = worker[w]
        /\ worker'[w].pc = "return" =>
             \/ worker[w].pc \in {"return", "screen"} /\ worker'[w].key = worker[w].key
             \/ worker'[w].key.kind = "search"

LEMMA GoesElsewhere ==
    ASSUME ChatTypes, NEW w \in Workers, NEW pc, Goes(w, pc), pc # "screen",
           pc = "return" => worker[w].pc = "screen" \/ worker[w].key.kind = "search"
    PROVE  NoScreenBegins
  <1>1. worker \in [Workers -> Handler]
    BY DEF ChatTypes, ChatTypeOK
  <1>2. worker'[w].pc = pc /\ worker'[w].key = worker[w].key
    BY <1>1 DEF Goes, Handler
  <1>3. \A v \in Workers : v # w => worker'[v] = worker[v]
    BY <1>1 DEF Goes
  <1> QED
    BY <1>2, <1>3 DEF NoScreenBegins

(* A step that neither claims the chat nor plans a screen of it, and       *)
(* leaves a row alone that is not in a screen.                             *)
LEMMA ScreenStays ==
    ASSUME ChatTypes, ChatTypes', HandlersHaveJobs, NEW p \in Peers, ScreenInvOf(p), NoScreenBegins,
           peer'[p].count = peer[p].count,
           peer[p].bucket = "known" => peer'[p].bucket = "known",
           peer[p].bucket # "absent" => peer'[p].bucket # "absent",
           p \in early => p \in early',
           peer'[p].wait => peer'[p].status \in {"unclear", "failed"},
           peer[p].status # "running" =>
              peer'[p].status = peer[p].status /\ (peer'[p].wait => peer[p].wait),
           \A n \in 1..MaxScreens :
              job'[ScreenKey(p, n)].state # "absent" => job[ScreenKey(p, n)].state # "absent",
           \A n \in 1..MaxScreens : job'[ScreenKey(p, n)].state = "completed" =>
              \/ job[ScreenKey(p, n)].state = "completed"
              \/ \E w \in Workers : worker[w].pc = "return" /\ worker[w].key = ScreenKey(p, n)
    PROVE  ScreenInvOf(p)'
  <1>1. peer[p] \in PeerRow /\ peer[p].count \in Nat
    BY ChatBounds DEF ChatTypes, ChatTypeOK, PeerRow
  <1>2. peer[p].count < MaxScreens =>
           peer[p].count + 1 \in 1..MaxScreens /\ NextScreen(p) = ScreenKey(p, peer[p].count + 1)
    BY <1>1, ChatBounds DEF NextScreen
  <1>3. NextScreen(p)' = NextScreen(p)
    BY DEF NextScreen, ScreenKey
  <1>4. NothingToScreen(p) => NothingToScreen(p)'
    BY <1>1 DEF NothingToScreen
  <1>5. ASSUME NEW w \in Workers, worker'[w].pc = "screen", worker'[w].key.of = p
        PROVE  worker'[w].key.n <= peer[p].count
    BY <1>5 DEF NoScreenBegins, ScreenInvOf
  <1>6. ASSUME peer[p].count < MaxScreens, NEW w \in Workers, worker'[w].pc = "return",
               worker'[w].key = NextScreen(p)
        PROVE  NothingToScreen(p)
    <2>1. "screen" # "search"
      OBVIOUS
    <2>2. /\ NextScreen(p).kind = "screen" /\ NextScreen(p).of = p
          /\ NextScreen(p).n = peer[p].count + 1
      BY ScreenKeysDiffer DEF NextScreen
    <2>3. worker[w].key = NextScreen(p) /\ worker[w].pc \in {"return", "screen"}
      BY <1>6, <2>1, <2>2 DEF NoScreenBegins
    <2>4. CASE worker[w].pc = "return"
      BY <1>6, <2>3, <2>4 DEF ScreenInvOf
    <2>5. CASE worker[w].pc = "screen"
      <3>1. worker[w].key.n <= peer[p].count
        BY <2>2, <2>3, <2>5 DEF ScreenInvOf
      <3> QED
        BY <1>1, <2>2, <2>3, <3>1
    <2> QED
      BY <2>3, <2>4, <2>5
  <1>7. peer[p].count < MaxScreens /\ job'[NextScreen(p)].state = "completed" => NothingToScreen(p)
    BY <1>2 DEF ScreenInvOf
  <1>8. ASSUME peer[p].count < MaxScreens, job'[NextScreen(p)].state # "absent"
        PROVE  /\ peer'[p].status # "running"
               /\ peer'[p].wait => peer'[p].bucket = "known" \/ p \in early'
    BY <1>2, <1>8 DEF ScreenInvOf
  <1>9. \A n \in 1..MaxScreens : job'[ScreenKey(p, n)].state # "absent" =>
           n <= peer'[p].count + 1 /\ peer'[p].bucket # "absent"
    BY DEF ScreenInvOf
  <1>10. \A n : ScreenKey(p, n)' = ScreenKey(p, n)
    BY DEF ScreenKey
  <1> QED
    BY <1>3, <1>4, <1>5, <1>6, <1>7, <1>8, <1>9, <1>10 DEF ScreenInvOf

(* A job that is planned: a search, or the next screen of a chat that is   *)
(* neither in a screen nor, if it waits, left out of the exception.        *)
LEMMA ScreenPlanned ==
    ASSUME ChatTypes, ChatTypes', HandlersHaveJobs, NEW p \in Peers, ScreenInvOf(p), NoScreenBegins,
           NEW todo \in SUBSET Peers, job' = Enqueued(job, {NextScreen(q) : q \in todo}),
           peer'[p].count = peer[p].count,
           peer[p].bucket = "known" => peer'[p].bucket = "known",
           peer[p].bucket # "absent" => peer'[p].bucket # "absent",
           p \in early => p \in early',
           peer'[p].wait => peer'[p].status \in {"unclear", "failed"},
           peer[p].status # "running" =>
              peer'[p].status = peer[p].status /\ (peer'[p].wait => peer[p].wait),
           p \in todo => /\ peer'[p].bucket # "absent" /\ peer'[p].status # "running"
                         /\ peer'[p].wait => p \in early'
    PROVE  ScreenInvOf(p)'
  <1>1. peer[p] \in PeerRow /\ peer[p].count \in Nat /\ job \in [Keys -> JobRow]
    BY ChatBounds DEF ChatTypes, ChatTypeOK, PeerRow
  <1>2. peer[p].count < MaxScreens =>
           peer[p].count + 1 \in 1..MaxScreens /\ NextScreen(p) = ScreenKey(p, peer[p].count + 1)
    BY <1>1, ChatBounds DEF NextScreen
  <1>3. NextScreen(p)' = NextScreen(p) /\ \A n : ScreenKey(p, n)' = ScreenKey(p, n)
    BY DEF NextScreen, ScreenKey
  <1>4. NothingToScreen(p) => NothingToScreen(p)'
    BY <1>1 DEF NothingToScreen
  <1>5. ASSUME NEW n \in 1..MaxScreens
        PROVE  /\ job'[ScreenKey(p, n)].state = "completed" <=> job[ScreenKey(p, n)].state = "completed"
               /\ job'[ScreenKey(p, n)].state # "absent" =>
                    \/ job[ScreenKey(p, n)].state # "absent"
                    \/ p \in todo /\ n = peer[p].count + 1
    <2>1. ScreenKey(p, n) \in Keys
      BY KeysNameTheirChat
    <2>2. ASSUME NEW q \in todo, ScreenKey(p, n) = NextScreen(q)
          PROVE  q = p /\ n = peer[p].count + 1
      BY <2>2, ScreenKeysDiffer DEF NextScreen
    <2> QED
      BY <1>1, <2>1, <2>2, EnqueuedJobs
  <1>6. /\ \A w \in Workers : worker'[w].pc = "screen" /\ worker'[w].key.of = p
                              => worker'[w].key.n <= peer[p].count
        /\ \A w \in Workers : /\ peer[p].count < MaxScreens
                              /\ worker'[w].pc = "return" /\ worker'[w].key = NextScreen(p)
                              => NothingToScreen(p)
    <2>1. \A w \in Workers : worker[w].pc = "screen" /\ worker[w].key.of = p =>
             worker[w].key.n <= peer[p].count
      BY DEF ScreenInvOf
    <2>2. /\ NextScreen(p).kind = "screen" /\ "screen" # "search"
          /\ NextScreen(p).of = p /\ NextScreen(p).n = peer[p].count + 1
      BY ScreenKeysDiffer DEF NextScreen
    <2>3. \A w \in Workers : worker[w].pc = "screen" => worker[w].key # NextScreen(p)
      BY <1>1, <2>1, <2>2
    <2> QED
      BY <2>1, <2>2, <2>3 DEF ScreenInvOf, NoScreenBegins
  <1>7. peer[p].count < MaxScreens /\ job'[NextScreen(p)].state = "completed" => NothingToScreen(p)
    BY <1>2, <1>5 DEF ScreenInvOf
  <1>8. ASSUME peer[p].count < MaxScreens, job'[NextScreen(p)].state # "absent"
        PROVE  /\ peer'[p].status # "running"
               /\ peer'[p].wait => peer'[p].bucket = "known" \/ p \in early'
    <2>1. CASE job[NextScreen(p)].state # "absent"
      BY <1>8, <2>1 DEF ScreenInvOf
    <2>2. CASE p \in todo
      BY <2>2
    <2> QED
      BY <1>2, <1>5, <1>8, <2>1, <2>2
  <1>9. \A n \in 1..MaxScreens : job'[ScreenKey(p, n)].state # "absent" =>
           n <= peer'[p].count + 1 /\ peer'[p].bucket # "absent"
    BY <1>1, <1>5 DEF ScreenInvOf
  <1> QED
    BY <1>3, <1>4, <1>6, <1>7, <1>8, <1>9 DEF ScreenInvOf

(* The claim of a chat, or the end of a job that finds nothing to claim.   *)
LEMMA ClaimKeepsScreens ==
    ASSUME ChatTypes, ChatTypes', HandlersHaveJobs, NEW p \in Peers, ScreenInvOf(p),
           NEW w \in Workers, ClaimScreen(w), worker[w].key.of = p
    PROVE  ScreenInvOf(p)'
  <1>1. /\ worker[w].pc = "begin" /\ worker[w].key.kind = "screen" /\ job' = job
        /\ worker[w].key \in Keys /\ worker[w] \in Handler
        /\ worker \in [Workers -> Handler] /\ peer \in [Peers -> PeerRow]
        /\ peer[p] \in PeerRow
    BY DEF ClaimScreen, ChatTypes, ChatTypeOK
  <1>2. /\ peer[p].count \in 0..MaxScreens /\ MaxScreens \in Nat
        /\ worker[w].key.n \in 1..MaxScreens /\ worker[w].key = ScreenKey(p, worker[w].key.n)
        /\ job[worker[w].key].state # "absent"
    BY <1>1, ChatBounds, KeysNameTheirChat DEF PeerRow, HandlersHaveJobs
  <1>3. worker[w].key.n <= peer[p].count + 1 /\ peer[p].bucket # "absent"
    BY <1>2 DEF ScreenInvOf
  <1>4. NextScreen(p).kind = "screen" /\ NextScreen(p).of = p /\ NextScreen(p).n = peer[p].count + 1
    BY ScreenKeysDiffer DEF NextScreen
  <1>5. \A n : ScreenKey(p, n)' = ScreenKey(p, n)
    BY DEF ScreenKey
  <1>6. CASE /\ ~Claimable(peer[p]) /\ Goes(w, "return") /\ UNCHANGED <<peer, early, contested>>
    <2>1. /\ \A v \in Workers : v # w => worker'[v] = worker[v]
          /\ worker'[w].pc = "return" /\ worker'[w].key = worker[w].key
      BY <1>1, <1>6 DEF Goes, Handler
    <2>2. NextScreen(p)' = NextScreen(p) /\ (NothingToScreen(p)' <=> NothingToScreen(p))
      BY <1>6 DEF NextScreen, ScreenKey, NothingToScreen
    <2>3. ASSUME peer[p].count < MaxScreens, worker[w].key = NextScreen(p)
          PROVE  NothingToScreen(p)
      <3>1. peer[p].wait => peer[p].bucket = "known" \/ p \in early
        BY <1>2, <2>3 DEF ScreenInvOf
      <3>2. \/ peer[p].bucket # "new" \/ peer[p].status \in {"watch", "skip"} \/ peer[p].wait
        BY <1>6 DEF Claimable
      <3>3. peer[p].bucket \in {"absent", "new", "known"}
        BY <1>1 DEF PeerRow
      <3> QED
        BY <1>3, <3>1, <3>2, <3>3 DEF NothingToScreen
    <2>4. \A v \in Workers : worker'[v].pc = "screen" => worker'[v] = worker[v]
      BY <2>1
    <2>5. \A v \in Workers : /\ peer[p].count < MaxScreens
                             /\ worker'[v].pc = "return" /\ worker'[v].key = NextScreen(p)
                             => NothingToScreen(p)
      BY <2>1, <2>3 DEF ScreenInvOf
    <2> QED
      BY <1>1, <1>5, <1>6, <2>2, <2>4, <2>5 DEF ScreenInvOf
  <1>7. CASE /\ Claimable(peer[p]) /\ peer[p].count < MaxScreens
             /\ peer' = [peer EXCEPT ![p].status = "running", ![p].count = @ + 1]
             /\ Goes(w, "screen")
             /\ early' = early \ {p}
    <2>1. /\ peer'[p].status = "running" /\ peer'[p].count = peer[p].count + 1
          /\ peer'[p].wait = peer[p].wait /\ peer'[p].bucket = peer[p].bucket
      BY <1>1, <1>7 DEF PeerRow
    <2>2. /\ \A v \in Workers : v # w => worker'[v] = worker[v]
          /\ worker'[w].pc = "screen" /\ worker'[w].key = worker[w].key
      BY <1>1, <1>7 DEF Goes, Handler
    <2>3. ~peer[p].wait
      BY <1>7 DEF Claimable, ScreenInvOf
    <2>4. \A v \in Workers : worker'[v].pc = "screen" /\ worker'[v].key.of = p
                             => worker'[v].key.n <= peer[p].count + 1
      <3>1. \A v \in Workers : worker[v].pc = "screen" /\ worker[v].key.of = p
                               => worker[v].key.n <= peer[p].count /\ worker[v].key.n \in Int
        <4>1. \A v \in Workers : worker[v].pc = "screen" => worker[v].key.n \in 1..MaxScreens
          BY KeysNameTheirChat DEF ChatTypes, ChatTypeOK
        <4> QED
          BY <4>1 DEF ScreenInvOf
      <3> QED
        BY <1>2, <1>3, <2>2, <3>1
    <2>5. NextScreen(p)' = ScreenKey(p, peer[p].count + 2)
      BY <1>2, <2>1 DEF NextScreen, ScreenKey
    <2>6. peer'[p].count < MaxScreens =>
             /\ peer[p].count + 2 \in 1..MaxScreens
             /\ job[ScreenKey(p, peer[p].count + 2)].state = "absent"
      BY <1>2, <2>1 DEF ScreenInvOf
    <2>7. \A v \in Workers : worker'[v].pc = "return" => /\ worker'[v] = worker[v]
                                                         /\ job[worker[v].key].state # "absent"
      BY <2>2 DEF HandlersHaveJobs
    <2>8. \A n \in 1..MaxScreens : job[ScreenKey(p, n)].state # "absent" => n <= peer[p].count + 2
      BY <1>2 DEF ScreenInvOf
    <2> QED
      BY <1>1, <1>3, <1>5, <2>1, <2>3, <2>4, <2>5, <2>6, <2>7, <2>8, <1>2 DEF ScreenInvOf
  <1> QED
    BY <1>6, <1>7 DEF ClaimScreen

LEMMA ScreenInvByChatNext == (ChatTypes => (ScreenInv <=> \A p \in Peers : ScreenInvOf(p)))'
  BY ScreenInvByChat, PTL

LEMMA ScreensNext ==
    ChatTypes /\ HandlersHaveJobs /\ ScreenInv /\ [ChatNext]_chatVars => ScreenInv'
  <1> SUFFICES ASSUME ChatTypes, HandlersHaveJobs, ScreenInv, [ChatNext]_chatVars, ChatTypes',
                      NEW p \in Peers
               PROVE  ScreenInvOf(p)'
    <2>1. ChatTypes /\ [ChatNext]_chatVars => ChatTypes'
      BY TypesNext
    <2> QED
      BY <2>1, ScreenInvByChatNext
  <1>1. ScreenInvOf(p)
    BY ScreenInvByChat
  <1>2. /\ peer \in [Peers -> PeerRow] /\ peer[p] \in PeerRow
        /\ worker \in [Workers -> Handler] /\ job \in [Keys -> JobRow]
    BY DEF ChatTypes, ChatTypeOK
  <1>3. peer[p].wait => peer[p].status \in {"unclear", "failed"}
    BY <1>1 DEF ScreenInvOf
  <1>4. \A n \in 1..MaxScreens : ScreenKey(p, n) \in Keys
    BY KeysNameTheirChat
  <1>5. ASSUME UNCHANGED <<peer, early, job>>, NoScreenBegins PROVE ScreenInvOf(p)'
    BY <1>1, <1>3, <1>5, ScreenStays
  <1>6. ASSUME NEW w \in Workers, NEW k \in Keys, ClaimJob(w, k) PROVE ScreenInvOf(p)'
    <2>1. UNCHANGED <<peer, early>>
      BY <1>6 DEF ClaimJob
    <2>2. /\ job[k].state \in {"queued", "running"}
          /\ \A l \in Keys : job'[l].state = IF l = k THEN "running" ELSE job[l].state
      BY <1>6, ClaimTypes
    <2>3. \A v \in Workers : worker'[v].pc \in {"screen", "return"} =>
             worker'[v].pc = worker[v].pc /\ worker'[v].key = worker[v].key
      BY <1>6, ClaimTypes
    <2>4. \A v \in Workers : worker'[v].pc = "screen" /\ worker'[v].key.of = p
                             => worker'[v].key.n <= peer[p].count
      BY <1>1, <2>3 DEF ScreenInvOf
    <2>5. NextScreen(p)' = NextScreen(p) /\ (NothingToScreen(p)' <=> NothingToScreen(p))
          /\ \A n : ScreenKey(p, n)' = ScreenKey(p, n)
      BY <2>1 DEF NextScreen, ScreenKey, NothingToScreen
    <2>6. peer[p].count < MaxScreens => NextScreen(p) \in Keys
      BY <1>2, KeysNameTheirChat, ChatBounds DEF NextScreen, PeerRow
    <2>7. peer[p].count < MaxScreens =>
             \A v \in Workers : worker'[v].pc = "return" /\ worker'[v].key = NextScreen(p)
                                => NothingToScreen(p)
      BY <1>1, <2>3 DEF ScreenInvOf
    <2> QED
      BY <1>1, <1>4, <2>1, <2>2, <2>4, <2>5, <2>6, <2>7 DEF ScreenInvOf
  <1>7. ASSUME NEW w \in Workers, worker' = [worker EXCEPT ![w] = Idle] PROVE NoScreenBegins
    BY <1>2, <1>7, HandlerEnds DEF NoScreenBegins
  <1>8. ASSUME NEW w \in Workers, SettleJob(w) PROVE ScreenInvOf(p)'
    <2> DEFINE k == worker[w].key
               end == IF worker[w].pc = "return" THEN "completed"
                      ELSE IF job[k].tries < JobTries THEN "queued" ELSE "failed"
    <2>1. /\ worker[w].pc \in {"return", "raise", "released"} /\ k \in Keys
          /\ job' = IF Owns(w) THEN [job EXCEPT ![k].state = end] ELSE job
          /\ UNCHANGED <<peer, early>> /\ worker' = [worker EXCEPT ![w] = Idle]
      <3>1. worker[w].pc # "idle"
        BY <1>8 DEF SettleJob
      <3> QED
        BY <1>8, <3>1 DEF SettleJob, ChatTypes, ChatTypeOK
    <2>2. end = "completed" => worker[w].pc = "return"
      OBVIOUS
    <2>3. job[k].state # "absent"
      BY <2>1 DEF HandlersHaveJobs
    <2> HIDE DEF end
    <2>4. \A l \in Keys : /\ job'[l].state # "absent" => job[l].state # "absent"
                          /\ job'[l].state = "completed" =>
                               \/ job[l].state = "completed"
                               \/ worker[w].pc = "return" /\ k = l
      BY <1>2, <2>1, <2>2, <2>3 DEF JobRow
    <2> QED
      BY <1>1, <1>3, <1>4, <1>7, <2>1, <2>4, ScreenStays
  <1>9. ASSUME NEW w \in Workers, Dies(w) PROVE ScreenInvOf(p)'
    BY <1>5, <1>7, <1>9 DEF Dies
  <1>10. ASSUME NEW w \in Workers, Cancel(w) PROVE ScreenInvOf(p)'
    <2>1. NoScreenBegins /\ early' = early /\ job' = job
      BY <1>10, GoesElsewhere DEF Cancel
    <2>2. peer'[p] = peer[p] \/ peer'[p] = Released(p)
      BY <1>2, <1>10 DEF Cancel
    <2>3. /\ peer'[p].count = peer[p].count /\ peer'[p].bucket = peer[p].bucket
          /\ peer[p].status # "running" => peer'[p] = peer[p]
          /\ peer[p].status = "running" => peer'[p] = peer[p] \/ ~peer'[p].wait
      BY <1>2, <2>2, ReleasedRow
    <2> QED
      BY <1>1, <1>3, <2>1, <2>3, ScreenStays
  <1>11. ASSUME NEW w \in Workers, StartSearch(w) PROVE ScreenInvOf(p)'
    <2>1. NoScreenBegins /\ UNCHANGED <<peer, early, job>>
      <3>1. worker[w].key.kind = "search" /\ (Goes(w, "return") \/ Goes(w, "request"))
        BY <1>11 DEF StartSearch
      <3> QED
        BY <1>11, <3>1, GoesElsewhere DEF StartSearch
    <2> QED
      BY <1>5, <2>1
  <1>12. ASSUME NEW w \in Workers, FailSearch(w) PROVE ScreenInvOf(p)'
    BY <1>5, <1>12, GoesElsewhere DEF FailSearch
  <1>13. ASSUME NEW w \in Workers, NEW met \in SUBSET Peers, NEW private \in SUBSET Peers,
                StoreSearch(w, met, private)
         PROVE  ScreenInvOf(p)'
    <2> DEFINE new == [q \in Peers |-> IF q \in met THEN Upserted(q, q \in private) ELSE peer[q]]
               todo == {q \in met : Screenable(new[q])}
    <2>1. /\ worker[w].pc = "request" /\ Goes(w, "return") /\ peer' = new
          /\ job' = Enqueued(job, {NextScreen(q) : q \in todo})
          /\ early' = early \cup {q \in todo : new[q].status # "pending" /\ new[q].wait}
      BY <1>13 DEF StoreSearch
    <2>2. NoScreenBegins
      BY <2>1, GoesElsewhere DEF ChatTypes, ChatTypeOK
    <2>3. new[p] = IF p \in met THEN Upserted(p, p \in private) ELSE peer[p]
      OBVIOUS
    <2>4. p \in todo => p \in met /\ Screenable(new[p])
      OBVIOUS
    <2>5. p \in todo /\ new[p].status # "pending" /\ new[p].wait => p \in early'
      BY <2>1
    <2>6. todo \in SUBSET Peers
      OBVIOUS
    <2> HIDE DEF new, todo
    <2>7. /\ Upserted(p, p \in private).bucket # "absent"
          /\ peer[p].bucket = "known" => Upserted(p, p \in private) = peer[p]
          /\ Upserted(p, p \in private).count = peer[p].count
          /\ Upserted(p, p \in private).status = peer[p].status
          /\ Upserted(p, p \in private).wait = peer[p].wait
      BY <1>2, UpsertedRow
    <2>8. /\ peer'[p].count = peer[p].count /\ peer'[p].status = peer[p].status
          /\ peer'[p].wait = peer[p].wait
          /\ peer[p].bucket = "known" => peer'[p].bucket = "known"
          /\ peer[p].bucket # "absent" => peer'[p].bucket # "absent"
      BY <2>1, <2>3, <2>7
    <2>9. p \in todo => /\ peer'[p].bucket # "absent" /\ peer'[p].status # "running"
                        /\ peer'[p].wait => p \in early'
      BY <1>3, <2>1, <2>4, <2>5, <2>8 DEF Screenable
    <2>10. p \in early => p \in early'
      BY <2>1
    <2> QED
      BY <1>1, <1>3, <2>1, <2>2, <2>6, <2>8, <2>9, <2>10, ScreenPlanned
  <1>14. ASSUME NEW w \in Workers, ClaimScreen(w) PROVE ScreenInvOf(p)'
    <2>1. CASE worker[w].key.of = p
      BY <1>1, <1>14, <2>1, ClaimKeepsScreens
    <2>2. CASE worker[w].key.of # p
      <3>1. worker[w].pc = "begin" /\ job' = job
        BY <1>14 DEF ClaimScreen
      <3>2. \/ Goes(w, "return") /\ UNCHANGED <<peer, early>>
            \/ /\ Goes(w, "screen") /\ early' = early \ {worker[w].key.of}
               /\ peer' = [peer EXCEPT ![worker[w].key.of].status = "running",
                                       ![worker[w].key.of].count = @ + 1]
        BY <1>14 DEF ClaimScreen
      <3>3. peer'[p] = peer[p] /\ (p \in early <=> p \in early')
        BY <1>2, <2>2, <3>2
      <3>4. /\ \A v \in Workers : v # w => worker'[v] = worker[v]
            /\ worker'[w].key = worker[w].key
        BY <1>2, <3>2 DEF Goes, Handler
      <3>5. NextScreen(p)' = NextScreen(p) /\ (NothingToScreen(p)' <=> NothingToScreen(p))
            /\ \A n : ScreenKey(p, n)' = ScreenKey(p, n)
        BY <3>3 DEF NextScreen, ScreenKey, NothingToScreen
      <3>6. NextScreen(p).of = p
        BY ScreenKeysDiffer DEF NextScreen
      <3>7. \A v \in Workers :
              /\ worker'[v].key.of = p => worker'[v] = worker[v]
              /\ worker'[v].key = NextScreen(p) => worker'[v] = worker[v]
        BY <2>2, <3>4, <3>6
      <3> QED
        BY <1>1, <3>1, <3>3, <3>5, <3>7 DEF ScreenInvOf
    <2> QED
      BY <2>1, <2>2
  <1>15. ASSUME NEW w \in Workers, worker[w].pc = "screen",
                NEW outcome \in {"watch", "skip", "unclear", "failed"}, NEW pc \in {"return", "raise"},
                EndScreen(w, outcome, pc)
         PROVE  ScreenInvOf(p)'
    <2>1. NoScreenBegins /\ early' = early /\ job' = job
      BY <1>15, GoesElsewhere DEF EndScreen
    <2>2. peer'[p] = peer[p] \/ peer'[p] = Finished(p, outcome)
      BY <1>2, <1>15 DEF EndScreen
    <2>3. /\ peer'[p].count = peer[p].count /\ peer'[p].bucket = peer[p].bucket
          /\ peer[p].status # "running" => peer'[p] = peer[p]
          /\ peer[p].status = "running" =>
               peer'[p] = peer[p] \/ (peer'[p].wait => peer'[p].status \in {"unclear", "failed"})
      BY <1>2, <2>2, FinishedRow
    <2> QED
      BY <1>1, <1>3, <2>1, <2>3, ScreenStays
  <1>16. ASSUME NEW w \in Workers, SkipPrivate(w) \/ NoProvider(w) \/ Decide(w) \/ FailScreen(w)
         PROVE  ScreenInvOf(p)'
    BY <1>15, <1>16 DEF SkipPrivate, NoProvider, Decide, FailScreen, Screens
  <1>17. ASSUME NEW w \in Workers, Watch(w) PROVE ScreenInvOf(p)'
    <2> DEFINE q == worker[w].key.of
    <2>1. /\ worker[w].pc = "screen" /\ Goes(w, "return") /\ UNCHANGED <<early, job>>
          /\ peer' = [peer EXCEPT ![q] = [Finished(q, "watch") EXCEPT !.bucket = "known", !.by = "screen"]]
      BY <1>17 DEF Watch, Screens
    <2>2. NoScreenBegins
      BY <2>1, GoesElsewhere
    <2>3. \/ peer'[p] = peer[p]
          \/ peer'[p] = [Finished(p, "watch") EXCEPT !.bucket = "known", !.by = "screen"]
      BY <1>2, <2>1
    <2>4. CASE peer'[p] = peer[p]
      BY <1>1, <1>3, <2>1, <2>2, <2>4, ScreenStays
    <2>5. CASE peer'[p] = [Finished(p, "watch") EXCEPT !.bucket = "known", !.by = "screen"]
      <3>1. /\ Finished(p, "watch") \in PeerRow /\ Finished(p, "watch").count = peer[p].count
            /\ peer[p].status # "running" => Finished(p, "watch") = peer[p]
            /\ peer[p].status = "running" => ~Finished(p, "watch").wait
        BY <1>2, FinishedRow
      <3>2. /\ peer'[p].count = peer[p].count /\ peer'[p].bucket = "known"
            /\ peer'[p].status = Finished(p, "watch").status
            /\ peer'[p].wait = Finished(p, "watch").wait
        BY <2>5, <3>1 DEF PeerRow
      <3>3. "known" # "absent"
        OBVIOUS
      <3>4. /\ peer[p].status # "running" =>
                 peer'[p].status = peer[p].status /\ peer'[p].wait = peer[p].wait
            /\ peer'[p].wait => peer'[p].status \in {"unclear", "failed"}
        BY <1>3, <3>1, <3>2
      <3> QED
        BY <1>1, <2>1, <2>2, <3>2, <3>3, <3>4, ScreenStays
    <2> QED
      BY <2>3, <2>4, <2>5
  <1>18. ASSUME NEW k \in Keys, LeaseExpires(k) PROVE ScreenInvOf(p)'
    <2>1. /\ UNCHANGED <<peer, early, worker>> /\ job[k].state = "running"
          /\ job' = [job EXCEPT ![k].state = "failed"]
      BY <1>18 DEF LeaseExpires
    <2>2. \A l \in Keys : /\ job'[l].state # "absent" => job[l].state # "absent"
                          /\ job'[l].state = "completed" => job[l].state = "completed"
      BY <1>2, <2>1 DEF JobRow
    <2> QED
      BY <1>1, <1>3, <1>4, <2>1, <2>2, ScreenStays DEF NoScreenBegins
  <1>19. ASSUME NEW t \in Topics, ScheduleSearch(t) PROVE ScreenInvOf(p)'
    <2>1. UNCHANGED <<peer, early, worker>> /\ job' = Enqueued(job, {SearchKey(t, bucket)})
      BY <1>19 DEF ScheduleSearch
    <2>2. \A n : ScreenKey(p, n) # SearchKey(t, bucket)
      <3>1. "screen" # "search" /\ SearchKey(t, bucket).kind = "search"
        BY DEF SearchKey
      <3> QED
        BY <3>1, ScreenKeysDiffer
    <2>3. \A n \in 1..MaxScreens :
             /\ job'[ScreenKey(p, n)].state # "absent" => job[ScreenKey(p, n)].state # "absent"
             /\ job'[ScreenKey(p, n)].state = "completed" => job[ScreenKey(p, n)].state = "completed"
      BY <1>2, <1>4, <2>1, <2>2, EnqueuedJobs
    <2> QED
      BY <1>1, <1>3, <2>1, <2>3, ScreenStays DEF NoScreenBegins
  <1>20. ASSUME NEW q \in Peers, ScreenDue(q) PROVE ScreenInvOf(p)'
    <2>1. UNCHANGED <<early, job, worker>> /\ peer' = [peer EXCEPT ![q].wait = FALSE]
      BY <1>20 DEF ScreenDue
    <2>2. /\ peer'[p].count = peer[p].count /\ peer'[p].bucket = peer[p].bucket
          /\ peer'[p].status = peer[p].status /\ (peer'[p].wait => peer[p].wait)
      BY <1>2, <2>1 DEF PeerRow
    <2> QED
      BY <1>1, <1>3, <2>1, <2>2, ScreenStays DEF NoScreenBegins
  <1>21. ASSUME ScreenPending PROVE ScreenInvOf(p)'
    <2> DEFINE orphaned == {q \in Peers : /\ peer[q].status = "running"
                                          /\ job[ScreenKey(q, peer[q].count)].state # "running"}
               new == [q \in Peers |-> IF q \in orphaned THEN Released(q) ELSE peer[q]]
               ready == {q \in Peers : /\ Screenable(new[q])
                                       /\ new[q].status = "pending" \/ ~new[q].wait}
    <2>1. /\ peer' = new /\ job' = Enqueued(job, {NextScreen(q) : q \in ready})
          /\ UNCHANGED <<worker, early>>
      BY <1>21 DEF ScreenPending
    <2>2. new[p] = peer[p] \/ new[p] = Released(p)
      OBVIOUS
    <2>3. p \in ready => Screenable(new[p]) /\ (new[p].status = "pending" \/ ~new[p].wait)
      OBVIOUS
    <2>4. ready \in SUBSET Peers
      OBVIOUS
    <2> HIDE DEF orphaned, new, ready
    <2>5. /\ peer'[p].count = peer[p].count /\ peer'[p].bucket = peer[p].bucket
          /\ peer[p].status # "running" => peer'[p] = peer[p]
          /\ peer'[p].wait => peer'[p].status \in {"unclear", "failed"}
      BY <1>2, <1>3, <2>1, <2>2, ReleasedRow
    <2>6. p \in ready => /\ peer'[p].bucket # "absent" /\ peer'[p].status # "running"
                         /\ peer'[p].wait => p \in early'
      BY <2>1, <2>3, <2>5 DEF Screenable
    <2>7. NoScreenBegins
      BY <2>1 DEF NoScreenBegins
    <2> QED
      BY <1>1, <2>1, <2>4, <2>5, <2>6, <2>7, ScreenPlanned
  <1>22. ASSUME \/ \E q \in Peers : SourceAppears(q)
                \/ NextBucket \/ UNCHANGED chatVars
         PROVE  ScreenInvOf(p)'
    BY <1>5, <1>22 DEF SourceAppears, NextBucket, chatVars, NoScreenBegins
  <1> QED
    BY <1>6, <1>8, <1>9, <1>10, <1>11, <1>12, <1>13, <1>14, <1>16, <1>17, <1>18, <1>19,
       <1>20, <1>21, <1>22 DEF ChatNext

-----------------------------------------------------------------------------
ChatInv == ChatTypes /\ SideBySide /\ HandlersHaveJobs /\ CompletedSearchIsOver
           /\ ContestedInv /\ ScreenInv

LEMMA InitChat == ChatInit => ChatInv
  <1> SUFFICES ASSUME ChatInit PROVE ChatInv
    OBVIOUS
  <1>1. ChatTypes
    BY InitTypes
  <1>2. /\ \A w \in Workers : /\ worker[w].pc = "idle" /\ worker[w].key = NoKey
        /\ \A p \in Peers : /\ peer[p].by = "none" /\ ~peer[p].wait /\ peer[p].status = "pending"
                            /\ peer[p].count = 0
        /\ \A k \in Keys : job[k].state = "absent"
    BY DEF ChatInit, Idle
  <1>3. SideBySide /\ HandlersHaveJobs /\ CompletedSearchIsOver
    BY <1>2 DEF SideBySide, HandlersHaveJobs, CompletedSearchIsOver
  <1>4. ContestedInv
    BY <1>2 DEF ContestedInv, ScreensAreAlone, WatchedAreKnown, WatchedUnlessContested, InScreen
  <1>5. ASSUME NEW p \in Peers PROVE ScreenInvOf(p)
    <2>1. \A n \in 1..MaxScreens : ScreenKey(p, n) \in Keys
      BY KeysNameTheirChat
    <2>2. NextScreen(p) = ScreenKey(p, 1) /\ 1 \in 1..MaxScreens
      BY <1>2, ChatBounds DEF NextScreen
    <2> QED
      BY <1>2, <2>1, <2>2 DEF ScreenInvOf
  <1>6. ScreenInv
    BY <1>1, <1>5, ScreenInvByChat
  <1> QED
    BY <1>1, <1>3, <1>4, <1>6 DEF ChatInv

LEMMA ChatInvAlways == ChatSpec => []ChatInv
  <1>1. ChatInv /\ [ChatNext]_chatVars => ChatInv'
    BY TypesNext, SideBySideNext, CompletedSearchIsOverNext, ContestedNext, ScreensNext
       DEF ChatInv
  <1> QED
    BY <1>1, InitChat, PTL DEF ChatSpec

(* The rows of topics, searches, chats and jobs are those the tables       *)
(* allow, and a handler is in a step of the kind of its job                *)
(* (telegram_chat_discovery.py).                                           *)
THEOREM ChatTypeCorrect == ChatSpec => []ChatTypeOK
  BY ChatInvAlways, PTL DEF ChatInv, ChatTypes

(* A chat that screening made a source ends as watched, for any chats and  *)
(* processes, unless two screens of it ran at once or the claim of one was *)
(* withdrawn under it (finish_screen looks at the state, not the attempt). *)
THEOREM WatchedAlwaysUnlessContested == ChatSpec => []WatchedUnlessContested
  BY ChatInvAlways, PTL DEF ChatInv, ContestedInv

(* The next screen of a chat is never used up before the chat can be       *)
(* claimed, unless a search met it while it waited for its retry: whoever  *)
(* claims a chat counts on, and only a search plans a screen too early     *)
(* (claim_screen, enqueue_screen_job).                                     *)
THEOREM NextScreenIsAlwaysLeft == ChatSpec => []NextScreenIsLeft
  <1>1. ChatInv => NextScreenIsLeft
    BY DEF ChatInv, ScreenInv, NextEndsEmpty, NextScreenIsLeft, Screenable, NothingToScreen
  <1> QED
    BY <1>1, ChatInvAlways, PTL

(* Telegram is not asked again for a search that is completed, unless two  *)
(* handlers of the search ran side by side (start_search, finish_search).  *)
THEOREM CompletedSearchIsAlwaysOver == ChatSpec => []CompletedSearchIsOver
  BY ChatInvAlways, PTL DEF ChatInv
-----------------------------------------------------------------------------
(* The search on the Web: a backend that is refused                        *)

(* What a governor knows of a backend, and what a search may answer.       *)
Health == [state : States, successes : Nat, http_403 : Nat, http_429 : Nat, captcha : Nat,
           failures : Nat, category : STRING \cup {None}, failedAt : Nat \cup {None},
           until : Nat \cup {None}, succeededAt : Nat \cup {None}]

(* A time to wait until is named only while a backend backs off or has     *)
(* failed for good.                                                        *)
WaitsWhenRefused(h) == h.until # None => h.state \in {"BACKOFF", "UNAVAILABLE"}

LEMMA FreshHealth ==
  Fresh \in Health /\ WaitsWhenRefused(Fresh)
BY DEF Fresh, Health, States, WaitsWhenRefused

(* Whatever happens to a backend, it waits only when it is refused.        *)
LEMMA HealthStaysRefusedOrIdle ==
  ASSUME NEW h \in Health, WaitsWhenRefused(h), NEW now
  PROVE  /\ WaitsWhenRefused(Cooled(h, now)) /\ WaitsWhenRefused(Restored(h, now))
         /\ WaitsWhenRefused(AfterSuccess(h, now))
         /\ \A error : WaitsWhenRefused(AfterFailure(h, error, now))
<1>1. WaitsWhenRefused(Cooled(h, now))
  BY DEF Cooled, WaitsWhenRefused, Health
<1>2. WaitsWhenRefused(Restored(h, now))
  <2>1. PICK state : state = IF h.state = "BACKOFF" /\ h.until # None /\ h.until <= now
                             THEN "DEGRADED" ELSE h.state
    OBVIOUS
  <2>2. PICK until : until = IF state = "BACKOFF" THEN h.until ELSE None
    OBVIOUS
  <2>3. Restored(h, now) = [h EXCEPT !.state = state, !.until = until]
    BY <2>1, <2>2 DEF Restored
  <2> QED
    BY <2>2, <2>3 DEF WaitsWhenRefused, Health
<1>3. WaitsWhenRefused(AfterSuccess(h, now))
  BY DEF AfterSuccess, WaitsWhenRefused, Health
<1>4. ASSUME NEW error PROVE AfterFailure(h, error, now).state \in {"BACKOFF", "UNAVAILABLE"}
  BY DEF AfterFailure, Health
<1> QED
  BY <1>1, <1>2, <1>3, <1>4 DEF WaitsWhenRefused

(* A restart at any time refuses a backend for the reason it was refused   *)
(* for before, and as long.                                                *)
THEOREM RestartsRefuseTheSame ==
  ASSUME NEW h \in Health, WaitsWhenRefused(h), NEW then \in Nat, NEW now \in Nat, then <= now
  PROVE  Refusal(Restored(h, then), now) = Refusal(h, now)
<1>1. PICK state : state = IF h.state = "BACKOFF" /\ h.until # None /\ h.until <= then
                           THEN "DEGRADED" ELSE h.state
  OBVIOUS
<1>2. PICK until : until = IF state = "BACKOFF" THEN h.until ELSE None
  OBVIOUS
<1>3. Restored(h, then) = [h EXCEPT !.state = state, !.until = until]
  BY <1>1, <1>2 DEF Restored
<1>4. Restored(h, then).state = state /\ Restored(h, then).until = until
  BY <1>3 DEF Health
<1>5. h.until # None => h.until \in Nat
  BY DEF Health
<1>6. (state = "UNAVAILABLE") <=> (h.state = "UNAVAILABLE")
  BY <1>1
<1>7. h.state # "UNAVAILABLE" =>
        ((until # None /\ now < until) <=> (h.until # None /\ now < h.until))
  BY <1>1, <1>2, <1>5 DEF WaitsWhenRefused
<1> QED
  BY <1>4, <1>6, <1>7 DEF Refusal

(* A backend is out: its governor has read the table and will not ask it,  *)
(* and every process that reads the table will not.                        *)
IsOut(w, b) ==
    /\ w.governor.restored /\ b \in DOMAIN w.governor.health
    /\ w.governor.health[b].state = "UNAVAILABLE"
    /\ \E r \in w.rows : r.backend = b
    /\ \A r \in w.rows : r.backend = b => r.health.state = "UNAVAILABLE"

WorldOf(Values) ==
    [governor : [restored : BOOLEAN, health : Values, cache : Values, reused : Values, times : Values],
     rows : Values, at : Values]

(* A backend that is out is not asked for anything it has not answered     *)
(* before, and searches of it or of others leave it out (search).          *)
THEOREM SearchesLeaveItOut ==
  ASSUME None \notin {"provider_unavailable", "provider_backoff"}, NEW Values, NEW w \in WorldOf(Values), NEW b, IsOut(w, b),
         NEW backend, NEW key, NEW reply, NEW gap
  PROVE  /\ IsOut(Searched(w, backend, key, reply, gap).world, b)
         /\ backend = b /\ <<b, key>> \notin DOMAIN w.governor.cache =>
              /\ Searched(w, backend, key, reply, gap).world = w
              /\ Searched(w, backend, key, reply, gap).answer = Failed("provider_unavailable", None)
<1> DEFINE g == w.governor
           h == HealthOf(g.health, backend)
           sent == SentAt(g.times, w.at, gap)
           after == IF IsFailure(reply) THEN AfterFailure(Cooled(h, w.at), reply, sent)
                    ELSE AfterSuccess(Cooled(h, w.at), sent)
           cache == IF IsFailure(reply) THEN g.cache ELSE With(g.cache, <<backend, key>>, reply.rows)
           asked == [g EXCEPT !.health = With(g.health, backend, after), !.times = Append(g.times, sent),
                              !.cache = cache]
           result == Searched(w, backend, key, reply, gap)
<1>1. /\ w.governor.restored /\ b \in DOMAIN w.governor.health
      /\ w.governor.health[b].state = "UNAVAILABLE"
      /\ \E r \in w.rows : r.backend = b
      /\ \A r \in w.rows : r.backend = b => r.health.state = "UNAVAILABLE"
  BY DEF IsOut
<1>2. Restore(w.governor, w.rows, w.at) = g
  BY <1>1 DEF Restore
<1>3. result = IF <<backend, key>> \in DOMAIN g.cache
               THEN [world |-> [w EXCEPT !.governor = [g EXCEPT !.reused = @ + 1]],
                     answer |-> Found(g.cache[<<backend, key>>])]
               ELSE IF Refusal(h, w.at) # None
               THEN [world |-> [w EXCEPT !.governor = g], answer |-> Failed(Refusal(h, w.at), None)]
               ELSE [world |-> [governor |-> asked, rows |-> Overwritten(w.rows, Row(backend, after)), at |-> sent],
                     answer |-> reply]
  BY <1>2 DEF Searched
<1>4. /\ w.governor \in [restored : BOOLEAN, health : Values, cache : Values, reused : Values, times : Values]
      /\ w = [governor |-> w.governor, rows |-> w.rows, at |-> w.at]
  BY DEF WorldOf
<1>5. backend = b => Refusal(h, w.at) = "provider_unavailable"
  BY <1>1 DEF HealthOf, Refusal
<1> HIDE DEF result, sent, after, cache
<1>6. CASE <<backend, key>> \in DOMAIN g.cache
  <2>1. PICK reused : reused = g.reused + 1
    OBVIOUS
  <2>2. result.world = [w EXCEPT !.governor = [g EXCEPT !.reused = reused]]
    BY <1>3, <1>6, <2>1
  <2>3. /\ result.world.governor = [g EXCEPT !.reused = reused] /\ result.world.rows = w.rows
    BY <1>4, <2>2
  <2>4. result.world.governor.restored = g.restored /\ result.world.governor.health = g.health
    BY <1>4, <2>3
  <2>5. IsOut(result.world, b)
    BY <1>1, <2>3, <2>4 DEF IsOut
  <2> QED
    BY <1>6, <2>5 DEF result
<1>7. CASE <<backend, key>> \notin DOMAIN g.cache /\ Refusal(h, w.at) # None
  <2>1. result.world = w /\ result.answer = Failed(Refusal(h, w.at), None)
    BY <1>3, <1>4, <1>7
  <2> QED
    BY <1>5, <2>1 DEF result
<1>8. CASE <<backend, key>> \notin DOMAIN g.cache /\ Refusal(h, w.at) = None
  <2>1. backend # b
    <3>1. "provider_unavailable" # None
      OBVIOUS
    <3>2. PICK reason : reason = Refusal(h, w.at)
      OBVIOUS
    <3> QED
      BY <1>5, <1>8, <3>1, <3>2
  <2>2. result.world.governor = asked /\ result.world.rows = Overwritten(w.rows, Row(backend, after))
    BY <1>3, <1>8
  <2>3. asked.restored = g.restored /\ asked.health = With(g.health, backend, after)
    <3>1. PICK health, times : health = With(g.health, backend, after) /\ times = Append(g.times, sent)
      OBVIOUS
    <3>2. asked = [g EXCEPT !.health = health, !.times = times, !.cache = cache]
      BY <3>1
    <3> QED
      BY <1>4, <3>1, <3>2
  <2>4. b \in DOMAIN asked.health /\ asked.health[b] = g.health[b]
    BY <1>1, <2>1, <2>3 DEF With
  <2>5. \A r \in Overwritten(w.rows, Row(backend, after)) : r.backend = b => r \in w.rows
    BY <2>1 DEF Overwritten, Row
  <2>6. \E r \in Overwritten(w.rows, Row(backend, after)) : r.backend = b
    BY <1>1, <2>1 DEF Overwritten, Row
  <2> HIDE DEF asked
  <2>7. IsOut(result.world, b)
    BY <1>1, <2>2, <2>3, <2>4, <2>5, <2>6 DEF IsOut
  <2> QED
    BY <1>8, <2>1, <2>7 DEF result
<1> QED
  BY <1>6, <1>7, <1>8

(* ... and so does a restart at any time (restore): only a row written by  *)
(* another process, or by hand, brings a backend back.                     *)
THEOREM RestartsLeaveItOut ==
  ASSUME NEW Values, NEW w \in WorldOf(Values), NEW b, IsOut(w, b),
         \A r \in w.rows : r.health \in Health, NEW now
  PROVE  IsOut([w EXCEPT !.governor = Restore(Governor, w.rows, now), !.at = now], b)
<1> DEFINE rows == Listed(w.rows)
           known == [x \in DOMAIN Governor.health \cup DOMAIN rows |->
                       IF x \in DOMAIN rows THEN Restored(rows[x], now) ELSE Governor.health[x]]
           anew == Restore(Governor, w.rows, now)
<1>1. /\ \E r \in w.rows : r.backend = b
      /\ \A r \in w.rows : r.backend = b => r.health.state = "UNAVAILABLE"
  BY DEF IsOut
<1>2. b \in DOMAIN rows /\ rows[b].state = "UNAVAILABLE" /\ rows[b] \in Health
  <2>1. PICK r \in w.rows : r.backend = b /\ r = CHOOSE x \in w.rows : x.backend = b
    BY <1>1
  <2>2. b \in {x.backend : x \in w.rows}
    BY <1>1
  <2>3. rows[b] = r.health /\ b \in DOMAIN rows
    BY <2>1, <2>2 DEF Listed
  <2> QED
    BY <1>1, <2>1, <2>3 DEF With
<1> HIDE DEF rows
<1>3. known[b].state = "UNAVAILABLE" /\ b \in DOMAIN known
  <2>1. Restored(rows[b], now).state = "UNAVAILABLE"
    <3>1. PICK until : Restored(rows[b], now) = [rows[b] EXCEPT !.state = "UNAVAILABLE", !.until = until]
      BY <1>2 DEF Restored
    <3> QED
      BY <1>2, <3>1 DEF Health
  <2> QED
    BY <1>2, <2>1
<1>4. anew.restored /\ anew.health = known
  BY DEF Restore, Governor, rows
<1> HIDE DEF known, anew
<1>5. b \in DOMAIN anew.health /\ anew.health[b].state = "UNAVAILABLE"
  BY <1>3, <1>4
<1>6. w = [governor |-> w.governor, rows |-> w.rows, at |-> w.at]
  BY DEF WorldOf
<1>7. PICK later : later = [w EXCEPT !.governor = anew, !.at = now]
  OBVIOUS
<1>8. later.governor = anew /\ later.rows = w.rows
  BY <1>6, <1>7
<1> QED
  BY <1>1, <1>4, <1>5, <1>7, <1>8 DEF IsOut, anew
=============================================================================
