--------------------------- MODULE DeliveryProofs ---------------------------
(***************************************************************************)
(* Proofs about DurableWorker, for any sets of jobs and processes, any     *)
(* bound on the attempts and any timing of leases and heartbeats; and, on  *)
(* top of them, proofs about Delivery, for any sets of deliveries,         *)
(* obstacles and buttons.  A step of a delivery is a step of the workers,  *)
(* so what is proved about them holds there too.                           *)
(***************************************************************************)
EXTENDS Delivery, FiniteSetTheorems, TLAPS

-----------------------------------------------------------------------------
(* What the operations of the repository keep. *)

LEMMA UnclaimedType ==
  ASSUME NEW row \in JobRow, NEW state \in JobStates
  PROVE  Unclaimed(row, state) \in JobRow
<1>1. 0 \in 0..LeaseDuration
  BY JobsAssumption
<1> QED
  BY <1>1 DEF Unclaimed, JobRow

LEMMA EnqueueType ==
  ASSUME JobsTypeOK, NEW j \in Jobs, EnqueueJob(j)
  PROVE  JobsTypeOK'
BY DEF JobsTypeOK, EnqueueJob, JobRow, JobStates

LEMMA TerminalizedType ==
  ASSUME JobsTypeOK, NEW types
  PROVE  Terminalized(types) \in [Jobs -> JobRow]
<1>1. ASSUME NEW j \in Jobs
      PROVE  Unclaimed(job[j], "failed") \in JobRow
  BY <1>1, UnclaimedType DEF JobsTypeOK, JobStates
<1> QED
  BY <1>1 DEF Terminalized, JobsTypeOK

LEMMA ClaimType ==
  ASSUME JobsTypeOK, NEW w \in Owners, NEW types, NEW ids, NEW locked, NEW j \in Jobs,
         ClaimJob(w, types, ids, locked, j)
  PROVE  /\ JobsTypeOK'
         /\ job'[j].attempts \in Nat \ {0}
<1> DEFINE t == Terminalized(types)
<1>1. t \in [Jobs -> JobRow]
  BY TerminalizedType
<1> HIDE DEF t
<1>2. job' = [t EXCEPT ![j].state = "running", ![j].attempts = @ + 1,
                       ![j].lease = LeaseDuration, ![j].owner = w]
  BY DEF ClaimJob, t
<1>3. LeaseDuration \in Nat
  BY JobsAssumption
<1> QED
  BY <1>1, <1>2, <1>3 DEF JobsTypeOK, JobRow, JobStates

LEMMA NoClaimType ==
  ASSUME JobsTypeOK, NEW types, NEW ids, NEW locked, ClaimNoJob(types, ids, locked)
  PROVE  JobsTypeOK'
BY TerminalizedType DEF ClaimNoJob, JobsTypeOK

LEMMA CompleteType ==
  ASSUME JobsTypeOK, NEW c \in Claim, CompleteJob(c)
  PROVE  JobsTypeOK'
<1>1. c.job \in Jobs
  BY DEF Claim
<1>2. Unclaimed(job[c.job], "completed") \in JobRow
  BY <1>1, UnclaimedType DEF JobsTypeOK, JobStates
<1> QED
  BY <1>1, <1>2 DEF JobsTypeOK, CompleteJob

LEMMA FailType ==
  ASSUME JobsTypeOK, NEW c \in Claim, NEW retryable, FailJob(c, retryable)
  PROVE  JobsTypeOK'
<1>1. c.job \in Jobs
  BY DEF Claim
<1>2. Unclaimed(job[c.job], "failed") \in JobRow /\ Unclaimed(job[c.job], "queued") \in JobRow
  BY <1>1, UnclaimedType DEF JobsTypeOK, JobStates
<1>3. [Unclaimed(job[c.job], "queued") EXCEPT !.delay = RetryDelay] \in JobRow
  BY <1>2, JobsAssumption DEF JobRow
<1> QED
  BY <1>1, <1>2, <1>3 DEF JobsTypeOK, FailJob

LEMMA ReleaseType ==
  ASSUME JobsTypeOK, NEW c \in Claim, ReleaseJob(c)
  PROVE  JobsTypeOK'
<1>1. c.job \in Jobs
  BY DEF Claim
<1> DEFINE s == IF LastAttempt(c) THEN "failed" ELSE "queued"
<1>2. Unclaimed(job[c.job], s) \in JobRow
  BY <1>1, UnclaimedType DEF JobsTypeOK, JobStates
<1> HIDE DEF s
<1>3. [Unclaimed(job[c.job], s) EXCEPT !.delay = 0] \in JobRow
  BY <1>2, JobsAssumption DEF JobRow
<1>4. job' = [job EXCEPT ![c.job] = IF ~OwnsClaim(c) THEN @
                                    ELSE [Unclaimed(@, s) EXCEPT !.delay = 0]]
  BY DEF ReleaseJob, s
<1> QED
  BY <1>1, <1>3, <1>4 DEF JobsTypeOK

LEMMA RenewType ==
  ASSUME JobsTypeOK, NEW c \in Claim, RenewLease(c)
  PROVE  JobsTypeOK'
BY JobsAssumption DEF JobsTypeOK, RenewLease, JobRow, Claim

LEMMA CountDownType ==
  ASSUME NEW m \in Nat, NEW n \in 0..m
  PROVE  CountDown(n) \in 0..m
BY DEF CountDown

LEMMA AgeType ==
  ASSUME JobsTypeOK, AgeJobs
  PROVE  JobsTypeOK'
<1>1. ASSUME NEW j \in Jobs
      PROVE  [job[j] EXCEPT !.lease = CountDown(@), !.delay = CountDown(@)] \in JobRow
  <2>1. job[j] \in JobRow
    BY <1>1 DEF JobsTypeOK
  <2>2. CountDown(job[j].lease) \in 0..LeaseDuration /\ CountDown(job[j].delay) \in 0..RetryDelay
    BY <2>1, JobsAssumption, CountDownType DEF JobRow
  <2> QED
    BY <2>1, <2>2 DEF JobRow
<1> QED
  BY <1>1 DEF AgeJobs, JobsTypeOK

-----------------------------------------------------------------------------
(* Type correctness of the workers. *)

LEMMA InitType == Init => TypeOK
<1> SUFFICES ASSUME Init PROVE TypeOK
  OBVIOUS
<1>1. JobsTypeOK
  BY JobsAssumption DEF Init, JobsInit, JobsTypeOK, JobRow, JobStates
<1> QED
  BY <1>1, WorkerAssumption, JobsAssumption
     DEF Init, TypeOK, Phases, Ended, HandlerStates, Raised, Holding

LEMMA LeaveType ==
  ASSUME TypeOK, JobsTypeOK', NEW p \in Workers, NEW ph \in Phases,
         ph \notin {"processing", "draining", "releasing"}, Leave(p, ph),
         stopping' \in [Workers -> BOOLEAN]
  PROVE  TypeOK'
<1>1. 0 \in 0..(HeartbeatInterval + MaxBeatDelay)
  BY WorkerAssumption
<1> QED
  BY <1>1 DEF TypeOK, Leave, Phases, HandlerStates, Holding

LEMMA CancelHandlerType ==
  ASSUME TypeOK, NEW p \in Workers, Holding(p), CancelHandler(p),
         stopping' \in [Workers -> BOOLEAN]
  PROVE  TypeOK'
BY DEF TypeOK, CancelHandler, Phases, HandlerStates, Holding, JobsTypeOK

LEMMA NextType == TypeOK /\ [Next]_vars => TypeOK'
<1> SUFFICES ASSUME TypeOK, [Next]_vars
             PROVE  TypeOK'
  OBVIOUS
<1> USE DEF TypeOK
<1>1. ASSUME NEW j \in Jobs, Enqueue(j)
      PROVE  TypeOK'
  BY <1>1, EnqueueType DEF Enqueue, workerVars, Holding
<1>2. ASSUME NEW p \in Workers, WorkerStep(p)
      PROVE  TypeOK'
  <2> DEFINE c == claim[p]
  <2>c. ASSUME Holding(p)
        PROVE  c \in Claim
    BY <2>c, <1>2
  <2>w. WorkerId[p] \in Owners
    BY WorkerAssumption
  <2>s. {"idle", "stopped", "exited", "dead"} \subseteq Phases
    BY DEF Phases, Ended
  <2>1. CASE Claims(p)
    <3>1. PICK j \in Jobs, locked \in LockedSets(p) :
            /\ ClaimJob(WorkerId[p], Handled[p], OnlyIds[p], locked, j)
            /\ claim' = [claim EXCEPT ![p] = [job |-> j, attempt |-> job'[j].attempts,
                                              worker |-> WorkerId[p]]]
      BY <2>1 DEF Claims
    <3>2. JobsTypeOK' /\ job'[j].attempts \in Nat \ {0}
      BY <3>1, <2>w, ClaimType
    <3>3. [job |-> j, attempt |-> job'[j].attempts, worker |-> WorkerId[p]] \in Claim
      BY <3>2, <2>w DEF Claim
    <3>4. claim' \in [Workers -> Claim \cup {NoClaim}] /\ claim'[p] # NoClaim
      BY <3>1, <3>3, WorkerAssumption
    <3>5. \A q \in Workers \ {p} : claim'[q] = claim[q] /\ phase'[q] = phase[q]
      BY <3>1, <2>1 DEF Claims
    <3>6. Holding(p)' /\ \A q \in Workers \ {p} : Holding(q)' = Holding(q)
      BY <2>1, <3>5 DEF Claims, Holding
    <3> QED
      BY <2>1, <3>2, <3>4, <3>5, <3>6 DEF Claims, Phases, HandlerStates
  <2>2. CASE FindsNoJob(p)
    BY <2>2, NoClaimType DEF FindsNoJob, workerVars, Holding
  <2>3. CASE StopsIdle(p)
    BY <2>3 DEF StopsIdle, JobsTypeOK, Phases, Ended, Holding
  <2>4. CASE HandlerReturns(p)
    <3>1. c \in Claim
      BY <2>4, <2>c DEF HandlerReturns, Holding
    <3>2. succeeded' \in [Jobs -> SUBSET Nat]
      BY <2>4, <3>1 DEF HandlerReturns, Claim
    <3> QED
      BY <2>4, <3>2 DEF HandlerReturns, JobsTypeOK, HandlerStates, Holding
  <2>5. CASE HandlerRaises(p)
    BY <2>5 DEF HandlerRaises, JobsTypeOK, HandlerStates, Holding
  <2>6. CASE Completes(p)
    <3>1. c \in Claim
      BY <2>6, <2>c DEF Completes, Holding
    <3> QED
      BY <2>6, <3>1, <2>s, CompleteType, LeaveType DEF Completes
  <2>7. CASE RecordsFailure(p)
    <3>1. c \in Claim
      BY <2>7, <2>c DEF RecordsFailure, Holding
    <3> QED
      BY <2>7, <3>1, <2>s, FailType, LeaveType DEF RecordsFailure
  <2>8. CASE AbandonsClaim(p)
    BY <2>8, <2>s, LeaveType DEF AbandonsClaim, JobsTypeOK
  <2>9. CASE StartsDrain(p)
    BY <2>9 DEF StartsDrain, JobsTypeOK, Phases, Holding
  <2>10. CASE DrainTimesOut(p)
    BY <2>10, CancelHandlerType DEF DrainTimesOut, Holding
  <2>11. CASE DrainRaises(p)
    BY <2>11, <2>s, LeaveType DEF DrainRaises, JobsTypeOK
  <2>12. CASE Releases(p)
    <3>1. c \in Claim
      BY <2>12, <2>c DEF Releases, Holding
    <3> QED
      BY <2>12, <3>1, <2>s, ReleaseType, LeaveType DEF Releases
  <2>13. CASE RequestsStop(p)
    BY <2>13 DEF RequestsStop, JobsTypeOK, Holding
  <2>14. CASE IsCancelled(p)
    <3>1. stopping' \in [Workers -> BOOLEAN]
      BY <2>14 DEF IsCancelled
    <3>2. CASE phase[p] = "idle"
      BY <2>14, <3>1, <3>2 DEF IsCancelled, JobsTypeOK, Phases, Ended, Holding
    <3>3. CASE phase[p] # "idle"
      BY <2>14, <3>1, <3>3, CancelHandlerType DEF IsCancelled, Holding
    <3> QED
      BY <3>2, <3>3
  <2>15. CASE Heartbeats(p)
    <3>1. c \in Claim
      BY <2>15, <2>c DEF Heartbeats, Beating
    <3>2. JobsTypeOK'
      BY <2>15, <3>1, RenewType DEF Heartbeats
    <3>3. ValidClaim(c) \in BOOLEAN
      BY DEF ValidClaim
    <3>4. 0 \in 0..(HeartbeatInterval + MaxBeatDelay)
      BY WorkerAssumption
    <3> QED
      BY <2>15, <3>2, <3>3, <3>4 DEF Heartbeats, Holding
  <2>16. CASE HeartbeatRaises(p)
    BY <2>16 DEF HeartbeatRaises, JobsTypeOK, Holding
  <2>17. CASE Crashes(p)
    BY <2>17, <2>s, LeaveType DEF Crashes, JobsTypeOK
  <2>18. CASE Restarts(p)
    BY <2>18 DEF Restarts, JobsTypeOK, Phases, Ended, Holding
  <2> QED
    BY <1>2, <2>1, <2>2, <2>3, <2>4, <2>5, <2>6, <2>7, <2>8, <2>9, <2>10, <2>11, <2>12,
       <2>13, <2>14, <2>15, <2>16, <2>17, <2>18 DEF WorkerStep, LoopStep
<1>3. CASE Tick
  <2>1. JobsTypeOK'
    BY <1>3, AgeType DEF Tick
  <2>2. \A p \in Workers :
          (IF Beating(p) THEN beat[p] + 1 ELSE beat[p]) \in 0..(HeartbeatInterval + MaxBeatDelay)
    BY <1>3, WorkerAssumption DEF Tick
  <2>3. beat' \in [Workers -> 0..(HeartbeatInterval + MaxBeatDelay)]
    BY <1>3, <2>2 DEF Tick
  <2> QED
    BY <1>3, <2>1, <2>3 DEF Tick, Holding
<1>4. CASE UNCHANGED vars
  BY <1>4 DEF vars, workerVars, JobsTypeOK, Holding
<1> QED
  BY <1>1, <1>2, <1>3, <1>4 DEF Next

(* Every variable of the table and of the workers keeps its type, and a worker remembers
   a claim exactly while it executes one (freelancer_bot/worker.py:149-216). *)
THEOREM TypeCorrect == Spec => []TypeOK
<1>1. Init => TypeOK
  BY InitType
<1>2. TypeOK /\ [Next]_vars => TypeOK'
  BY NextType
<1> QED
  BY <1>1, <1>2, PTL DEF Spec

-----------------------------------------------------------------------------
(* The fencing token.  Attempts only grow, and only claim_next makes them grow. *)

SameAttempts == \A j \in Jobs : job'[j].attempts = job[j].attempts
KeepsOrDropsClaims == \A q \in Workers : claim'[q] = claim[q] \/ claim'[q] = NoClaim

LEMMA TerminalizedAttempts ==
  ASSUME JobsTypeOK, NEW types, NEW j \in Jobs
  PROVE  Terminalized(types)[j].attempts = job[j].attempts
BY DEF Terminalized, Unclaimed

LEMMA OperationsKeepAttempts ==
  ASSUME JobsTypeOK,
         \/ \E j \in Jobs : EnqueueJob(j)
         \/ \E types, ids, locked : ClaimNoJob(types, ids, locked)
         \/ \E c \in Claim : CompleteJob(c) \/ ReleaseJob(c) \/ RenewLease(c)
         \/ \E c \in Claim, r \in BOOLEAN : FailJob(c, r)
         \/ AgeJobs
         \/ UNCHANGED job
  PROVE  SameAttempts
<1> USE DEF SameAttempts, JobsTypeOK, JobRow, Claim
<1>1. ASSUME NEW j \in Jobs, EnqueueJob(j) PROVE SameAttempts
  BY <1>1 DEF EnqueueJob
<1>2. ASSUME NEW types, NEW ids, NEW locked, ClaimNoJob(types, ids, locked) PROVE SameAttempts
  BY <1>2, TerminalizedAttempts DEF ClaimNoJob
<1>3. ASSUME NEW c \in Claim, CompleteJob(c) PROVE SameAttempts
  BY <1>3 DEF CompleteJob, Unclaimed
<1>4. ASSUME NEW c \in Claim, ReleaseJob(c) PROVE SameAttempts
  BY <1>4 DEF ReleaseJob, Unclaimed
<1>5. ASSUME NEW c \in Claim, RenewLease(c) PROVE SameAttempts
  BY <1>5 DEF RenewLease
<1>6. ASSUME NEW c \in Claim, NEW r \in BOOLEAN, FailJob(c, r) PROVE SameAttempts
  BY <1>6 DEF FailJob, Unclaimed
<1>7. CASE AgeJobs
  BY <1>7 DEF AgeJobs
<1> QED
  BY <1>1, <1>2, <1>3, <1>4, <1>5, <1>6, <1>7

LEMMA ClaimAttempts ==
  ASSUME JobsTypeOK, NEW w, NEW types, NEW ids, NEW locked, NEW j \in Jobs,
         ClaimJob(w, types, ids, locked, j)
  PROVE  /\ job'[j].attempts = job[j].attempts + 1
         /\ job'[j].state = "running" /\ job'[j].owner = w /\ job'[j].lease = LeaseDuration
         /\ \A i \in Jobs \ {j} : job'[i] = Terminalized(types)[i]
         /\ HasAttempt(j)
         /\ Expired(j) \/ job[j].state = "queued"
<1> DEFINE t == Terminalized(types)
<1>1. t \in [Jobs -> JobRow]
  BY TerminalizedType
<1>2. t[j].attempts = job[j].attempts
  BY TerminalizedAttempts
<1> HIDE DEF t
<1>3. job' = [t EXCEPT ![j].state = "running", ![j].attempts = @ + 1,
                       ![j].lease = LeaseDuration, ![j].owner = w]
  BY DEF ClaimJob, t
<1>4. Claimable(j)
  BY DEF ClaimJob, Candidates
<1> QED
  BY <1>1, <1>2, <1>3, <1>4 DEF JobRow, Claimable, Available, t

(* Every step but a claim keeps the attempts, and no process gets a new claim. *)
LEMMA OtherStepsKeepClaims ==
  ASSUME TypeOK, [Next]_vars, ~ \E p \in Workers : Claims(p)
  PROVE  SameAttempts /\ KeepsOrDropsClaims
<1> USE DEF KeepsOrDropsClaims, TypeOK
<1>1. ASSUME NEW j \in Jobs, Enqueue(j)
      PROVE  SameAttempts /\ KeepsOrDropsClaims
  BY <1>1, OperationsKeepAttempts DEF Enqueue, workerVars
<1>2. ASSUME NEW p \in Workers, WorkerStep(p)
      PROVE  SameAttempts /\ KeepsOrDropsClaims
  <2>c. Holding(p) => claim[p] \in Claim
    BY <1>2
  <2>1. CASE FindsNoJob(p)
    BY <2>1, OperationsKeepAttempts DEF FindsNoJob, workerVars
  <2>2. CASE \/ StopsIdle(p) \/ HandlerReturns(p) \/ HandlerRaises(p) \/ AbandonsClaim(p)
             \/ StartsDrain(p) \/ DrainTimesOut(p) \/ DrainRaises(p) \/ RequestsStop(p)
             \/ IsCancelled(p) \/ HeartbeatRaises(p) \/ Crashes(p) \/ Restarts(p)
    <3>1. UNCHANGED job
      BY <2>2 DEF StopsIdle, HandlerReturns, HandlerRaises, AbandonsClaim, StartsDrain,
                  DrainTimesOut, DrainRaises, RequestsStop, IsCancelled, CancelHandler,
                  HeartbeatRaises, Crashes, Restarts
    <3>2. KeepsOrDropsClaims
      BY <2>2 DEF StopsIdle, HandlerReturns, HandlerRaises, AbandonsClaim, StartsDrain,
                  DrainTimesOut, DrainRaises, RequestsStop, IsCancelled, CancelHandler,
                  HeartbeatRaises, Crashes, Restarts, Leave
    <3> QED
      BY <3>1, <3>2, OperationsKeepAttempts
  <2>3. CASE Completes(p)
    BY <2>3, <2>c, OperationsKeepAttempts DEF Completes, Leave, Holding
  <2>4. CASE RecordsFailure(p)
    BY <2>4, <2>c, OperationsKeepAttempts DEF RecordsFailure, Leave, Holding
  <2>5. CASE Releases(p)
    BY <2>5, <2>c, OperationsKeepAttempts DEF Releases, Leave, Holding
  <2>6. CASE Heartbeats(p)
    BY <2>6, <2>c, OperationsKeepAttempts DEF Heartbeats, Beating
  <2> QED
    BY <1>2, <2>1, <2>2, <2>3, <2>4, <2>5, <2>6 DEF WorkerStep, LoopStep
<1>3. CASE Tick
  BY <1>3, OperationsKeepAttempts DEF Tick
<1>4. CASE UNCHANGED vars
  BY <1>4, OperationsKeepAttempts DEF vars, workerVars
<1> QED
  BY <1>1, <1>2, <1>3, <1>4 DEF Next

LEMMA NextUnique ==
  TypeOK /\ AttemptsAreUnique /\ [Next]_vars => AttemptsAreUnique'
<1> SUFFICES ASSUME TypeOK, AttemptsAreUnique, [Next]_vars
             PROVE  AttemptsAreUnique'
  OBVIOUS
<1>1. ASSUME NEW p \in Workers, Claims(p)
      PROVE  AttemptsAreUnique'
  <2>1. PICK j \in Jobs, locked \in LockedSets(p) :
          /\ ClaimJob(WorkerId[p], Handled[p], OnlyIds[p], locked, j)
          /\ claim' = [claim EXCEPT ![p] = [job |-> j, attempt |-> job'[j].attempts,
                                            worker |-> WorkerId[p]]]
    BY <1>1 DEF Claims
  <2>2. \A i \in Jobs : job[i].attempts \in Nat
    BY DEF TypeOK, JobsTypeOK, JobRow
  <2>3. /\ job'[j].attempts = job[j].attempts + 1
        /\ \A i \in Jobs \ {j} : job'[i].attempts = job[i].attempts
    BY <2>1, ClaimAttempts, TerminalizedAttempts DEF TypeOK
  <2>4. \A q \in Workers \ {p} : claim'[q] = claim[q]
    BY <2>1 DEF TypeOK
  <2>5. claim'[p] = [job |-> j, attempt |-> job[j].attempts + 1, worker |-> WorkerId[p]]
    BY <2>1, <2>3 DEF TypeOK
  <2>6. \A q \in Workers : claim[q] # NoClaim => claim[q] \in Claim
    BY DEF TypeOK
  <2> QED
    BY <2>2, <2>3, <2>4, <2>5, <2>6 DEF AttemptsAreUnique, Claim
<1>2. CASE ~ \E p \in Workers : Claims(p)
  <2>1. SameAttempts /\ KeepsOrDropsClaims
    BY <1>2, OtherStepsKeepClaims
  <2>2. \A q \in Workers : claim[q] # NoClaim => claim[q] \in Claim
    BY DEF TypeOK
  <2> QED
    BY <2>1, <2>2 DEF AttemptsAreUnique, SameAttempts, KeepsOrDropsClaims, Claim
<1> QED
  BY <1>1, <1>2

(* Two processes never hold the same attempt of one job, even with one worker_id: the
   attempt count that complete, fail, release and renew compare is a fencing token
   (freelancer_bot/persistence/jobs.py:342-349). *)
THEOREM FencingToken == Spec => []AttemptsAreUnique
<1>1. Init => AttemptsAreUnique
  BY DEF Init, AttemptsAreUnique
<1>2. TypeOK /\ AttemptsAreUnique /\ [Next]_vars => AttemptsAreUnique'
  BY NextUnique
<1> QED
  BY <1>1, <1>2, TypeCorrect, PTL DEF Spec

-----------------------------------------------------------------------------
(* The CHECK constraints of the table. *)

RowConsistent(row, j) ==
  /\ row.state = "running" <=> row.owner # NoOwner
  /\ row.state # "running" => row.lease = 0
  /\ row.state \in {"running", "completed", "failed"} => row.attempts > 0
  /\ row.state \in {"absent", "queued"} => row.attempts < MaxAttempts[j]
  /\ row.attempts <= MaxAttempts[j]

LEMMA RowByRow == JobRowsConsistent <=> \A j \in Jobs : RowConsistent(job[j], j)
BY DEF JobRowsConsistent, RowConsistent

LEMMA OperationsKeepRows ==
  ASSUME JobsTypeOK, JobRowsConsistent,
         \/ \E j \in Jobs : EnqueueJob(j)
         \/ \E w \in Owners, j \in Jobs : \E types, ids, locked :
               ClaimJob(w, types, ids, locked, j)
         \/ \E types, ids, locked : ClaimNoJob(types, ids, locked)
         \/ \E c \in Claim : CompleteJob(c) \/ ReleaseJob(c) \/ RenewLease(c)
         \/ \E c \in Claim, r \in BOOLEAN : FailJob(c, r)
         \/ AgeJobs
         \/ UNCHANGED job
  PROVE  JobRowsConsistent'
<1> SUFFICES ASSUME NEW i \in Jobs
             PROVE  RowConsistent(job'[i], i)
  BY DEF JobRowsConsistent, RowConsistent
<1>r. RowConsistent(job[i], i)
  BY RowByRow
<1>t. job[i] \in JobRow /\ MaxAttempts[i] \in Nat \ {0} /\ NoOwner \notin Owners
  BY JobsAssumption DEF JobsTypeOK
<1>u. ASSUME NEW state \in {"completed", "failed", "queued"}, job[i].state = "running",
             state = "queued" => job[i].attempts < MaxAttempts[i]
      PROVE  RowConsistent(Unclaimed(job[i], state), i)
  BY <1>r, <1>t, <1>u DEF RowConsistent, Unclaimed, JobRow
<1>x. \A types : RowConsistent(Terminalized(types)[i], i)
  BY <1>r, <1>u DEF Terminalized, Expired
<1>1. ASSUME NEW j \in Jobs, EnqueueJob(j) PROVE RowConsistent(job'[i], i)
  BY <1>1, <1>r, <1>t DEF EnqueueJob, RowConsistent, JobsTypeOK, JobRow
<1>2. ASSUME NEW w \in Owners, NEW j \in Jobs, NEW types, NEW ids, NEW locked,
             ClaimJob(w, types, ids, locked, j)
      PROVE  RowConsistent(job'[i], i)
  <2>1. CASE i # j
    BY <1>2, <1>x, <2>1, ClaimAttempts
  <2>2. CASE i = j
    BY <1>2, <1>t, <2>2, ClaimAttempts DEF RowConsistent, HasAttempt, JobRow
  <2> QED
    BY <2>1, <2>2
<1>3. ASSUME NEW types, NEW ids, NEW locked, ClaimNoJob(types, ids, locked)
      PROVE  RowConsistent(job'[i], i)
  BY <1>3, <1>x DEF ClaimNoJob
<1>4. ASSUME NEW c \in Claim, CompleteJob(c) PROVE RowConsistent(job'[i], i)
  BY <1>4, <1>r, <1>u DEF CompleteJob, ValidClaim, OwnsClaim, JobsTypeOK, Claim
<1>5. ASSUME NEW c \in Claim, NEW r \in BOOLEAN, FailJob(c, r) PROVE RowConsistent(job'[i], i)
  <2>1. CASE i # c.job \/ ~ValidClaim(c)
    BY <1>5, <1>r, <2>1 DEF FailJob, JobsTypeOK
  <2>2. CASE i = c.job /\ ValidClaim(c) /\ (~r \/ LastAttempt(c))
    BY <1>5, <1>u, <2>2 DEF FailJob, JobsTypeOK, ValidClaim, OwnsClaim
  <2>3. CASE i = c.job /\ ValidClaim(c) /\ r /\ ~LastAttempt(c)
    <3>1. job[i].state = "running" /\ job[i].attempts < MaxAttempts[i]
      BY <1>t, <2>3 DEF ValidClaim, OwnsClaim, LastAttempt, Claim, JobRow
    <3>2. RowConsistent(Unclaimed(job[i], "queued"), i)
      BY <1>u, <3>1
    <3>3. job'[i] = [Unclaimed(job[i], "queued") EXCEPT !.delay = RetryDelay]
      BY <1>5, <2>3 DEF FailJob, JobsTypeOK
    <3> QED
      BY <3>2, <3>3 DEF RowConsistent, Unclaimed
  <2> QED
    BY <2>1, <2>2, <2>3
<1>6. ASSUME NEW c \in Claim, ReleaseJob(c) PROVE RowConsistent(job'[i], i)
  <2>1. CASE i # c.job \/ ~OwnsClaim(c)
    BY <1>6, <1>r, <2>1 DEF ReleaseJob, JobsTypeOK
  <2>2. CASE i = c.job /\ OwnsClaim(c)
    <3> DEFINE state == IF LastAttempt(c) THEN "failed" ELSE "queued"
    <3>1. job[i].state = "running" /\ (state = "queued" => job[i].attempts < MaxAttempts[i])
      BY <1>t, <2>2 DEF OwnsClaim, LastAttempt, Claim, JobRow
    <3>2. RowConsistent(Unclaimed(job[i], state), i)
      BY <1>u, <3>1
    <3>3. job'[i] = [Unclaimed(job[i], state) EXCEPT !.delay = 0]
      BY <1>6, <2>2 DEF ReleaseJob, JobsTypeOK
    <3> HIDE DEF state
    <3> QED
      BY <3>2, <3>3 DEF RowConsistent, Unclaimed
  <2> QED
    BY <2>1, <2>2
<1>7. ASSUME NEW c \in Claim, RenewLease(c) PROVE RowConsistent(job'[i], i)
  BY <1>7, <1>r, <1>t DEF RenewLease, RowConsistent, JobsTypeOK, JobRow, ValidClaim, OwnsClaim
<1>8. CASE AgeJobs
  BY <1>8, <1>r, <1>t DEF AgeJobs, RowConsistent, JobsTypeOK, JobRow, CountDown
<1> QED
  BY <1>1, <1>2, <1>3, <1>4, <1>5, <1>6, <1>7, <1>8, <1>r

(* The transaction of each step of the workers, as an operation of the repository. *)
LEMMA StepOperation ==
  ASSUME TypeOK, [Next]_vars
  PROVE  \/ \E j \in Jobs : EnqueueJob(j)
         \/ \E w \in Owners, j \in Jobs : \E types, ids, locked :
               ClaimJob(w, types, ids, locked, j)
         \/ \E types, ids, locked : ClaimNoJob(types, ids, locked)
         \/ \E c \in Claim : CompleteJob(c) \/ ReleaseJob(c) \/ RenewLease(c)
         \/ \E c \in Claim, r \in BOOLEAN : FailJob(c, r)
         \/ AgeJobs
         \/ UNCHANGED job
<1>1. ASSUME NEW p \in Workers, WorkerStep(p), job' # job,
             ~ \E types, ids, locked : ClaimNoJob(types, ids, locked),
             ~ \E w \in Owners, j \in Jobs : \E types, ids, locked :
                 ClaimJob(w, types, ids, locked, j)
      PROVE  \/ \E c \in Claim : CompleteJob(c) \/ ReleaseJob(c) \/ RenewLease(c)
             \/ \E c \in Claim, r \in BOOLEAN : FailJob(c, r)
  <2>1. WorkerId[p] \in Owners
    BY WorkerAssumption
  <2>2. ~FindsNoJob(p) /\ ~Claims(p)
    BY <1>1, <2>1 DEF FindsNoJob, Claims
  <2>3. Completes(p) \/ RecordsFailure(p) \/ Releases(p) \/ Heartbeats(p)
    BY <1>1, <2>2 DEF WorkerStep, LoopStep, StopsIdle, HandlerReturns, HandlerRaises, AbandonsClaim,
       StartsDrain, DrainTimesOut, DrainRaises, RequestsStop, IsCancelled, CancelHandler,
       HeartbeatRaises, Crashes, Restarts
  <2>4. claim[p] \in Claim
    BY <2>3 DEF TypeOK, Completes, RecordsFailure, Releases, Heartbeats, Beating, Holding
  <2> QED
    BY <2>3, <2>4 DEF Completes, RecordsFailure, Releases, Heartbeats
<1>2. UNCHANGED vars => UNCHANGED job
  BY DEF vars
<1> QED
  BY <1>1, <1>2 DEF Next, Enqueue, Tick

(* No transaction of the workers ever breaks a CHECK constraint of durable_jobs; in
   particular no job is tried more often than max_attempts
   (freelancer_bot/persistence/schema.py:1048-1073). *)
THEOREM RowsStayConsistent == Spec => []JobRowsConsistent
<1>1. Init => JobRowsConsistent
  <2> SUFFICES ASSUME Init, NEW j \in Jobs
               PROVE  RowConsistent(job[j], j)
    BY RowByRow
  <2>1. MaxAttempts[j] \in Nat \ {0}
    BY JobsAssumption
  <2> QED
    BY <2>1 DEF Init, JobsInit, RowConsistent
<1>2. TypeOK /\ JobRowsConsistent /\ [Next]_vars => JobRowsConsistent'
  <2> SUFFICES ASSUME TypeOK, JobRowsConsistent, [Next]_vars
               PROVE  JobRowsConsistent'
    OBVIOUS
  <2>1. JobsTypeOK
    BY DEF TypeOK
  <2> QED
    BY <2>1, StepOperation, OperationsKeepRows
<1> QED
  BY <1>1, <1>2, TypeCorrect, PTL DEF Spec

-----------------------------------------------------------------------------
(* A timely heartbeat keeps the claim.  The invariant that carries the proof: what is left
   of the lease and what has passed since the last renewal make up a whole lease. *)

Fresh(p) == Beating(p) /\ beat[p] < LeaseDuration
LeaseCovers(p) ==
  /\ OwnsClaim(claim[p])
  /\ job[claim[p].job].lease + beat[p] >= LeaseDuration
LeasesCover == \A p \in Workers : Fresh(p) => LeaseCovers(p)

LEMMA CoveredLease ==
  ASSUME TypeOK, LeasesCover, NEW p \in Workers, Fresh(p)
  PROVE  /\ claim[p] \in Claim
         /\ job[claim[p].job].state = "running"
         /\ job[claim[p].job].lease > 0
         /\ ValidClaim(claim[p])
<1>1. claim[p] \in Claim /\ beat[p] \in Nat /\ beat[p] < LeaseDuration
  BY WorkerAssumption DEF TypeOK, Beating, Fresh
<1>2. job[claim[p].job].lease \in Nat
  BY <1>1, JobsAssumption DEF TypeOK, JobsTypeOK, JobRow, Claim
<1>3. LeaseCovers(p)
  BY DEF LeasesCover
<1>4. LeaseDuration \in Nat
  BY JobsAssumption
<1> QED
  BY <1>1, <1>2, <1>3, <1>4 DEF LeaseCovers, OwnsClaim, ValidClaim

(* Nobody else touches the row of a running, unexpired job but the holder of the claim. *)
LEMMA OthersLeaveRow ==
  ASSUME JobsTypeOK, NEW i \in Jobs, job[i].state = "running", job[i].lease > 0,
         \/ \E j \in Jobs : EnqueueJob(j)
         \/ \E w \in Owners, j \in Jobs : \E types, ids, locked :
               ClaimJob(w, types, ids, locked, j)
         \/ \E types, ids, locked : ClaimNoJob(types, ids, locked)
         \/ \E c \in Claim :
              /\ c.job = i => ~OwnsClaim(c)
              /\ \/ CompleteJob(c) \/ ReleaseJob(c) \/ RenewLease(c)
                 \/ \E r \in BOOLEAN : FailJob(c, r)
         \/ UNCHANGED job
  PROVE  job'[i] = job[i]
<1> USE DEF JobsTypeOK
<1>1. ~Expired(i) /\ \A types : Terminalized(types)[i] = job[i]
  BY DEF Expired, Terminalized, JobRow
<1>2. ASSUME NEW j \in Jobs, EnqueueJob(j) PROVE job'[i] = job[i]
  BY <1>2 DEF EnqueueJob
<1>3. ASSUME NEW w \in Owners, NEW j \in Jobs, NEW types, NEW ids, NEW locked,
             ClaimJob(w, types, ids, locked, j)
      PROVE  job'[i] = job[i]
  <2>1. i # j
    BY <1>1, <1>3, ClaimAttempts
  <2> QED
    BY <1>1, <1>3, <2>1, ClaimAttempts
<1>4. ASSUME NEW types, NEW ids, NEW locked, ClaimNoJob(types, ids, locked)
      PROVE  job'[i] = job[i]
  BY <1>1, <1>4 DEF ClaimNoJob
<1>5. ASSUME NEW c \in Claim, c.job = i => ~OwnsClaim(c),
             CompleteJob(c) \/ ReleaseJob(c) \/ RenewLease(c) \/ \E r \in BOOLEAN : FailJob(c, r)
      PROVE  job'[i] = job[i]
  <2>1. c.job \in Jobs /\ (c.job = i => ~ValidClaim(c))
    BY <1>5 DEF Claim, ValidClaim
  <2>2. CASE CompleteJob(c)
    BY <1>5, <2>1, <2>2 DEF CompleteJob
  <2>3. CASE ReleaseJob(c)
    BY <1>5, <2>1, <2>3 DEF ReleaseJob
  <2>4. CASE RenewLease(c)
    BY <1>5, <2>1, <2>4 DEF RenewLease, JobRow
  <2>5. CASE \E r \in BOOLEAN : FailJob(c, r)
    BY <1>5, <2>1, <2>5 DEF FailJob
  <2> QED
    BY <1>5, <2>2, <2>3, <2>4, <2>5
<1> QED
  BY <1>2, <1>3, <1>4, <1>5

LEMMA NextCovers ==
  TypeOK /\ AttemptsAreUnique /\ LeasesCover /\ [Next]_vars => LeasesCover'
<1> SUFFICES ASSUME TypeOK, AttemptsAreUnique, LeasesCover, [Next]_vars,
                    NEW p \in Workers, Beating(p)', beat'[p] < LeaseDuration
             PROVE  LeaseCovers(p)'
  BY DEF LeasesCover, Fresh
<1> DEFINE i == claim[p].job
<1>t. /\ JobsTypeOK
      /\ \A q \in Workers : Holding(q) <=> claim[q] \in Claim
      /\ \A q \in Workers : claim[q] # NoClaim => claim[q] \in Claim
      /\ beat[p] \in Nat /\ LeaseDuration \in Nat
      /\ WorkerId[p] \in Owners
  BY WorkerAssumption, JobsAssumption DEF TypeOK
(* The step leaves the claim of p and its row alone. *)
<1>k. ASSUME Beating(p), claim'[p] = claim[p], beat'[p] = beat[p],
             \/ \E j \in Jobs : EnqueueJob(j)
             \/ \E w \in Owners, j \in Jobs : \E types, ids, locked :
                   ClaimJob(w, types, ids, locked, j)
             \/ \E types, ids, locked : ClaimNoJob(types, ids, locked)
             \/ \E c \in Claim :
                  /\ c.job = i => ~OwnsClaim(c)
                  /\ \/ CompleteJob(c) \/ ReleaseJob(c) \/ RenewLease(c)
                     \/ \E r \in BOOLEAN : FailJob(c, r)
             \/ UNCHANGED job
      PROVE  LeaseCovers(p)'
  <2>1. i \in Jobs /\ job[i].state = "running" /\ job[i].lease > 0 /\ LeaseCovers(p)
    BY <1>k, CoveredLease DEF LeasesCover, Fresh, Claim
  <2>2. job'[i] = job[i]
    BY <1>k, <1>t, <2>1, OthersLeaveRow
  <2> QED
    BY <1>k, <2>1, <2>2 DEF LeaseCovers, OwnsClaim
<1>1. ASSUME NEW j \in Jobs, Enqueue(j)
      PROVE  LeaseCovers(p)'
  <2>1. Beating(p) /\ claim'[p] = claim[p] /\ beat'[p] = beat[p]
    BY <1>1 DEF Enqueue, workerVars, Beating, Holding
  <2> QED
    BY <1>1, <1>k, <2>1 DEF Enqueue
<1>2. ASSUME NEW q \in Workers, WorkerStep(q), q # p
      PROVE  LeaseCovers(p)'
  <2>1. /\ phase'[p] = phase[p] /\ claim'[p] = claim[p]
        /\ beat'[p] = beat[p] /\ beating'[p] = beating[p]
    BY <1>2 DEF TypeOK, WorkerStep, LoopStep, Claims, FindsNoJob, workerVars, StopsIdle, HandlerReturns,
       HandlerRaises, Completes, RecordsFailure, AbandonsClaim, StartsDrain, DrainTimesOut,
       DrainRaises, Releases, RequestsStop, IsCancelled, Heartbeats, HeartbeatRaises,
       Crashes, Restarts, Leave, CancelHandler
  <2>2. Beating(p)
    BY <2>1 DEF Beating, Holding
  <2>3. ASSUME claim[q] \in Claim, claim[q].job = i
        PROVE  ~OwnsClaim(claim[q])
    <3>1. OwnsClaim(claim[p]) /\ claim[p] \in Claim
      BY <2>1, <2>2, CoveredLease DEF Fresh, ValidClaim
    <3>2. claim[q].attempt # claim[p].attempt
      BY <1>2, <2>3, <3>1, WorkerAssumption DEF AttemptsAreUnique
    <3> QED
      BY <2>3, <3>1, <3>2 DEF OwnsClaim
  <2>4. CASE Completes(q) \/ RecordsFailure(q) \/ Releases(q) \/ Heartbeats(q)
    <3>1. claim[q] \in Claim
      BY <2>4, <1>t DEF Completes, RecordsFailure, Releases, Heartbeats, Beating, Holding
    <3> QED
      BY <2>1, <2>2, <2>3, <2>4, <3>1, <1>k
         DEF Completes, RecordsFailure, Releases, Heartbeats
  <2>5. CASE Claims(q)
    <3>1. WorkerId[q] \in Owners
      BY WorkerAssumption
    <3> QED
      BY <2>1, <2>2, <2>5, <3>1, <1>k DEF Claims
  <2>6. CASE FindsNoJob(q)
    BY <2>1, <2>2, <2>6, <1>k DEF FindsNoJob
  <2>7. CASE UNCHANGED job
    BY <2>1, <2>2, <2>7, <1>k
  <2> QED
    BY <1>2, <2>4, <2>5, <2>6, <2>7 DEF WorkerStep, LoopStep, StopsIdle, HandlerReturns, HandlerRaises,
       AbandonsClaim, StartsDrain, DrainTimesOut, DrainRaises, RequestsStop, IsCancelled,
       CancelHandler, HeartbeatRaises, Crashes, Restarts
<1>3. ASSUME WorkerStep(p)
      PROVE  LeaseCovers(p)'
  <2>1. CASE Claims(p)
    <3>1. PICK j \in Jobs, locked \in LockedSets(p) :
            /\ ClaimJob(WorkerId[p], Handled[p], OnlyIds[p], locked, j)
            /\ claim' = [claim EXCEPT ![p] = [job |-> j, attempt |-> job'[j].attempts,
                                              worker |-> WorkerId[p]]]
      BY <2>1 DEF Claims
    <3>2. /\ job'[j].state = "running" /\ job'[j].owner = WorkerId[p]
          /\ job'[j].lease = LeaseDuration
      BY <3>1, <1>t, ClaimAttempts
    <3>3. claim'[p] = [job |-> j, attempt |-> job'[j].attempts, worker |-> WorkerId[p]]
      BY <3>1 DEF TypeOK
    <3>4. beat'[p] = beat[p]
      BY <2>1 DEF Claims
    <3> QED
      BY <3>2, <3>3, <3>4, <1>t DEF LeaseCovers, OwnsClaim
  <2>2. CASE Heartbeats(p)
    <3>1. ValidClaim(claim[p]) /\ claim[p] \in Claim /\ i \in Jobs
      BY <2>2, <1>t DEF Heartbeats, Fresh, Beating, TypeOK, Claim
    <3>2. job' = [job EXCEPT ![i].lease = LeaseDuration] /\ beat'[p] = 0 /\ claim'[p] = claim[p]
      BY <2>2, <3>1 DEF Heartbeats, RenewLease, TypeOK
    <3> QED
      BY <3>1, <3>2, <1>t DEF LeaseCovers, ValidClaim, OwnsClaim, JobsTypeOK, JobRow
  <2>3. CASE \/ FindsNoJob(p) \/ HandlerReturns(p) \/ HandlerRaises(p) \/ StartsDrain(p)
             \/ DrainTimesOut(p) \/ RequestsStop(p)
    <3>1. Beating(p) /\ claim'[p] = claim[p] /\ beat'[p] = beat[p]
      BY <2>3 DEF Beating, Holding, FindsNoJob, workerVars, HandlerReturns, HandlerRaises,
         StartsDrain, DrainTimesOut, CancelHandler, RequestsStop
    <3> QED
      BY <2>3, <3>1, <1>k DEF FindsNoJob, HandlerReturns, HandlerRaises, StartsDrain,
         DrainTimesOut, CancelHandler, RequestsStop
  <2>4. CASE IsCancelled(p) /\ phase[p] # "idle"
    <3>1. Beating(p) /\ claim'[p] = claim[p] /\ beat'[p] = beat[p] /\ UNCHANGED job
      BY <2>4 DEF IsCancelled, CancelHandler, Beating, Holding
    <3> QED
      BY <3>1, <1>k
  <2>5. CASE \/ StopsIdle(p) \/ (IsCancelled(p) /\ phase[p] = "idle") \/ Restarts(p)
             \/ Completes(p) \/ RecordsFailure(p) \/ AbandonsClaim(p) \/ DrainRaises(p)
             \/ Releases(p) \/ Crashes(p) \/ HeartbeatRaises(p)
    <3>1. ~Beating(p)'
      BY <2>5 DEF TypeOK, Beating, Holding, StopsIdle, IsCancelled, Restarts, Completes,
         RecordsFailure, AbandonsClaim, DrainRaises, Releases, Crashes, HeartbeatRaises, Leave
    <3> QED
      BY <3>1
  <2> QED
    BY <1>3, <2>1, <2>2, <2>3, <2>4, <2>5 DEF WorkerStep, LoopStep
<1>4. CASE Tick
  <2>1. Beating(p) /\ claim'[p] = claim[p] /\ beat'[p] = beat[p] + 1
    BY <1>4 DEF Tick, Beating, Holding, TypeOK
  <2>2. claim[p] \in Claim /\ job[i].lease > 0 /\ LeaseCovers(p)
    BY <2>1, <1>t, CoveredLease DEF LeasesCover, Fresh
  <2>3. i \in Jobs /\ job[i].lease \in Nat
    BY <2>2, <1>t DEF Claim, JobsTypeOK, JobRow
  <2>4. job'[i] = [job[i] EXCEPT !.lease = CountDown(@), !.delay = CountDown(@)]
    BY <1>4, <2>3 DEF Tick, AgeJobs
  <2>5. /\ job'[i].lease = job[i].lease - 1 /\ job'[i].state = job[i].state
        /\ job'[i].owner = job[i].owner /\ job'[i].attempts = job[i].attempts
    BY <2>2, <2>3, <2>4, <1>t DEF CountDown, JobsTypeOK, JobRow
  <2> QED
    BY <2>1, <2>2, <2>3, <2>5, <1>t DEF LeaseCovers, OwnsClaim
<1>5. CASE UNCHANGED vars
  BY <1>5, <1>k DEF vars, workerVars, Beating, Holding
<1> QED
  BY <1>1, <1>2, <1>3, <1>4, <1>5 DEF Next

(* What a heartbeat shorter than the lease (worker.py:48-58) buys: a worker that has renewed
   within the last lease holds its claim, however late the others are, whatever crashes,
   and even when two processes share a worker_id. *)
THEOREM HeartbeatKeepsClaimAlways == Spec => []HeartbeatKeepsClaim
<1>1. Init => LeasesCover
  BY DEF Init, LeasesCover, Fresh, Beating, Holding
<1>2. TypeOK /\ AttemptsAreUnique /\ LeasesCover /\ [Next]_vars => LeasesCover'
  BY NextCovers
<1>3. TypeOK /\ LeasesCover => HeartbeatKeepsClaim
  BY CoveredLease DEF HeartbeatKeepsClaim, Fresh
<1> QED
  BY <1>1, <1>2, <1>3, TypeCorrect, FencingToken, PTL DEF Spec

(* Hence two handlers that have both renewed within the last lease never run for one job. *)
THEOREM HandlersNeverOverlap == Spec => []NoOverlappingHandlers
<1>1. TypeOK /\ AttemptsAreUnique /\ HeartbeatKeepsClaim => NoOverlappingHandlers
  <2> SUFFICES ASSUME TypeOK, AttemptsAreUnique, HeartbeatKeepsClaim,
                      NEW p \in Workers, NEW q \in Workers,
                      Beating(p), Beating(q), claim[p].job = claim[q].job,
                      beat[p] < LeaseDuration, beat[q] < LeaseDuration
               PROVE  p = q
    BY DEF NoOverlappingHandlers
  <2>1. ValidClaim(claim[p]) /\ ValidClaim(claim[q])
    BY DEF HeartbeatKeepsClaim
  <2>2. claim[p].attempt = claim[q].attempt
    BY <2>1 DEF ValidClaim, OwnsClaim
  <2>3. claim[p] # NoClaim /\ claim[q] # NoClaim
    BY DEF TypeOK, Beating
  <2> QED
    BY <2>2, <2>3 DEF AttemptsAreUnique
<1> QED
  BY <1>1, TypeCorrect, FencingToken, HeartbeatKeepsClaimAlways, PTL

-----------------------------------------------------------------------------
(* The table implements the contract of the queue.  A completed row needs one more fact:   *)
(* a handler that has returned has done the work of the attempt its process holds.         *)

ReturnedHasWorked ==
  \A p \in Workers : Holding(p) /\ handler[p] = "returned"
                        => claim[p].attempt \in succeeded[claim[p].job]

LEMMA NextWorked == TypeOK /\ ReturnedHasWorked /\ [Next]_vars => ReturnedHasWorked'
<1> SUFFICES ASSUME TypeOK, ReturnedHasWorked, [Next]_vars,
                    NEW p \in Workers, Holding(p)', handler'[p] = "returned"
             PROVE  (claim[p].attempt \in succeeded[claim[p].job])'
  BY DEF ReturnedHasWorked
<1> USE DEF TypeOK
<1>k. ASSUME Holding(p), handler[p] = "returned", claim'[p] = claim[p],
             \A j \in Jobs : succeeded[j] \subseteq succeeded'[j]
      PROVE  claim'[p].attempt \in succeeded'[claim'[p].job]
  BY <1>k DEF ReturnedHasWorked, Claim
<1>1. ASSUME NEW q \in Workers, HandlerReturns(q)
      PROVE  claim'[p].attempt \in succeeded'[claim'[p].job]
  <2>1. claim[q] \in Claim
    BY <1>1 DEF HandlerReturns, Holding
  <2>2. CASE p = q
    BY <1>1, <2>1, <2>2 DEF HandlerReturns, Claim
  <2>3. CASE p # q
    BY <1>1, <1>k, <2>1, <2>3 DEF HandlerReturns, Holding, Claim
  <2> QED
    BY <2>2, <2>3
<1>2. ASSUME NEW q \in Workers, LoopStep(q) \/ HandlerRaises(q)
      PROVE  claim'[p].attempt \in succeeded'[claim'[p].job]
  <2>1. /\ succeeded' = succeeded
        /\ handler[p] = "returned" /\ (phase[p] = phase'[p] \/ Holding(p))
        /\ claim'[p] = claim[p]
    BY <1>2 DEF LoopStep, Claims, FindsNoJob, workerVars, StopsIdle, HandlerRaises, Raised,
       Completes, RecordsFailure, AbandonsClaim, StartsDrain, DrainTimesOut, DrainRaises,
       Releases, RequestsStop, IsCancelled, Heartbeats, HeartbeatRaises, Crashes, Restarts,
       Leave, CancelHandler, Holding, Ended
  <2> QED
    BY <1>k, <2>1 DEF Holding
<1>3. ASSUME NEW j \in Jobs, Enqueue(j)
      PROVE  claim'[p].attempt \in succeeded'[claim'[p].job]
  BY <1>3, <1>k DEF Enqueue, workerVars, Holding
<1>4. CASE Tick
  BY <1>4, <1>k DEF Tick, Holding
<1>5. CASE UNCHANGED vars
  BY <1>5, <1>k DEF vars, workerVars, Holding
<1> QED
  BY <1>1, <1>2, <1>3, <1>4, <1>5 DEF Next, WorkerStep

(* How one transaction moves a row, seen by those who enqueue.              *)

RowMove(j) ==
  LET old == job[j]  new == job'[j] IN
  \/ new.state = old.state /\ new.attempts = old.attempts
  \/ old.state = "absent" /\ new.state = "queued" /\ new.attempts = old.attempts
  \/ /\ old.state \in {"queued", "running"} /\ new.state = "running"
     /\ new.attempts = old.attempts + 1 /\ new.attempts <= MaxAttempts[j]
  \/ /\ old.state = "running" /\ new.state = "queued"
     /\ new.attempts = old.attempts /\ old.attempts < MaxAttempts[j]
  \/ old.state = "running" /\ new.state = "failed" /\ new.attempts = old.attempts

Completed(j) ==
  /\ job[j].state = "running" /\ job'[j].state = "completed"
  /\ job'[j].attempts = job[j].attempts

LEMMA OperationsMoveRows ==
  ASSUME JobsTypeOK, NEW i \in Jobs,
         \/ \E j \in Jobs : EnqueueJob(j)
         \/ \E w \in Owners, j \in Jobs : \E types, ids, locked :
               ClaimJob(w, types, ids, locked, j)
         \/ \E types, ids, locked : ClaimNoJob(types, ids, locked)
         \/ \E c \in Claim : ReleaseJob(c) \/ RenewLease(c)
         \/ \E c \in Claim, r \in BOOLEAN : FailJob(c, r)
         \/ AgeJobs
         \/ UNCHANGED job
  PROVE  RowMove(i)
<1>t. job[i] \in JobRow /\ MaxAttempts[i] \in Nat /\ job \in [Jobs -> JobRow]
  BY JobsAssumption DEF JobsTypeOK
<1> USE DEF RowMove
<1>x. ASSUME NEW types
      PROVE  \/ Terminalized(types)[i] = job[i]
             \/ /\ job[i].state = "running"
                /\ Terminalized(types)[i] = Unclaimed(job[i], "failed")
  BY DEF Terminalized, Expired
<1>1. ASSUME NEW j \in Jobs, EnqueueJob(j) PROVE RowMove(i)
  BY <1>1, <1>t DEF EnqueueJob, JobRow
<1>2. ASSUME NEW w \in Owners, NEW j \in Jobs, NEW types, NEW ids, NEW locked,
             ClaimJob(w, types, ids, locked, j)
      PROVE  RowMove(i)
  <2>1. CASE i # j
    BY <1>2, <1>x, <2>1, ClaimAttempts DEF Unclaimed
  <2>2. CASE i = j
    BY <1>2, <1>t, <2>2, ClaimAttempts DEF HasAttempt, Expired, JobRow
  <2> QED
    BY <2>1, <2>2
<1>3. ASSUME NEW types, NEW ids, NEW locked, ClaimNoJob(types, ids, locked)
      PROVE  RowMove(i)
  BY <1>3, <1>x DEF ClaimNoJob, Unclaimed
<1>4. ASSUME NEW c \in Claim, NEW r \in BOOLEAN, FailJob(c, r) PROVE RowMove(i)
  <2>1. CASE i # c.job \/ ~ValidClaim(c)
    BY <1>4, <1>t, <2>1 DEF FailJob
  <2>2. CASE i = c.job /\ ValidClaim(c)
    BY <1>4, <1>t, <2>2 DEF FailJob, ValidClaim, OwnsClaim, LastAttempt, Unclaimed, JobRow
  <2> QED
    BY <2>1, <2>2
<1>5. ASSUME NEW c \in Claim, ReleaseJob(c) PROVE RowMove(i)
  <2>1. CASE i # c.job \/ ~OwnsClaim(c)
    BY <1>5, <1>t, <2>1 DEF ReleaseJob
  <2>2. CASE i = c.job /\ OwnsClaim(c)
    BY <1>5, <1>t, <2>2 DEF ReleaseJob, OwnsClaim, LastAttempt, Unclaimed, JobRow
  <2> QED
    BY <2>1, <2>2
<1>6. ASSUME NEW c \in Claim, RenewLease(c) PROVE RowMove(i)
  BY <1>6, <1>t DEF RenewLease, JobRow
<1>7. CASE AgeJobs
  BY <1>7, <1>t DEF AgeJobs, JobRow
<1> QED
  BY <1>1, <1>2, <1>3, <1>4, <1>5, <1>6, <1>7

LEMMA CompletionMovesRow ==
  ASSUME JobsTypeOK, NEW i \in Jobs, NEW c \in Claim, CompleteJob(c)
  PROVE  \/ job'[i] = job[i]
         \/ Completed(i) /\ c.job = i /\ c.attempt = job[i].attempts
BY DEF JobsTypeOK, CompleteJob, ValidClaim, OwnsClaim, Unclaimed, Completed, Claim

(* The contract's step of one job, in terms of its row.                     *)
LEMMA ContractStepOfRow ==
  ASSUME TypeOK, TypeOK', NEW j \in Jobs, succeeded'[j] = succeeded[j],
         RowMove(j) \/ (Completed(j) /\ job[j].attempts \in succeeded[j])
  PROVE  Contract!JobStep(j)
<1>1. job[j] \in JobRow /\ job'[j] \in JobRow
  BY DEF TypeOK, JobsTypeOK
<1> QED
  BY <1>1 DEF RowMove, Completed, JobRow, JobStates, Contract!JobStep, Contract!Same,
     Contract!Submit, Contract!Try, Contract!Finish, Contract!PutBack, Contract!GiveUp

(* Every step of the workers is a step of the contract: every job moves as  *)
(* one of the contract's steps allows, or its last claim does its work.     *)
LEMMA NextImplements ==
  ASSUME TypeOK, TypeOK', AttemptsAreUnique, ReturnedHasWorked, [Next]_vars
  PROVE  Contract!ContractNext
<1> USE DEF TypeOK
<1>d. /\ \A j \in Jobs : Contract!JobStep(j)
      /\ succeeded \in [Jobs -> SUBSET Nat] /\ succeeded' \in [Jobs -> SUBSET Nat]
      => Contract!ContractNext
  BY DEF Contract!ContractNext
<1>1. ASSUME NEW p \in Workers, HandlerReturns(p), NEW j \in Jobs
      PROVE  Contract!JobStep(j)
  <2>1. claim[p] \in Claim /\ claim[p].attempt <= job[claim[p].job].attempts
    BY <1>1 DEF HandlerReturns, Holding, AttemptsAreUnique
  <2>2. job' = job
    BY <1>1 DEF HandlerReturns
  <2>3. CASE j # claim[p].job
    <3>1. succeeded'[j] = succeeded[j]
      BY <1>1, <2>1, <2>3 DEF HandlerReturns
    <3> QED
      BY <2>2, <3>1, ContractStepOfRow DEF RowMove
  <2>4. CASE j = claim[p].job
    <3>1. succeeded'[j] = succeeded[j] \cup {claim[p].attempt}
      BY <1>1, <2>1, <2>4 DEF HandlerReturns
    <3>2. claim[p].attempt \in 1..job[j].attempts
      BY <2>1, <2>4 DEF Claim, JobsTypeOK, JobRow
    <3>3. Contract!Same(j)
      BY <2>2 DEF Contract!Same
    <3>4. Contract!Work(j)
      BY <3>1, <3>2, <3>3 DEF Contract!Work
    <3> QED
      BY <3>4 DEF Contract!JobStep
  <2> QED
    BY <2>3, <2>4
<1>2. ASSUME NEW p \in Workers, Completes(p), NEW j \in Jobs
      PROVE  Contract!JobStep(j)
  <2>1. /\ claim[p] \in Claim /\ CompleteJob(claim[p]) /\ succeeded' = succeeded
        /\ claim[p].attempt \in succeeded[claim[p].job]
    BY <1>2 DEF Completes, Leave, Holding, ReturnedHasWorked
  <2>2. RowMove(j) \/ (Completed(j) /\ job[j].attempts \in succeeded[j])
    BY <2>1, CompletionMovesRow DEF RowMove
  <2> QED
    BY <2>1, <2>2, ContractStepOfRow
<1>3. ASSUME ~ \E p \in Workers : HandlerReturns(p) \/ Completes(p), NEW j \in Jobs
      PROVE  Contract!JobStep(j)
  <2>1. succeeded' = succeeded
    BY <1>3 DEF Next, Enqueue, WorkerStep, LoopStep, Claims, FindsNoJob, workerVars, StopsIdle,
       HandlerRaises, RecordsFailure, AbandonsClaim, StartsDrain, DrainTimesOut, DrainRaises,
       Releases, RequestsStop, IsCancelled, Heartbeats, HeartbeatRaises, Crashes, Restarts,
       Leave, CancelHandler, Tick, vars
  <2>2. RowMove(j)
    <3>1. CASE \E p \in Workers : WorkerStep(p)
      <4>1. PICK p \in Workers : WorkerStep(p) /\ ~HandlerReturns(p) /\ ~Completes(p)
        BY <1>3, <3>1
      <4>2. WorkerId[p] \in Owners /\ (Holding(p) => claim[p] \in Claim)
        BY WorkerAssumption
      <4>3. CASE Claims(p)
        BY <4>2, <4>3, OperationsMoveRows DEF Claims
      <4>4. CASE FindsNoJob(p)
        BY <4>4, OperationsMoveRows DEF FindsNoJob
      <4>5. CASE RecordsFailure(p)
        BY <4>2, <4>5, OperationsMoveRows DEF RecordsFailure, Holding
      <4>6. CASE Releases(p)
        BY <4>2, <4>6, OperationsMoveRows DEF Releases, Holding
      <4>7. CASE Heartbeats(p)
        BY <4>2, <4>7, OperationsMoveRows DEF Heartbeats, Beating
      <4>8. CASE UNCHANGED job
        BY <4>8, OperationsMoveRows
      <4> QED
        BY <4>1, <4>3, <4>4, <4>5, <4>6, <4>7, <4>8
           DEF WorkerStep, LoopStep, StopsIdle, HandlerRaises, AbandonsClaim, StartsDrain,
           DrainTimesOut, DrainRaises, RequestsStop, IsCancelled, CancelHandler,
           HeartbeatRaises, Crashes, Restarts
    <3>2. CASE ~ \E p \in Workers : WorkerStep(p)
      BY <3>2, OperationsMoveRows DEF Next, Enqueue, Tick, vars
    <3> QED
      BY <3>1, <3>2
  <2> QED
    BY <2>1, <2>2, ContractStepOfRow
<1> QED
  BY <1>d, <1>1, <1>2, <1>3

(* The durable queue and its workers implement what a producer of jobs is promised
   (JobContract): a job is tried at most max_attempts times, is done only by the work of
   its current try, and is settled for good, whatever crashes, stops or is late
   (freelancer_bot/persistence/jobs.py:37-349, freelancer_bot/worker.py:96-339). *)
THEOREM WorkersImplementTheContract == Spec => ImplementsContract
<1>1. Init => Contract!ContractInit
  BY DEF Init, JobsInit, Contract!ContractInit
<1>2. Init => ReturnedHasWorked
  BY DEF Init, ReturnedHasWorked, Holding
<1>3. TypeOK /\ ReturnedHasWorked /\ [Next]_vars => ReturnedHasWorked'
  BY NextWorked
<1>4. TypeOK /\ TypeOK' /\ AttemptsAreUnique /\ ReturnedHasWorked /\ [Next]_vars
      => [Contract!ContractNext]_Contract!contractVars
  BY NextImplements
<1> QED
  BY <1>1, <1>2, <1>3, <1>4, TypeCorrect, FencingToken, PTL
     DEF Spec, ImplementsContract, Contract!ContractSpec

-----------------------------------------------------------------------------
(* The workers under the deliveries.                                       *)

WorkerInv ==
  /\ TypeOK
  /\ AttemptsAreUnique
  /\ JobRowsConsistent
  /\ LeasesCover
  /\ ReturnedHasWorked

LEMMA StepOfWorkers == ASSUME [DeliveryNext]_allVars PROVE [Next]_vars
BY DEF DeliveryNext, allVars, Schedule, EnsureDelivery, ObstacleAppears, ObstacleGoes,
   RecordAction, ProcessorStep, PreparesNothing, Suppresses, PreparesAttempt, Sends,
   ConfirmsSent, RejectsAttempt, LosesOwnership, TransactionRaises, Next, WorkerStep

(* Every behaviour of the deliveries is one of the workers they run in:    *)
(* PersonalizedDeliveryJobProcessor is called by the worker, and nothing   *)
(* it does touches the table of jobs but through the worker's operations.  *)
THEOREM DeliveriesAreWorkers == DeliverySpec => Spec
<1>1. DeliveryInit => Init
  BY DEF DeliveryInit
<1>2. [DeliveryNext]_allVars => [Next]_vars
  BY StepOfWorkers
<1> QED
  BY <1>1, <1>2, PTL DEF DeliverySpec, Spec

-----------------------------------------------------------------------------
(* What a step of the loop does to the handlers and to the rows of the jobs. *)

HandlersPlaced ==
  \A p \in Workers : handler[p] # "none" => phase[p] \in {"processing", "draining"}

LoopOrTick == \/ \E q \in Workers : LoopStep(q) /\ FollowHandlers
              \/ Tick /\ step' = step

LEMMA HandlersStayPlaced ==
  ASSUME TypeOK, HandlersPlaced, [Next]_vars
  PROVE  HandlersPlaced'
<1> USE DEF TypeOK, HandlersPlaced
<1>1. ASSUME NEW q \in Workers, WorkerStep(q)
      PROVE  HandlersPlaced'
  BY <1>1 DEF WorkerStep, LoopStep, Claims, FindsNoJob, workerVars, StopsIdle, HandlerReturns,
     HandlerRaises, Raised, Completes, RecordsFailure, AbandonsClaim, StartsDrain,
     DrainTimesOut, DrainRaises, Releases, RequestsStop, IsCancelled, Heartbeats,
     HeartbeatRaises, Crashes, Restarts, Leave, CancelHandler, Ended
<1> QED
  BY <1>1 DEF Next, Enqueue, Tick, vars, workerVars

(* A handler goes on, ends, or is started by a claim.                       *)
LEMMA LoopOnHandlers ==
  ASSUME TypeOK, HandlersPlaced, step \in [Workers -> Steps], LoopOrTick,
         \A p \in Workers : step[p] # "none" <=> handler[p] = "running",
         NEW p \in Workers
  PROVE  \/ claim'[p] = claim[p] /\ handler'[p] = handler[p] /\ step'[p] = step[p]
         \/ handler'[p] = "none" /\ step'[p] = "none"
         \/ Claims(p) /\ handler'[p] = "running" /\ step'[p] = "prepare"
<1> USE DEF TypeOK, HandlersPlaced
<1>1. ASSUME Tick, step' = step
      PROVE  claim'[p] = claim[p] /\ handler'[p] = handler[p] /\ step'[p] = step[p]
  BY <1>1 DEF Tick
<1>2. ASSUME NEW q \in Workers, LoopStep(q), FollowHandlers
      PROVE  \/ claim'[p] = claim[p] /\ handler'[p] = handler[p]
             \/ handler'[p] = "none"
             \/ Claims(p) /\ handler'[p] = "running" /\ handler[p] = "none"
  BY <1>2 DEF LoopStep, Claims, FindsNoJob, workerVars, StopsIdle, Completes, RecordsFailure,
     AbandonsClaim, StartsDrain, DrainTimesOut, DrainRaises, Releases, RequestsStop,
     IsCancelled, Heartbeats, HeartbeatRaises, Crashes, Restarts, Leave, CancelHandler
<1>3. ASSUME NEW q \in Workers, LoopStep(q), FollowHandlers
      PROVE  /\ handler'[p] # "running" => step'[p] = "none"
             /\ handler'[p] = "running" /\ handler[p] # "running" => step'[p] = "prepare"
             /\ handler'[p] = "running" /\ handler[p] = "running" => step'[p] = step[p]
  BY <1>3 DEF FollowHandlers
<1>4. handler[p] # "running" => step[p] = "none"
  OBVIOUS
<1> QED
  BY <1>1, <1>2, <1>3, <1>4 DEF LoopOrTick

(* The attempts of a job never go down.                                     *)
LEMMA AttemptsGrow ==
  ASSUME TypeOK, [Next]_vars, NEW j \in Jobs
  PROVE  job'[j].attempts >= job[j].attempts
<1>1. job[j].attempts \in Nat
  BY DEF TypeOK, JobsTypeOK, JobRow
<1>2. CASE ~ \E p \in Workers : Claims(p)
  BY <1>1, <1>2, OtherStepsKeepClaims DEF SameAttempts
<1>3. ASSUME NEW p \in Workers, Claims(p)
      PROVE  job'[j].attempts >= job[j].attempts
  <2>1. PICK i \in Jobs, locked \in LockedSets(p) :
          ClaimJob(WorkerId[p], Handled[p], OnlyIds[p], locked, i)
    BY <1>3 DEF Claims
  <2>2. /\ job'[i].attempts = job[i].attempts + 1
        /\ \A k \in Jobs \ {i} : job'[k].attempts = job[k].attempts
    BY <2>1, ClaimAttempts, TerminalizedAttempts DEF TypeOK
  <2> QED
    BY <1>1, <2>2
<1> QED
  BY <1>2, <1>3

(* Only an enqueue makes a row appear, and none disappears.                 *)
LEMMA WorkersCreateNothing ==
  ASSUME TypeOK, NEW i \in Jobs, (\E p \in Workers : WorkerStep(p)) \/ Tick \/ UNCHANGED vars
  PROVE  job'[i].state = "absent" <=> job[i].state = "absent"
<1> USE DEF TypeOK, JobsTypeOK
<1>2. ASSUME NEW types
      PROVE  Terminalized(types)[i].state = "absent" <=> job[i].state = "absent"
  BY DEF Terminalized, Expired, Unclaimed
<1>3. ASSUME NEW p \in Workers, WorkerStep(p)
      PROVE  job'[i].state = "absent" <=> job[i].state = "absent"
  <2>1. Holding(p) => claim[p] \in Claim
    BY <1>3
  <2>2. CASE Claims(p)
    <3>1. PICK j \in Jobs, locked \in LockedSets(p) :
            ClaimJob(WorkerId[p], Handled[p], OnlyIds[p], locked, j)
      BY <2>2 DEF Claims
    <3>2. CASE i = j
      BY <3>1, <3>2, ClaimAttempts DEF Expired
    <3>3. CASE i # j
      BY <3>1, <3>3, <1>2, ClaimAttempts
    <3> QED
      BY <3>2, <3>3
  <2>3. CASE FindsNoJob(p)
    BY <2>3, <1>2 DEF FindsNoJob, ClaimNoJob
  <2>4. CASE Completes(p)
    BY <2>1, <2>4 DEF Completes, Holding, CompleteJob, ValidClaim, OwnsClaim, Unclaimed, Claim
  <2>5. CASE RecordsFailure(p)
    BY <2>1, <2>5
       DEF RecordsFailure, Holding, FailJob, ValidClaim, OwnsClaim, Unclaimed, Claim
  <2>6. CASE Releases(p)
    BY <2>1, <2>6 DEF Releases, Holding, ReleaseJob, OwnsClaim, Unclaimed, Claim
  <2>7. CASE Heartbeats(p)
    BY <2>1, <2>7 DEF Heartbeats, Beating, RenewLease, JobRow, Claim
  <2>8. CASE UNCHANGED job
    BY <2>8
  <2> QED
    BY <1>3, <2>2, <2>3, <2>4, <2>5, <2>6, <2>7, <2>8
       DEF WorkerStep, LoopStep, StopsIdle, HandlerReturns, HandlerRaises, AbandonsClaim,
       StartsDrain, DrainTimesOut, DrainRaises, RequestsStop, IsCancelled, CancelHandler,
       HeartbeatRaises, Crashes, Restarts
<1>4. CASE Tick
  BY <1>4 DEF Tick, AgeJobs, JobRow
<1>5. CASE UNCHANGED vars
  BY <1>5 DEF vars
<1> QED
  BY <1>3, <1>4, <1>5

LEMMA RowsStay ==
  ASSUME TypeOK, [Next]_vars, NEW i \in Jobs, job[i].state # "absent"
  PROVE  job'[i].state # "absent"
<1>1. ASSUME NEW j \in Jobs, Enqueue(j) PROVE job'[i].state # "absent"
  BY <1>1 DEF Enqueue, EnqueueJob, TypeOK, JobsTypeOK, JobRow
<1> QED
  BY <1>1, WorkersCreateNothing DEF Next

-----------------------------------------------------------------------------
(* The invariant.  A row names the attempt that took it last, and that can  *)
(* be an attempt that is overtaken.  What holds of all rows is stated for   *)
(* the latest attempt of the job: nobody can take the row from it, because  *)
(* every other handler of the job has an earlier attempt.                   *)

Serving(p) == step[p] \in {"send", "confirm", "reject"}
Latest(p) == claim[p].attempt = job[claim[p].job].attempts

ClaimedKnown == \A p \in Workers : Holding(p) => job[claim[p].job].state # "absent"
RowsBehind == \A j \in Jobs : delivery[j].attempts <= job[j].attempts
FirstPrepares ==
  \A p \in Workers : step[p] = "prepare" => delivery[claim[p].job].attempts # claim[p].attempt
ServingOwns == \A p \in Workers : Serving(p) /\ Latest(p) => OwnsRow(claim[p])
ReturnedSettled ==
  \A p \in Workers : handler[p] = "returned" /\ Latest(p)
                        => delivery[claim[p].job].status \in SettledStatus
ConfirmedDelivered ==
  \A p \in Workers : step[p] = "confirm" => claim[p].attempt \in deliveredBy[claim[p].job]
ActedFinite == \A j \in Jobs : IsFiniteSet(acted[j])

DeliveryInv ==
  /\ DeliveryTypeOK /\ HandlersPlaced /\ ClaimedKnown
  /\ RowsBehind /\ FirstPrepares /\ ServingOwns /\ ReturnedSettled
  /\ CompletedJobSettledDelivery
  /\ ConfirmedDelivered /\ SentAttemptWasDelivered /\ ActedFinite

(* Where a handler runs or has ended, its process holds a claim.            *)
LEMMA HandlerHoldsClaim ==
  ASSUME DeliveryInv, WorkerInv, NEW p \in Workers, handler[p] # "none" \/ step[p] # "none"
  PROVE  /\ Holding(p) /\ claim[p] \in Claim /\ claim[p].job \in Jobs
         /\ claim[p].attempt \in Nat \ {0} /\ claim[p] # NoClaim
         /\ claim[p].attempt <= job[claim[p].job].attempts
         /\ job[claim[p].job].attempts <= MaxAttempts[claim[p].job]
         /\ job[claim[p].job].attempts \in Nat
         /\ MaxAttempts[claim[p].job] \in Nat
         /\ job[claim[p].job].state # "absent"
         /\ delivery[claim[p].job].status # "absent"
<1>1. handler[p] # "none"
  BY DEF DeliveryInv, DeliveryTypeOK
<1>2. Holding(p)
  BY <1>1 DEF DeliveryInv, HandlersPlaced, Holding
<1>3. claim[p] # NoClaim /\ claim[p] \in Claim
  BY <1>2 DEF WorkerInv, TypeOK
<1>4. claim[p].job \in Jobs /\ claim[p].attempt \in Nat \ {0}
  BY <1>3 DEF Claim
<1>5. /\ claim[p].attempt <= job[claim[p].job].attempts
      /\ job[claim[p].job].attempts <= MaxAttempts[claim[p].job]
  BY <1>3, <1>4 DEF WorkerInv, AttemptsAreUnique, JobRowsConsistent
<1>6. job[claim[p].job].attempts \in Nat /\ MaxAttempts[claim[p].job] \in Nat
  BY <1>4, JobsAssumption DEF WorkerInv, TypeOK, JobsTypeOK, JobRow
<1>7. job[claim[p].job].state # "absent" /\ delivery[claim[p].job].status # "absent"
  BY <1>2, <1>4 DEF DeliveryInv, ClaimedKnown, DeliveryTypeOK
<1> QED
  BY <1>2, <1>3, <1>4, <1>5, <1>6, <1>7

(* Two handlers of one job have different attempts, and only one the latest. *)
LEMMA Rivals ==
  ASSUME DeliveryInv, WorkerInv, NEW p \in Workers, NEW q \in Workers, p # q,
         handler[p] # "none" \/ step[p] # "none", handler[q] # "none" \/ step[q] # "none",
         claim[p].job = claim[q].job
  PROVE  /\ claim[p].attempt # claim[q].attempt
         /\ Latest(q) => claim[p].attempt < claim[q].attempt
<1>1. claim[p].attempt # claim[q].attempt
  BY HandlerHoldsClaim DEF WorkerInv, AttemptsAreUnique
<1> QED
  BY <1>1, HandlerHoldsClaim DEF Latest

-----------------------------------------------------------------------------
(* The steps of the loop, of time and of a producer keep the invariant.     *)

LEMMA NextKeepsWorkers ==
  ASSUME WorkerInv, [Next]_vars
  PROVE  WorkerInv'
<1>1. TypeOK'
  BY NextType DEF WorkerInv
<1>2. AttemptsAreUnique'
  BY NextUnique DEF WorkerInv
<1>3. JobRowsConsistent'
  <2>1. JobsTypeOK
    BY DEF WorkerInv, TypeOK
  <2> QED
    BY <2>1, StepOperation, OperationsKeepRows DEF WorkerInv
<1>4. LeasesCover'
  BY NextCovers DEF WorkerInv
<1>5. ReturnedHasWorked'
  BY NextWorked DEF WorkerInv
<1> QED
  BY <1>1, <1>2, <1>3, <1>4, <1>5 DEF WorkerInv

(* A step that changes no delivery keeps what relates the rows to the claims, if every
   handler goes on, ends or is new. *)
LEMMA UndisturbedRows ==
  ASSUME DeliveryInv, WorkerInv, WorkerInv', [Next]_vars,
         NEW p \in Workers,
         \/ claim'[p] = claim[p] /\ handler'[p] = handler[p] /\ step'[p] = step[p]
         \/ handler'[p] = "none" /\ step'[p] = "none"
         \/ Claims(p) /\ handler'[p] = "running" /\ step'[p] = "prepare",
         \A j \in Jobs : /\ delivery'[j].attempts = delivery[j].attempts
                         /\ delivery[j].status \in SettledStatus \cup {"sending"}
                             => delivery'[j].status = delivery[j].status,
         deliveredBy' = deliveredBy
  PROVE  /\ (step[p] = "prepare" => delivery[claim[p].job].attempts # claim[p].attempt)'
         /\ (Serving(p) /\ Latest(p) => OwnsRow(claim[p]))'
         /\ (handler[p] = "returned" /\ Latest(p)
               => delivery[claim[p].job].status \in SettledStatus)'
         /\ (step[p] = "confirm" => claim[p].attempt \in deliveredBy[claim[p].job])'
<1>1. CASE handler'[p] = "none" /\ step'[p] = "none"
  BY <1>1 DEF Serving
<1>2. ASSUME Claims(p), handler'[p] = "running", step'[p] = "prepare"
      PROVE  delivery'[claim'[p].job].attempts # claim'[p].attempt
  <2>1. PICK j \in Jobs, locked \in LockedSets(p) :
          /\ ClaimJob(WorkerId[p], Handled[p], OnlyIds[p], locked, j)
          /\ claim' = [claim EXCEPT ![p] = [job |-> j, attempt |-> job'[j].attempts,
                                            worker |-> WorkerId[p]]]
    BY <1>2 DEF Claims
  <2>2. job'[j].attempts = job[j].attempts + 1
    BY <2>1, ClaimAttempts DEF WorkerInv, TypeOK
  <2>3. claim'[p].job = j /\ claim'[p].attempt = job[j].attempts + 1
    BY <2>1, <2>2 DEF WorkerInv, TypeOK
  <2>4. /\ delivery[j].attempts \in Nat /\ job[j].attempts \in Nat
        /\ delivery[j].attempts <= job[j].attempts
    BY DEF DeliveryInv, DeliveryTypeOK, RowsBehind, WorkerInv, TypeOK, JobsTypeOK, JobRow
  <2> QED
    BY <2>3, <2>4
<1>3. ASSUME claim'[p] = claim[p], handler'[p] = handler[p], step'[p] = step[p],
             handler[p] # "none" \/ step[p] # "none"
      PROVE  /\ (step[p] = "prepare" => delivery[claim[p].job].attempts # claim[p].attempt)'
             /\ (Serving(p) /\ Latest(p) => OwnsRow(claim[p]))'
             /\ (handler[p] = "returned" /\ Latest(p)
                   => delivery[claim[p].job].status \in SettledStatus)'
             /\ (step[p] = "confirm" => claim[p].attempt \in deliveredBy[claim[p].job])'
  <2> DEFINE c == claim[p]  j == claim[p].job
  <2>1. /\ j \in Jobs /\ c.attempt \in Nat /\ c.attempt <= job[j].attempts
        /\ job[j].attempts \in Nat
    BY <1>3, HandlerHoldsClaim
  <2>2. job'[j].attempts \in Nat /\ job'[j].attempts >= job[j].attempts
    BY <2>1, AttemptsGrow DEF WorkerInv, TypeOK, JobsTypeOK, JobRow
  <2>3. Latest(p)' => Latest(p)
    BY <1>3, <2>1, <2>2 DEF Latest
  <2>4. step'[p] = "prepare" => delivery'[j].attempts # c.attempt
    BY <1>3, <2>1 DEF DeliveryInv, FirstPrepares
  <2>5. Serving(p)' /\ Latest(p)' => OwnsRow(c)'
    BY <1>3, <2>1, <2>3 DEF DeliveryInv, ServingOwns, Serving, OwnsRow
  <2>6. handler'[p] = "returned" /\ Latest(p)' => delivery'[j].status \in SettledStatus
    BY <1>3, <2>1, <2>3 DEF DeliveryInv, ReturnedSettled
  <2>7. step'[p] = "confirm" => c.attempt \in deliveredBy'[j]
    BY <1>3, <2>1 DEF DeliveryInv, ConfirmedDelivered
  <2> QED
    BY <1>3, <2>4, <2>5, <2>6, <2>7 DEF OwnsRow
<1> QED
  BY <1>1, <1>2, <1>3 DEF Serving

LEMMA ClaimedStaysKnown ==
  ASSUME WorkerInv, WorkerInv', [Next]_vars, ClaimedKnown
  PROVE  ClaimedKnown'
<1> SUFFICES ASSUME NEW p \in Workers, Holding(p)'
             PROVE  job'[claim'[p].job].state # "absent"
  BY DEF ClaimedKnown
<1>1. CASE claim'[p] = claim[p]
  <2>1. claim[p] # NoClaim /\ Holding(p) /\ claim[p].job \in Jobs
    BY <1>1 DEF WorkerInv, TypeOK, Claim
  <2> QED
    BY <1>1, <2>1, RowsStay DEF WorkerInv, ClaimedKnown
<1>2. ASSUME NEW q \in Workers, Claims(q), claim'[p] # claim[p]
      PROVE  job'[claim'[p].job].state # "absent"
  <2>1. PICK j \in Jobs, locked \in LockedSets(q) :
          /\ ClaimJob(WorkerId[q], Handled[q], OnlyIds[q], locked, j)
          /\ claim' = [claim EXCEPT ![q] = [job |-> j, attempt |-> job'[j].attempts,
                                            worker |-> WorkerId[q]]]
    BY <1>2 DEF Claims
  <2>2. job'[j].state = "running"
    BY <2>1, ClaimAttempts DEF WorkerInv, TypeOK
  <2>3. p = q
    BY <1>2, <2>1 DEF WorkerInv, TypeOK
  <2> QED
    BY <2>1, <2>2, <2>3 DEF WorkerInv, TypeOK
<1>3. CASE ~ \E q \in Workers : Claims(q)
  <2>1. claim'[p] = claim[p]
    BY <1>3, OtherStepsKeepClaims DEF WorkerInv, KeepsOrDropsClaims, TypeOK
  <2> QED
    BY <1>1, <2>1
<1> QED
  BY <1>1, <1>2, <1>3

(* Only the latest claim of a job, after its handler returned, completes it. *)
LEMMA CompletionIsLatest ==
  ASSUME TypeOK, [Next]_vars, NEW j \in Jobs,
         job'[j].state = "completed", job[j].state # "completed"
  PROVE  \E p \in Workers : /\ handler[p] = "returned"
                            /\ claim[p].job = j /\ Latest(p)
<1>1. CASE \E p \in Workers : Completes(p)
  <2>1. PICK p \in Workers : Completes(p)
    BY <1>1
  <2>2. claim[p] \in Claim /\ CompleteJob(claim[p]) /\ handler[p] = "returned"
    BY <2>1 DEF Completes, Holding, TypeOK
  <2>3. job'[j] # job[j]
    OBVIOUS
  <2>4. claim[p].job = j /\ claim[p].attempt = job[j].attempts
    BY <2>2, <2>3, CompletionMovesRow DEF TypeOK
  <2> QED
    BY <2>2, <2>4 DEF Latest
<1>2. CASE ~ \E p \in Workers : Completes(p)
  <2>1. RowMove(j)
    <3>1. CASE \E p \in Workers : WorkerStep(p)
      <4>1. PICK p \in Workers : WorkerStep(p) /\ ~Completes(p)
        BY <1>2, <3>1
      <4>2. WorkerId[p] \in Owners /\ (Holding(p) => claim[p] \in Claim) /\ JobsTypeOK
        BY WorkerAssumption DEF TypeOK
      <4>3. CASE Claims(p)
        BY <4>2, <4>3, OperationsMoveRows DEF Claims
      <4>4. CASE FindsNoJob(p)
        BY <4>2, <4>4, OperationsMoveRows DEF FindsNoJob
      <4>5. CASE RecordsFailure(p)
        BY <4>2, <4>5, OperationsMoveRows DEF RecordsFailure, Holding
      <4>6. CASE Releases(p)
        BY <4>2, <4>6, OperationsMoveRows DEF Releases, Holding
      <4>7. CASE Heartbeats(p)
        BY <4>2, <4>7, OperationsMoveRows DEF Heartbeats, Beating
      <4>8. CASE UNCHANGED job
        BY <4>2, <4>8, OperationsMoveRows
      <4> QED
        BY <4>1, <4>3, <4>4, <4>5, <4>6, <4>7, <4>8
           DEF WorkerStep, LoopStep, StopsIdle, HandlerReturns, HandlerRaises, AbandonsClaim,
           StartsDrain, DrainTimesOut, DrainRaises, RequestsStop, IsCancelled, CancelHandler,
           HeartbeatRaises, Crashes, Restarts
    <3>2. CASE ~ \E p \in Workers : WorkerStep(p)
      BY <3>2, OperationsMoveRows DEF Next, Enqueue, Tick, vars, TypeOK
    <3> QED
      BY <3>1, <3>2
  <2> QED
    BY <2>1 DEF RowMove
<1> QED
  BY <1>1, <1>2

LEMMA LoopKeepsInv ==
  ASSUME DeliveryInv, WorkerInv, WorkerInv', [Next]_vars, LoopOrTick,
         UNCHANGED <<delivery, obstacles, deliveredBy, acted, feedback>>
  PROVE  DeliveryInv'
<1>h. \A p \in Workers :
        \/ claim'[p] = claim[p] /\ handler'[p] = handler[p] /\ step'[p] = step[p]
        \/ handler'[p] = "none" /\ step'[p] = "none"
        \/ Claims(p) /\ handler'[p] = "running" /\ step'[p] = "prepare"
  BY LoopOnHandlers DEF DeliveryInv, DeliveryTypeOK, WorkerInv
<1>r. \A p \in Workers :
        /\ (step[p] = "prepare" => delivery[claim[p].job].attempts # claim[p].attempt)'
        /\ (Serving(p) /\ Latest(p) => OwnsRow(claim[p]))'
        /\ (handler[p] = "returned" /\ Latest(p)
              => delivery[claim[p].job].status \in SettledStatus)'
        /\ (step[p] = "confirm" => claim[p].attempt \in deliveredBy[claim[p].job])'
  BY <1>h, UndisturbedRows
<1>1. DeliveryTypeOK'
  <2>1. step' \in [Workers -> Steps]
    <3>1. step' = [p \in Workers |-> step'[p]]
      BY DEF LoopOrTick, FollowHandlers, DeliveryInv, DeliveryTypeOK
    <3>2. \A p \in Workers : step'[p] \in Steps
      BY <1>h DEF DeliveryInv, DeliveryTypeOK, Steps
    <3> QED
      BY <3>1, <3>2
  <2>2. \A p \in Workers : step'[p] # "none" <=> handler'[p] = "running"
    BY <1>h DEF DeliveryInv, DeliveryTypeOK
  <2>3. ASSUME NEW j \in Jobs
        PROVE  job'[j].state = "absent" <=> job[j].state = "absent"
    BY WorkersCreateNothing DEF LoopOrTick, WorkerStep, WorkerInv
  <2> QED
    BY <2>1, <2>2, <2>3 DEF DeliveryInv, DeliveryTypeOK, WorkerInv, ActionEvents
<1>2. HandlersPlaced' /\ ClaimedKnown'
  BY HandlersStayPlaced, ClaimedStaysKnown DEF DeliveryInv, WorkerInv
<1>3. RowsBehind'
  BY AttemptsGrow
     DEF DeliveryInv, RowsBehind, WorkerInv, TypeOK, JobsTypeOK, JobRow, DeliveryTypeOK
<1>4. FirstPrepares' /\ ServingOwns' /\ ReturnedSettled' /\ ConfirmedDelivered'
  BY <1>r DEF FirstPrepares, ServingOwns, ReturnedSettled, ConfirmedDelivered
<1>5. CompletedJobSettledDelivery'
  <2> SUFFICES ASSUME NEW j \in Jobs, job'[j].state = "completed"
               PROVE  delivery[j].status \in SettledStatus
    BY DEF CompletedJobSettledDelivery
  <2>1. CASE job[j].state = "completed"
    BY <2>1 DEF DeliveryInv, CompletedJobSettledDelivery
  <2>2. CASE job[j].state # "completed"
    BY <2>2, CompletionIsLatest DEF DeliveryInv, WorkerInv, ReturnedSettled
  <2> QED
    BY <2>1, <2>2
<1>6. SentAttemptWasDelivered' /\ ActedFinite'
  BY DEF DeliveryInv, SentAttemptWasDelivered, ActedFinite, ActionEvents, FeedbackEvents
<1> QED
  BY <1>1, <1>2, <1>3, <1>4, <1>5, <1>6 DEF DeliveryInv

LEMMA ScheduleKeepsInv ==
  ASSUME DeliveryInv, WorkerInv, WorkerInv', NEW i \in Jobs, Schedule(i)
  PROVE  DeliveryInv'
<1>1. /\ Enqueue(i) /\ EnqueueJob(i) /\ UNCHANGED workerVars
      /\ UNCHANGED <<obstacles, step, deliveredBy, acted, feedback>>
      /\ delivery' = [delivery EXCEPT ![i].status = IF @ = "absent" THEN "queued" ELSE @]
      /\ [Next]_vars
  BY DEF Schedule, EnsureDelivery, Enqueue, Next, actionVars
<1>2. UNCHANGED <<phase, claim, handler>>
  BY <1>1 DEF workerVars
<1>3. /\ delivery' \in [Jobs -> [status : DeliveryStatus, attempts : Nat]]
      /\ \A j \in Jobs : /\ delivery'[j].attempts = delivery[j].attempts
                         /\ delivery[j].status # "absent" => delivery'[j].status = delivery[j].status
                         /\ delivery'[j].status = "absent" <=> i # j /\ delivery[j].status = "absent"
                         /\ delivery'[j].status \in SettledStatus => delivery[j].status \in SettledStatus
                         /\ delivery'[j].status = "sent" => delivery[j].status = "sent"
  BY <1>1 DEF DeliveryInv, DeliveryTypeOK, DeliveryStatus, SettledStatus
<1>4. \A j \in Jobs : /\ job'[j].state = "absent" <=> i # j /\ job[j].state = "absent"
                      /\ job'[j].state = "completed" => job[j].state = "completed"
                      /\ job'[j].attempts = job[j].attempts
  BY <1>1 DEF EnqueueJob, WorkerInv, TypeOK, JobsTypeOK, JobRow
<1>5. \A j \in Jobs : delivery[j].status \in SettledStatus \cup {"sending"}
                         => delivery'[j].status = delivery[j].status
  BY <1>3 DEF SettledStatus
<1>6. \A p \in Workers :
        /\ (step[p] = "prepare" => delivery[claim[p].job].attempts # claim[p].attempt)'
        /\ (Serving(p) /\ Latest(p) => OwnsRow(claim[p]))'
        /\ (handler[p] = "returned" /\ Latest(p)
              => delivery[claim[p].job].status \in SettledStatus)'
        /\ (step[p] = "confirm" => claim[p].attempt \in deliveredBy[claim[p].job])'
  <2> TAKE p \in Workers
  <2> QED
    BY <1>1, <1>2, <1>3, <1>5, UndisturbedRows
<1>7. DeliveryTypeOK'
  BY <1>1, <1>2, <1>3, <1>4 DEF DeliveryInv, DeliveryTypeOK, WorkerInv, ActionEvents
<1>8. HandlersPlaced' /\ ClaimedKnown'
  BY <1>1, HandlersStayPlaced, ClaimedStaysKnown DEF DeliveryInv, WorkerInv
<1>9. RowsBehind' /\ FirstPrepares' /\ ServingOwns' /\ ReturnedSettled' /\ ConfirmedDelivered'
  BY <1>3, <1>4, <1>6
     DEF DeliveryInv, RowsBehind, FirstPrepares, ServingOwns, ReturnedSettled, ConfirmedDelivered
<1>10. CompletedJobSettledDelivery'
  BY <1>4, <1>5 DEF DeliveryInv, CompletedJobSettledDelivery
<1>11. SentAttemptWasDelivered' /\ ActedFinite'
  BY <1>1, <1>3
     DEF DeliveryInv, SentAttemptWasDelivered, ActedFinite, ActionEvents, FeedbackEvents
<1> QED
  BY <1>7, <1>8, <1>9, <1>10, <1>11 DEF DeliveryInv

-----------------------------------------------------------------------------
(* A button that is pressed counts one feedback for one new event.          *)

LEMMA ActionKeepsInv ==
  ASSUME DeliveryInv, WorkerInv, NEW i \in Jobs, RecordAction(i)
  PROVE  DeliveryInv'
<1>1. UNCHANGED <<vars, delivery, obstacles, step, deliveredBy>> /\ delivery[i].status = "sent"
  BY DEF RecordAction
<1>2. PICK a \in Actions : acted' = [acted EXCEPT ![i] = @ \cup {a}] /\ CountFeedback(i, a)
  BY DEF RecordAction
<1>3. UNCHANGED <<job, phase, claim, handler, stopping, beating, beat, succeeded>>
  BY <1>1 DEF vars, workerVars
<1>t. /\ acted \in [Jobs -> SUBSET Actions] /\ feedback \in [Jobs -> Nat]
      /\ \A j \in Jobs : IsFiniteSet(acted[j]) /\ feedback[j] = Cardinality(acted[j] \ {"open"})
  BY DEF DeliveryInv, DeliveryTypeOK, ActedFinite, SentAttemptWasDelivered, FeedbackEvents
<1>4. acted' \in [Jobs -> SUBSET Actions] /\ feedback' \in [Jobs -> Nat]
  BY <1>2, <1>t DEF CountFeedback
<1>5. ASSUME NEW j \in Jobs
      PROVE  IsFiniteSet(acted'[j]) /\ feedback'[j] = Cardinality(acted'[j] \ {"open"})
  <2>1. CASE j # i
    BY <1>2, <1>t, <2>1 DEF CountFeedback
  <2>2. CASE j = i /\ a \in acted[i] \cup {"open"}
    <3>1. acted'[j] \ {"open"} = acted[j] \ {"open"} /\ acted'[j] = acted[j] \cup {a}
      BY <1>2, <1>t, <2>2
    <3>2. feedback'[j] = feedback[j]
      BY <1>2, <1>t, <2>2 DEF CountFeedback
    <3> QED
      BY <1>t, <3>1, <3>2, FS_AddElement
  <2>3. CASE j = i /\ a \notin acted[i] \cup {"open"}
    <3> DEFINE F == acted[i] \ {"open"}
    <3>1. acted'[j] = acted[i] \cup {a} /\ acted'[j] \ {"open"} = F \cup {a} /\ a \notin F
      BY <1>2, <1>t, <2>3
    <3>2. feedback'[j] = feedback[i] + 1 /\ feedback[i] = Cardinality(F)
      BY <1>2, <1>t, <2>3 DEF CountFeedback
    <3>3. IsFiniteSet(F)
      BY <1>t, FS_Subset
    <3>4. IsFiniteSet(acted[i] \cup {a}) /\ Cardinality(F \cup {a}) = Cardinality(F) + 1
      BY <1>t, <3>1, <3>3, FS_AddElement
    <3> QED
      BY <3>1, <3>2, <3>4
  <2> QED
    BY <2>1, <2>2, <2>3
<1>6. DeliveryTypeOK'
  BY <1>1, <1>3, <1>4
     DEF DeliveryInv, DeliveryTypeOK, WorkerInv, TypeOK, JobsTypeOK, Holding, ActionEvents
<1>7. /\ HandlersPlaced' /\ ClaimedKnown' /\ RowsBehind' /\ FirstPrepares' /\ ServingOwns'
      /\ ReturnedSettled' /\ ConfirmedDelivered' /\ CompletedJobSettledDelivery'
  BY <1>1, <1>3 DEF DeliveryInv, HandlersPlaced, ClaimedKnown, Holding, RowsBehind, FirstPrepares,
     ServingOwns, Serving, Latest, OwnsRow, ReturnedSettled, ConfirmedDelivered,
     CompletedJobSettledDelivery
<1>8. SentAttemptWasDelivered'
  <2>1. \A j \in Jobs : acted'[j] # {} => delivery[j].status = "sent"
    BY <1>1, <1>2, <1>t DEF DeliveryInv, SentAttemptWasDelivered, ActionEvents
  <2> QED
    BY <1>1, <1>5, <2>1 DEF DeliveryInv, SentAttemptWasDelivered, ActionEvents, FeedbackEvents
<1>9. ActedFinite'
  BY <1>5 DEF ActedFinite
<1> QED
  BY <1>6, <1>7, <1>8, <1>9 DEF DeliveryInv

-----------------------------------------------------------------------------
(* The steps of a processor.  What one does to the row of its delivery:     *)
(* nothing, it takes the row for its attempt, or it marks a row it owns.    *)

RowTaken(p) ==
  LET c == claim[p] IN
  /\ step[p] = "prepare" /\ ~NothingToSend(delivery[c.job], c)
  /\ delivery'[c.job].attempts = c.attempt
  /\ delivery'[c.job].status \in {"suppressed", "sending"}

RowMarked(p) ==
  LET c == claim[p] IN
  /\ Serving(p) /\ OwnsRow(c)
  /\ delivery'[c.job].attempts = delivery[c.job].attempts
  /\ delivery'[c.job].status \in {"sent", "failed", "queued"}
  /\ delivery'[c.job].status = "sent" => step[p] = "confirm"

ProcessorEffect(p) ==
  LET c == claim[p] IN
  /\ UNCHANGED <<job, phase, claim, obstacles, acted, feedback>>
  /\ \A q \in Workers \ {p} : handler'[q] = handler[q] /\ step'[q] = step[q]
  /\ step' \in [Workers -> Steps] /\ step'[p] # "prepare"
  /\ step'[p] # "none" <=> handler'[p] = "running"
  /\ delivery' \in [Jobs -> [status : DeliveryStatus, attempts : Nat]]
  /\ \A i \in Jobs \ {c.job} : delivery'[i] = delivery[i] /\ deliveredBy'[i] = deliveredBy[i]
  /\ delivery' = delivery \/ RowTaken(p) \/ RowMarked(p)
  /\ step'[p] \in {"send", "confirm", "reject"}
       => \/ Serving(p) /\ delivery' = delivery
          \/ delivery'[c.job] = [status |-> "sending", attempts |-> c.attempt]
  /\ handler'[p] = "returned"
       => \/ delivery'[c.job].status \in SettledStatus
          \/ /\ step[p] = "prepare" /\ delivery' = delivery
             /\ delivery[c.job].status = "sending" /\ delivery[c.job].attempts >= c.attempt
  /\ step'[p] = "confirm" => c.attempt \in deliveredBy'[c.job]
  /\ deliveredBy' \in [Jobs -> SUBSET Nat]
  /\ deliveredBy[c.job] \subseteq deliveredBy'[c.job]
  /\ deliveredBy'[c.job] \subseteq deliveredBy[c.job] \cup {c.attempt}

(* A handler that ends ends its processor.                                  *)
LEMMA EndedHandler ==
  ASSUME TypeOK, DeliveryTypeOK, NEW p \in Workers, FollowHandlers,
         HandlerReturns(p) \/ HandlerRaises(p)
  PROVE  /\ UNCHANGED <<job, phase, claim>>
         /\ \A q \in Workers \ {p} : handler'[q] = handler[q] /\ step'[q] = step[q]
         /\ step' \in [Workers -> Steps] /\ step'[p] = "none" /\ handler'[p] # "running"
         /\ HandlerRaises(p) => handler'[p] # "returned"
<1>1. /\ UNCHANGED <<job, phase, claim>> /\ handler'[p] # "running"
      /\ \A q \in Workers \ {p} : handler'[q] = handler[q]
      /\ HandlerRaises(p) => handler'[p] # "returned"
  BY DEF HandlerReturns, HandlerRaises, Raised, TypeOK
<1>2. step'[p] = "none" /\ \A q \in Workers \ {p} : step'[q] = step[q]
  BY <1>1 DEF FollowHandlers, DeliveryTypeOK, Steps
<1>3. step' = [q \in Workers |-> step'[q]]
  BY DEF FollowHandlers
<1>4. \A q \in Workers : step'[q] \in Steps
  BY <1>2 DEF DeliveryTypeOK, Steps
<1> QED
  BY <1>1, <1>2, <1>3, <1>4

LEMMA ProcessorEffects ==
  ASSUME DeliveryInv, WorkerInv, NEW p \in Workers, ProcessorStep(p)
  PROVE  ProcessorEffect(p)
<1> DEFINE c == claim[p]  j == claim[p].job
<1>t. /\ TypeOK /\ DeliveryTypeOK
      /\ delivery \in [Jobs -> [status : DeliveryStatus, attempts : Nat]]
      /\ deliveredBy \in [Jobs -> SUBSET Nat] /\ step \in [Workers -> Steps]
      /\ \A q \in Workers : step[q] # "none" <=> handler[q] = "running"
  BY DEF DeliveryInv, DeliveryTypeOK, WorkerInv
<1>c. step[p] # "none" => j \in Jobs /\ c.attempt \in Nat
  BY HandlerHoldsClaim
<1> USE DEF actionVars
<1>1. CASE PreparesNothing(p)
  BY <1>1, <1>t, <1>c, EndedHandler DEF PreparesNothing, NothingToSend, ProcessorEffect
<1>2. CASE Suppresses(p)
  <2>1. /\ UNCHANGED <<obstacles, deliveredBy, acted, feedback>> /\ step[p] = "prepare"
        /\ ~NothingToSend(delivery[j], c) /\ HandlerReturns(p) /\ FollowHandlers
        /\ delivery' = [delivery EXCEPT ![j] = [status |-> "suppressed", attempts |-> c.attempt]]
    BY <1>2 DEF Suppresses
  <2>2. /\ delivery' \in [Jobs -> [status : DeliveryStatus, attempts : Nat]]
        /\ delivery'[j] = [status |-> "suppressed", attempts |-> c.attempt]
    BY <2>1, <1>t, <1>c DEF DeliveryStatus, SettledStatus
  <2>3. RowTaken(p) /\ delivery'[j].status \in SettledStatus
    BY <2>1, <2>2 DEF RowTaken, SettledStatus
  <2> QED
    BY <2>1, <2>2, <2>3, <1>t, <1>c, EndedHandler DEF ProcessorEffect
<1>3. CASE PreparesAttempt(p)
  <2>1. /\ UNCHANGED <<vars, obstacles, deliveredBy, acted, feedback>> /\ step[p] = "prepare"
        /\ ~NothingToSend(delivery[j], c) /\ step' = [step EXCEPT ![p] = "send"]
        /\ delivery' = [delivery EXCEPT ![j] = [status |-> "sending", attempts |-> c.attempt]]
    BY <1>3 DEF PreparesAttempt
  <2>2. /\ delivery' \in [Jobs -> [status : DeliveryStatus, attempts : Nat]]
        /\ delivery'[j] = [status |-> "sending", attempts |-> c.attempt]
    BY <2>1, <1>t, <1>c DEF DeliveryStatus
  <2>3. RowTaken(p)
    BY <2>1, <2>2 DEF RowTaken
  <2>4. handler' = handler /\ step' \in [Workers -> Steps] /\ step'[p] = "send"
    BY <2>1, <1>t DEF vars, workerVars, Steps
  <2> QED
    BY <2>1, <2>2, <2>3, <2>4, <1>t, <1>c DEF ProcessorEffect, vars, workerVars
<1>4. CASE Sends(p)
  <2>1. PICK delivered \in BOOLEAN, raised \in BOOLEAN :
          /\ delivered \/ raised
          /\ step' = [step EXCEPT ![p] = IF raised THEN "reject" ELSE "confirm"]
          /\ deliveredBy' = [deliveredBy EXCEPT ![j] = IF delivered THEN @ \cup {c.attempt} ELSE @]
    BY <1>4 DEF Sends
  <2>2. /\ UNCHANGED <<job, phase, claim, handler, delivery, obstacles, acted, feedback>>
        /\ step[p] = "send"
    BY <1>4 DEF Sends, vars, workerVars
  <2>3. step' \in [Workers -> Steps] /\ step'[p] \in {"reject", "confirm"}
    BY <2>1, <1>t DEF Steps
  <2>4. step'[p] = "confirm" => c.attempt \in deliveredBy'[j]
    BY <2>1, <2>2, <1>t, <1>c
  <2>5. /\ deliveredBy' \in [Jobs -> SUBSET Nat]
        /\ deliveredBy[j] \subseteq deliveredBy'[j]
        /\ deliveredBy'[j] \subseteq deliveredBy[j] \cup {c.attempt}
        /\ \A i \in Jobs \ {j} : deliveredBy'[i] = deliveredBy[i]
    BY <2>1, <2>2, <1>t, <1>c
  <2> QED
    BY <2>1, <2>2, <2>3, <2>4, <2>5, <1>t, <1>c DEF ProcessorEffect, Serving
<1>5. CASE ConfirmsSent(p)
  <2>1. /\ UNCHANGED <<obstacles, deliveredBy, acted, feedback>> /\ step[p] = "confirm"
        /\ HandlerReturns(p) /\ FollowHandlers
        /\ \/ OwnsRow(c) /\ delivery' = [delivery EXCEPT ![j].status = "sent"]
           \/ delivery[j].status = "sent" /\ delivery' = delivery
    BY <1>5 DEF ConfirmsSent, SetStatus
  <2>2. /\ delivery' \in [Jobs -> [status : DeliveryStatus, attempts : Nat]]
        /\ delivery'[j].status = "sent" /\ delivery'[j].attempts = delivery[j].attempts
        /\ \A i \in Jobs \ {j} : delivery'[i] = delivery[i]
    BY <2>1, <1>t, <1>c DEF DeliveryStatus, SettledStatus
  <2>3. delivery' = delivery \/ RowMarked(p)
    BY <2>1, <2>2 DEF RowMarked, Serving
  <2> QED
    BY <2>1, <2>2, <2>3, <1>t, <1>c, EndedHandler DEF ProcessorEffect, SettledStatus
<1>6. CASE RejectsAttempt(p)
  <2> DEFINE st == IF LastAttempt(c) THEN "failed" ELSE "queued"
  <2>1. /\ UNCHANGED <<obstacles, deliveredBy, acted, feedback>> /\ step[p] = "reject"
        /\ HandlerRaises(p) /\ FollowHandlers /\ OwnsRow(c)
        /\ delivery' = [delivery EXCEPT ![j].status = st]
    BY <1>6 DEF RejectsAttempt, SetStatus
  <2>0. st \in {"failed", "queued"}
    OBVIOUS
  <2> HIDE DEF st
  <2>2. /\ delivery' \in [Jobs -> [status : DeliveryStatus, attempts : Nat]]
        /\ delivery'[j].status \in {"failed", "queued"}
        /\ delivery'[j].attempts = delivery[j].attempts
        /\ \A i \in Jobs \ {j} : delivery'[i] = delivery[i]
    BY <2>0, <2>1, <1>t, <1>c DEF DeliveryStatus, SettledStatus
  <2>3. RowMarked(p)
    BY <2>1, <2>2 DEF RowMarked, Serving
  <2> QED
    BY <2>1, <2>2, <2>3, <1>t, <1>c, EndedHandler DEF ProcessorEffect
<1>7. CASE LosesOwnership(p) \/ TransactionRaises(p)
  <2>1. /\ UNCHANGED <<delivery, obstacles, deliveredBy, acted, feedback>> /\ step[p] # "none"
        /\ HandlerRaises(p) /\ FollowHandlers
    BY <1>7 DEF LosesOwnership, TransactionRaises
  <2> QED
    BY <2>1, <1>t, <1>c, EndedHandler DEF ProcessorEffect
<1> QED
  BY <1>1, <1>2, <1>3, <1>4, <1>5, <1>6, <1>7 DEF ProcessorStep

(* What a processor may do to its row leaves the row of a rival alone.      *)
LEMMA RivalsKeepRows ==
  ASSUME DeliveryInv, WorkerInv, NEW p \in Workers, ProcessorStep(p),
         NEW q \in Workers \ {p}, handler[q] # "none" \/ step[q] # "none"
  PROVE  /\ step[q] = "prepare" => delivery'[claim[q].job].attempts # claim[q].attempt
         /\ Serving(q) /\ Latest(q) => delivery'[claim[q].job] = delivery[claim[q].job]
         /\ handler[q] = "returned" /\ Latest(q)
              => delivery'[claim[q].job].status \in SettledStatus
         /\ claim[q].attempt \in deliveredBy[claim[q].job]
              => claim[q].attempt \in deliveredBy'[claim[q].job]
<1> DEFINE c == claim[p]  d == claim[q]
<1>1. ProcessorEffect(p) /\ step[p] # "none"
  BY ProcessorEffects DEF ProcessorStep, PreparesNothing, Suppresses, PreparesAttempt, Sends,
     ConfirmsSent, RejectsAttempt, LosesOwnership, TransactionRaises
<1>2. /\ d.job \in Jobs /\ d.attempt \in Nat /\ c.attempt \in Nat /\ c.job \in Jobs
      /\ d.job = c.job => c.attempt # d.attempt
      /\ d.job = c.job /\ Latest(q) => c.attempt < d.attempt
  BY <1>1, HandlerHoldsClaim, Rivals
<1>3. /\ step[q] = "prepare" => delivery[d.job].attempts # d.attempt
      /\ Serving(q) /\ Latest(q) => OwnsRow(d)
      /\ handler[q] = "returned" /\ Latest(q) => delivery[d.job].status \in SettledStatus
  BY DEF DeliveryInv, FirstPrepares, ServingOwns, ReturnedSettled
<1>4. CASE d.job # c.job
  BY <1>1, <1>2, <1>3, <1>4 DEF ProcessorEffect
<1>5. CASE d.job = c.job /\ delivery' = delivery
  BY <1>1, <1>2, <1>3, <1>5 DEF ProcessorEffect
<1>6. CASE d.job = c.job /\ RowTaken(p)
  <2>1. ~(Serving(q) /\ Latest(q)) /\ ~(handler[q] = "returned" /\ Latest(q))
    BY <1>2, <1>3, <1>6 DEF RowTaken, NothingToSend, OwnsRow, SettledStatus
  <2> QED
    BY <1>1, <1>2, <1>3, <1>6, <2>1 DEF RowTaken, ProcessorEffect
<1>7. CASE d.job = c.job /\ RowMarked(p)
  <2>1. ~(Serving(q) /\ Latest(q)) /\ ~(handler[q] = "returned" /\ Latest(q))
    BY <1>2, <1>3, <1>7 DEF RowMarked, OwnsRow, SettledStatus
  <2> QED
    BY <1>1, <1>2, <1>3, <1>7, <2>1 DEF RowMarked, ProcessorEffect
<1> QED
  BY <1>1, <1>4, <1>5, <1>6, <1>7 DEF ProcessorEffect

LEMMA ProcessorKeepsInv ==
  ASSUME DeliveryInv, WorkerInv, WorkerInv', [Next]_vars, NEW p \in Workers, ProcessorStep(p)
  PROVE  DeliveryInv'
<1> DEFINE c == claim[p]  j == claim[p].job
<1>1. ProcessorEffect(p) /\ step[p] # "none"
  BY ProcessorEffects DEF ProcessorStep, PreparesNothing, Suppresses, PreparesAttempt, Sends,
     ConfirmsSent, RejectsAttempt, LosesOwnership, TransactionRaises
<1>2. /\ j \in Jobs /\ c.attempt \in Nat \ {0} /\ c.attempt <= job[j].attempts
      /\ job[j].attempts <= MaxAttempts[j] /\ job[j].attempts \in Nat /\ MaxAttempts[j] \in Nat
      /\ job[j].state # "absent" /\ delivery[j].status # "absent"
  BY <1>1, HandlerHoldsClaim
<1>t. /\ delivery \in [Jobs -> [status : DeliveryStatus, attempts : Nat]]
      /\ deliveredBy \in [Jobs -> SUBSET Nat]
  BY DEF DeliveryInv, DeliveryTypeOK
(* The row of the delivery itself *)
<1>3. /\ delivery'[j].attempts = delivery[j].attempts \/ delivery'[j].attempts = c.attempt
      /\ delivery'[j].status # "absent"
      /\ delivery[j].status \in SettledStatus => delivery'[j] = delivery[j]
      /\ delivery'[j].status = "sent" => \/ delivery'[j] = delivery[j]
                                         \/ delivery'[j].attempts = c.attempt /\ step[p] = "confirm"
  <2>1. CASE delivery' = delivery
    BY <2>1, <1>2
  <2>2. CASE RowTaken(p)
    BY <2>2, <1>2 DEF RowTaken, NothingToSend
  <2>3. CASE RowMarked(p)
    BY <2>3, <1>2 DEF RowMarked, OwnsRow, SettledStatus
  <2> QED
    BY <1>1, <2>1, <2>2, <2>3 DEF ProcessorEffect
<1>4. \A i \in Jobs \ {j} : delivery'[i] = delivery[i] /\ deliveredBy'[i] = deliveredBy[i]
  BY <1>1 DEF ProcessorEffect
<1>5. DeliveryTypeOK'
  <2>1. ASSUME NEW i \in Jobs
        PROVE  /\ delivery'[i].attempts <= MaxAttempts[i]
               /\ delivery'[i].status = "absent" <=> job[i].state = "absent"
               /\ deliveredBy'[i] \subseteq 1..MaxAttempts[i]
    <3>1. CASE i # j
      BY <3>1, <1>4 DEF DeliveryInv, DeliveryTypeOK
    <3>2. CASE i = j
      <4>1. delivery'[j].attempts <= MaxAttempts[j]
        BY <1>2, <1>3, <1>t DEF DeliveryInv, DeliveryTypeOK
      <4>2. deliveredBy'[j] \subseteq 1..MaxAttempts[j]
        BY <1>1, <1>2 DEF ProcessorEffect, DeliveryInv, DeliveryTypeOK
      <4> QED
        BY <3>2, <4>1, <4>2, <1>2, <1>3
    <3> QED
      BY <3>1, <3>2
  <2>2. /\ step' \in [Workers -> Steps]
        /\ \A q \in Workers : step'[q] # "none" <=> handler'[q] = "running"
    BY <1>1 DEF ProcessorEffect, DeliveryInv, DeliveryTypeOK
  <2> QED
    BY <1>1, <2>1, <2>2 DEF ProcessorEffect, DeliveryInv, DeliveryTypeOK, WorkerInv, ActionEvents
<1>6. HandlersPlaced' /\ ClaimedKnown'
  BY HandlersStayPlaced, ClaimedStaysKnown DEF DeliveryInv, WorkerInv
<1>7. RowsBehind'
  <2> SUFFICES ASSUME NEW i \in Jobs PROVE delivery'[i].attempts <= job[i].attempts
    BY <1>1 DEF RowsBehind, ProcessorEffect
  <2>1. CASE i # j
    BY <2>1, <1>4 DEF DeliveryInv, RowsBehind
  <2>2. CASE i = j
    BY <2>2, <1>2, <1>3 DEF DeliveryInv, RowsBehind
  <2> QED
    BY <2>1, <2>2
(* The claims of the other processes *)
<1>8. ASSUME NEW q \in Workers \ {p}
      PROVE  /\ (step[q] = "prepare" => delivery[claim[q].job].attempts # claim[q].attempt)'
             /\ (Serving(q) /\ Latest(q) => OwnsRow(claim[q]))'
             /\ (handler[q] = "returned" /\ Latest(q)
                   => delivery[claim[q].job].status \in SettledStatus)'
             /\ (step[q] = "confirm" => claim[q].attempt \in deliveredBy[claim[q].job])'
  <2>1. /\ handler'[q] = handler[q] /\ step'[q] = step[q] /\ claim' = claim /\ job' = job
        /\ Latest(q)' <=> Latest(q)
    BY <1>1 DEF ProcessorEffect, Latest
  <2>2. /\ Serving(q) /\ Latest(q) => OwnsRow(claim[q])
        /\ step[q] = "confirm" => claim[q].attempt \in deliveredBy[claim[q].job]
    BY DEF DeliveryInv, ServingOwns, ConfirmedDelivered
  <2>3. CASE handler[q] # "none" \/ step[q] # "none"
    BY <2>1, <2>2, <2>3, RivalsKeepRows DEF Serving, OwnsRow
  <2>4. CASE handler[q] = "none" /\ step[q] = "none"
    BY <2>1, <2>4 DEF Serving
  <2> QED
    BY <2>3, <2>4
(* The claim of the process itself *)
<1>9. /\ (step[p] = "prepare" => delivery[claim[p].job].attempts # claim[p].attempt)'
      /\ (Serving(p) /\ Latest(p) => OwnsRow(claim[p]))'
      /\ (handler[p] = "returned" /\ Latest(p)
            => delivery[claim[p].job].status \in SettledStatus)'
      /\ (step[p] = "confirm" => claim[p].attempt \in deliveredBy[claim[p].job])'
  <2>1. claim' = claim /\ (Latest(p)' <=> Latest(p)) /\ step'[p] # "prepare"
    BY <1>1 DEF ProcessorEffect, Latest
  <2>2. Serving(p)' /\ Latest(p)' => OwnsRow(c)'
    BY <1>1, <2>1 DEF ProcessorEffect, Serving, OwnsRow, DeliveryInv, ServingOwns
  <2>3. ASSUME handler'[p] = "returned", Latest(p)
        PROVE  delivery'[j].status \in SettledStatus
    <3>1. CASE /\ step[p] = "prepare" /\ delivery[j].status = "sending"
               /\ delivery[j].attempts >= c.attempt
      <4>1. delivery[j].attempts <= job[j].attempts /\ c.attempt = job[j].attempts
        BY <2>3, <1>2 DEF Latest, DeliveryInv, RowsBehind
      <4>2. delivery[j].attempts = c.attempt
        BY <3>1, <4>1, <1>2, <1>t
      <4> QED
        BY <3>1, <4>2 DEF DeliveryInv, FirstPrepares
    <3> QED
      BY <1>1, <2>3, <3>1 DEF ProcessorEffect
  <2>4. step'[p] = "confirm" => c.attempt \in deliveredBy'[j]
    BY <1>1 DEF ProcessorEffect
  <2> QED
    BY <2>1, <2>2, <2>3, <2>4
<1>10. FirstPrepares' /\ ServingOwns' /\ ReturnedSettled' /\ ConfirmedDelivered'
  BY <1>8, <1>9 DEF FirstPrepares, ServingOwns, ReturnedSettled, ConfirmedDelivered
<1>11. CompletedJobSettledDelivery'
  BY <1>1, <1>3, <1>4 DEF ProcessorEffect, DeliveryInv, CompletedJobSettledDelivery
<1>12. SentAttemptWasDelivered' /\ ActedFinite'
  <2>1. acted' = acted /\ feedback' = feedback
    BY <1>1 DEF ProcessorEffect
  <2>2. ASSUME NEW i \in Jobs, delivery'[i].status = "sent"
        PROVE  delivery'[i].attempts \in deliveredBy'[i]
    <3>1. delivery[i].status = "sent" => delivery[i].attempts \in deliveredBy[i]
      BY DEF DeliveryInv, SentAttemptWasDelivered
    <3>2. CASE i # j
      BY <2>2, <3>1, <3>2, <1>4
    <3>3. CASE i = j
      <4>1. step[p] = "confirm" => c.attempt \in deliveredBy[j]
        BY DEF DeliveryInv, ConfirmedDelivered
      <4>2. deliveredBy[j] \subseteq deliveredBy'[j]
        BY <1>1 DEF ProcessorEffect
      <4> QED
        BY <2>2, <3>1, <3>3, <4>1, <4>2, <1>3
    <3> QED
      BY <3>2, <3>3
  <2>3. ASSUME NEW i \in Jobs, ActionEvents(i) # {}
        PROVE  delivery'[i].status = "sent"
    <3>1. delivery[i].status = "sent"
      BY <2>3 DEF DeliveryInv, SentAttemptWasDelivered
    <3> QED
      BY <3>1, <1>3, <1>4 DEF SettledStatus
  <2> QED
    BY <2>1, <2>2, <2>3
       DEF DeliveryInv, SentAttemptWasDelivered, ActedFinite, ActionEvents, FeedbackEvents
<1> QED
  BY <1>5, <1>6, <1>7, <1>10, <1>11, <1>12 DEF DeliveryInv

-----------------------------------------------------------------------------
LEMMA DeliveryNextInv ==
  DeliveryInv /\ WorkerInv /\ [DeliveryNext]_allVars => DeliveryInv' /\ WorkerInv'
<1> SUFFICES ASSUME DeliveryInv, WorkerInv, [DeliveryNext]_allVars
             PROVE  DeliveryInv' /\ WorkerInv'
  OBVIOUS
<1>1. [Next]_vars /\ WorkerInv'
  BY StepOfWorkers, NextKeepsWorkers
<1>2. ASSUME NEW i \in Jobs, Schedule(i) PROVE DeliveryInv'
  BY <1>1, <1>2, ScheduleKeepsInv
<1>3. ASSUME NEW i \in Jobs, RecordAction(i) PROVE DeliveryInv'
  BY <1>3, ActionKeepsInv
<1>4. ASSUME NEW p \in Workers, ProcessorStep(p) PROVE DeliveryInv'
  BY <1>1, <1>4, ProcessorKeepsInv
<1>5. ASSUME NEW p \in Workers, LoopStep(p), FollowHandlers,
             UNCHANGED <<delivery, obstacles, deliveredBy, actionVars>>
      PROVE  DeliveryInv'
  BY <1>1, <1>5, LoopKeepsInv DEF LoopOrTick, actionVars
<1>6. CASE Tick /\ UNCHANGED deliveryVars
  BY <1>1, <1>6, LoopKeepsInv DEF LoopOrTick, deliveryVars, actionVars
<1>7. ASSUME UNCHANGED <<vars, delivery, step, deliveredBy, actionVars>>,
             obstacles' \in [Jobs -> SUBSET Obstacles]
      PROVE  DeliveryInv'
  <2>1. UNCHANGED <<job, phase, claim, handler, acted, feedback>>
    BY <1>7 DEF vars, workerVars, actionVars
  <2> QED
    BY <1>1, <1>7, <2>1 DEF DeliveryInv, DeliveryTypeOK, WorkerInv, HandlersPlaced, ClaimedKnown,
       Holding, RowsBehind, FirstPrepares, ServingOwns, Serving, Latest, OwnsRow,
       ReturnedSettled, ConfirmedDelivered, CompletedJobSettledDelivery,
       SentAttemptWasDelivered, ActedFinite, ActionEvents, FeedbackEvents
<1>8. ASSUME NEW i \in Jobs, ObstacleAppears(i) \/ ObstacleGoes(i) PROVE DeliveryInv'
  <2>1. UNCHANGED <<vars, delivery, step, deliveredBy, actionVars>>
    BY <1>8 DEF ObstacleAppears, ObstacleGoes
  <2>2. obstacles' \in [Jobs -> SUBSET Obstacles]
    BY <1>8 DEF ObstacleAppears, ObstacleGoes, DeliveryInv, DeliveryTypeOK
  <2> QED
    BY <1>7, <2>1, <2>2
<1>9. CASE UNCHANGED allVars
  BY <1>1, <1>7, <1>9 DEF allVars, deliveryVars, actionVars, DeliveryInv, DeliveryTypeOK
<1> QED
  BY <1>1, <1>2, <1>3, <1>4, <1>5, <1>6, <1>8, <1>9 DEF DeliveryNext

LEMMA DeliveryInitInv == DeliveryInit => DeliveryInv /\ WorkerInv
<1> SUFFICES ASSUME DeliveryInit PROVE DeliveryInv /\ WorkerInv
  OBVIOUS
<1>1. Init
  BY DEF DeliveryInit
<1>2. WorkerInv
  <2>1. TypeOK
    BY <1>1, InitType
  <2>2. ASSUME NEW j \in Jobs PROVE RowConsistent(job[j], j)
    BY <1>1, <2>2, JobsAssumption DEF Init, JobsInit, RowConsistent
  <2>3. JobRowsConsistent
    BY <2>2, RowByRow
  <2> QED
    BY <1>1, <2>1, <2>3
       DEF WorkerInv, Init, AttemptsAreUnique, LeasesCover, Fresh, Beating, ReturnedHasWorked, Holding
<1>3. \A j \in Jobs : MaxAttempts[j] \in Nat
  BY JobsAssumption
<1>4. DeliveryTypeOK
  BY <1>1, <1>2, <1>3 DEF DeliveryInit, DeliveryTypeOK, WorkerInv, Init, JobsInit, DeliveryStatus,
     SettledStatus, Steps, ActionEvents
<1>5. IsFiniteSet({}) /\ Cardinality({} \ {"open"}) = 0
  BY FS_EmptySet
<1> QED
  BY <1>1, <1>2, <1>4, <1>5 DEF DeliveryInv, DeliveryInit, Init, JobsInit, HandlersPlaced,
     ClaimedKnown, Holding, RowsBehind, FirstPrepares, ServingOwns, Serving, ReturnedSettled,
     ConfirmedDelivered, CompletedJobSettledDelivery, SentAttemptWasDelivered, ActedFinite,
     ActionEvents, FeedbackEvents, SettledStatus

LEMMA DeliveryInvAlways == DeliverySpec => [](DeliveryInv /\ WorkerInv)
<1>1. DeliveryInit => DeliveryInv /\ WorkerInv
  BY DeliveryInitInv
<1>2. DeliveryInv /\ WorkerInv /\ [DeliveryNext]_allVars => (DeliveryInv /\ WorkerInv)'
  BY DeliveryNextInv
<1> QED
  BY <1>1, <1>2, PTL DEF DeliverySpec

(* Type correctness of the deliveries: a row exists exactly when its job does, it never
   names more attempts than the job may have, and a processor runs exactly while its
   handler does (freelancer_bot/delivery.py:220-339). *)
THEOREM DeliveryTypeCorrect == DeliverySpec => []DeliveryTypeOK
BY DeliveryInvAlways, PTL DEF DeliveryInv

(* No worker, however stale, completes the job of a delivery that is still queued or being
   sent: the only process whose complete() is accepted holds the latest attempt, and no
   other attempt can have the row when its handler returns
   (freelancer_bot/persistence/jobs.py:177-197, persistence/deliveries.py:300-402). *)
THEOREM CompletedJobsAreSettled == DeliverySpec => []CompletedJobSettledDelivery
BY DeliveryInvAlways, PTL DEF DeliveryInv

(* The attempt a sent row names did reach Telegram, a card that was acted on stays sent, and
   the source gets one feedback for each kind of action but the opening
   (persistence/deliveries.py:404-473, persistence/feedback.py). *)
THEOREM SentAttemptsWereDelivered == DeliverySpec => []SentAttemptWasDelivered
BY DeliveryInvAlways, PTL DEF DeliveryInv

(* A worker that renewed its lease within the last lease owns the row it took until it has
   confirmed or rejected it: every other handler of the job has an earlier attempt, and
   prepare_attempt refuses those (persistence/deliveries.py:300-402). *)
THEOREM FreshAttemptsOwnTheirRows == DeliverySpec => []FreshAttemptOwnsRow
<1>1. DeliveryInv /\ WorkerInv => FreshAttemptOwnsRow
  <2> SUFFICES ASSUME DeliveryInv, WorkerInv, NEW p \in Workers,
                      Beating(p), beat[p] < LeaseDuration, Serving(p)
               PROVE  OwnsRow(claim[p])
    BY DEF FreshAttemptOwnsRow, Serving
  <2>1. Latest(p)
    BY DEF WorkerInv, LeasesCover, Fresh, LeaseCovers, OwnsClaim, Latest
  <2> QED
    BY <2>1 DEF DeliveryInv, ServingOwns
<1> QED
  BY <1>1, DeliveryInvAlways, PTL
=============================================================================
