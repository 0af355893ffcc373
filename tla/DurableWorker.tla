--------------------------- MODULE DurableWorker ---------------------------
(***************************************************************************)
(* DurableWorker (freelancer_bot/worker.py): the asyncio processes that    *)
(* claim durable jobs, run a handler under a heartbeat, and stop.  Each    *)
(* process is a poll loop, at most one handler task and one heartbeat      *)
(* task; a step here is what one of them does between two awaits, or one   *)
(* database transaction.  The table is module DurableJobs.                 *)
(***************************************************************************)
EXTENDS DurableJobs

CONSTANTS
  Workers,            \* the running processes
  WorkerId,           \* worker_id of each process; two processes may share one
  Handled,            \* the jobs whose type the process has a handler for
  OnlyIds,            \* its job_ids filter (all jobs when it has none)
  HeartbeatInterval,  \* WorkerOptions.heartbeat_interval, in ticks
  MaxBeatDelay,       \* how late, in ticks, a heartbeat transaction can start
  NoClaim

(* WorkerOptions.__post_init__: the heartbeat is shorter than the lease. *)
ASSUME WorkerAssumption ==
  /\ WorkerId \in [Workers -> Owners]
  /\ Handled \in [Workers -> SUBSET Jobs]
  /\ OnlyIds \in [Workers -> SUBSET Jobs]
  /\ HeartbeatInterval \in Nat \ {0}
  /\ HeartbeatInterval < LeaseDuration
  /\ MaxBeatDelay \in Nat
  /\ NoClaim \notin Claim

VARIABLES
  phase,      \* where run() is in each process
  claim,      \* _active_claim
  handler,    \* the state of the handler task
  stopping,   \* _stop_event is set
  beating,    \* the heartbeat task is alive
  beat,       \* ticks since the heartbeat task started to sleep
  succeeded   \* history: the attempts of each job whose handler returned

workerVars == <<phase, claim, handler, stopping, beating, beat, succeeded>>
vars == <<job, workerVars>>

(* "releasing" is between the cancellation of a handler and release_for_shutdown;
   "exited" is a run() that a handler's exception ended, "dead" a crashed process. *)
Ended == {"stopped", "exited", "dead"}
Phases == {"idle", "processing", "draining", "releasing"} \cup Ended
Raised == {"error", "fatal", "timeout"}   \* fatal: error.retryable is False
HandlerStates == {"none", "running", "returned"} \cup Raised

Holding(p) == phase[p] \in {"processing", "draining", "releasing"}
Beating(p) == Holding(p) /\ beating[p]

Init ==
  /\ JobsInit
  /\ phase = [p \in Workers |-> "idle"]
  /\ claim = [p \in Workers |-> NoClaim]
  /\ handler = [p \in Workers |-> "none"]
  /\ stopping = [p \in Workers |-> FALSE]
  /\ beating = [p \in Workers |-> FALSE]
  /\ beat = [p \in Workers |-> 0]
  /\ succeeded = [j \in Jobs |-> {}]

(* _execute_claim is left: its finally clause ends the heartbeat task and forgets the
   claim, and run() goes on in phase ph. *)
Leave(p, ph) ==
  /\ phase' = [phase EXCEPT ![p] = ph]
  /\ claim' = [claim EXCEPT ![p] = NoClaim]
  /\ handler' = [handler EXCEPT ![p] = "none"]
  /\ beating' = [beating EXCEPT ![p] = FALSE]
  /\ beat' = [beat EXCEPT ![p] = 0]
  /\ UNCHANGED succeeded

(* The handler task is cancelled and awaited; the release is the next transaction. *)
CancelHandler(p) ==
  /\ phase' = [phase EXCEPT ![p] = "releasing"]
  /\ handler' = [handler EXCEPT ![p] = "none"]
  /\ UNCHANGED <<job, claim, beating, beat, succeeded>>

-----------------------------------------------------------------------------
Enqueue(j) ==
  /\ EnqueueJob(j)
  /\ UNCHANGED workerVars

(* Rows another process may hold locked while claim_next runs: only a process in one of
   its own transactions holds any, and a live one may be. *)
LockedSets(p) ==
  IF \E q \in Workers \ {p} : phase[q] \notin Ended
  THEN SUBSET Jobs ELSE {{}}

Claims(p) ==
  /\ phase[p] = "idle" /\ ~stopping[p]
  /\ \E j \in Jobs, locked \in LockedSets(p) :
       /\ ClaimJob(WorkerId[p], Handled[p], OnlyIds[p], locked, j)
       /\ claim' = [claim EXCEPT ![p] = [job |-> j, attempt |-> job'[j].attempts,
                                         worker |-> WorkerId[p]]]
  /\ phase' = [phase EXCEPT ![p] = "processing"]
  /\ handler' = [handler EXCEPT ![p] = "running"]
  /\ beating' = [beating EXCEPT ![p] = TRUE]
  /\ UNCHANGED <<stopping, beat, succeeded>>

FindsNoJob(p) ==
  /\ phase[p] = "idle" /\ ~stopping[p]
  /\ \E locked \in LockedSets(p) : ClaimNoJob(Handled[p], OnlyIds[p], locked)
  /\ UNCHANGED workerVars

StopsIdle(p) ==
  /\ phase[p] = "idle" /\ stopping[p]
  /\ phase' = [phase EXCEPT ![p] = "stopped"]
  /\ UNCHANGED <<job, claim, handler, stopping, beating, beat, succeeded>>

HandlerReturns(p) ==
  /\ phase[p] \in {"processing", "draining"} /\ handler[p] = "running"
  /\ handler' = [handler EXCEPT ![p] = "returned"]
  /\ succeeded' = [succeeded EXCEPT ![claim[p].job] = @ \cup {claim[p].attempt}]
  /\ UNCHANGED <<job, phase, claim, stopping, beating, beat>>

HandlerRaises(p) ==
  /\ phase[p] \in {"processing", "draining"} /\ handler[p] = "running"
  /\ \E e \in Raised : handler' = [handler EXCEPT ![p] = e]
  /\ UNCHANGED <<job, phase, claim, stopping, beating, beat, succeeded>>

(* _finish_handler after a return, also at the end of a drain: complete, whose lost
   claim is only logged. *)
Completes(p) ==
  /\ phase[p] \in {"processing", "draining"} /\ handler[p] = "returned"
  /\ CompleteJob(claim[p])
  /\ Leave(p, "idle")
  /\ UNCHANGED stopping

(* _finish_handler after an exception: _record_failure. *)
RecordsFailure(p) ==
  /\ phase[p] = "processing" /\ handler[p] \in Raised
  /\ FailJob(claim[p], handler[p] # "fatal")
  /\ Leave(p, "idle")
  /\ UNCHANGED stopping

(* The heartbeat task ended first: the handler is cancelled, nothing is written. *)
AbandonsClaim(p) ==
  /\ phase[p] = "processing" /\ handler[p] = "running" /\ ~beating[p]
  /\ Leave(p, "idle")
  /\ UNCHANGED <<job, stopping>>

(* The stop waiter ended first. *)
StartsDrain(p) ==
  /\ phase[p] = "processing" /\ handler[p] = "running" /\ beating[p] /\ stopping[p]
  /\ phase' = [phase EXCEPT ![p] = "draining"]
  /\ UNCHANGED <<job, claim, handler, stopping, beating, beat, succeeded>>

(* wait_for raises TimeoutError, after shutdown_timeout or because the handler did. *)
DrainTimesOut(p) ==
  /\ phase[p] = "draining" /\ handler[p] \in {"running", "timeout"}
  /\ CancelHandler(p)
  /\ UNCHANGED stopping

(* Any other exception of the handler leaves _drain_or_release, _execute_claim and
   run(): nothing is recorded and the claim is not released. *)
DrainRaises(p) ==
  /\ phase[p] = "draining" /\ handler[p] \in {"error", "fatal"}
  /\ Leave(p, "exited")
  /\ UNCHANGED <<job, stopping>>

Releases(p) ==
  /\ phase[p] = "releasing"
  /\ ReleaseJob(claim[p])
  /\ Leave(p, "stopped")
  /\ UNCHANGED stopping

RequestsStop(p) ==
  /\ phase[p] \notin Ended /\ ~stopping[p]
  /\ stopping' = [stopping EXCEPT ![p] = TRUE]
  /\ UNCHANGED <<job, phase, claim, handler, beating, beat, succeeded>>

(* The task that runs run() is cancelled, or the handler raised CancelledError. *)
IsCancelled(p) ==
  /\ phase[p] \in {"idle", "processing", "draining"}
  /\ stopping' = [stopping EXCEPT ![p] = TRUE]
  /\ IF phase[p] = "idle"
     THEN /\ phase' = [phase EXCEPT ![p] = "stopped"]
          /\ UNCHANGED <<job, claim, handler, beating, beat, succeeded>>
     ELSE CancelHandler(p)

(* _heartbeat: sleep, renew_lease, end when the claim is lost. *)
Heartbeats(p) ==
  /\ Beating(p) /\ beat[p] >= HeartbeatInterval
  /\ RenewLease(claim[p])
  /\ beat' = [beat EXCEPT ![p] = 0]
  /\ beating' = [beating EXCEPT ![p] = ValidClaim(claim[p])]
  /\ UNCHANGED <<phase, claim, handler, stopping, succeeded>>

(* renew_lease raised: the heartbeat task is done, with an exception. *)
HeartbeatRaises(p) ==
  /\ Beating(p) /\ beat[p] >= HeartbeatInterval
  /\ beating' = [beating EXCEPT ![p] = FALSE]
  /\ UNCHANGED <<job, phase, claim, handler, stopping, beat, succeeded>>

(* The process crashes, or a transaction of its own raises and run() ends. *)
Crashes(p) ==
  /\ phase[p] \notin Ended
  /\ Leave(p, "dead")
  /\ UNCHANGED <<job, stopping>>

(* A new process with the same worker_id is started. *)
Restarts(p) ==
  /\ phase[p] \in Ended
  /\ phase' = [phase EXCEPT ![p] = "idle"]
  /\ stopping' = [stopping EXCEPT ![p] = FALSE]
  /\ UNCHANGED <<job, claim, handler, beating, beat, succeeded>>

(* Time passes, unless a heartbeat is as late as it can be. *)
Tick ==
  /\ \A p \in Workers : Beating(p) => beat[p] < HeartbeatInterval + MaxBeatDelay
  /\ AgeJobs
  /\ beat' = [p \in Workers |-> IF Beating(p) THEN beat[p] + 1 ELSE beat[p]]
  /\ UNCHANGED <<phase, claim, handler, stopping, beating, succeeded>>

(* What run() and its heartbeat do around the handler. *)
LoopStep(p) ==
  \/ Claims(p) \/ FindsNoJob(p) \/ StopsIdle(p)
  \/ Completes(p) \/ RecordsFailure(p) \/ AbandonsClaim(p)
  \/ StartsDrain(p) \/ DrainTimesOut(p) \/ DrainRaises(p) \/ Releases(p)
  \/ RequestsStop(p) \/ IsCancelled(p)
  \/ Heartbeats(p) \/ HeartbeatRaises(p)
  \/ Crashes(p) \/ Restarts(p)

WorkerStep(p) == LoopStep(p) \/ HandlerReturns(p) \/ HandlerRaises(p)

Next ==
  \/ \E j \in Jobs : Enqueue(j)
  \/ \E p \in Workers : WorkerStep(p)
  \/ Tick

Spec == Init /\ [][Next]_vars

(***************************************************************************)
(* The event loop runs what is ready, handlers end (or are cancelled),     *)
(* time passes, and whoever deploys the program starts it again.  A worker *)
(* that is up again and again gets to poll (SF): it is not stopped or      *)
(* killed each time right before its claim_next.                           *)
(***************************************************************************)
Fairness ==
  /\ WF_vars(Tick)
  /\ \A p \in Workers :
       /\ SF_vars(Claims(p) \/ FindsNoJob(p))
       /\ WF_vars(StopsIdle(p) \/ Restarts(p))
       /\ WF_vars(HandlerReturns(p) \/ HandlerRaises(p))
       /\ WF_vars(Completes(p) \/ RecordsFailure(p) \/ AbandonsClaim(p))
       /\ WF_vars(DrainTimesOut(p) \/ DrainRaises(p) \/ Releases(p))
       /\ WF_vars(Heartbeats(p))

FairSpec == Spec /\ Fairness

-----------------------------------------------------------------------------
TypeOK ==
  /\ JobsTypeOK
  /\ phase \in [Workers -> Phases]
  /\ claim \in [Workers -> Claim \cup {NoClaim}]
  /\ handler \in [Workers -> HandlerStates]
  /\ stopping \in [Workers -> BOOLEAN]
  /\ beating \in [Workers -> BOOLEAN]
  /\ beat \in [Workers -> 0..(HeartbeatInterval + MaxBeatDelay)]
  /\ succeeded \in [Jobs -> SUBSET Nat]
  /\ \A p \in Workers : claim[p] # NoClaim <=> Holding(p)

(* No two processes, not even two that share a worker_id, hold the same attempt of a
   job: the claim is the fencing token of complete, fail, release and renew. *)
AttemptsAreUnique ==
  \A p, q \in Workers :
    /\ claim[p] # NoClaim => claim[p].attempt <= job[claim[p].job].attempts
    /\ claim[p] # NoClaim /\ claim[q] # NoClaim /\ claim[p].job = claim[q].job
         /\ claim[p].attempt = claim[q].attempt => p = q

(* A heartbeat that is less than a lease old has not lost its claim, whatever the other
   processes do: only one that starts too late can find another worker's attempt. *)
HeartbeatKeepsClaim ==
  \A p \in Workers : Beating(p) /\ beat[p] < LeaseDuration => ValidClaim(claim[p])

(* So two handlers run for one job only when the heartbeat of one is a lease old. *)
NoOverlappingHandlers ==
  \A p, q \in Workers :
    /\ Beating(p) /\ Beating(q) /\ claim[p].job = claim[q].job
    /\ beat[p] < LeaseDuration /\ beat[q] < LeaseDuration
    => p = q

(* Whatever crashes, stops, fails or is late: a job that was enqueued is settled. *)
EveryJobSettles ==
  \A j \in Jobs : job[j].state = "queued" ~> job[j].state \in Terminal

(* The table implements the queue as the producers of jobs see it. *)
Contract == INSTANCE JobContract WITH
  status <- [j \in Jobs |-> CASE job[j].state = "queued" -> "waiting"
                              [] job[j].state = "running" -> "trying"
                              [] job[j].state = "completed" -> "done"
                              [] job[j].state = "failed" -> "given up"
                              [] OTHER -> "absent"],
  tries <- [j \in Jobs |-> job[j].attempts],
  works <- succeeded

(* Every step of the workers is a step of the contract, or changes nothing it shows. *)
ImplementsContract == Contract!ContractSpec
=============================================================================
