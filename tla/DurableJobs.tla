---------------------------- MODULE DurableJobs ----------------------------
(***************************************************************************)
(* The durable_jobs table and DurableJobRepository                         *)
(* (freelancer_bot/persistence/jobs.py).  A job stands for one             *)
(* (job_type, idempotency_key) pair.  Every operation is one PostgreSQL    *)
(* transaction of the caller, so it is one step here.                      *)
(*                                                                         *)
(* Time is kept as countdowns: lease is what is left of lease_expires_at,  *)
(* delay is what is left until available_at, and Tick lets one time unit   *)
(* pass for every row.  The order of the candidates of one claim by        *)
(* available_at, created_at and id is left open (any of them may be the    *)
(* one claimed); that an expired lease is taken before a queued job is     *)
(* kept.                                                                   *)
(***************************************************************************)
EXTENDS Naturals

CONSTANTS
  Jobs,            \* the (job_type, idempotency_key) pairs that may be enqueued
  Owners,          \* the worker_id strings
  NoOwner,         \* lease_owner IS NULL
  MaxAttempts,     \* max_attempts of each job
  LeaseDuration,   \* WorkerOptions.lease_duration, in ticks
  RetryDelay       \* WorkerOptions.retry_delay, in ticks

ASSUME JobsAssumption ==
  /\ NoOwner \notin Owners
  /\ MaxAttempts \in [Jobs -> Nat \ {0}]
  /\ LeaseDuration \in Nat \ {0}
  /\ RetryDelay \in Nat

VARIABLE job       \* the row of each job; state "absent" before it is enqueued

JobStates == {"absent", "queued", "running", "completed", "failed"}
Terminal == {"completed", "failed"}

JobRow == [state : JobStates, attempts : Nat, delay : 0..RetryDelay,
           lease : 0..LeaseDuration, owner : Owners \cup {NoOwner}]

(* A JobClaim carries the attempt it was given and the worker it was given to. *)
Claim == [job : Jobs, attempt : Nat \ {0}, worker : Owners]

Unclaimed(row, state) ==
  [state |-> state, attempts |-> row.attempts, delay |-> row.delay,
   lease |-> 0, owner |-> NoOwner]

JobsInit ==
  job = [j \in Jobs |-> [state |-> "absent", attempts |-> 0, delay |-> 0,
                         lease |-> 0, owner |-> NoOwner]]

-----------------------------------------------------------------------------
(* enqueue: INSERT .. ON CONFLICT DO NOTHING; an existing row is returned as it is. *)
EnqueueJob(j) ==
  job' = [job EXCEPT ![j] = IF @.state = "absent" THEN [@ EXCEPT !.state = "queued"]
                                                  ELSE @]

Expired(j) == job[j].state = "running" /\ job[j].lease = 0
Available(j) == job[j].state = "queued" /\ job[j].delay = 0
HasAttempt(j) == job[j].attempts < MaxAttempts[j]
Claimable(j) == HasAttempt(j) /\ (Expired(j) \/ Available(j))

(* Fault: a job whose last attempt lost its lease is left as it is. *)
TerminalizedNever(types) == job

(* _terminalize_exhausted_leases, over the job types of the caller *)
Terminalized(types) ==
  [j \in Jobs |-> IF j \in types /\ Expired(j) /\ ~HasAttempt(j)
                  THEN Unclaimed(job[j], "failed")
                  ELSE job[j]]

(* The candidates of the SELECT .. FOR UPDATE SKIP LOCKED of one caller. *)
Candidates(types, ids, locked) == {j \in (types \cap ids) \ locked : Claimable(j)}

(* Fault: taking over an expired lease does not count as an attempt. *)
ClaimJobUncounted(w, types, ids, locked, j) ==
  /\ j \in Candidates(types, ids, locked)
  /\ job' = [Terminalized(types) EXCEPT
               ![j].state = "running",
               ![j].attempts = IF Expired(j) THEN @ ELSE @ + 1,
               ![j].lease = LeaseDuration,
               ![j].owner = w]

(* claim_next with a candidate: the exhausted leases fail in the same transaction. *)
ClaimJob(w, types, ids, locked, j) ==
  LET candidates == Candidates(types, ids, locked) IN
  /\ j \in candidates
  /\ (\E i \in candidates : Expired(i)) => Expired(j)
  /\ job' = [Terminalized(types) EXCEPT
               ![j].state = "running",
               ![j].attempts = @ + 1,
               ![j].lease = LeaseDuration,
               ![j].owner = w]

(* claim_next without one: None is returned, exhausted leases have failed.  An empty
   filter returns before anything is written. *)
ClaimNoJob(types, ids, locked) ==
  /\ ids # {}
  /\ Candidates(types, ids, locked) = {}
  /\ job' = Terminalized(types)

(* Fault: the attempt of the claim is not compared. *)
OwnsClaimOfAnyAttempt(c) ==
  job[c.job].state = "running" /\ job[c.job].owner = c.worker

(* release_for_shutdown's WHERE clause: the claim is the row's latest one. *)
OwnsClaim(c) ==
  /\ job[c.job].state = "running"
  /\ job[c.job].owner = c.worker
  /\ job[c.job].attempts = c.attempt

(* _valid_claim: and its lease has not run out. *)
ValidClaim(c) == OwnsClaim(c) /\ job[c.job].lease > 0

LastAttempt(c) == c.attempt >= MaxAttempts[c.job]

CompleteJob(c) ==
  job' = [job EXCEPT ![c.job] = IF ValidClaim(c) THEN Unclaimed(@, "completed") ELSE @]

FailJob(c, retryable) ==
  job' = [job EXCEPT ![c.job] =
            IF ~ValidClaim(c) THEN @
            ELSE IF ~retryable \/ LastAttempt(c) THEN Unclaimed(@, "failed")
            ELSE [Unclaimed(@, "queued") EXCEPT !.delay = RetryDelay]]

ReleaseJob(c) ==
  job' = [job EXCEPT ![c.job] =
            IF ~OwnsClaim(c) THEN @
            ELSE [Unclaimed(@, IF LastAttempt(c) THEN "failed" ELSE "queued")
                    EXCEPT !.delay = 0]]

(* Fault: the heartbeat touches the row without extending its lease. *)
RenewLeaseTouchOnly(c) == UNCHANGED job

RenewLease(c) ==
  job' = [job EXCEPT ![c.job].lease = IF ValidClaim(c) THEN LeaseDuration ELSE @]

(* One time unit passes for every lease and every retry delay. *)
CountDown(n) == IF n = 0 THEN 0 ELSE n - 1
AgeJobs ==
  job' = [j \in Jobs |-> [job[j] EXCEPT !.lease = CountDown(@), !.delay = CountDown(@)]]

-----------------------------------------------------------------------------
JobsTypeOK == job \in [Jobs -> JobRow]

(* CHECK state_fields_consistent of the schema: a row has a lease owner exactly while it
   is running, a claimed or settled row has used an attempt, and a row has not used more
   attempts than it may (CHECK attempt_count_bounded). *)
JobRowsConsistent ==
  \A j \in Jobs :
    /\ job[j].state = "running" <=> job[j].owner # NoOwner
    /\ job[j].state # "running" => job[j].lease = 0
    /\ job[j].state \in {"running", "completed", "failed"} => job[j].attempts > 0
    /\ job[j].state \in {"absent", "queued"} => job[j].attempts < MaxAttempts[j]
    /\ job[j].attempts <= MaxAttempts[j]
=============================================================================
