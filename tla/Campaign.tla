------------------------------ MODULE Campaign ------------------------------
(***************************************************************************)
(* One campaign of the global source library: its queries, the durable     *)
(* jobs that run them batch by batch (DiscoveryCampaignPlanProcessor and   *)
(* GlobalSourceLibraryService.run_campaign), an operator who runs, pauses  *)
(* and resumes it, and the budget of the paid search backend               *)
(* (DiscoveryCampaignRepository.reserve_cost).  A batch is claimed in one  *)
(* transaction, searched without one, and settled in a third; who dies in  *)
(* between leaves its queries running until they may be reclaimed.         *)
(***************************************************************************)
EXTENDS Naturals, FiniteSets

CONSTANTS
    Queries,        \* numbered in the order of their identifiers
    Runners,        \* processes: workers, or an operator's command
    BatchLimit,     \* max_queries
    DailyLimit, CampaignLimit,  \* brave_search_requests_per_day, _per_campaign
    Day,            \* the window of the daily limit; 0: a tick is longer
    ReclaimAfter,   \* 30 minutes
    MaxAttempts,    \* of a job
    HasFallback,    \* a second backend is configured
    None,
    MaxClock, MaxRuns, MaxPauses, MaxFaults  \* bounds

ASSUME CampaignAssumption ==
    /\ Queries \subseteq Nat /\ IsFiniteSet(Queries) /\ Queries # {}
    /\ {BatchLimit, DailyLimit, CampaignLimit, ReclaimAfter, MaxAttempts} \subseteq Nat \ {0}
    /\ HasFallback \in BOOLEAN /\ {Day, MaxClock, MaxRuns, MaxPauses, MaxFaults} \subseteq Nat
    /\ None \notin Nat

VARIABLES
    clock,
    campaign,   \* status (planned, running and failed are open) and completed,
                \* the completed_query_count of its progress
    query,      \* status, and at, when one that is running was updated
    job,        \* durable_jobs of the campaign, by key
    charged,    \* discovery_cost_events: when the request of a query was recorded
    runner,     \* what each process is at
    runs, pauses, faults,  \* what the bounds count
    upset,      \* history: what may have left the campaign without a job (CampaignGoesOn)
    abandoned,  \* history: queries a run left running
    held        \* history: the campaign was paused with no batch in progress

vars == <<clock, campaign, query, job, charged, runner, runs, pauses, faults, upset, abandoned, held>>
history == <<upset, abandoned, held>>
bounds == <<runs, pauses, faults>>

(* The key of the job of a campaign is its own, or names what was          *)
(* completed before the batch.                                             *)
MaxKey == MaxRuns + Cardinality(Queries)
Keys == 0..MaxKey
PlanKey == 0
BatchKey(completed) == completed + 1

Idle == [pc |-> "idle", key |-> None, batch |-> {}, todo |-> {}, began |-> 0, completed |-> 0,
         pending |-> FALSE, claimable |-> FALSE]

Init ==
    /\ clock = 0
    /\ campaign = [status |-> "open", completed |-> 0]
    /\ query = [q \in Queries |-> [status |-> "queued", at |-> 0]]
    /\ job = [k \in Keys |-> [state |-> IF k = PlanKey THEN "queued" ELSE "absent", attempts |-> 0]]
    /\ charged = [q \in Queries |-> None]
    /\ runner = [r \in Runners |-> Idle]
    /\ runs = 0 /\ pauses = 0 /\ faults = 0
    /\ upset = FALSE /\ abandoned = {} /\ held = FALSE

First(S) == CHOOSE q \in S : \A p \in S : q <= p
Goes(r, pc) == runner' = [runner EXCEPT ![r].pc = pc]
WithStatus(S) == {q \in Queries : query[q].status \in S}
Sets(batch, status, at) ==
    LET row == [status |-> status, at |-> at]
    IN  query' = [q \in Queries |-> IF q \in batch THEN row ELSE query[q]]
Enqueue(k) == job' = IF job[k].state = "absent" THEN [job EXCEPT ![k].state = "queued"] ELSE job

-----------------------------------------------------------------------------
(* The job of the campaign (DurableJobs), and the command of the operator  *)

Lost(k) == job[k].state = "running" /\ \A r \in Runners : runner[r].key # k

(* DiscoveryCampaignPlanProcessor reads the status first.                  *)
StartsJob(r, k) ==
    /\ runner[r].pc = "idle"
    /\ job[k].state = "queued" \/ Lost(k)
    /\ job[k].attempts < MaxAttempts
    /\ job' = [job EXCEPT ![k].state = "running", ![k].attempts = @ + 1]
    /\ runner' = [runner EXCEPT ![r] = [Idle EXCEPT !.key = k, !.began = clock, !.pc =
                     CASE campaign.status = "paused"    -> "done"
                       [] campaign.status = "completed" -> "count"
                       [] OTHER                         -> "claim"]]
    /\ UNCHANGED <<clock, campaign, query, charged, bounds, history>>

(* Of a completed campaign it reads whether there are queries again.       *)
CountsQueries(r) ==
    /\ runner[r].pc = "count"
    /\ runner' = [runner EXCEPT ![r].began = clock,
           ![r].pc = IF WithStatus({"queued", "failed"}) = {} THEN "done" ELSE "claim"]
    /\ UNCHANGED <<clock, campaign, query, job, charged, bounds, history>>

GivesUpJob(k) ==
    /\ Lost(k) /\ job[k].attempts = MaxAttempts
    /\ job' = [job EXCEPT ![k].state = "failed"]
    /\ UNCHANGED <<clock, campaign, query, charged, runner, bounds, history>>

OperatorRuns(r) ==
    /\ runner[r].pc = "idle"
    /\ runs < MaxRuns /\ runs' = runs + 1
    /\ runner' = [runner EXCEPT ![r] = [Idle EXCEPT !.pc = "claim", !.began = clock]]
    /\ UNCHANGED <<clock, campaign, query, job, charged, pauses, faults, history>>

EndsJob(r) ==
    LET k == runner[r].key
    IN  /\ runner[r].pc \in {"done", "raised"}
        /\ runner' = [runner EXCEPT ![r] = Idle]
        /\ job' = IF k = None THEN job
                  ELSE [job EXCEPT ![k].state =
                          IF runner[r].pc = "done" THEN "completed"
                          ELSE IF job[k].attempts < MaxAttempts THEN "queued" ELSE "failed"]
        /\ UNCHANGED <<clock, campaign, query, charged, bounds, history>>

-----------------------------------------------------------------------------
(* run_campaign                                                            *)

Reclaimable(q, t) == query[q].status = "running" /\ query[q].at + ReclaimAfter <= t

(* Rows a run has updated, and not committed yet; a claim skips them.      *)
Locked == UNION {runner[s].batch : s \in {t \in Runners : runner[t].pc = "record"}}

Claimable(t) ==
    (WithStatus({"queued", "failed"}) \cup {q \in Queries : Reclaimable(q, t)}) \ Locked

BatchOf(S) == {q \in S : Cardinality({p \in S : p < q}) < BatchLimit}

AdmitsAny == TRUE
(* A pause is seen under the lock of the campaign.                         *)
Admits == campaign.status # "paused"

(* What may be reclaimed, and the now() of the transaction, are read       *)
(* before the lock is waited for.                                          *)
ClaimsBatch(r) ==
    /\ runner[r].pc = "claim" /\ Admits
    /\ \E t \in runner[r].began..clock :
          LET batch == BatchOf(Claimable(t))
          IN  /\ Claimable(t) # {}
              /\ Sets(batch, "running", t)
              /\ runner' = [runner EXCEPT ![r].pc = "search", ![r].batch = batch, ![r].todo = batch,
                                          ![r].began = 0, ![r].completed = campaign.completed]
    /\ campaign' = [campaign EXCEPT !.status = "open"]
    /\ upset' = (upset \/ \E s \in Runners : runner[s].batch # {})
    /\ UNCHANGED <<clock, job, charged, bounds, abandoned, held>>

FindsNoBatch(r) ==
    /\ runner[r].pc = "claim"
    /\ ~Admits \/ \E t \in runner[r].began..clock : Claimable(t) = {}
    /\ Goes(r, "raised")
    /\ UNCHANGED <<clock, campaign, query, job, charged, bounds, history>>

Searched(r) == runner[r].pc = "search" /\ runner[r].todo = {}

(* reserve_web_request: the transaction begins, and with it its now().     *)
BeginsReservation(r) ==
    /\ runner[r].pc = "search" /\ runner[r].todo # {}
    /\ runner' = [runner EXCEPT ![r].pc = "reserve", ![r].began = clock]
    /\ UNCHANGED <<clock, campaign, query, job, charged, bounds, history>>

Charges(S) == {q \in S : charged[q] # None}
RecentSinceLock(t) == {q \in Charges(Queries) : charged[q] + Day >= clock}
(* What the daily limit counts, for a transaction that began at t.         *)
Recent(t) == {q \in Charges(Queries) : charged[q] + Day >= t}

(* Under the advisory lock; a query that was charged is not charged again. *)
Reserves(r) ==
    LET q == First(runner[r].todo)
        granted == Cardinality(Recent(runner[r].began)) < DailyLimit
                   /\ Cardinality(Charges(Queries)) < CampaignLimit
    IN  /\ runner[r].pc = "reserve"
        /\ IF charged[q] = None /\ granted
           THEN charged' = [charged EXCEPT ![q] = runner[r].began]
           ELSE UNCHANGED charged
        /\ Goes(r, IF charged[q] # None \/ granted \/ HasFallback THEN "request" ELSE "refused")
        /\ UNCHANGED <<clock, campaign, query, job, bounds, history>>

(* _search_with_fallback: an answer of the paid backend, if it is granted, *)
(* or of the second one.  Enough candidates end the search of the batch.   *)
Answers(r) ==
    LET left == runner[r].todo \ {First(runner[r].todo)}
    IN  /\ runner[r].pc = "request"
        /\ \E todo \in {left, {}} :
              runner' = [runner EXCEPT ![r].pc = "search", ![r].todo = todo, ![r].began = 0]
        /\ UNCHANGED <<clock, campaign, query, job, charged, bounds, history>>

(* All backends failed, or the runner could not store what they found.     *)
(* The progress of the claim is written back.                              *)
RecordsFailure(r) ==
    /\ runner[r].pc \in {"request", "refused"} \/ Searched(r)
    /\ runner[r].batch \cap Locked = {}
    /\ Sets(runner[r].batch, "failed", 0)
    /\ campaign' = [status |-> "open", completed |-> runner[r].completed]
    /\ runner' = [runner EXCEPT ![r] = [Idle EXCEPT !.pc = "raised", !.key = runner[r].key]]
    /\ upset' = (upset \/ campaign.status = "paused")
    /\ UNCHANGED <<clock, job, charged, bounds, abandoned, held>>

NextBatchUnnamed(completed) == PlanKey
NextBatch(completed) == BatchKey(completed)

(* The last transaction updates its own rows and counts the others', and   *)
(* only then waits for the row of the campaign.                            *)
CountsRest(r) ==
    LET pending == Queries \ (runner[r].batch \cup WithStatus({"completed"}))
        claimable == WithStatus({"queued", "failed"}) \ runner[r].batch
    IN  /\ Searched(r) /\ runner[r].batch \cap Locked = {}
        /\ runner' = [runner EXCEPT ![r].pc = "record", ![r].pending = pending # {},
                                    ![r].claimable = claimable # {}]
        /\ UNCHANGED <<clock, campaign, query, job, charged, bounds, history>>

RecordsCompletion(r) ==
    LET completed == runner[r].completed + Cardinality(runner[r].batch)
    IN  /\ runner[r].pc = "record" /\ completed < MaxKey
        /\ Sets(runner[r].batch, "completed", 0)
        /\ campaign' = [status |-> IF runner[r].pending THEN "open" ELSE "completed",
                        completed |-> completed]
        /\ IF runner[r].claimable THEN Enqueue(NextBatch(completed)) ELSE UNCHANGED job
        /\ runner' = [runner EXCEPT ![r] = [Idle EXCEPT !.pc = "done", !.key = runner[r].key]]
        /\ UNCHANGED <<clock, charged, bounds, history>>

-----------------------------------------------------------------------------
(* The operator, the clock and the death of a process                      *)

Pauses ==
    /\ pauses < MaxPauses /\ pauses' = pauses + 1
    /\ campaign' = [campaign EXCEPT !.status = "paused"]
    /\ held' = (\A r \in Runners : runner[r].batch = {})
    /\ UNCHANGED <<clock, query, job, charged, runner, runs, faults, upset, abandoned>>

Resumes ==
    /\ campaign.status = "paused"
    /\ campaign' = [campaign EXCEPT !.status = "open"]
    /\ held' = FALSE
    /\ Enqueue(BatchKey(campaign.completed))
    /\ upset' = (upset \/ job[BatchKey(campaign.completed)].state # "absent")
    /\ UNCHANGED <<clock, query, charged, runner, bounds, abandoned>>

Tick ==
    /\ clock < MaxClock /\ clock' = clock + 1
    /\ UNCHANGED <<campaign, query, job, charged, runner, bounds, history>>

(* Also a worker whose lease is lost, for the cancelled handler does not   *)
(* catch it, and a run whose settling transaction fails: the job is tried  *)
(* again or given up, and the queries stay running.  Before it has a batch *)
(* a run that dies leaves what one that raises leaves.                     *)
Dies(r) ==
    /\ runner[r].batch # {} \/ runner[r].pc = "done"
    /\ faults < MaxFaults /\ faults' = faults + 1
    /\ abandoned' = abandoned \cup runner[r].batch
    /\ runner' = [runner EXCEPT ![r] = Idle]
    /\ UNCHANGED <<clock, campaign, query, job, charged, runs, pauses, upset, held>>

Next ==
    \/ Pauses \/ Resumes \/ Tick
    \/ \E k \in Keys : GivesUpJob(k)
    \/ \E r \in Runners :
         \/ \E k \in Keys : StartsJob(r, k)
         \/ OperatorRuns(r) \/ CountsQueries(r) \/ EndsJob(r)
         \/ ClaimsBatch(r) \/ FindsNoBatch(r) \/ BeginsReservation(r) \/ Reserves(r)
         \/ Answers(r)
         \/ RecordsFailure(r) \/ CountsRest(r) \/ RecordsCompletion(r) \/ Dies(r)

Spec == Init /\ [][Next]_vars

-----------------------------------------------------------------------------
(* Rows are those the tables allow, and only a run that claimed queries    *)
(* has something to search.                                                *)
TypeOK ==
    /\ clock \in 0..MaxClock
    /\ campaign \in [status : {"open", "paused", "completed"}, completed : 0..MaxKey]
    /\ query \in [Queries -> [status : {"queued", "running", "completed", "failed"}, at : 0..MaxClock]]
    /\ job \in [Keys -> [state : {"absent", "queued", "running", "completed", "failed"},
                         attempts : 0..MaxAttempts]]
    /\ charged \in [Queries -> {None} \cup 0..MaxClock]
    /\ runner \in [Runners -> [pc : {"idle", "count", "claim", "search", "reserve", "request",
                                     "refused", "record", "done", "raised"},
                               key : {None} \cup Keys, batch : SUBSET Queries, todo : SUBSET Queries,
                               began : 0..MaxClock, completed : 0..MaxKey,
                               pending : BOOLEAN, claimable : BOOLEAN]]
    /\ \A r \in Runners : runner[r].todo \subseteq runner[r].batch
    /\ runs \in 0..MaxRuns /\ pauses \in 0..MaxPauses /\ faults \in 0..MaxFaults
    /\ abandoned \subseteq Queries /\ {upset, held} \subseteq BOOLEAN

Pending(k) == job[k].state \in {"queued", "running"}

(* A campaign that is not paused and has queries to run is going to run    *)
(* them: a job waits or is tried, or a run is in progress.  Nothing else   *)
(* in the program would take it up again, so that every way it can stop is *)
(* named: a job was given up; a run died with the query in its batch; two  *)
(* runs had batches at once, so that one counted what the other was about  *)
(* to settle, or wrote back an old count, whose key is used (all that      *)
(* follows is exempt); a resume named a job that is in the table, because  *)
(* it had found the campaign paused; or the pause was overwritten by the   *)
(* failure of a run in progress (run_campaign, enqueue_campaign_plan).     *)
CampaignGoesOn ==
    campaign.status # "paused" /\ WithStatus({"queued", "failed"}) \ abandoned # {}
    => \/ \E k \in Keys : Pending(k) \/ job[k].state = "failed"
       \/ \E r \in Runners : runner[r].batch # {}
       \/ upset

(* A campaign that was paused while no batch was in progress stays paused  *)
(* until it is resumed, whatever its jobs read before: only a batch that   *)
(* was claimed already writes its own status over the pause (set_status).  *)
PauseHolds == held => campaign.status = "paused"

(* However many runs reserve at once, however long they wait for the lock  *)
(* and whatever they repeat: no window of a day has more charged requests  *)
(* than the daily limit, and the campaign has no more than its own         *)
(* (reserve_cost).                                                         *)
BudgetHolds ==
    /\ Cardinality(Charges(Queries)) <= CampaignLimit
    /\ \A t \in 0..MaxClock :
          Cardinality({q \in Charges(Queries) : charged[q] \in t..(t + Day)}) <= DailyLimit
=============================================================================
