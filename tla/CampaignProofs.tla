--------------------------- MODULE CampaignProofs ---------------------------
(***************************************************************************)
(* Proofs about Campaign, for any queries, runners, limits and windows.    *)
(***************************************************************************)
EXTENDS Campaign, FiniteSetTheorems, WellFoundedInduction, TLAPS

LEMMA ConstantsType ==
  /\ BatchLimit \in Nat \ {0} /\ DailyLimit \in Nat \ {0} /\ CampaignLimit \in Nat \ {0}
  /\ MaxAttempts \in Nat \ {0} /\ Day \in Nat /\ MaxClock \in Nat
  /\ MaxRuns \in Nat /\ MaxPauses \in Nat /\ MaxFaults \in Nat
BY CampaignAssumption

LEMMA MaxKeyType == MaxKey \in Nat
BY CampaignAssumption, FS_CardinalityType DEF MaxKey

(* A batch is cut from the claimable queries and is never empty.           *)
LEMMA BatchIsTaken ==
  ASSUME NEW S \in SUBSET Queries, S # {}
  PROVE  BatchOf(S) \subseteq S /\ BatchOf(S) # {}
<1>1. S \subseteq Nat /\ BatchLimit \in Nat \ {0}
  BY CampaignAssumption
<1>2. PICK q \in S : \A p \in S : ~ (<<p, q>> \in OpToRel(<, Nat))
  BY <1>1, WFMin, NatLessThanWellFounded
<1>3. \A p \in S : ~ (p < q)
  BY <1>1, <1>2 DEF OpToRel
<1>4. {p \in S : p < q} = {}
  BY <1>3
<1>5. Cardinality({p \in S : p < q}) = 0
  BY <1>4, FS_EmptySet
<1>6. q \in BatchOf(S)
  BY <1>1, <1>5 DEF BatchOf
<1> QED
  BY <1>6 DEF BatchOf

(* What a run that claims takes, as of some moment of its transaction.     *)
LEMMA ClaimedBatch ==
  ASSUME NEW r \in Runners, ClaimsBatch(r)
  PROVE  \E batch \in SUBSET Queries : \E t \in runner[r].began..clock :
           /\ batch # {} /\ batch \subseteq Claimable(t)
           /\ Sets(batch, "running", t)
           /\ runner' = [runner EXCEPT ![r].pc = "search", ![r].batch = batch, ![r].todo = batch,
                                       ![r].began = 0, ![r].completed = campaign.completed]
<1>1. PICK t \in runner[r].began..clock :
        LET batch == BatchOf(Claimable(t))
        IN  /\ Claimable(t) # {}
            /\ Sets(batch, "running", t)
            /\ runner' = [runner EXCEPT ![r].pc = "search", ![r].batch = batch, ![r].todo = batch,
                                        ![r].began = 0, ![r].completed = campaign.completed]
  BY DEF ClaimsBatch
<1>2. Claimable(t) \in SUBSET Queries
  BY DEF Claimable, WithStatus
<1>3. BatchOf(Claimable(t)) \subseteq Claimable(t) /\ BatchOf(Claimable(t)) # {}
  BY <1>1, <1>2, BatchIsTaken
<1> QED
  BY <1>1, <1>2, <1>3

-----------------------------------------------------------------------------
(* Types                                                                   *)

RunnerType ==
    [pc : {"idle", "count", "claim", "search", "reserve", "request", "refused", "record",
           "done", "raised"},
     key : {None} \cup Keys, batch : SUBSET Queries, todo : SUBSET Queries,
     began : 0..MaxClock, completed : 0..MaxKey, pending : BOOLEAN, claimable : BOOLEAN]

LEMMA IdleType == Idle \in RunnerType
BY ConstantsType, MaxKeyType DEF Idle, RunnerType

(* What a query becomes when its batch is claimed or settled.              *)
LEMMA SetsType ==
  ASSUME TypeOK, NEW batch, NEW status \in {"queued", "running", "completed", "failed"},
         NEW at \in 0..MaxClock, Sets(batch, status, at)
  PROVE  query' \in [Queries -> [status : {"queued", "running", "completed", "failed"},
                                 at : 0..MaxClock]]
<1> DEFINE row == [status |-> status, at |-> at]
<1>1. row \in [status : {"queued", "running", "completed", "failed"}, at : 0..MaxClock]
  OBVIOUS
<1>2. query' = [q \in Queries |-> IF q \in batch THEN row ELSE query[q]]
  BY DEF Sets
<1> HIDE DEF row
<1> QED
  BY <1>1, <1>2 DEF TypeOK

LEMMA EnqueueType ==
  ASSUME TypeOK, NEW k, Enqueue(k)
  PROVE  job' \in [Keys -> [state : {"absent", "queued", "running", "completed", "failed"},
                            attempts : 0..MaxAttempts]]
<1>1. job' = job \/ job' = [job EXCEPT ![k] = [@ EXCEPT !.state = "queued"]]
  BY DEF Enqueue
<1>2. ASSUME k \in Keys
      PROVE  [job[k] EXCEPT !.state = "queued"]
               \in [state : {"absent", "queued", "running", "completed", "failed"},
                    attempts : 0..MaxAttempts]
  BY <1>2 DEF TypeOK
<1> QED
  BY <1>1, <1>2 DEF TypeOK

LEMMA InitType == ASSUME Init PROVE TypeOK
<1>1. clock = 0 /\ clock \in 0..MaxClock
  BY ConstantsType DEF Init
<1>2. campaign \in [status : {"open", "paused", "completed"}, completed : 0..MaxKey]
  BY MaxKeyType DEF Init
<1>3. query \in [Queries -> [status : {"queued", "running", "completed", "failed"}, at : 0..MaxClock]]
  BY ConstantsType DEF Init
<1>4. job \in [Keys -> [state : {"absent", "queued", "running", "completed", "failed"},
                        attempts : 0..MaxAttempts]]
  BY ConstantsType DEF Init
<1>5. /\ charged \in [Queries -> {None} \cup 0..MaxClock]
      /\ runs \in 0..MaxRuns /\ pauses \in 0..MaxPauses /\ faults \in 0..MaxFaults
      /\ abandoned \subseteq Queries /\ {upset, held} \subseteq BOOLEAN
  <2>1. upset = FALSE /\ held = FALSE
    BY DEF Init
  <2>2. {upset, held} \subseteq BOOLEAN
    BY <2>1
  <2> QED
    BY <2>2, ConstantsType DEF Init
<1>6. runner \in [Runners -> RunnerType] /\ \A r \in Runners : runner[r].todo \subseteq runner[r].batch
  BY IdleType DEF Init, Idle
<1> QED
  BY <1>1, <1>2, <1>3, <1>4, <1>5, <1>6 DEF TypeOK, RunnerType

(* The actions of one runner.                                              *)
LEMMA RunnerStepType ==
  ASSUME TypeOK, NEW r \in Runners,
         \/ \E k \in Keys : StartsJob(r, k)
         \/ OperatorRuns(r) \/ CountsQueries(r) \/ EndsJob(r)
         \/ ClaimsBatch(r) \/ FindsNoBatch(r) \/ BeginsReservation(r) \/ Reserves(r)
         \/ Answers(r)
         \/ RecordsFailure(r) \/ CountsRest(r) \/ RecordsCompletion(r) \/ Dies(r)
  PROVE  TypeOK'
<1> USE MaxKeyType, ConstantsType, IdleType
<1>0. /\ runner \in [Runners -> RunnerType] /\ runner[r] \in RunnerType
      /\ runner[r].key \in {None} \cup Keys /\ runner[r].completed \in 0..MaxKey
  BY DEF TypeOK, RunnerType
<1>1. ASSUME NEW k \in Keys, StartsJob(r, k) PROVE TypeOK'
  <2>1. job' \in [Keys -> [state : {"absent", "queued", "running", "completed", "failed"},
                           attempts : 0..MaxAttempts]]
    <3>1. /\ job[k].attempts < MaxAttempts
          /\ job' = [job EXCEPT ![k].state = "running", ![k].attempts = @ + 1]
      BY <1>1 DEF StartsJob
    <3>2. job[k].attempts + 1 \in 0..MaxAttempts
      BY <3>1 DEF TypeOK
    <3> QED
      BY <3>1, <3>2 DEF TypeOK
  <2>2. PICK pc \in {"done", "count", "claim"} :
          runner' = [runner EXCEPT ![r] = [Idle EXCEPT !.key = k, !.began = clock, !.pc = pc]]
    BY <1>1 DEF StartsJob
  <2>3. runner' \in [Runners -> RunnerType]
        /\ \A s \in Runners : runner'[s].todo \subseteq runner'[s].batch
    <3>1. PICK i \in RunnerType : i = Idle /\ i.todo = {} /\ i.batch = {}
      BY DEF Idle
    <3> DEFINE t == [i EXCEPT !.key = k, !.began = clock, !.pc = pc]
    <3>2. t \in RunnerType /\ t.todo = i.todo /\ t.batch = i.batch
      BY DEF RunnerType, TypeOK
    <3>3. runner' = [runner EXCEPT ![r] = t]
      BY <2>2, <3>1
    <3> HIDE DEF t
    <3> QED
      BY <3>1, <3>2, <3>3, <1>0 DEF TypeOK
  <2> QED
    BY <1>1, <2>1, <2>3 DEF TypeOK, RunnerType, StartsJob, bounds, history
<1>2. CASE OperatorRuns(r) \/ CountsQueries(r) \/ FindsNoBatch(r)
  <2>1. PICK t \in RunnerType : runner' = [runner EXCEPT ![r] = t] /\ t.todo \subseteq t.batch
    <3>1. CASE OperatorRuns(r)
      <4> DEFINE t == [Idle EXCEPT !.pc = "claim", !.began = clock]
      <4>1. t \in RunnerType /\ t.todo \subseteq t.batch
        BY DEF Idle, RunnerType, TypeOK
      <4>2. runner' = [runner EXCEPT ![r] = t]
        BY <3>1 DEF OperatorRuns
      <4> QED
        BY <4>1, <4>2
    <3>2. CASE CountsQueries(r) \/ FindsNoBatch(r)
      <4>0. PICK s \in RunnerType : s = runner[r] /\ s.todo \subseteq s.batch
        BY <1>0 DEF TypeOK
      <4>1. PICK pc \in {"done", "claim", "raised"}, began \in 0..MaxClock :
              runner' = [runner EXCEPT ![r] = [s EXCEPT !.pc = pc, !.began = began]]
        <5>1. CASE CountsQueries(r)
          <6>1. PICK pc \in {"done", "claim"} :
                  runner' = [runner EXCEPT ![r] = [s EXCEPT !.pc = pc, !.began = clock]]
            BY <4>0, <5>1 DEF CountsQueries
          <6> QED
            BY <6>1 DEF TypeOK
        <5>2. CASE FindsNoBatch(r)
          <6>1. runner' = [runner EXCEPT ![r] = [s EXCEPT !.pc = "raised", !.began = s.began]]
                /\ s.began \in 0..MaxClock
            BY <4>0, <5>2 DEF FindsNoBatch, Goes, RunnerType
          <6> QED
            BY <6>1
        <5> QED
          BY <3>2, <5>1, <5>2
      <4> DEFINE t == [s EXCEPT !.pc = pc, !.began = began]
      <4>2. t \in RunnerType /\ t.todo = s.todo /\ t.batch = s.batch
        BY DEF RunnerType
      <4> QED
        BY <4>0, <4>1, <4>2
    <3> QED
      BY <1>2, <3>1, <3>2
  <2>2. runner' \in [Runners -> RunnerType]
        /\ \A s \in Runners : runner'[s].todo \subseteq runner'[s].batch
    BY <2>1, <1>0 DEF TypeOK
  <2>3. /\ UNCHANGED <<clock, campaign, query, job, charged, pauses, faults, history>>
        /\ runs' \in 0..MaxRuns
    BY <1>2 DEF OperatorRuns, CountsQueries, FindsNoBatch, bounds, TypeOK
  <2> QED
    BY <2>2, <2>3 DEF TypeOK, RunnerType, history
<1>3. CASE EndsJob(r)
  <2>1. job' \in [Keys -> [state : {"absent", "queued", "running", "completed", "failed"},
                           attempts : 0..MaxAttempts]]
    BY <1>3, <1>0 DEF TypeOK, EndsJob
  <2>2. runner' \in [Runners -> RunnerType]
        /\ \A s \in Runners : runner'[s].todo \subseteq runner'[s].batch
    BY <1>3, <1>0 DEF TypeOK, EndsJob, Idle
  <2> QED
    BY <1>3, <2>1, <2>2 DEF TypeOK, RunnerType, EndsJob, bounds, history
<1>4. CASE ClaimsBatch(r)
  <2>1. PICK batch \in SUBSET Queries, t \in runner[r].began..clock :
          /\ Sets(batch, "running", t)
          /\ runner' = [runner EXCEPT ![r].pc = "search", ![r].batch = batch, ![r].todo = batch,
                                      ![r].began = 0, ![r].completed = campaign.completed]
    BY <1>4, ClaimedBatch
  <2>2. query' \in [Queries -> [status : {"queued", "running", "completed", "failed"}, at : 0..MaxClock]]
    <3>1. t \in 0..MaxClock
      BY <1>0 DEF RunnerType, TypeOK
    <3> QED
      BY <2>1, <3>1, SetsType
  <2>3. PICK s \in RunnerType : s = runner[r]
    BY <1>0
  <2> DEFINE u == [s EXCEPT !.pc = "search", !.batch = batch, !.todo = batch, !.began = 0,
                            !.completed = campaign.completed]
  <2>u. u \in RunnerType /\ u.todo = batch /\ u.batch = batch
    <3>1. 0 \in 0..MaxClock /\ campaign.completed \in 0..MaxKey
      BY DEF TypeOK
    <3> QED
      BY ONLY <3>1, s \in RunnerType, batch \in SUBSET Queries DEF RunnerType
  <2>v. runner' = [runner EXCEPT ![r] = u]
    BY <2>1, <2>3
  <2> HIDE DEF u
  <2>4. runner' \in [Runners -> RunnerType]
        /\ \A p \in Runners : runner'[p].todo \subseteq runner'[p].batch
    BY <1>0, <2>u, <2>v DEF TypeOK
  <2>5. campaign' \in [status : {"open", "paused", "completed"}, completed : 0..MaxKey]
        /\ upset' \in BOOLEAN
    BY <1>4 DEF ClaimsBatch, TypeOK
  <2> QED
    BY <1>4, <2>2, <2>4, <2>5 DEF TypeOK, RunnerType, ClaimsBatch, bounds
<1>5. CASE BeginsReservation(r)
  <2>1. runner' \in [Runners -> RunnerType]
        /\ \A s \in Runners : runner'[s].todo \subseteq runner'[s].batch
    BY <1>5, <1>0 DEF TypeOK, RunnerType, BeginsReservation
  <2> QED
    BY <1>5, <2>1 DEF TypeOK, RunnerType, BeginsReservation, bounds, history
<1>6. CASE Reserves(r)
  <2>1. PICK pc \in {"request", "refused"} : runner' = [runner EXCEPT ![r].pc = pc]
    BY <1>6 DEF Reserves, Goes
  <2>2. runner' \in [Runners -> RunnerType]
        /\ \A s \in Runners : runner'[s].todo \subseteq runner'[s].batch
    BY <2>1, <1>0 DEF TypeOK, RunnerType
  <2>3. charged' \in [Queries -> {None} \cup 0..MaxClock]
    <3>1. charged' = charged
          \/ charged' = [charged EXCEPT ![First(runner[r].todo)] = runner[r].began]
      BY <1>6 DEF Reserves
    <3> QED
      BY <3>1, <1>0 DEF TypeOK, RunnerType
  <2> QED
    BY <1>6, <2>2, <2>3 DEF TypeOK, RunnerType, Reserves, bounds, history
<1>7. CASE Answers(r)
  <2>1. PICK todo : /\ todo \subseteq runner[r].todo
                    /\ runner' = [runner EXCEPT ![r].pc = "search", ![r].todo = todo, ![r].began = 0]
    BY <1>7 DEF Answers
  <2>2. todo \subseteq runner[r].batch /\ runner[r].batch \subseteq Queries /\ 0 \in 0..MaxClock
    BY <2>1, <1>0 DEF TypeOK, RunnerType
  <2> DEFINE t == [runner[r] EXCEPT !.pc = "search", !.todo = todo, !.began = 0]
  <2>3. t \in RunnerType /\ t.todo \subseteq t.batch /\ runner' = [runner EXCEPT ![r] = t]
    BY <2>1, <2>2, <1>0 DEF RunnerType
  <2> HIDE DEF t
  <2>4. runner' \in [Runners -> RunnerType]
        /\ \A s \in Runners : runner'[s].todo \subseteq runner'[s].batch
    BY <2>3, <1>0 DEF TypeOK
  <2> QED
    BY <1>7, <2>4 DEF TypeOK, RunnerType, Answers, bounds, history
<1>8. CASE RecordsFailure(r)
  <2>1. query' \in [Queries -> [status : {"queued", "running", "completed", "failed"}, at : 0..MaxClock]]
    BY <1>8, SetsType, 0 \in 0..MaxClock DEF RecordsFailure
  <2>2. runner' \in [Runners -> RunnerType]
        /\ \A s \in Runners : runner'[s].todo \subseteq runner'[s].batch
    BY <1>8, <1>0 DEF TypeOK, RunnerType, RecordsFailure, Idle
  <2>3. campaign' \in [status : {"open", "paused", "completed"}, completed : 0..MaxKey]
        /\ upset' \in BOOLEAN
    BY <1>8, <1>0 DEF RecordsFailure, TypeOK
  <2> QED
    BY <1>8, <2>1, <2>2, <2>3 DEF TypeOK, RunnerType, RecordsFailure, bounds
<1>9. CASE RecordsCompletion(r)
  <2>1. query' \in [Queries -> [status : {"queued", "running", "completed", "failed"}, at : 0..MaxClock]]
    BY <1>9, SetsType, 0 \in 0..MaxClock DEF RecordsCompletion
  <2>2. runner' \in [Runners -> RunnerType]
        /\ \A s \in Runners : runner'[s].todo \subseteq runner'[s].batch
    BY <1>9, <1>0 DEF TypeOK, RunnerType, RecordsCompletion, Idle
  <2>3. Cardinality(runner[r].batch) \in Nat
    BY <1>0, CampaignAssumption, FS_Subset, FS_CardinalityType DEF RunnerType
  <2>4. campaign' \in [status : {"open", "paused", "completed"}, completed : 0..MaxKey]
    BY <1>9, <1>0, <2>3 DEF RecordsCompletion
  <2>5. job' \in [Keys -> [state : {"absent", "queued", "running", "completed", "failed"},
                           attempts : 0..MaxAttempts]]
    BY <1>9, EnqueueType DEF RecordsCompletion, TypeOK
  <2> QED
    BY <1>9, <2>1, <2>2, <2>4, <2>5 DEF TypeOK, RunnerType, RecordsCompletion, bounds, history
<1>10. CASE Dies(r)
  <2>1. runner' \in [Runners -> RunnerType]
        /\ \A s \in Runners : runner'[s].todo \subseteq runner'[s].batch
    BY <1>10, <1>0 DEF TypeOK, Dies, Idle
  <2>2. abandoned' \subseteq Queries /\ faults' \in 0..MaxFaults
    <3>1. runner[r].batch \subseteq Queries
      BY <1>0 DEF RunnerType
    <3> QED
      BY <1>10, <3>1 DEF TypeOK, Dies
  <2> QED
    BY <1>10, <2>1, <2>2 DEF TypeOK, RunnerType, Dies
<1>11. CASE CountsRest(r)
  <2> DEFINE pending == Queries \ (runner[r].batch \cup WithStatus({"completed"})) # {}
             claimable == WithStatus({"queued", "failed"}) \ runner[r].batch # {}
  <2>1. pending \in BOOLEAN /\ claimable \in BOOLEAN
    OBVIOUS
  <2>2. PICK s \in RunnerType : s = runner[r] /\ s.todo \subseteq s.batch
    BY <1>0 DEF TypeOK
  <2>3. runner' = [runner EXCEPT ![r] = [s EXCEPT !.pc = "record", !.pending = pending,
                                                  !.claimable = claimable]]
    BY <1>11, <2>2 DEF CountsRest
  <2> HIDE DEF pending, claimable
  <2> DEFINE t == [s EXCEPT !.pc = "record", !.pending = pending, !.claimable = claimable]
  <2>4. t \in RunnerType /\ t.todo = s.todo /\ t.batch = s.batch
    BY <2>1 DEF RunnerType
  <2>5. runner' = [runner EXCEPT ![r] = t]
    BY <2>3
  <2> HIDE DEF t
  <2>6. runner' \in [Runners -> RunnerType]
        /\ \A p \in Runners : runner'[p].todo \subseteq runner'[p].batch
    BY <1>0, <2>2, <2>4, <2>5 DEF TypeOK
  <2> QED
    BY <1>11, <2>6 DEF TypeOK, RunnerType, CountsRest, bounds, history
<1> QED
  BY <1>1, <1>2, <1>3, <1>4, <1>5, <1>6, <1>7, <1>8, <1>9, <1>10, <1>11

LEMMA NextType == ASSUME TypeOK, [Next]_vars PROVE TypeOK'
<1> USE MaxKeyType, ConstantsType
<1>1. CASE UNCHANGED vars
  BY <1>1 DEF TypeOK, vars
<1>2. CASE Pauses
  BY <1>2 DEF Pauses, TypeOK
<1>3. CASE Resumes
  <2>1. job' \in [Keys -> [state : {"absent", "queued", "running", "completed", "failed"},
                           attempts : 0..MaxAttempts]]
    BY <1>3, EnqueueType DEF Resumes
  <2>2. upset' \in BOOLEAN
    BY <1>3 DEF Resumes, TypeOK
  <2> QED
    BY <1>3, <2>1, <2>2 DEF Resumes, TypeOK, bounds
<1>4. CASE Tick
  BY <1>4 DEF Tick, TypeOK, bounds, history
<1>5. ASSUME NEW k \in Keys, GivesUpJob(k) PROVE TypeOK'
  BY <1>5 DEF GivesUpJob, TypeOK, bounds, history
<1> QED
  BY <1>1, <1>2, <1>3, <1>4, <1>5, RunnerStepType DEF Next

(* Every variable keeps its type: rows are those the tables allow, and a   *)
(* run searches only for queries of the batch it claimed.                  *)
THEOREM TypeCorrect == Spec => []TypeOK
<1>1. Init => TypeOK
  BY InitType
<1>2. TypeOK /\ [Next]_vars => TypeOK'
  BY NextType
<1> QED
  BY <1>1, <1>2, PTL DEF Spec

-----------------------------------------------------------------------------
(* Pauses                                                                  *)

InProgress == {"search", "reserve", "request", "refused", "record"}

(* Who writes the status of the campaign holds a batch.                    *)
WritersHoldBatches == \A r \in Runners : runner[r].pc \in InProgress => runner[r].batch # {}

(* PauseHolds is not inductive: what keeps a pause is that nobody holds a  *)
(* batch, and that no batch is claimed while the campaign is paused.       *)
NobodyHoldsABatch == held => campaign.status = "paused" /\ \A r \in Runners : runner[r].batch = {}

PauseInv == TypeOK /\ WritersHoldBatches /\ NobodyHoldsABatch

(* A step that leaves every batch and the campaign alone.                  *)
LEMMA PauseKept ==
  ASSUME PauseInv, NEW r \in Runners, NEW t,
         runner' = [runner EXCEPT ![r] = t],
         t.batch = {} \/ t.batch = runner[r].batch,
         t.pc \in InProgress => t.batch # {},
         UNCHANGED campaign, held' = held
  PROVE  WritersHoldBatches' /\ NobodyHoldsABatch'
BY DEF PauseInv, TypeOK, WritersHoldBatches, NobodyHoldsABatch

LEMMA RunnerKeepsPause ==
  ASSUME PauseInv, NEW r \in Runners,
         \/ \E k \in Keys : StartsJob(r, k)
         \/ OperatorRuns(r) \/ CountsQueries(r) \/ EndsJob(r)
         \/ ClaimsBatch(r) \/ FindsNoBatch(r) \/ BeginsReservation(r) \/ Reserves(r)
         \/ Answers(r)
         \/ RecordsFailure(r) \/ CountsRest(r) \/ RecordsCompletion(r) \/ Dies(r)
  PROVE  WritersHoldBatches' /\ NobodyHoldsABatch'
<1>0. /\ runner \in [Runners -> RunnerType] /\ runner[r] \in RunnerType
      /\ Idle.batch = {} /\ Idle.pc \notin InProgress
  BY DEF PauseInv, TypeOK, RunnerType, Idle, InProgress
<1>1. ASSUME NEW k \in Keys, StartsJob(r, k) PROVE WritersHoldBatches' /\ NobodyHoldsABatch'
  <2>1. PICK pc \in {"done", "count", "claim"} :
          runner' = [runner EXCEPT ![r] = [Idle EXCEPT !.key = k, !.began = clock, !.pc = pc]]
    BY <1>1 DEF StartsJob
  <2> DEFINE t == [Idle EXCEPT !.key = k, !.began = clock, !.pc = pc]
  <2>2. t.batch = {} /\ t.pc \notin InProgress
    BY DEF Idle, InProgress
  <2>3. UNCHANGED campaign /\ held' = held
    BY <1>1 DEF StartsJob, history
  <2> QED
    BY <2>1, <2>2, <2>3, PauseKept
<1>2. CASE \/ OperatorRuns(r) \/ CountsQueries(r) \/ FindsNoBatch(r)
           \/ BeginsReservation(r) \/ Reserves(r) \/ Answers(r) \/ CountsRest(r)
  <2>1. PICK t : /\ runner' = [runner EXCEPT ![r] = t]
                 /\ t.batch = {} \/ t.batch = runner[r].batch
                 /\ t.pc \in InProgress => t.batch # {}
    <3>1. CASE OperatorRuns(r)
      <4> DEFINE t == [Idle EXCEPT !.pc = "claim", !.began = clock]
      <4>1. t.batch = {} /\ t.pc \notin InProgress
        BY DEF Idle, InProgress
      <4> QED
        BY <3>1, <4>1 DEF OperatorRuns
    <3>2. CASE CountsQueries(r) \/ FindsNoBatch(r)
      <4>0. PICK s \in RunnerType : s = runner[r]
        BY <1>0
      <4>1. PICK pc \in {"done", "claim", "raised"}, began \in 0..MaxClock :
              runner' = [runner EXCEPT ![r] = [s EXCEPT !.pc = pc, !.began = began]]
        <5>1. CASE CountsQueries(r)
          <6>1. \E pc \in {"done", "claim"} :
                  runner' = [runner EXCEPT ![r] = [s EXCEPT !.pc = pc, !.began = clock]]
            BY <4>0, <5>1 DEF CountsQueries
          <6> QED
            BY <6>1 DEF PauseInv, TypeOK
        <5>2. CASE FindsNoBatch(r)
          <6>1. runner' = [runner EXCEPT ![r] = [s EXCEPT !.pc = "raised", !.began = s.began]]
                /\ s.began \in 0..MaxClock
            BY <4>0, <5>2 DEF FindsNoBatch, Goes, RunnerType
          <6> QED
            BY <6>1
        <5> QED
          BY <3>2, <5>1, <5>2
      <4> DEFINE t == [s EXCEPT !.pc = pc, !.began = began]
      <4>2. t.batch = s.batch /\ t.pc \notin InProgress
        BY DEF RunnerType, InProgress
      <4> QED
        BY <4>0, <4>1, <4>2
    <3>3. CASE BeginsReservation(r) \/ Reserves(r) \/ Answers(r) \/ CountsRest(r)
      <4>1. runner[r].batch # {}
        BY <3>3 DEF BeginsReservation, Reserves, Answers, CountsRest, Searched, PauseInv,
                    WritersHoldBatches, InProgress
      <4>2. \E t : runner' = [runner EXCEPT ![r] = t] /\ t.batch = runner[r].batch
        <5>1. CASE BeginsReservation(r)
          <6>1. [runner[r] EXCEPT !.pc = "reserve", !.began = clock].batch = runner[r].batch
            BY <1>0 DEF RunnerType
          <6> QED
            BY <5>1, <6>1 DEF BeginsReservation
        <5>2. CASE Reserves(r)
          <6>1. PICK pc : runner' = [runner EXCEPT ![r].pc = pc]
            BY <5>2 DEF Reserves, Goes
          <6>2. [runner[r] EXCEPT !.pc = pc].batch = runner[r].batch
            BY <1>0 DEF RunnerType
          <6> QED
            BY <6>1, <6>2
        <5>3. CASE Answers(r)
          <6>1. PICK todo : runner' = [runner EXCEPT ![r].pc = "search", ![r].todo = todo, ![r].began = 0]
            BY <5>3 DEF Answers
          <6>2. [runner[r] EXCEPT !.pc = "search", !.todo = todo, !.began = 0].batch = runner[r].batch
            BY <1>0 DEF RunnerType
          <6> QED
            BY <6>1, <6>2
        <5>4. CASE CountsRest(r)
          <6>1. PICK p, c : runner' = [runner EXCEPT ![r].pc = "record", ![r].pending = p,
                                                     ![r].claimable = c]
            BY <5>4 DEF CountsRest
          <6>2. [runner[r] EXCEPT !.pc = "record", !.pending = p, !.claimable = c].batch
                  = runner[r].batch
            BY <1>0 DEF RunnerType
          <6> QED
            BY <6>1, <6>2
        <5> QED
          BY <3>3, <5>1, <5>2, <5>3, <5>4
      <4> QED
        BY <4>1, <4>2
    <3> QED
      BY <1>2, <3>1, <3>2, <3>3
  <2>2. UNCHANGED campaign /\ held' = held
    BY <1>2 DEF OperatorRuns, CountsQueries, FindsNoBatch, BeginsReservation, Reserves, Answers,
                CountsRest, history
  <2> QED
    BY <2>1, <2>2, PauseKept
<1>3. CASE EndsJob(r) \/ Dies(r)
  <2>1. runner' = [runner EXCEPT ![r] = Idle] /\ UNCHANGED campaign /\ held' = held
    BY <1>3 DEF EndsJob, Dies, history
  <2> QED
    BY <1>0, <2>1, PauseKept
<1>4. CASE ClaimsBatch(r)
  <2>1. ~held /\ held' = held
    BY <1>4 DEF ClaimsBatch, Admits, PauseInv, NobodyHoldsABatch
  <2>2. PICK batch \in SUBSET Queries :
          /\ batch # {}
          /\ runner' = [runner EXCEPT ![r].pc = "search", ![r].batch = batch, ![r].todo = batch,
                                      ![r].began = 0, ![r].completed = campaign.completed]
    BY <1>4, ClaimedBatch
  <2>3. runner'[r].batch # {} /\ \A s \in Runners \ {r} : runner'[s] = runner[s]
    BY <1>0, <2>2 DEF RunnerType
  <2> QED
    BY <2>1, <2>3 DEF PauseInv, WritersHoldBatches, NobodyHoldsABatch
<1>5. CASE RecordsFailure(r) \/ RecordsCompletion(r)
  <2>1. runner[r].batch # {}
    BY <1>5 DEF RecordsFailure, RecordsCompletion, Searched, PauseInv, WritersHoldBatches, InProgress
  <2>2. ~held /\ held' = held
    BY <1>5, <2>1 DEF RecordsFailure, RecordsCompletion, PauseInv, NobodyHoldsABatch, history
  <2>3. PICK pc \in {"raised", "done"} :
          runner' = [runner EXCEPT ![r] = [Idle EXCEPT !.pc = pc, !.key = runner[r].key]]
    BY <1>5 DEF RecordsFailure, RecordsCompletion
  <2>4. [Idle EXCEPT !.pc = pc, !.key = runner[r].key].pc \notin InProgress
    BY DEF Idle, InProgress
  <2>5. WritersHoldBatches'
    BY <1>0, <2>3, <2>4 DEF PauseInv, WritersHoldBatches
  <2> QED
    BY <2>2, <2>5 DEF NobodyHoldsABatch
<1> QED
  BY <1>1, <1>2, <1>3, <1>4, <1>5

(* No job, run or command overwrites a pause that began with no batch in   *)
(* progress, whatever it had read before (run_campaign, set_status).       *)
THEOREM PauseAlwaysHolds == Spec => []PauseHolds
<1>1. Init => PauseInv
  <2> SUFFICES ASSUME Init PROVE WritersHoldBatches /\ NobodyHoldsABatch
    BY InitType DEF PauseInv
  <2>1. ~held
    BY DEF Init
  <2>2. \A r \in Runners : runner[r].pc \notin InProgress
    BY DEF Init, Idle, InProgress
  <2> QED
    BY <2>1, <2>2 DEF WritersHoldBatches, NobodyHoldsABatch
<1>2. PauseInv /\ [Next]_vars => PauseInv'
  <2> SUFFICES ASSUME PauseInv, [Next]_vars PROVE WritersHoldBatches' /\ NobodyHoldsABatch'
    BY NextType DEF PauseInv
  <2>1. CASE UNCHANGED vars
    BY <2>1 DEF vars, PauseInv, WritersHoldBatches, NobodyHoldsABatch
  <2>2. CASE Pauses
    BY <2>2 DEF Pauses, PauseInv, TypeOK, WritersHoldBatches, NobodyHoldsABatch
  <2>3. CASE Resumes
    BY <2>3 DEF Resumes, PauseInv, WritersHoldBatches, NobodyHoldsABatch
  <2>4. CASE Tick \/ \E k \in Keys : GivesUpJob(k)
    BY <2>4 DEF Tick, GivesUpJob, history, PauseInv, WritersHoldBatches, NobodyHoldsABatch
  <2> QED
    BY <2>1, <2>2, <2>3, <2>4, RunnerKeepsPause DEF Next
<1>3. PauseInv => PauseHolds
  BY DEF PauseInv, NobodyHoldsABatch, PauseHolds
<1> QED
  BY <1>1, <1>2, <1>3, PTL DEF Spec

-----------------------------------------------------------------------------
(* The campaign goes on                                                    *)
(*                                                                         *)
(* CampaignGoesOn is not inductive: that a batch is in progress does not   *)
(* say that anything follows it.  What does is that, until the campaign    *)
(* is upset, whoever settles a batch is alone with it and its count is     *)
(* the campaign's, so that the key of the next job is new.                 *)

AllDone == \A q \in Queries : query[q].status = "completed"

(* Queries that are to be run: that may be claimed, or are in a batch.     *)
ToDo == WithStatus({"queued", "failed"}) \cup UNION {runner[r].batch : r \in Runners}

(* A job that waits, was given up, or is tried and not about to be         *)
(* completed.                                                              *)
Going(k) ==
    \/ job[k].state \in {"queued", "failed"}
    \/ job[k].state = "running" /\ \A r \in Runners : runner[r].key = k => runner[r].pc # "done"

HoldersAtWork ==
    \A r \in Runners : /\ runner[r].pc = "idle" => runner[r] = Idle
                       /\ runner[r].batch # {} <=> runner[r].pc \in InProgress

JobsAreHeldOnce ==
    /\ \A r \in Runners : runner[r].key # None => job[runner[r].key].state = "running"
    /\ \A r, s \in Runners : r # s /\ runner[r].key # None => runner[s].key # runner[r].key

(* The rest holds until the campaign is upset.  One run has a batch at a   *)
(* time, and the count it will write is the one of the campaign;           *)
BatchesAreAlone ==
    /\ \A r, s \in Runners : r # s => runner[r].batch = {} \/ runner[s].batch = {}
    /\ \A r \in Runners : /\ runner[r].batch # {} => runner[r].completed = campaign.completed
                          /\ \A q \in runner[r].batch : query[q].status = "running"
    /\ \A q \in Queries : query[q].status = "running" =>
          q \in abandoned \/ \E r \in Runners : q \in runner[r].batch

(* no job has been planned for a higher count;                             *)
KeysFollowCount ==
    /\ campaign.completed < MaxKey
    /\ \A k \in Keys : job[k].state # "absent" => k <= BatchKey(campaign.completed)

(* what was completed stays so;                                            *)
CompletedAreDone ==
    /\ campaign.status = "completed" => AllDone
    /\ \A r \in Runners : runner[r].pc = "count" => AllDone

(* what a run counted before it waited for the campaign is what is left;   *)
Counted(t) ==
    /\ t.pending \/ Queries \subseteq t.batch \cup WithStatus({"completed"})
    /\ t.claimable \/ WithStatus({"queued", "failed"}) \subseteq t.batch
CountsAreCurrent == \A r \in Runners : runner[r].pc = "record" => Counted(runner[r])

(* and while there is something to do, a job is going to do it.            *)
SomeJobGoes == campaign.status # "paused" /\ ToDo \ abandoned # {} => \E k \in Keys : Going(k)

Steady == BatchesAreAlone /\ KeysFollowCount /\ CompletedAreDone /\ CountsAreCurrent /\ SomeJobGoes

GoesOnInv == TypeOK /\ HoldersAtWork /\ JobsAreHeldOnce /\ (~upset => Steady)

LEMMA KeysAreNumbers == None \notin Keys /\ Keys \subseteq Nat /\ MaxKey \in Nat
BY CampaignAssumption, MaxKeyType DEF Keys

LEMMA IdleFacts ==
  /\ Idle.pc = "idle" /\ Idle.key = None /\ Idle.batch = {} /\ Idle \in RunnerType
  /\ "idle" \notin InProgress
BY IdleType DEF Idle, InProgress

LEMMA RunnerFacts ==
  ASSUME TypeOK, NEW r \in Runners
  PROVE  /\ runner \in [Runners -> RunnerType] /\ runner[r] \in RunnerType
         /\ runner[r].key \in {None} \cup Keys /\ runner[r].batch \subseteq Queries
BY DEF TypeOK, RunnerType

LEMMA NothingToDo ==
  ASSUME BatchesAreAlone, AllDone, TypeOK
  PROVE  ToDo = {} /\ (\A t \in Nat : Claimable(t) = {}) /\ \A r \in Runners : runner[r].batch = {}
<1>1. \A q \in Queries : query[q].status \notin {"queued", "failed", "running"}
  BY DEF AllDone
<1>2. \A r \in Runners : runner[r].batch = {}
  <2> SUFFICES ASSUME NEW r \in Runners, NEW q \in runner[r].batch PROVE FALSE
    OBVIOUS
  <2>1. q \in Queries /\ query[q].status = "running"
    BY RunnerFacts DEF BatchesAreAlone
  <2> QED
    BY <1>1, <2>1
<1>3. WithStatus({"queued", "failed"}) = {} /\ \A t : {q \in Queries : Reclaimable(q, t)} = {}
  BY <1>1 DEF WithStatus, Reclaimable
<1> QED
  BY <1>2, <1>3 DEF ToDo, Claimable

(* A step of one run that keeps its batch: what is left to show is that    *)
(* the jobs that go still do.                                              *)
LEMMA QuietStep ==
  ASSUME GoesOnInv, TypeOK', NEW r \in Runners, NEW t \in RunnerType,
         runner' = [runner EXCEPT ![r] = t], UNCHANGED <<campaign, query, upset, abandoned>>,
         t.pc = "idle" => t = Idle, t.batch # {} <=> t.pc \in InProgress,
         t.batch = runner[r].batch, t.completed = runner[r].completed \/ t.batch = {},
         t.pc = "count" => campaign.status = "completed" \/ runner[r].pc = "count",
         t.pc = "record" => Counted(t),
         \A k \in Keys : job[k].state = "absent" => job'[k].state = "absent",
         JobsAreHeldOnce',
         ~upset => \/ campaign.status = "paused" \/ ToDo \ abandoned = {}
                   \/ \A k \in Keys : Going(k) => Going(k)'
  PROVE  GoesOnInv'
<1>1. /\ runner'[r] = t /\ \A s \in Runners \ {r} : runner'[s] = runner[s]
      /\ \A s \in Runners : runner'[s].batch = runner[s].batch
  BY RunnerFacts DEF GoesOnInv
<1>2. HoldersAtWork'
  BY <1>1 DEF GoesOnInv, HoldersAtWork
<1>3. ASSUME ~upset PROVE Steady'
  <2>0. Steady
    BY <1>3 DEF GoesOnInv
  <2>1. BatchesAreAlone'
    <3>1. \A s \in Runners : runner'[s].batch # {} => runner'[s].completed = runner[s].completed
      BY <1>1
    <3> QED
      BY <1>1, <2>0, <3>1 DEF Steady, BatchesAreAlone
  <2>2. KeysFollowCount'
    BY <2>0 DEF Steady, KeysFollowCount
  <2>3. CompletedAreDone'
    <3>1. AllDone' <=> AllDone
      BY DEF AllDone
    <3>2. \A s \in Runners : runner'[s].pc = "count" => AllDone
      BY <1>1, <2>0 DEF Steady, CompletedAreDone
    <3> QED
      BY <2>0, <3>1, <3>2 DEF Steady, CompletedAreDone
  <2>5. CountsAreCurrent'
    <3>1. \A S : WithStatus(S)' = WithStatus(S)
      BY DEF WithStatus
    <3>2. \A s \in Runners : runner'[s].pc = "record" => Counted(runner'[s])
      BY <1>1, <2>0 DEF Steady, CountsAreCurrent
    <3> QED
      BY <3>1, <3>2 DEF CountsAreCurrent, Counted
  <2>4. SomeJobGoes'
    <3>1. ToDo' = ToDo
      <4>1. UNION {runner'[s].batch : s \in Runners} = UNION {runner[s].batch : s \in Runners}
        BY <1>1
      <4>2. WithStatus({"queued", "failed"})' = WithStatus({"queued", "failed"})
        BY DEF WithStatus
      <4> QED
        BY <4>1, <4>2 DEF ToDo
    <3> QED
      BY <1>3, <2>0, <3>1 DEF Steady, SomeJobGoes
  <2> QED
    BY <2>1, <2>2, <2>3, <2>4, <2>5 DEF Steady
<1> QED
  BY <1>2, <1>3 DEF GoesOnInv

(* A run that stays at its job and does not end it.                        *)
LEMMA JobIsKept ==
  ASSUME TypeOK, JobsAreHeldOnce, NEW r \in Runners, NEW t, runner' = [runner EXCEPT ![r] = t],
         job' = job, t.key \in {runner[r].key, None}
  PROVE  /\ JobsAreHeldOnce'
         /\ t.pc # "done" \/ t.key = None => \A k \in Keys : Going(k) => Going(k)'
<1>1. runner'[r] = t /\ \A s \in Runners \ {r} : runner'[s] = runner[s]
  BY RunnerFacts
<1>2. \A s \in Runners : runner'[s].key # None => runner'[s].key = runner[s].key
  BY <1>1
<1>3. JobsAreHeldOnce'
  BY <1>2 DEF JobsAreHeldOnce
<1>4. ASSUME t.pc # "done" \/ t.key = None, NEW k \in Keys, Going(k) PROVE Going(k)'
  <2>1. \A s \in Runners : runner'[s].key = k /\ runner'[s].pc = "done"
                           => runner[s].key = k /\ runner[s].pc = "done"
    BY <1>1, <1>4, KeysAreNumbers
  <2> QED
    BY <1>4, <2>1 DEF Going
<1> QED
  BY <1>3, <1>4

LEMMA StartKeepsGoing ==
  ASSUME GoesOnInv, TypeOK', NEW r \in Runners, NEW k \in Keys, StartsJob(r, k)
  PROVE  GoesOnInv'
<1>0. /\ TypeOK /\ HoldersAtWork /\ JobsAreHeldOnce /\ runner[r] = Idle
      /\ runner \in [Runners -> RunnerType]
  BY RunnerFacts DEF GoesOnInv, HoldersAtWork, StartsJob
<1>1. PICK pc \in {"done", "count", "claim"} :
        pc = CASE campaign.status = "paused"    -> "done"
               [] campaign.status = "completed" -> "count"
               [] OTHER                         -> "claim"
  OBVIOUS
<1>2. PICK t : /\ t = [Idle EXCEPT !.key = k, !.began = clock, !.pc = pc]
               /\ runner' = [runner EXCEPT ![r] = t]
  BY <1>1 DEF StartsJob
<1>3. /\ t \in RunnerType /\ t.pc = pc /\ t.key = k /\ t.batch = {} /\ t.pc \notin InProgress
      /\ t.pc # "idle" /\ t.pc # "record"
  <2>1. PICK i \in RunnerType : i = Idle /\ i.batch = {}
    BY IdleFacts
  <2>2. t = [i EXCEPT !.key = k, !.began = clock, !.pc = pc]
    BY <1>2, <2>1
  <2>3. t \in RunnerType /\ t.pc = pc /\ t.key = k /\ t.batch = i.batch
    BY <1>0, <2>2 DEF RunnerType, TypeOK
  <2>4. pc \notin InProgress /\ pc # "idle" /\ pc # "record"
    BY DEF InProgress
  <2> QED
    BY <2>1, <2>3, <2>4
<1>4. runner'[r] = t /\ \A s \in Runners \ {r} : runner'[s] = runner[s]
  BY <1>0, <1>2
<1>5. job'[k].state = "running" /\ \A j \in Keys \ {k} : job'[j] = job[j]
  <2>1. job' = [job EXCEPT ![k] = [job[k] EXCEPT !.state = "running", !.attempts = job[k].attempts + 1]]
    BY DEF StartsJob
  <2>2. [job[k] EXCEPT !.state = "running", !.attempts = job[k].attempts + 1].state = "running"
    BY <1>0 DEF TypeOK
  <2> QED
    BY <1>0, <2>1, <2>2 DEF TypeOK
<1>6. \A s \in Runners : runner[s].key # k
  BY <1>0, KeysAreNumbers DEF StartsJob, Lost, JobsAreHeldOnce
<1>7. JobsAreHeldOnce'
  <2>1. \A s \in Runners : runner'[s].key # None => job'[runner'[s].key].state = "running"
    <3> SUFFICES ASSUME NEW s \in Runners \ {r}, runner[s].key # None
                 PROVE  job'[runner[s].key].state = "running"
      BY <1>3, <1>4, <1>5
    <3>1. runner[s].key \in Keys \ {k} /\ job[runner[s].key].state = "running"
      BY <1>0, <1>6, RunnerFacts DEF JobsAreHeldOnce
    <3> QED
      BY <1>5, <3>1
  <2>2. \A p, s \in Runners : p # s /\ runner'[p].key # None => runner'[s].key # runner'[p].key
    BY <1>0, <1>3, <1>4, <1>6 DEF JobsAreHeldOnce
  <2> QED
    BY <2>1, <2>2 DEF JobsAreHeldOnce
<1>8. campaign.status = "paused" \/ \A j \in Keys : Going(j) => Going(j)'
  <2> SUFFICES ASSUME campaign.status # "paused", NEW j \in Keys, Going(j) PROVE Going(j)'
    OBVIOUS
  <2>1. pc # "done"
    BY <1>1
  <2>2. CASE j = k
    BY <1>3, <1>4, <1>5, <1>6, <2>1, <2>2 DEF Going
  <2>3. CASE j # k
    BY <1>3, <1>4, <1>5, <2>3 DEF Going
  <2> QED
    BY <2>2, <2>3
<1>9. UNCHANGED <<campaign, query, upset, abandoned>>
  BY DEF StartsJob, history
<1>10. t.pc = "count" => campaign.status = "completed"
  BY <1>1, <1>3
<1>11. \A j \in Keys : job[j].state = "absent" => job'[j].state = "absent"
  BY <1>5 DEF StartsJob, Lost
<1> QED
  BY <1>0, <1>2, <1>3, <1>7, <1>8, <1>9, <1>10, <1>11, IdleFacts, QuietStep

LEMMA EndKeepsGoing ==
  ASSUME GoesOnInv, TypeOK', NEW r \in Runners, EndsJob(r)
  PROVE  GoesOnInv'
<1> DEFINE k == runner[r].key
<1>0. /\ TypeOK /\ HoldersAtWork /\ JobsAreHeldOnce /\ runner[r].batch = {}
      /\ runner \in [Runners -> RunnerType] /\ k \in {None} \cup Keys
  BY RunnerFacts DEF GoesOnInv, HoldersAtWork, EndsJob, InProgress
<1>1. runner' = [runner EXCEPT ![r] = Idle] /\ UNCHANGED <<campaign, query, upset, abandoned>>
  BY DEF EndsJob, history
<1>2. runner'[r] = Idle /\ \A s \in Runners \ {r} : runner'[s] = runner[s]
  BY <1>0, <1>1
<1>3. PICK state \in {"completed", "queued", "failed"} :
        /\ state = "completed" => runner[r].pc = "done"
        /\ job' = IF k = None THEN job ELSE [job EXCEPT ![k].state = state]
  BY DEF EndsJob
<1>4. /\ k # None => job'[k].state = state /\ job[k].state = "running"
      /\ \A j \in Keys : j # k => job'[j] = job[j]
  BY <1>0, <1>3 DEF TypeOK, JobsAreHeldOnce
<1>5. \A s \in Runners \ {r} : k # None => runner[s].key # k
  BY <1>0 DEF JobsAreHeldOnce
<1> HIDE DEF k
<1>6. JobsAreHeldOnce'
  <2>1. \A s \in Runners : runner'[s].key # None => job'[runner'[s].key].state = "running"
    <3> SUFFICES ASSUME NEW s \in Runners \ {r}, runner[s].key # None
                 PROVE  job'[runner[s].key].state = "running"
      BY <1>2, IdleFacts
    <3>1. runner[s].key \in Keys /\ runner[s].key # k /\ job[runner[s].key].state = "running"
      BY <1>0, <1>5, RunnerFacts DEF JobsAreHeldOnce
    <3> QED
      BY <1>4, <3>1
  <2>2. \A p, s \in Runners : p # s /\ runner'[p].key # None => runner'[s].key # runner'[p].key
    BY <1>0, <1>2, IdleFacts DEF JobsAreHeldOnce
  <2> QED
    BY <2>1, <2>2 DEF JobsAreHeldOnce
<1>7. \A j \in Keys : Going(j) => Going(j)'
  <2> SUFFICES ASSUME NEW j \in Keys, Going(j) PROVE Going(j)'
    OBVIOUS
  <2>1. CASE j = k
    <3>1. k # None
      BY <2>1, KeysAreNumbers
    <3>2. runner[r].pc # "done"
      BY <1>4, <2>1, <3>1 DEF Going, k
    <3> QED
      BY <1>3, <1>4, <2>1, <3>1, <3>2 DEF Going
  <2>2. CASE j # k
    BY <1>2, <1>4, <2>2, KeysAreNumbers, IdleFacts DEF Going
  <2> QED
    BY <2>1, <2>2
<1>8. \A j \in Keys : job[j].state = "absent" => job'[j].state = "absent"
  BY <1>4, KeysAreNumbers
<1> QED
  BY <1>0, <1>1, <1>6, <1>7, <1>8, IdleFacts, QuietStep

(* The steps of a run that change neither its job nor a query.             *)
LEMMA SearchKeepsGoing ==
  ASSUME GoesOnInv, TypeOK', NEW r \in Runners,
         \/ OperatorRuns(r) \/ CountsQueries(r) \/ FindsNoBatch(r)
         \/ BeginsReservation(r) \/ Reserves(r) \/ Answers(r)
  PROVE  GoesOnInv'
<1>0. /\ TypeOK /\ HoldersAtWork /\ JobsAreHeldOnce /\ runner \in [Runners -> RunnerType]
      /\ runner[r] \in RunnerType
  BY RunnerFacts DEF GoesOnInv
<1>1. UNCHANGED <<campaign, query, upset, abandoned>> /\ job' = job
  BY DEF OperatorRuns, CountsQueries, FindsNoBatch, BeginsReservation, Reserves, Answers, history
<1>2. PICK t \in RunnerType :
        /\ runner' = [runner EXCEPT ![r] = t] /\ t.key \in {runner[r].key, None}
        /\ t.pc # "idle" /\ t.pc # "count" /\ t.pc # "record"
        /\ t.batch = runner[r].batch
        /\ t.completed = runner[r].completed \/ t.batch = {}
        /\ t.pc \in InProgress <=> runner[r].pc \in InProgress
        /\ t.pc = "done" => CountsQueries(r)
  <2>0. PICK s \in RunnerType : s = runner[r]
    BY <1>0
  <2>1. CASE OperatorRuns(r)
    <3> DEFINE t == [Idle EXCEPT !.pc = "claim", !.began = clock]
    <3>1. runner' = [runner EXCEPT ![r] = t] /\ runner[r] = Idle
      BY <1>0, <2>1 DEF OperatorRuns, HoldersAtWork
    <3>2. /\ t \in RunnerType /\ t.pc = "claim" /\ t.key = Idle.key /\ t.batch = Idle.batch
          /\ t.completed = Idle.completed
      BY <1>0, IdleFacts DEF RunnerType, TypeOK
    <3> HIDE DEF t
    <3> QED
      BY <3>1, <3>2, IdleFacts DEF InProgress
  <2>2. CASE CountsQueries(r) \/ FindsNoBatch(r)
    <3>1. PICK pc \in {"done", "claim", "raised"}, began \in 0..MaxClock :
            /\ runner' = [runner EXCEPT ![r] = [s EXCEPT !.pc = pc, !.began = began]]
            /\ pc = "done" => CountsQueries(r)
      <4>1. CASE CountsQueries(r)
        <5>1. \E pc \in {"done", "claim"} :
                runner' = [runner EXCEPT ![r] = [s EXCEPT !.pc = pc, !.began = clock]]
          BY <2>0, <4>1 DEF CountsQueries
        <5> QED
          BY <1>0, <4>1, <5>1 DEF TypeOK
      <4>2. CASE FindsNoBatch(r)
        <5>1. runner' = [runner EXCEPT ![r] = [s EXCEPT !.pc = "raised", !.began = s.began]]
              /\ s.began \in 0..MaxClock
          BY <2>0, <4>2 DEF FindsNoBatch, Goes, RunnerType
        <5> QED
          BY <5>1
      <4> QED
        BY <2>2, <4>1, <4>2
    <3> DEFINE t == [s EXCEPT !.pc = pc, !.began = began]
    <3>2. runner' = [runner EXCEPT ![r] = t]
      BY <3>1
    <3>3. t \in RunnerType /\ t.pc = pc /\ t.key = s.key /\ t.batch = s.batch /\ t.completed = s.completed
      BY DEF RunnerType
    <3>4. /\ runner[r].pc \notin InProgress /\ pc \notin InProgress
          /\ pc # "idle" /\ pc # "count" /\ pc # "record"
      BY <2>2 DEF CountsQueries, FindsNoBatch, InProgress
    <3> HIDE DEF t
    <3> QED
      BY <2>0, <3>1, <3>2, <3>3, <3>4
  <2>3. CASE BeginsReservation(r) \/ Reserves(r) \/ Answers(r)
    <3>1. PICK t \in RunnerType :
            /\ runner' = [runner EXCEPT ![r] = t] /\ t.pc \in InProgress /\ t.pc # "record"
            /\ t.key = s.key /\ t.batch = s.batch /\ t.completed = s.completed
      <4>1. CASE BeginsReservation(r)
        <5> DEFINE t == [s EXCEPT !.pc = "reserve", !.began = clock]
        <5>1. runner' = [runner EXCEPT ![r] = t]
          BY <2>0, <4>1 DEF BeginsReservation
        <5>2. t \in RunnerType /\ t.pc = "reserve" /\ t.key = s.key /\ t.batch = s.batch
              /\ t.completed = s.completed
          BY <1>0 DEF RunnerType, TypeOK
        <5> QED
          BY <5>1, <5>2 DEF InProgress
      <4>2. CASE Reserves(r)
        <5>1. PICK pc \in {"request", "refused"} : runner' = [runner EXCEPT ![r].pc = pc]
          BY <4>2 DEF Reserves, Goes
        <5> DEFINE t == [s EXCEPT !.pc = pc]
        <5>2. runner' = [runner EXCEPT ![r] = t]
          BY <2>0, <5>1
        <5>3. t \in RunnerType /\ t.pc = pc /\ t.key = s.key /\ t.batch = s.batch
              /\ t.completed = s.completed
          BY DEF RunnerType
        <5> QED
          BY <5>2, <5>3 DEF InProgress
      <4>3. CASE Answers(r)
        <5>1. PICK todo : /\ todo \subseteq s.todo
                          /\ runner' = [runner EXCEPT ![r].pc = "search", ![r].todo = todo, ![r].began = 0]
          BY <2>0, <4>3 DEF Answers
        <5> DEFINE t == [s EXCEPT !.pc = "search", !.todo = todo, !.began = 0]
        <5>2. runner' = [runner EXCEPT ![r] = t]
          BY <2>0, <5>1
        <5>3. todo \in SUBSET Queries /\ 0 \in 0..MaxClock
          BY <5>1, ConstantsType DEF RunnerType
        <5>4. t \in RunnerType /\ t.pc = "search" /\ t.key = s.key /\ t.batch = s.batch
              /\ t.completed = s.completed
          BY <5>3 DEF RunnerType
        <5> QED
          BY <5>2, <5>4 DEF InProgress
      <4> QED
        BY <2>3, <4>1, <4>2, <4>3
    <3>2. runner[r].pc \in InProgress
      BY <2>3 DEF BeginsReservation, Reserves, Answers, InProgress
    <3> QED
      BY <2>0, <3>1, <3>2 DEF InProgress
  <2> QED
    BY <2>1, <2>2, <2>3
<1>3. t.batch # {} <=> t.pc \in InProgress
  BY <1>0, <1>2 DEF HoldersAtWork
<1>4. JobsAreHeldOnce' /\ (t.pc # "done" => \A k \in Keys : Going(k) => Going(k)')
  BY <1>0, <1>1, <1>2, JobIsKept
<1>5. ~upset /\ t.pc = "done" => ToDo = {}
  <2> SUFFICES ASSUME ~upset, t.pc = "done" PROVE ToDo = {}
    OBVIOUS
  <2>1. CompletedAreDone /\ BatchesAreAlone /\ runner[r].pc = "count"
    BY <1>2 DEF GoesOnInv, Steady, CountsQueries
  <2> QED
    BY <1>0, <2>1, NothingToDo DEF CompletedAreDone
<1> QED
  BY <1>1, <1>2, <1>3, <1>4, <1>5, QuietStep

(* A run that counted the rest is still at its job, and counted it right.  *)
LEMMA CountKeepsGoing ==
  ASSUME GoesOnInv, TypeOK', NEW r \in Runners, CountsRest(r)
  PROVE  GoesOnInv'
<1>0. /\ TypeOK /\ HoldersAtWork /\ JobsAreHeldOnce /\ runner \in [Runners -> RunnerType]
      /\ runner[r] \in RunnerType
  BY RunnerFacts DEF GoesOnInv
<1>1. PICK s \in RunnerType : s = runner[r]
  BY <1>0
<1> DEFINE left == Queries \ (s.batch \cup WithStatus({"completed"}))
           rest == WithStatus({"queued", "failed"}) \ s.batch
           pending == left # {}
           claimable == rest # {}
<1>2. /\ runner' = [runner EXCEPT ![r].pc = "record", ![r].pending = pending,
                                  ![r].claimable = claimable]
      /\ s.pc = "search" /\ UNCHANGED <<campaign, query, upset, abandoned>> /\ job' = job
  BY <1>1 DEF CountsRest, Searched, history
<1>3. /\ pending \in BOOLEAN /\ claimable \in BOOLEAN
      /\ pending \/ Queries \subseteq s.batch \cup WithStatus({"completed"})
      /\ claimable \/ WithStatus({"queued", "failed"}) \subseteq s.batch
  OBVIOUS
<1> HIDE DEF pending, claimable
<1> DEFINE t == [s EXCEPT !.pc = "record", !.pending = pending, !.claimable = claimable]
<1>4. /\ t \in RunnerType /\ t.pc = "record" /\ t.key = s.key /\ t.batch = s.batch
      /\ t.completed = s.completed
  BY <1>3 DEF RunnerType
<1>5. (t.pending <=> pending) /\ (t.claimable <=> claimable)
  BY <1>3 DEF RunnerType
<1>6. runner' = [runner EXCEPT ![r] = t]
  BY <1>1, <1>2
<1> HIDE DEF t
<1>7. Counted(t)
  BY <1>3, <1>4, <1>5 DEF Counted
<1>8. t.batch # {} <=> t.pc \in InProgress
  BY <1>0, <1>1, <1>2, <1>4 DEF HoldersAtWork, InProgress
<1>9. JobsAreHeldOnce' /\ \A k \in Keys : Going(k) => Going(k)'
  BY <1>0, <1>1, <1>2, <1>4, <1>6, JobIsKept
<1> QED
  BY <1>1, <1>2, <1>4, <1>6, <1>7, <1>8, <1>9, QuietStep

LEMMA EnqueueFacts ==
  ASSUME TypeOK, NEW n, Enqueue(n)
  PROVE  \A k \in Keys : job'[k].state = IF k = n /\ job[k].state = "absent" THEN "queued"
                                         ELSE job[k].state
<1>1. job' = job \/ (job[n].state = "absent" /\ job' = [job EXCEPT ![n] = [job[n] EXCEPT !.state = "queued"]])
  BY DEF Enqueue
<1>2. n \in Keys => [job[n] EXCEPT !.state = "queued"].state = "queued"
  BY DEF TypeOK
<1>3. n \in Keys /\ job[n].state = "absent" => job' # job
  <2> SUFFICES ASSUME n \in Keys, job[n].state = "absent" PROVE job'[n].state = "queued"
    OBVIOUS
  <2>1. job' = [job EXCEPT ![n] = [job[n] EXCEPT !.state = "queued"]]
    BY DEF Enqueue
  <2> QED
    BY <1>2, <2>1 DEF TypeOK
<1> QED
  BY <1>1, <1>2, <1>3 DEF TypeOK

(* A job that is planned disturbs none of those that are held or go.       *)
LEMMA PlanKeepsJobs ==
  ASSUME TypeOK, JobsAreHeldOnce, NEW n, Enqueue(n) \/ job' = job,
         \A s \in Runners : runner'[s].key # None => runner'[s].key = runner[s].key
  PROVE  JobsAreHeldOnce'
<1>1. \A k \in Keys : job[k].state = "running" => job'[k].state = "running"
  BY EnqueueFacts
<1>2. \A s \in Runners : runner'[s].key # None => job'[runner'[s].key].state = "running"
  BY <1>1, RunnerFacts DEF JobsAreHeldOnce
<1> QED
  BY <1>2 DEF JobsAreHeldOnce

LEMMA ClaimKeepsGoing ==
  ASSUME GoesOnInv, TypeOK', NEW r \in Runners, ClaimsBatch(r)
  PROVE  GoesOnInv'
<1>0. /\ TypeOK /\ HoldersAtWork /\ JobsAreHeldOnce /\ runner \in [Runners -> RunnerType]
      /\ runner[r] \in RunnerType
  BY RunnerFacts DEF GoesOnInv
<1>1. PICK batch \in SUBSET Queries, now \in runner[r].began..clock :
        /\ batch # {} /\ batch \subseteq Claimable(now)
        /\ Sets(batch, "running", now)
        /\ runner' = [runner EXCEPT ![r].pc = "search", ![r].batch = batch, ![r].todo = batch,
                                    ![r].began = 0, ![r].completed = campaign.completed]
  BY ClaimedBatch
<1>n. now \in Nat
  BY <1>0 DEF RunnerType, TypeOK
<1>2. PICK s \in RunnerType : s = runner[r]
  BY <1>0
<1> DEFINE t == [s EXCEPT !.pc = "search", !.batch = batch, !.todo = batch, !.began = 0,
                          !.completed = campaign.completed]
<1>3. runner' = [runner EXCEPT ![r] = t]
  BY <1>1, <1>2
<1>4. /\ t.pc = "search" /\ t.key = s.key /\ t.batch = batch /\ t.completed = campaign.completed
  BY DEF RunnerType
<1> HIDE DEF t
<1>5. runner'[r] = t /\ \A p \in Runners \ {r} : runner'[p] = runner[p]
  BY <1>0, <1>3
<1>6. HoldersAtWork'
  BY <1>0, <1>1, <1>4, <1>5 DEF HoldersAtWork, InProgress
<1>7. job' = job /\ abandoned' = abandoned /\ campaign.status # "paused" /\ runner[r].pc = "claim"
  BY DEF ClaimsBatch, Admits
<1>8. JobsAreHeldOnce' /\ \A k \in Keys : Going(k) => Going(k)'
  BY <1>0, <1>2, <1>3, <1>4, <1>7, JobIsKept
<1>9. ASSUME ~upset' PROVE Steady'
  <2>1. Steady /\ \A p \in Runners : runner[p].batch = {}
    BY <1>9 DEF ClaimsBatch, GoesOnInv
  <2>2. campaign'.completed = campaign.completed /\ campaign'.status = "open"
    BY <1>0 DEF ClaimsBatch, TypeOK
  <2>3. \A q \in Queries : query'[q].status = IF q \in batch THEN "running" ELSE query[q].status
    BY <1>1 DEF Sets
  <2>4. ~AllDone
    BY <1>0, <1>1, <1>n, <2>1, NothingToDo DEF Steady
  <2>5. BatchesAreAlone'
    <3>1. \A p \in Runners \ {r} : runner'[p].batch = {}
      BY <1>5, <2>1
    <3>2. \A q \in Queries : query'[q].status = "running" => q \in abandoned \/ q \in batch
      BY <2>1, <2>3 DEF Steady, BatchesAreAlone
    <3> QED
      BY <1>1, <1>4, <1>5, <1>7, <2>2, <2>3, <3>1, <3>2 DEF BatchesAreAlone
  <2>6. KeysFollowCount'
    BY <1>7, <2>1, <2>2 DEF Steady, KeysFollowCount
  <2>7. CompletedAreDone'
    <3>1. \A p \in Runners : runner'[p].pc # "count"
      BY <1>4, <1>5, <2>1, <2>4 DEF Steady, CompletedAreDone
    <3> QED
      BY <2>2, <3>1 DEF CompletedAreDone
  <2>8. SomeJobGoes'
    <3>1. ToDo' \ abandoned \subseteq ToDo \ abandoned
      <4> SUFFICES ASSUME NEW q \in ToDo', q \notin abandoned PROVE q \in ToDo
        OBVIOUS
      <4>0. \A p \in Runners : runner'[p].batch \subseteq batch
        BY <1>4, <1>5, <2>1
      <4>1. q \in Queries /\ (q \in batch \/ query'[q].status \in {"queued", "failed"})
        BY <4>0 DEF ToDo, WithStatus
      <4>2. q \in WithStatus({"queued", "failed"}) \/ (q \in batch /\ query[q].status = "running")
        BY <1>1, <2>3, <4>1 DEF Claimable, WithStatus, Reclaimable
      <4> QED
        BY <2>1, <4>1, <4>2 DEF ToDo, Steady, BatchesAreAlone
    <3> QED
      BY <1>7, <1>8, <2>1, <3>1 DEF Steady, SomeJobGoes
  <2>9. CountsAreCurrent'
    <3>1. \A p \in Runners : runner'[p].pc # "record"
      BY <1>0, <1>4, <1>5, <2>1 DEF HoldersAtWork, InProgress
    <3> QED
      BY <3>1 DEF CountsAreCurrent
  <2> QED
    BY <2>5, <2>6, <2>7, <2>8, <2>9 DEF Steady
<1> QED
  BY <1>6, <1>8, <1>9 DEF GoesOnInv

(* A run that settles its batch: while the campaign is not upset it was    *)
(* the only one with a batch, and not everything was completed.            *)
LEMMA SettlingFacts ==
  ASSUME GoesOnInv, NEW r \in Runners, RecordsFailure(r) \/ RecordsCompletion(r)
  PROVE  \E t \in RunnerType :
           /\ runner' = [runner EXCEPT ![r] = t]
           /\ t.key = runner[r].key /\ t.batch = {}
           /\ t.pc = IF RecordsFailure(r) THEN "raised" ELSE "done"
           /\ runner[r].batch # {}
           /\ ~upset => /\ Steady /\ ~AllDone
                        /\ runner[r].completed = campaign.completed
                        /\ \A s \in Runners : s # r => runner[s].batch = {} /\ runner[s].pc # "count"
                        /\ \A q \in runner[r].batch : query[q].status = "running"
<1>0. TypeOK /\ runner[r] \in RunnerType /\ runner[r].batch # {} /\ runner[r].pc \in InProgress
  BY RunnerFacts DEF RecordsFailure, RecordsCompletion, Searched, GoesOnInv, HoldersAtWork, InProgress
<1>1. PICK pc \in {"raised", "done"} :
        /\ runner' = [runner EXCEPT ![r] = [Idle EXCEPT !.pc = pc, !.key = runner[r].key]]
        /\ pc = IF RecordsFailure(r) THEN "raised" ELSE "done"
  <2>1. CASE RecordsFailure(r)
    BY <2>1 DEF RecordsFailure
  <2>2. CASE ~RecordsFailure(r)
    BY <2>2 DEF RecordsCompletion
  <2> QED
    BY <2>1, <2>2
<1>2. PICK t : t = [Idle EXCEPT !.pc = pc, !.key = runner[r].key]
  OBVIOUS
<1>t. t \in RunnerType /\ t.key = runner[r].key /\ t.batch = {} /\ t.pc = pc
  <2>1. PICK k \in {None} \cup Keys : k = runner[r].key
    BY <1>0 DEF RunnerType
  <2>2. PICK i \in RunnerType : i = Idle /\ i.batch = {}
    BY IdleFacts
  <2>3. t = [i EXCEPT !.pc = pc, !.key = k]
    BY <1>2, <2>1, <2>2
  <2>4. t \in RunnerType /\ t.pc = pc /\ t.key = k /\ t.batch = i.batch
    BY <2>3 DEF RunnerType
  <2> QED
    BY <2>1, <2>2, <2>4
<1>3. ASSUME ~upset
      PROVE  /\ Steady /\ ~AllDone
             /\ runner[r].completed = campaign.completed
             /\ \A s \in Runners : s # r => runner[s].batch = {} /\ runner[s].pc # "count"
             /\ \A q \in runner[r].batch : query[q].status = "running"
  <2>1. Steady
    BY <1>3 DEF GoesOnInv
  <2>2. ~AllDone
    BY <1>0, <2>1, NothingToDo DEF Steady
  <2> QED
    BY <1>0, <2>1, <2>2 DEF Steady, BatchesAreAlone, CompletedAreDone
<1> QED
  BY <1>0, <1>1, <1>2, <1>t, <1>3

LEMMA FailureKeepsGoing ==
  ASSUME GoesOnInv, NEW r \in Runners, RecordsFailure(r)
  PROVE  HoldersAtWork' /\ JobsAreHeldOnce' /\ (~upset' => Steady')
<1>0. /\ TypeOK /\ HoldersAtWork /\ JobsAreHeldOnce /\ runner \in [Runners -> RunnerType]
      /\ runner[r] \in RunnerType
  BY RunnerFacts DEF GoesOnInv
<1>1. PICK t \in RunnerType :
        /\ runner' = [runner EXCEPT ![r] = t]
        /\ t.key = runner[r].key /\ t.batch = {} /\ t.pc = "raised"
        /\ ~upset => /\ Steady
                     /\ runner[r].completed = campaign.completed
                     /\ \A s \in Runners : s # r => runner[s].batch = {} /\ runner[s].pc # "count"
  BY SettlingFacts
<1>2. runner'[r] = t /\ \A s \in Runners \ {r} : runner'[s] = runner[s]
  BY <1>0, <1>1
<1>3. HoldersAtWork'
  BY <1>0, <1>1, <1>2 DEF HoldersAtWork, InProgress
<1>4. job' = job /\ abandoned' = abandoned /\ campaign' = [status |-> "open", completed |-> runner[r].completed]
  BY DEF RecordsFailure
<1>5. JobsAreHeldOnce' /\ \A k \in Keys : Going(k) => Going(k)'
  BY <1>0, <1>1, <1>4, JobIsKept
<1>6. ASSUME ~upset' PROVE Steady'
  <2>1. ~upset /\ campaign.status # "paused"
    BY <1>6 DEF RecordsFailure
  <2>2. /\ Steady /\ runner[r].completed = campaign.completed
        /\ \A s \in Runners : s # r => runner[s].batch = {} /\ runner[s].pc # "count"
    BY <1>1, <2>1
  <2>3. \A q \in Queries : query'[q].status = IF q \in runner[r].batch THEN "failed" ELSE query[q].status
    BY DEF RecordsFailure, Sets
  <2>4. \A s \in Runners : runner'[s].batch = {} /\ runner'[s].pc # "count"
    BY <1>1, <1>2, <2>2
  <2>5. BatchesAreAlone'
    BY <1>4, <2>2, <2>3, <2>4 DEF Steady, BatchesAreAlone
  <2>6. KeysFollowCount'
    BY <1>4, <2>2 DEF Steady, KeysFollowCount
  <2>7. CompletedAreDone'
    BY <1>4, <2>4 DEF CompletedAreDone
  <2>8. SomeJobGoes'
    <3>1. ToDo' \subseteq ToDo
      BY <2>3, <2>4 DEF ToDo, WithStatus
    <3> QED
      BY <1>4, <1>5, <2>1, <2>2, <3>1 DEF Steady, SomeJobGoes
  <2>9. CountsAreCurrent'
    <3>1. \A s \in Runners : runner'[s].pc # "record"
      BY <1>3, <2>4 DEF HoldersAtWork, InProgress
    <3> QED
      BY <3>1 DEF CountsAreCurrent
  <2> QED
    BY <2>5, <2>6, <2>7, <2>8, <2>9 DEF Steady
<1> QED
  BY <1>3, <1>5, <1>6

LEMMA CompletionKeepsGoing ==
  ASSUME GoesOnInv, NEW r \in Runners, RecordsCompletion(r)
  PROVE  HoldersAtWork' /\ JobsAreHeldOnce' /\ (~upset' => Steady')
<1>0. /\ TypeOK /\ HoldersAtWork /\ JobsAreHeldOnce /\ runner \in [Runners -> RunnerType]
      /\ runner[r] \in RunnerType
  BY RunnerFacts DEF GoesOnInv
<1>1. PICK t \in RunnerType :
        /\ runner' = [runner EXCEPT ![r] = t]
        /\ t.key = runner[r].key /\ t.batch = {} /\ t.pc \in {"raised", "done"}
        /\ runner[r].batch # {}
        /\ ~upset => /\ Steady
                     /\ runner[r].completed = campaign.completed
                     /\ \A s \in Runners : s # r => runner[s].batch = {} /\ runner[s].pc # "count"
  BY SettlingFacts
<1>2. runner'[r] = t /\ \A s \in Runners \ {r} : runner'[s] = runner[s]
  BY <1>0, <1>1
<1>3. HoldersAtWork'
  BY <1>0, <1>1, <1>2 DEF HoldersAtWork, InProgress
<1>4. PICK n \in Nat : n = Cardinality(runner[r].batch) /\ n > 0
  <2>1. runner[r].batch \subseteq Queries /\ IsFiniteSet(runner[r].batch)
    BY <1>0, CampaignAssumption, FS_Subset DEF RunnerType
  <2> QED
    BY <1>1, <2>1, FS_CardinalityType, FS_EmptySet
<1>5. PICK m \in Nat : m = runner[r].completed + n /\ m < MaxKey
  BY <1>0, <1>4, MaxKeyType DEF RecordsCompletion, RunnerType
<1>6. /\ campaign' = [status |-> IF runner[r].pending THEN "open" ELSE "completed", completed |-> m]
      /\ IF runner[r].claimable THEN Enqueue(BatchKey(m)) ELSE job' = job
      /\ runner[r].pc = "record" /\ upset' = upset /\ abandoned' = abandoned
  BY <1>4, <1>5 DEF RecordsCompletion, NextBatch, history
<1>7. JobsAreHeldOnce'
  <2>1. \A s \in Runners : runner'[s].key # None => runner'[s].key = runner[s].key
    BY <1>1, <1>2
  <2> QED
    BY <1>0, <1>6, <2>1, PlanKeepsJobs
<1>8. ASSUME ~upset' PROVE Steady'
  <2>1. /\ Steady /\ runner[r].completed = campaign.completed
        /\ \A s \in Runners : s # r => runner[s].batch = {} /\ runner[s].pc # "count"
    BY <1>1, <1>6, <1>8
  <2>2. \A q \in Queries : query'[q].status = IF q \in runner[r].batch THEN "completed" ELSE query[q].status
    BY DEF RecordsCompletion, Sets
  <2>3. \A s \in Runners : runner'[s].batch = {} /\ runner'[s].pc # "count"
    BY <1>1, <1>2, <2>1
  <2>4. BatchesAreAlone'
    BY <1>6, <2>1, <2>2, <2>3 DEF Steady, BatchesAreAlone
  <2>5. \A k \in Keys : job[k].state # "absent" => k < BatchKey(m)
    <3>1. PICK c \in Nat : c = campaign.completed
      BY <1>0, MaxKeyType DEF TypeOK
    <3>2. \A k \in Keys : job[k].state # "absent" => k <= c + 1
      BY <2>1, <3>1 DEF Steady, KeysFollowCount, BatchKey
    <3>3. m = c + n
      BY <1>5, <2>1, <3>1
    <3> QED
      BY <1>4, <3>2, <3>3, KeysAreNumbers DEF BatchKey
  <2>6. \A k \in Keys : job'[k].state # "absent" => k = BatchKey(m) \/ job[k].state # "absent"
    BY <1>0, <1>6, EnqueueFacts
  <2>7. KeysFollowCount'
    <3>1. campaign'.completed = m /\ MaxKey' = MaxKey /\ Keys' = Keys
      BY <1>6
    <3>2. \A k \in Keys : job'[k].state # "absent" => k <= BatchKey(m)
      BY <1>5, <2>5, <2>6, KeysAreNumbers DEF BatchKey
    <3> QED
      BY <1>5, <3>1, <3>2 DEF KeysFollowCount, BatchKey
  <2>0. Counted(runner[r])
    BY <1>6, <2>1 DEF Steady, CountsAreCurrent
  <2>8. CompletedAreDone'
    <3>1. ~runner[r].pending => AllDone'
      BY <2>0, <2>2 DEF AllDone, WithStatus, Counted
    <3>2. campaign'.status = "completed" => ~runner[r].pending
      BY <1>6
    <3> QED
      BY <2>3, <3>1, <3>2 DEF CompletedAreDone
  <2>9. SomeJobGoes'
    <3>1. ~runner[r].claimable => ToDo' = {}
      BY <2>0, <2>2, <2>3 DEF ToDo, WithStatus, Counted
    <3>2. BatchKey(m) \in Keys
      BY <1>5, MaxKeyType DEF BatchKey, Keys
    <3>3. runner[r].claimable => job'[BatchKey(m)].state = "queued"
      <4>1. ~ (BatchKey(m) < BatchKey(m))
        BY <1>5 DEF BatchKey
      <4> QED
        BY <1>0, <1>6, <2>5, <3>2, <4>1, EnqueueFacts
    <3> QED
      BY <3>1, <3>2, <3>3 DEF SomeJobGoes, Going
  <2>10. CountsAreCurrent'
    <3>1. \A s \in Runners : runner'[s].pc # "record"
      BY <1>3, <2>3 DEF HoldersAtWork, InProgress
    <3> QED
      BY <3>1 DEF CountsAreCurrent
  <2> QED
    BY <2>4, <2>7, <2>8, <2>9, <2>10 DEF Steady
<1> QED
  BY <1>3, <1>7, <1>8

LEMMA DeathKeepsGoing ==
  ASSUME GoesOnInv, NEW r \in Runners, Dies(r)
  PROVE  HoldersAtWork' /\ JobsAreHeldOnce' /\ (~upset' => Steady')
<1>0. /\ TypeOK /\ HoldersAtWork /\ JobsAreHeldOnce /\ runner \in [Runners -> RunnerType]
  BY RunnerFacts DEF GoesOnInv
<1>1. /\ runner' = [runner EXCEPT ![r] = Idle] /\ abandoned' = abandoned \cup runner[r].batch
      /\ UNCHANGED <<campaign, query, job, upset>>
  BY DEF Dies
<1>2. runner'[r] = Idle /\ \A s \in Runners \ {r} : runner'[s] = runner[s]
  BY <1>0, <1>1
<1>3. HoldersAtWork'
  BY <1>0, <1>2, IdleFacts DEF HoldersAtWork
<1>4. JobsAreHeldOnce' /\ \A k \in Keys : Going(k) => Going(k)'
  BY <1>0, <1>1, IdleFacts, JobIsKept
<1>5. ASSUME ~upset' PROVE Steady'
  <2>1. Steady
    BY <1>1, <1>5 DEF GoesOnInv
  <2>2. \A s \in Runners : /\ runner'[s].batch = IF s = r THEN {} ELSE runner[s].batch
                           /\ runner'[s].batch # {} => runner'[s].completed = runner[s].completed
                           /\ runner'[s].pc = "count" => runner[s].pc = "count"
    BY <1>2, IdleFacts
  <2>3. BatchesAreAlone'
    <3>1. \A q \in Queries : query'[q].status = "running" =>
            q \in abandoned' \/ \E s \in Runners : q \in runner'[s].batch
      <4> SUFFICES ASSUME NEW q \in Queries, query[q].status = "running", q \notin abandoned'
                   PROVE  \E s \in Runners : q \in runner'[s].batch
        BY <1>1
      <4>1. PICK s \in Runners : q \in runner[s].batch
        BY <1>1, <2>1 DEF Steady, BatchesAreAlone
      <4> QED
        BY <1>1, <2>2, <4>1
    <3>2. \A p, s \in Runners : p # s => runner'[p].batch = {} \/ runner'[s].batch = {}
      BY <2>1, <2>2 DEF Steady, BatchesAreAlone
    <3>3. \A s \in Runners : /\ runner'[s].batch # {} => runner'[s].completed = campaign'.completed
                             /\ \A q \in runner'[s].batch : query'[q].status = "running"
      BY <1>1, <2>1, <2>2 DEF Steady, BatchesAreAlone
    <3> QED
      BY <3>1, <3>2, <3>3 DEF BatchesAreAlone
  <2>4. KeysFollowCount' /\ CompletedAreDone'
    BY <1>1, <2>1, <2>2 DEF Steady, KeysFollowCount, CompletedAreDone, AllDone
  <2>5. SomeJobGoes'
    <3>1. ToDo' \subseteq ToDo
      BY <1>1, <2>2 DEF ToDo, WithStatus
    <3> QED
      BY <1>1, <1>4, <2>1, <3>1 DEF Steady, SomeJobGoes
  <2>6. CountsAreCurrent'
    <3>1. \A s \in Runners : runner'[s].pc = "record" => Counted(runner[s]) /\ runner'[s] = runner[s]
      BY <1>2, <2>1, IdleFacts DEF Steady, CountsAreCurrent, InProgress
    <3> QED
      BY <1>1, <3>1 DEF CountsAreCurrent, Counted, WithStatus
  <2> QED
    BY <2>3, <2>4, <2>5, <2>6 DEF Steady
<1> QED
  BY <1>3, <1>4, <1>5

(* The steps of no run.                                                    *)
LEMMA OthersKeepGoing ==
  ASSUME GoesOnInv, UNCHANGED vars \/ Pauses \/ Resumes \/ Tick \/ \E k \in Keys : GivesUpJob(k)
  PROVE  HoldersAtWork' /\ JobsAreHeldOnce' /\ (~upset' => Steady')
<1>0. TypeOK /\ HoldersAtWork /\ JobsAreHeldOnce
  BY DEF GoesOnInv
<1>1. UNCHANGED <<query, runner, abandoned>> /\ campaign'.completed = campaign.completed /\ (upset => upset')
  <2>1. UNCHANGED <<query, runner, abandoned>>
    BY DEF Pauses, Resumes, Tick, GivesUpJob, vars, bounds, history
  <2>2. campaign'.completed = campaign.completed
    BY <1>0 DEF Pauses, Resumes, Tick, GivesUpJob, vars, TypeOK
  <2>3. CASE Resumes
    <3>1. upset => upset'
      BY <2>3, Zenon DEF Resumes
    <3> QED
      BY <2>1, <2>2, <3>1
  <2>4. CASE ~Resumes
    <3>1. upset' = upset
      BY <2>4 DEF Pauses, Tick, GivesUpJob, vars, history
    <3> QED
      BY <2>1, <2>2, <3>1
  <2> QED
    BY <2>3, <2>4
<1>2. HoldersAtWork'
  BY <1>0, <1>1 DEF HoldersAtWork
<1>3. ToDo' = ToDo /\ (AllDone' <=> AllDone)
  BY <1>1 DEF ToDo, WithStatus, AllDone
<1>4. ~upset' => Steady /\ BatchesAreAlone' /\ CountsAreCurrent'
  BY <1>1 DEF GoesOnInv, Steady, BatchesAreAlone, CountsAreCurrent, Counted, WithStatus
<1>5. CASE UNCHANGED vars \/ Pauses \/ Tick
  <2>1. job' = job /\ (campaign' = campaign \/ campaign'.status = "paused")
    BY <1>0, <1>5 DEF Pauses, Tick, vars, TypeOK
  <2>2. JobsAreHeldOnce'
    BY <1>0, <1>1, <2>1 DEF JobsAreHeldOnce
  <2>3. ~upset' => KeysFollowCount' /\ CompletedAreDone' /\ SomeJobGoes'
    BY <1>1, <1>3, <1>4, <2>1 DEF Steady, KeysFollowCount, CompletedAreDone, SomeJobGoes, Going
  <2> QED
    BY <1>2, <1>4, <2>2, <2>3 DEF Steady
<1>6. CASE Resumes
  <2>1. PICK c \in Nat : c = campaign.completed
    BY <1>0, MaxKeyType DEF TypeOK
  <2>2. Enqueue(BatchKey(c)) /\ campaign'.status = "open"
    BY <1>0, <1>6, <2>1 DEF Resumes, TypeOK
  <2>3. JobsAreHeldOnce'
    BY <1>0, <1>1, <2>2, PlanKeepsJobs
  <2>4. ASSUME ~upset' PROVE KeysFollowCount' /\ CompletedAreDone' /\ SomeJobGoes'
    <3>1. Steady /\ c < MaxKey /\ job[BatchKey(c)].state = "absent"
      BY <1>4, <1>6, <2>1, <2>4 DEF Resumes, Steady, KeysFollowCount
    <3>2. BatchKey(c) \in Keys
      BY <2>1, <3>1, MaxKeyType DEF BatchKey, Keys
    <3>3. \A k \in Keys : job'[k].state = IF k = BatchKey(c) THEN "queued" ELSE job[k].state
      BY <1>0, <2>2, <3>1, EnqueueFacts
    <3>4. \A k \in Keys : job'[k].state # "absent" => k <= BatchKey(c)
      BY <2>1, <3>1, <3>3 DEF Steady, KeysFollowCount, BatchKey
    <3>5. KeysFollowCount'
      BY <1>1, <2>1, <3>1, <3>4 DEF KeysFollowCount, BatchKey
    <3>6. CompletedAreDone'
      BY <1>1, <1>3, <2>2, <3>1 DEF Steady, CompletedAreDone
    <3>7. SomeJobGoes'
      BY <3>2, <3>3 DEF SomeJobGoes, Going
    <3> QED
      BY <3>5, <3>6, <3>7
  <2> QED
    BY <1>2, <1>4, <2>3, <2>4 DEF Steady
<1>7. ASSUME NEW k \in Keys, GivesUpJob(k) PROVE HoldersAtWork' /\ JobsAreHeldOnce' /\ (~upset' => Steady')
  <2>1. /\ \A j \in Keys : job'[j].state = IF j = k THEN "failed" ELSE job[j].state
        /\ campaign' = campaign /\ job[k].state = "running" /\ \A r \in Runners : runner[r].key # k
    BY <1>0, <1>7 DEF GivesUpJob, Lost, TypeOK
  <2>2. JobsAreHeldOnce'
    <3> SUFFICES ASSUME NEW r \in Runners, runner[r].key # None PROVE job'[runner[r].key].state = "running"
      BY <1>0, <1>1 DEF JobsAreHeldOnce
    <3>1. runner[r].key \in Keys /\ job[runner[r].key].state = "running"
      BY <1>0, RunnerFacts DEF JobsAreHeldOnce
    <3> QED
      BY <2>1, <3>1
  <2>3. \A j \in Keys : Going(j) => Going(j)'
    BY <1>1, <2>1 DEF Going
  <2>4. ~upset' => KeysFollowCount' /\ CompletedAreDone' /\ SomeJobGoes'
    BY <1>1, <1>3, <1>4, <2>1, <2>3 DEF Steady, KeysFollowCount, CompletedAreDone, SomeJobGoes
  <2> QED
    BY <1>2, <1>4, <2>2, <2>4 DEF Steady
<1> QED
  BY <1>5, <1>6, <1>7

(* Whatever dies, fails, is paused, reclaimed or run twice: a campaign     *)
(* with queries to run has a job that is going to run them or that was     *)
(* given up, or one of the ways CampaignGoesOn names has upset it.  The    *)
(* job is the one whose run has the batch, until that run plans the next   *)
(* one, under a key that is free because the count has grown               *)
(* (run_campaign, enqueue_campaign_plan).                                  *)
THEOREM CampaignAlwaysGoesOn == Spec => []CampaignGoesOn
<1>1. Init => GoesOnInv
  <2> SUFFICES ASSUME Init PROVE HoldersAtWork /\ JobsAreHeldOnce /\ Steady
    BY InitType DEF GoesOnInv
  <2>1. /\ \A r \in Runners : runner[r] = Idle
        /\ \A q \in Queries : query[q].status = "queued"
        /\ \A k \in Keys : job[k].state = IF k = PlanKey THEN "queued" ELSE "absent"
        /\ campaign.status = "open" /\ campaign.completed = 0
    BY DEF Init
  <2>2. HoldersAtWork /\ JobsAreHeldOnce
    BY <2>1, IdleFacts DEF HoldersAtWork, JobsAreHeldOnce
  <2>3. BatchesAreAlone
    BY <2>1, IdleFacts DEF BatchesAreAlone
  <2>4. 0 < MaxKey
    <3>1. Cardinality(Queries) \in Nat /\ Cardinality(Queries) # 0
      BY CampaignAssumption, FS_CardinalityType, FS_EmptySet
    <3> QED
      BY <3>1, ConstantsType DEF MaxKey
  <2>5. KeysFollowCount
    BY <2>1, <2>4 DEF KeysFollowCount, PlanKey, BatchKey
  <2>6. CompletedAreDone
    BY <2>1, IdleFacts DEF CompletedAreDone, Idle
  <2>7. SomeJobGoes
    <3>1. PlanKey \in Keys
      BY MaxKeyType DEF PlanKey, Keys
    <3> QED
      BY <2>1, <3>1 DEF SomeJobGoes, Going
  <2>8. CountsAreCurrent
    BY <2>1, IdleFacts DEF CountsAreCurrent
  <2> QED
    BY <2>2, <2>3, <2>5, <2>6, <2>7, <2>8 DEF Steady
<1>2. GoesOnInv /\ [Next]_vars => GoesOnInv'
  <2> SUFFICES ASSUME GoesOnInv, [Next]_vars PROVE GoesOnInv'
    OBVIOUS
  <2>1. TypeOK'
    BY NextType DEF GoesOnInv
  <2>2. ASSUME NEW r \in Runners,
               \/ \E k \in Keys : StartsJob(r, k)
               \/ OperatorRuns(r) \/ CountsQueries(r) \/ EndsJob(r)
               \/ ClaimsBatch(r) \/ FindsNoBatch(r) \/ BeginsReservation(r) \/ Reserves(r)
               \/ Answers(r)
               \/ RecordsFailure(r) \/ CountsRest(r) \/ RecordsCompletion(r) \/ Dies(r)
        PROVE  GoesOnInv'
    <3>1. CASE RecordsFailure(r) \/ RecordsCompletion(r) \/ Dies(r)
      BY <2>1, <3>1, FailureKeepsGoing, CompletionKeepsGoing, DeathKeepsGoing DEF GoesOnInv
    <3>2. CASE \E k \in Keys : StartsJob(r, k)
      BY <2>1, <3>2, StartKeepsGoing
    <3> QED
      BY <2>1, <2>2, <3>1, <3>2, EndKeepsGoing, ClaimKeepsGoing, SearchKeepsGoing,
         CountKeepsGoing
  <2>3. CASE UNCHANGED vars \/ Pauses \/ Resumes \/ Tick \/ \E k \in Keys : GivesUpJob(k)
    BY <2>1, <2>3, OthersKeepGoing DEF GoesOnInv
  <2> QED
    BY <2>2, <2>3 DEF Next
<1>3. GoesOnInv => CampaignGoesOn
  <2> SUFFICES ASSUME GoesOnInv, ~upset, campaign.status # "paused",
                      WithStatus({"queued", "failed"}) \ abandoned # {}
               PROVE  \E k \in Keys : Pending(k) \/ job[k].state = "failed"
    BY DEF CampaignGoesOn
  <2>1. PICK k \in Keys : Going(k)
    BY DEF GoesOnInv, Steady, SomeJobGoes, ToDo
  <2> QED
    BY <2>1 DEF Going, Pending
<1> QED
  BY <1>1, <1>2, <1>3, PTL DEF Spec

-----------------------------------------------------------------------------
(* The budget                                                              *)

Window(t) == {q \in Charges(Queries) : charged[q] \in t..(t + Day)}

(* A set below its limit, with one element more, keeps to it.              *)
LEMMA OneMoreFits ==
  ASSUME NEW S, NEW x, NEW T, IsFiniteSet(S), T \subseteq S \cup {x},
         NEW limit \in Nat, Cardinality(S) < limit
  PROVE  Cardinality(T) <= limit
<1>1. Cardinality(S) \in Nat
  BY FS_CardinalityType
<1>2. /\ IsFiniteSet(S \cup {x})
      /\ Cardinality(S \cup {x}) = IF x \in S THEN Cardinality(S) ELSE Cardinality(S) + 1
  BY FS_AddElement
<1>3. Cardinality(T) <= Cardinality(S \cup {x}) /\ IsFiniteSet(T)
  BY <1>2, FS_Subset
<1>4. Cardinality(T) \in Nat
  BY <1>3, FS_CardinalityType
<1> QED
  BY <1>1, <1>2, <1>3, <1>4

LEMMA ReservationKeepsBudget ==
  ASSUME TypeOK, BudgetHolds, NEW r \in Runners, Reserves(r)
  PROVE  BudgetHolds'
<1> DEFINE q == First(runner[r].todo)
           b == runner[r].began
<1>1. CASE UNCHANGED charged
  BY <1>1 DEF BudgetHolds, Charges
<1>2. CASE charged # charged'
  <2>1. /\ charged' = [charged EXCEPT ![q] = b]
        /\ Cardinality(Recent(b)) < DailyLimit
        /\ Cardinality(Charges(Queries)) < CampaignLimit
    BY <1>2 DEF Reserves
  <2>2. b \in 0..MaxClock /\ charged \in [Queries -> {None} \cup 0..MaxClock]
    BY DEF TypeOK
  <2> HIDE DEF q, b
  <2>3. /\ IsFiniteSet(Charges(Queries)) /\ IsFiniteSet(Recent(b))
    <3>1. Charges(Queries) \subseteq Queries /\ Recent(b) \subseteq Queries
      BY DEF Charges, Recent
    <3> QED
      BY <3>1, CampaignAssumption, FS_Subset
  <2>4. Cardinality(Charges(Queries)') <= CampaignLimit
    <3>1. Charges(Queries)' \subseteq Charges(Queries) \cup {q}
      BY <2>1, <2>2 DEF Charges
    <3> QED
      BY <2>1, <2>3, <3>1, OneMoreFits, ConstantsType
  <2>5. ASSUME NEW t \in 0..MaxClock PROVE Cardinality(Window(t)') <= DailyLimit
    <3>1. CASE b \in t..(t + Day)
      <4>1. Window(t)' \subseteq Recent(b) \cup {q}
        BY <2>1, <2>2, <3>1, ConstantsType, CampaignAssumption DEF Window, Recent, Charges
      <4> QED
        BY <2>1, <2>3, <4>1, OneMoreFits, ConstantsType
    <3>2. CASE b \notin t..(t + Day)
      <4>1. Window(t)' \subseteq Window(t)
        BY <2>1, <2>2, <3>2 DEF Window, Charges
      <4>2. IsFiniteSet(Window(t)) /\ Cardinality(Window(t)) \in Nat
        BY CampaignAssumption, FS_Subset, FS_CardinalityType DEF Window, Charges
      <4>3. Cardinality(Window(t)') <= Cardinality(Window(t)) /\ Cardinality(Window(t)') \in Nat
        BY <4>1, <4>2, FS_Subset, FS_CardinalityType
      <4>4. Cardinality(Window(t)) <= DailyLimit
        BY DEF BudgetHolds, Window
      <4> QED
        BY <4>2, <4>3, <4>4, ConstantsType
    <3> QED
      BY <3>1, <3>2
  <2> QED
    BY <2>4, <2>5 DEF BudgetHolds, Window
<1> QED
  BY <1>1, <1>2

(* The limits of the paid backend hold for any number of runs that reserve *)
(* at once: each counts the window its own charge will lie in.             *)
THEOREM BudgetAlwaysHolds == Spec => []BudgetHolds
<1>1. Init => TypeOK /\ BudgetHolds
  <2> SUFFICES ASSUME Init PROVE BudgetHolds
    BY InitType
  <2>1. Charges(Queries) = {}
    BY DEF Init, Charges
  <2>2. \A t \in 0..MaxClock : {q \in Charges(Queries) : charged[q] \in t..(t + Day)} = {}
    BY <2>1
  <2> QED
    BY <2>1, <2>2, FS_EmptySet, ConstantsType DEF BudgetHolds
<1>2. TypeOK /\ BudgetHolds /\ [Next]_vars => (TypeOK /\ BudgetHolds)'
  <2> SUFFICES ASSUME TypeOK, BudgetHolds, [Next]_vars PROVE BudgetHolds'
    BY NextType
  <2>1. CASE UNCHANGED charged
    BY <2>1 DEF BudgetHolds, Charges
  <2>2. CASE charged' # charged
    <3>1. PICK r \in Runners : Reserves(r)
      BY <2>2 DEF Next, vars, bounds, history, Pauses, Resumes, Tick, GivesUpJob, StartsJob, OperatorRuns,
           CountsQueries, EndsJob, ClaimsBatch, FindsNoBatch, BeginsReservation, Answers,
           RecordsFailure, CountsRest, RecordsCompletion, Dies
    <3> QED
      BY <3>1, ReservationKeepsBudget
  <2> QED
    BY <2>1, <2>2
<1> QED
  BY <1>1, <1>2, PTL DEF Spec
=============================================================================
