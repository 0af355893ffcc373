------------------------------ MODULE Delivery ------------------------------
(***************************************************************************)
(* Personalized deliveries: PersonalizedDeliveryService and                *)
(* PersonalizedDeliveryJobProcessor (freelancer_bot/delivery.py) over      *)
(* PersonalizedDeliveryRepository (freelancer_bot/persistence/deliveries)  *)
(* and the durable workers.  The delivery row and its job are created      *)
(* under one logical identity (opportunity, profile, revision, renderer),  *)
(* so one element of Jobs names both.                                      *)
(*                                                                         *)
(* The processor is the handler of DurableWorker: its steps are its two    *)
(* transactions and the Telegram call between them, and any number of      *)
(* steps of other processes may come in between.  The buttons of a card    *)
(* that is out are pressed meanwhile (delivery_actions.py), as often as    *)
(* the user likes, and what is more than an opening is feedback on the     *)
(* source (persistence/feedback.py).                                       *)
(***************************************************************************)
EXTENDS DurableWorker, FiniteSets

CONSTANTS
  Obstacles,     \* why a delivery may be suppressed (the codes of _suppression_code)
  Scheduling,    \* those that schedule_trace checks too
  Passing,       \* those that can go away again
  Actions        \* the buttons of a card (DeliveryActionType)

ASSUME DeliveryAssumption == Scheduling \subseteq Obstacles /\ Passing \subseteq Obstacles

VARIABLES
  delivery,     \* status and attempt_count of each row; "absent" before ensure
  obstacles,    \* what speaks against each delivery now (profile, user, opportunity, trace)
  step,         \* where the handler of each process is: "prepare", "send", "confirm", "reject"
  deliveredBy,  \* history: the attempts whose message reached Telegram
  acted,        \* the action events of each delivery, one of a kind
  feedback      \* the feedback counted for the source of each delivery

actionVars == <<acted, feedback>>
deliveryVars == <<delivery, obstacles, step, deliveredBy, acted, feedback>>
allVars == <<vars, deliveryVars>>

SettledStatus == {"sent", "failed", "suppressed"}
DeliveryStatus == {"absent", "queued", "sending"} \cup SettledStatus
Steps == {"none", "prepare", "send", "confirm", "reject"}

DeliveryInit ==
  /\ Init
  /\ delivery = [j \in Jobs |-> [status |-> "absent", attempts |-> 0]]
  /\ obstacles = [j \in Jobs |-> {}]
  /\ step = [p \in Workers |-> "none"]
  /\ deliveredBy = [j \in Jobs |-> {}]
  /\ acted = [j \in Jobs |-> {}]
  /\ feedback = [j \in Jobs |-> 0]

(* A claim starts the processor; the end of the handler task, however it ends, ends it. *)
FollowHandlers ==
  step' = [p \in Workers |-> IF handler'[p] # "running" THEN "none"
                             ELSE IF handler[p] # "running" THEN "prepare" ELSE step[p]]

-----------------------------------------------------------------------------
(* ensure, under the advisory lock of the logical identity: an existing row is reused
   whatever its status. *)
EnsureDelivery(j) ==
  /\ Enqueue(j)
  /\ delivery' = [delivery EXCEPT ![j].status = IF @ = "absent" THEN "queued" ELSE @]

(* schedule_trace, in one transaction; with an obstacle it raises and nothing is written
   (schedule_run then notes the failure and goes on). *)
Schedule(j) ==
  /\ obstacles[j] \cap Scheduling = {}
  /\ EnsureDelivery(j)
  /\ UNCHANGED <<obstacles, step, deliveredBy, actionVars>>

(* Subscriptions end, profiles change, opportunities are closed or seen again. *)
ObstacleAppears(j) ==
  /\ \E o \in Obstacles \ obstacles[j] : obstacles' = [obstacles EXCEPT ![j] = @ \cup {o}]
  /\ UNCHANGED <<vars, delivery, step, deliveredBy, actionVars>>

ObstacleGoes(j) ==
  /\ \E o \in obstacles[j] \cap Passing : obstacles' = [obstacles EXCEPT ![j] = @ \ {o}]
  /\ UNCHANGED <<vars, delivery, step, deliveredBy, actionVars>>

(* Fault: whatever attempt took the row, a row in "sending" is left to it. *)
NothingToSendIfTaken(row, c) == row.status \in SettledStatus \cup {"sending"}

(* prepare_attempt returns None at once: settled, or taken by an attempt as late as this. *)
NothingToSend(row, c) ==
  \/ row.status \in SettledStatus
  \/ row.status = "sending" /\ row.attempts >= c.attempt

PreparesNothing(p) ==
  /\ step[p] = "prepare" /\ NothingToSend(delivery[claim[p].job], claim[p])
  /\ HandlerReturns(p)
  /\ FollowHandlers
  /\ UNCHANGED <<delivery, obstacles, deliveredBy, actionVars>>

Suppresses(p) ==
  LET j == claim[p].job IN
  /\ step[p] = "prepare" /\ ~NothingToSend(delivery[j], claim[p])
  /\ obstacles[j] # {}
  /\ delivery' = [delivery EXCEPT ![j] = [status |-> "suppressed", attempts |-> claim[p].attempt]]
  /\ HandlerReturns(p)
  /\ FollowHandlers
  /\ UNCHANGED <<obstacles, deliveredBy, actionVars>>

(* The row is taken for this attempt; the lease of the job is not looked at. *)
PreparesAttempt(p) ==
  LET j == claim[p].job IN
  /\ step[p] = "prepare" /\ ~NothingToSend(delivery[j], claim[p])
  /\ obstacles[j] = {}
  /\ delivery' = [delivery EXCEPT ![j] = [status |-> "sending", attempts |-> claim[p].attempt]]
  /\ step' = [step EXCEPT ![p] = "send"]
  /\ UNCHANGED <<vars, obstacles, deliveredBy, actionVars>>

(* The call to Telegram: it succeeds, it fails, or it fails after the message went out. *)
Sends(p) ==
  /\ step[p] = "send"
  /\ \E delivered, raised \in BOOLEAN :
       /\ delivered \/ raised
       /\ step' = [step EXCEPT ![p] = IF raised THEN "reject" ELSE "confirm"]
       /\ deliveredBy' = [deliveredBy EXCEPT ![claim[p].job] =
                            IF delivered THEN @ \cup {claim[p].attempt} ELSE @]
  /\ UNCHANGED <<vars, delivery, obstacles, actionVars>>

(* Fault: attempt_count is not compared. *)
OwnsRowOfAnyAttempt(c) == delivery[c.job].status = "sending"

(* The WHERE clause of mark_sent and mark_attempt_failed. *)
OwnsRow(c) ==
  delivery[c.job].status = "sending" /\ delivery[c.job].attempts = c.attempt

SetStatus(j, status) == delivery' = [delivery EXCEPT ![j].status = status]

(* mark_sent, or the row of an attempt that was confirmed by somebody else *)
ConfirmsSent(p) ==
  LET c == claim[p] IN
  /\ step[p] = "confirm"
  /\ \/ OwnsRow(c) /\ SetStatus(c.job, "sent")
     \/ delivery[c.job].status = "sent" /\ UNCHANGED delivery
  /\ HandlerReturns(p)
  /\ FollowHandlers
  /\ UNCHANGED <<obstacles, deliveredBy, actionVars>>

(* mark_attempt_failed, after which DeliverySendError is raised: no `retryable' on it. *)
RejectsAttempt(p) ==
  LET c == claim[p] IN
  /\ step[p] = "reject" /\ OwnsRow(c)
  /\ SetStatus(c.job, IF LastAttempt(c) THEN "failed" ELSE "queued")
  /\ HandlerRaises(p) /\ handler'[p] = "error"
  /\ FollowHandlers
  /\ UNCHANGED <<obstacles, deliveredBy, actionVars>>

(* DeliveryPersistenceConflict: the row is not this attempt's any more. *)
LosesOwnership(p) ==
  LET c == claim[p] IN
  /\ step[p] \in {"confirm", "reject"} /\ ~OwnsRow(c)
  /\ step[p] = "confirm" => delivery[c.job].status # "sent"
  /\ HandlerRaises(p) /\ handler'[p] = "error"
  /\ FollowHandlers
  /\ UNCHANGED <<delivery, obstacles, deliveredBy, actionVars>>

(* One of the transactions of the processor raises and is rolled back. *)
TransactionRaises(p) ==
  /\ step[p] \in {"prepare", "confirm", "reject"}
  /\ HandlerRaises(p) /\ handler'[p] # "fatal"
  /\ FollowHandlers
  /\ UNCHANGED <<delivery, obstacles, deliveredBy, actionVars>>

(* The feedback of an event: one of each, none of an opening, and only what inserts it
   counts it for the source. *)
CountFeedback(j, a) ==
  feedback' = [feedback EXCEPT ![j] = IF a \in acted[j] \cup {"open"} THEN @ ELSE @ + 1]

(* A button of a card that is out, in one transaction: refused until the delivery is
   marked sent, and for good when it never is.  There is one event of each kind. *)
RecordAction(j) ==
  /\ deliveredBy[j] # {} /\ delivery[j].status = "sent"
  /\ \E a \in Actions :
       /\ acted' = [acted EXCEPT ![j] = @ \cup {a}]
       /\ CountFeedback(j, a)
  /\ UNCHANGED <<vars, delivery, obstacles, step, deliveredBy>>

ProcessorStep(p) ==
  \/ PreparesNothing(p) \/ Suppresses(p) \/ PreparesAttempt(p) \/ Sends(p)
  \/ ConfirmsSent(p) \/ RejectsAttempt(p) \/ LosesOwnership(p) \/ TransactionRaises(p)

DeliveryNext ==
  \/ \E j \in Jobs : \/ Schedule(j) \/ ObstacleAppears(j) \/ ObstacleGoes(j)
                     \/ RecordAction(j)
  \/ \E p \in Workers : ProcessorStep(p)
  \/ \E p \in Workers : LoopStep(p) /\ FollowHandlers
                         /\ UNCHANGED <<delivery, obstacles, deliveredBy, actionVars>>
  \/ Tick /\ UNCHANGED deliveryVars

DeliverySpec == DeliveryInit /\ [][DeliveryNext]_allVars

-----------------------------------------------------------------------------
(* The rows of the action events and of the feedback they give. *)
ActionEvents(j) == acted[j]
FeedbackEvents(j) == acted[j] \ {"open"}

DeliveryTypeOK ==
  /\ TypeOK
  /\ delivery \in [Jobs -> [status : DeliveryStatus, attempts : Nat]]
  /\ \A j \in Jobs : /\ delivery[j].attempts <= MaxAttempts[j]
                     /\ delivery[j].status = "absent" <=> job[j].state = "absent"
                     /\ deliveredBy[j] \subseteq 1..MaxAttempts[j]
  /\ obstacles \in [Jobs -> SUBSET Obstacles]
  /\ step \in [Workers -> Steps]
  /\ \A p \in Workers : step[p] # "none" <=> handler[p] = "running"
  /\ deliveredBy \in [Jobs -> SUBSET Nat]
  /\ acted \in [Jobs -> SUBSET Actions]
  /\ feedback \in [Jobs -> Nat]

-----------------------------------------------------------------------------
(* A job is completed only when its delivery is settled: no message is left behind in
   "queued" or "sending" by a worker that reported success, however stale the others. *)
CompletedJobSettledDelivery ==
  \A j \in Jobs : job[j].state = "completed" => delivery[j].status \in SettledStatus

(* The attempt a sent row names is one whose message went out: a stale worker cannot
   confirm its own message as that of its successor.  And a row is not taken back once its
   user has acted on the card, nor is an action counted twice: what feeds the quality of a
   source is one feedback for each delivery that was sent and each kind of action. *)
SentAttemptWasDelivered ==
  \A j \in Jobs :
    /\ delivery[j].status = "sent" => delivery[j].attempts \in deliveredBy[j]
    /\ ActionEvents(j) # {} => delivery[j].status = "sent"
    /\ feedback[j] = Cardinality(FeedbackEvents(j))

(* A worker that renewed within the last lease sends, confirms and rejects only for the row
   it took: it cannot be pulled from under it, and no message goes out for a row that is
   sent, suppressed or of a later attempt. *)
FreshAttemptOwnsRow ==
  \A p \in Workers :
    Beating(p) /\ beat[p] < LeaseDuration /\ step[p] \in {"send", "confirm", "reject"}
      => OwnsRow(claim[p])
=============================================================================
