---------------------------- MODULE JobContract ----------------------------
(***************************************************************************)
(* What the durable queue promises to the code that enqueues a job: the    *)
(* job is tried a bounded number of times, one try after another, until a  *)
(* try succeeds or it is given up, and that is final.  No worker, lease or *)
(* clock appears here.  One step may move several jobs (claim_next fails   *)
(* every exhausted lease in the transaction that claims).                  *)
(***************************************************************************)
EXTENDS Naturals

CONSTANTS Jobs, MaxAttempts

VARIABLES
  status,   \* "absent", "waiting", "trying", "done" or "given up"
  tries,    \* how often the job has been tried
  works     \* the tries of the job that did their work

contractVars == <<status, tries, works>>

ContractInit ==
  /\ status = [j \in Jobs |-> "absent"]
  /\ tries = [j \in Jobs |-> 0]
  /\ works = [j \in Jobs |-> {}]

Same(j) == status'[j] = status[j] /\ tries'[j] = tries[j]

Submit(j) == status[j] = "absent" /\ status'[j] = "waiting" /\ tries'[j] = tries[j]

(* The first try, a retry, or a try that takes over from one that has gone. *)
Try(j) ==
  /\ status[j] \in {"waiting", "trying"} /\ status'[j] = "trying"
  /\ tries'[j] = tries[j] + 1 /\ tries'[j] <= MaxAttempts[j]

(* Only the work of the current try settles a job: not that of an earlier one. *)
Finish(j) ==
  /\ status[j] = "trying" /\ status'[j] = "done"
  /\ tries[j] \in works[j] /\ tries'[j] = tries[j]

PutBack(j) ==
  /\ status[j] = "trying" /\ status'[j] = "waiting"
  /\ tries[j] < MaxAttempts[j] /\ tries'[j] = tries[j]

GiveUp(j) ==
  /\ status[j] = "trying" /\ status'[j] = "given up"
  /\ tries'[j] = tries[j]

(* A try does its work, possibly late, when the next one is under way already. *)
Work(j) ==
  /\ \E n \in 1..tries[j] : works'[j] = works[j] \cup {n}
  /\ Same(j)

JobStep(j) ==
  \/ Same(j) /\ works'[j] = works[j]
  \/ /\ Submit(j) \/ Try(j) \/ Finish(j) \/ PutBack(j) \/ GiveUp(j)
     /\ works'[j] = works[j]
  \/ Work(j)

ContractNext ==
  /\ DOMAIN status' = Jobs /\ DOMAIN tries' = Jobs /\ DOMAIN works' = Jobs
  /\ \A j \in Jobs : JobStep(j)

ContractSpec == ContractInit /\ [][ContractNext]_contractVars
=============================================================================
