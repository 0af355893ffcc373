-------------------------- MODULE MCDurableWorker --------------------------
(***************************************************************************)
(* Instances of DurableWorker for TLC: two processes, jobs with two        *)
(* attempts each, so that a job is claimed, lost, reclaimed and exhausted. *)
(***************************************************************************)
EXTENDS DurableWorker, TLC

CONSTANTS w1, w2, j1, j2, id1, id2

MCMaxAttempts == [j \in Jobs |-> 2]
MCAllJobs == [p \in Workers |-> Jobs]

(* Two processes of one worker_id: operator_cli.py:1269 derives it from the account. *)
MCOneId == [p \in Workers |-> id1]

=============================================================================
