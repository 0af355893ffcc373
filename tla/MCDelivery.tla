----------------------------- MODULE MCDelivery -----------------------------
(***************************************************************************)
(* Instances of Delivery for TLC: one delivery, two processes, the three   *)
(* attempts of PERSONALIZED_DELIVERY_MAX_ATTEMPTS.                         *)
(***************************************************************************)
EXTENDS Delivery, TLC

CONSTANTS w1, w2, j1, id1, id2, MaxTries

MCMaxAttempts == [j \in Jobs |-> MaxTries]
MCAllJobs == [p \in Workers |-> Jobs]
MCTwoIds == w1 :> id1 @@ w2 :> id2
MCOneId == [p \in Workers |-> id1]

(* With one worker_id the processes are interchangeable. *)
MCSymmetry == Permutations(Workers)
=============================================================================
