---- MODULE MCRequestGovernor ----
(* Three tasks, two of them in one process. *)
EXTENDS RequestGovernor, TLC
CONSTANTS a1, a2, b1, A, B
MCHome == a1 :> A @@ a2 :> A @@ b1 :> B
====
