---- MODULE MCSubscription ----
(* Small instances of Subscription: two payments, one event id used for two  *)
(* different notifications, one payment notified with two different periods. *)
EXTENDS Subscription, TLC
CONSTANTS t1, t2, t3

Offer(i, p, s, f, u) == [id |-> i, payment |-> p, status |-> s, from |-> f, to |-> u]
MCOffers == {
  Offer("e1", "p1", "succeeded", 1, 2),
  Offer("e2", "p2", "succeeded", 1, 3),
  Offer("e3", "p1", "succeeded", 1, 3)}
MCOffersFull == MCOffers \cup {
  Offer("e2", "p2", "failed", 0, 0)}
MCSymmetry == Permutations(Tx)
====
