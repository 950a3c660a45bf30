-------------------------- MODULE MCSubscriptions ---------------------------
(* One channel that is added and removed, two workers that serve GETs. *)
EXTENDS Subscriptions, TLC

CONSTANTS c1, g1, g2

Workers == Permutations(Get)
=============================================================================
