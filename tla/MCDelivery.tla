----------------------------- MODULE MCDelivery -----------------------------
(* Two notifications that share an entry, and one that nobody signed. *)
EXTENDS Delivery, TLC

CONSTANTS n1, n2, forged, ka, kb, kc, kd, w1, w2

Batches == n1 :> <<ka, kb>> @@ n2 :> <<kb, kc>> @@ forged :> <<kd>>

WorkerSymmetry == Permutations(Worker)
=============================================================================
