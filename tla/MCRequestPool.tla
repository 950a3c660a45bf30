---------------------------- MODULE MCRequestPool -----------------------------
(* A pool of two threads, which may shrink to one, and two handlers. *)
EXTENDS RequestPool, TLC

CONSTANTS t1, t2, t3, h1, h2, k1, k2, k3

Symmetric == Permutations(Thread) \union Permutations(Handler) \union Permutations(Conn)
=============================================================================
