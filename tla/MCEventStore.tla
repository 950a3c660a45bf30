---------------------------- MODULE MCEventStore ----------------------------
(* EventStore, with its refinement of EventFeed, on a small disk. *)
EXTENDS EventStoreFeed, TLC

KeySymmetry == Permutations(Key)

=============================================================================
