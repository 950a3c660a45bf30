--------------------------- MODULE MCChannelSync ----------------------------
(* ChannelSync with two channels, for TLC. *)
EXTENDS ChannelSync, TLC

CONSTANTS a, b

\* Two lists of the same length, and a longer one.
Lists == {<<a>>, <<b>>, <<a, b>>}

\* Lists that all want the channel a.
ListsWithA == {<<a>>, <<a, b>>}

\* For the runs without liveness.
WorkerSymmetry == Permutations(Worker)

=============================================================================
