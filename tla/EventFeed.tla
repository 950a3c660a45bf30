----------------------------- MODULE EventFeed ------------------------------
(***************************************************************************)
(* What the event store promises a client that polls with a cursor: a feed *)
(* of numbered events with no gap, which loses its oldest events only, and *)
(* only those the client has acked or that are too old to be kept.         *)
(*                                                                         *)
(* There is no crash, no load and no compaction here: EventStore with an   *)
(* honest client and a sound disk implements this module, its restarts     *)
(* being invisible and its compaction a Trim (EventStoreFeed).                *)
(***************************************************************************)
EXTENDS Naturals

CONSTANTS
    Key,         \* what makes two notifications the same
    Window,      \* how many of the newest events a duplicate is checked against
    Margin,      \* acked events that are kept
    MaxRetained, \* events that are kept although nothing was acked
    MaxHigh      \* bound: no event is published above this number

\* What the constants must satisfy for the promises below to hold.
FeedAssumption ==
    /\ Window \in Nat \ {0}
    /\ Margin \in Nat \ {0}
    /\ MaxRetained \in Nat \ {0}
    /\ MaxHigh \in Nat

VARIABLES
    feed,   \* the events a poll may still return
    high,   \* the number of the newest event
    acked   \* the client is done with events up to here

vars == <<feed, high, acked>>

Init == feed = {} /\ high = 0 /\ acked = 0

\* A notification becomes the next event unless one of the newest is the same.
Publish(k) ==
    /\ high < MaxHigh
    /\ \A e \in feed : e.key = k => e.seq + Window <= high
    /\ high' = high + 1
    /\ feed' = feed \union {[seq |-> high + 1, key |-> k]}
    /\ UNCHANGED acked

Ack(t) ==
    /\ t > acked
    /\ acked' = t
    /\ UNCHANGED <<feed, high>>

\* The events up to n are forgotten.
Trim(n) ==
    /\ n + Margin <= acked \/ n + MaxRetained <= high
    /\ feed' = {e \in feed : e.seq > n}
    /\ UNCHANGED <<high, acked>>

Next ==
    \/ \E k \in Key : Publish(k)
    \/ \E t \in 1..high : Ack(t)
    \/ \E n \in 1..high : Trim(n)

Spec == Init /\ [][Next]_vars

-----------------------------------------------------------------------------
TypeOK ==
    /\ feed \subseteq [seq : Nat \ {0}, key : Key]
    /\ high \in Nat
    /\ acked \in Nat

\* A cursor never meets a hole: whatever was trimmed, the events that are
\* left are all the newest ones (EventStore.events_after on a compacted log).
NoHole ==
    \A e \in feed : \A n \in e.seq..high : \E f \in feed : f.seq = n

\* The newest event survives every Trim, so numbering can restart from the feed.
NewestKept == high > 0 => \E e \in feed : e.seq = high

\* One event per number, and no key twice within the window.
Distinct ==
    \A e, f \in feed :
        /\ e.seq = f.seq => e = f
        /\ e.key = f.key /\ e.seq < f.seq => e.seq + Window < f.seq

=============================================================================
