-------------------------- MODULE EventFeedProofs ---------------------------
(***************************************************************************)
(* What every feed that keeps to EventFeed gives its client, for any keys  *)
(* and capacities that satisfy FeedAssumption.                             *)
(*                                                                         *)
(* NoHole and NewestKept rest on each other and on the client acking only  *)
(* what there is; Distinct on the numbers being those up to high.          *)
(***************************************************************************)
EXTENDS EventFeed, TLAPS

FeedInv ==
    /\ TypeOK /\ acked <= high
    /\ \A e \in feed : e.seq <= high
    /\ NewestKept /\ NoHole /\ Distinct

LEMMA FeedInit == Init => FeedInv
BY DEF Init, FeedInv, TypeOK, NewestKept, NoHole, Distinct

LEMMA PublishKeeps ==
    ASSUME FeedAssumption, FeedInv, NEW k \in Key, Publish(k) PROVE FeedInv'
<1> DEFINE new == [seq |-> high + 1, key |-> k]
<1> USE DEF FeedInv, TypeOK
<1>1. /\ high' = high + 1 /\ acked' = acked /\ feed' = feed \union {new}
      /\ \A e \in feed : e.key = k => e.seq + Window <= high
  BY DEF Publish
<1>2. new.seq = high + 1 /\ new.key = k /\ new \in feed'
  BY <1>1
<1>3. feed' \subseteq [seq : Nat \ {0}, key : Key]
  BY <1>1
<1>4. \A e \in feed' : e.seq <= high'
  BY <1>1, <1>2
<1>5. NewestKept'
  BY <1>1, <1>2 DEF NewestKept
<1>6. NoHole'
  <2> SUFFICES ASSUME NEW e \in feed', NEW n \in (e.seq)..high'
               PROVE  \E f \in feed' : f.seq = n
    BY DEF NoHole
  <2>1. CASE n = high + 1
    BY <2>1, <1>2
  <2>2. CASE n # high + 1
    <3>1. e \in feed
      BY <1>1, <1>2, <2>2
    <3>2. n \in (e.seq)..high
      BY <1>1, <2>2, <3>1
    <3> QED BY <1>1, <3>1, <3>2 DEF NoHole
  <2> QED BY <2>1, <2>2
<1>7. Distinct'
  <2> SUFFICES ASSUME NEW e \in feed', NEW f \in feed'
               PROVE  /\ e.seq = f.seq => e = f
                      /\ e.key = f.key /\ e.seq < f.seq => e.seq + Window < f.seq
    BY DEF Distinct
  <2>1. CASE e \in feed /\ f \in feed
    BY <2>1 DEF Distinct
  <2>2. CASE e = new
    BY <1>1, <1>2, <2>2
  <2>3. CASE f = new /\ e \in feed
    BY <1>1, <1>2, <2>3 DEF FeedAssumption
  <2> QED BY <1>1, <2>1, <2>2, <2>3
<1> QED BY <1>1, <1>3, <1>4, <1>5, <1>6, <1>7

LEMMA TrimKeeps ==
    ASSUME FeedAssumption, FeedInv, NEW n \in 1..high, Trim(n) PROVE FeedInv'
<1> USE DEF FeedInv, TypeOK
<1>1. /\ feed' = {e \in feed : e.seq > n} /\ high' = high /\ acked' = acked
      /\ n + Margin <= acked \/ n + MaxRetained <= high
  BY DEF Trim
<1>2. n < high
  BY <1>1 DEF FeedAssumption
<1>3. NewestKept'
  BY <1>1, <1>2 DEF NewestKept
<1>4. NoHole'
  BY <1>1 DEF NoHole
<1>5. Distinct'
  BY <1>1 DEF Distinct
<1> QED BY <1>1, <1>3, <1>4, <1>5

LEMMA FeedStep == FeedAssumption /\ FeedInv /\ [Next]_vars => FeedInv'
<1> SUFFICES ASSUME FeedAssumption, FeedInv, [Next]_vars PROVE FeedInv'
  OBVIOUS
<1>1. ASSUME NEW t \in 1..high, Ack(t) PROVE FeedInv'
  BY <1>1 DEF Ack, FeedInv, TypeOK, NewestKept, NoHole, Distinct
<1>2. CASE UNCHANGED vars
  BY <1>2 DEF vars, FeedInv, TypeOK, NewestKept, NoHole, Distinct
<1> QED BY <1>1, <1>2, PublishKeeps, TrimKeeps DEF Next

\* A cursor never meets a hole, the newest event is always there, and no key
\* comes twice within the window, whatever a client acks and whatever is
\* trimmed (store.rs, events_after and maybe_compact).
THEOREM FeedIsSound ==
    ASSUME FeedAssumption PROVE Spec => [](NoHole /\ NewestKept /\ Distinct)
<1>1. FeedInv /\ [Next]_vars => FeedInv'
  BY FeedStep
<1>2. FeedInv => NoHole /\ NewestKept /\ Distinct
  BY DEF FeedInv
<1> QED BY <1>1, <1>2, FeedInit, PTL DEF Spec

=============================================================================
