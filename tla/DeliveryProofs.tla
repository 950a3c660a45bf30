--------------------------- MODULE DeliveryProofs ---------------------------
(***************************************************************************)
(* Proofs about Delivery, for any notifications, entries, workers, page    *)
(* and capacities, and any number of crashes, restarts and retries.        *)
(*                                                                         *)
(* None of the properties is inductive.  AnsweredIsStored needs what each  *)
(* worker still has to append (Underway), OnlySignedIsStored where that    *)
(* comes from (Signed), and CursorNeverSkips what the store has dropped    *)
(* (Dropped) and how a page covers the numbers it spans (PageCovers).      *)
(***************************************************************************)
EXTENDS Delivery, FiniteSetTheorems, TLAPS

Job == [stage : {"idle", "lock", "append", "answer"}, notice : Notice \union {None},
        left : Seq(Key), heard : BOOLEAN]

\* The part of TypeOK that the invariants below rest on.
Typed ==
    /\ feed \subseteq [seq : Nat \ {0}, key : Key]
    /\ high \in Nat /\ acked \in Nat
    /\ job \in [Worker -> Job]
    /\ \A w \in Worker : job[w].stage # "idle" => job[w].notice \in Notice
    /\ hub \in [Notice -> {"owed", "sent", "done"}]
    /\ published \in Seq(Key)
    /\ cursor \in Nat /\ pos \in Nat /\ page \subseteq Nat

\* When no append fails, what a worker has not appended yet is still to come.
Underway ==
    Faults = {} => \A w \in Worker : job[w].stage # "idle" =>
        /\ job[w].stage = "answer" => job[w].left = <<>>
        /\ job[w].notice \notin Forged =>
             ToSet(Entries[job[w].notice]) \subseteq ToSet(job[w].left) \union Recorded

Answered == Faults = {} => AnsweredIsStored

\* What a worker has still to append is signed.
Signed ==
    \A w \in Worker : job[w].stage \in {"lock", "append"} =>
        /\ job[w].notice \notin Forged
        /\ ToSet(job[w].left) \subseteq ToSet(Entries[job[w].notice])

\* The numbers that are not in the feed are old, or the client is done with them.
Old(s) == s + MaxRetained <= high
Held(s) == \E e \in feed : e.seq = s

Dropped ==
    /\ \A e \in feed : e.seq <= high
    /\ \A s \in 1..high : Held(s) \/ Old(s) \/ s <= acked

Cursors ==
    /\ acked <= cursor /\ cursor <= pos /\ pos <= high
    /\ \A s \in 1..pos : s \in taken \/ Old(s)

\* From the client's position to any event of its page, nothing is left out.
PageCovers ==
    /\ page \subseteq (pos + 1)..high
    /\ \A p \in page : \A s \in (pos + 1)..p : s \in page \/ Old(s)

JobInv    == Typed /\ Underway /\ Signed /\ Answered /\ OnlySignedIsStored
CursorInv == Typed /\ Dropped /\ Cursors /\ PageCovers

-----------------------------------------------------------------------------
(* Lemmas *)

LEMMA HeadAndTail ==
    ASSUME NEW S, NEW s \in Seq(S), s # <<>>
    PROVE  /\ Head(s) \in S /\ Tail(s) \in Seq(S)
           /\ ToSet(s) = ToSet(Tail(s)) \union {Head(s)}
<1>1. /\ Len(s) \in Nat \ {0} /\ DOMAIN s = 1..Len(s)
      /\ Head(s) = s[1] /\ Head(s) \in S /\ Tail(s) \in Seq(S)
  OBVIOUS
<1>2. Len(Tail(s)) = Len(s) - 1 /\ \A i \in 1..(Len(s) - 1) : Tail(s)[i] = s[i + 1]
  OBVIOUS
<1>3. DOMAIN Tail(s) = 1..(Len(s) - 1)
  BY <1>1, <1>2
<1>4. \A i \in DOMAIN s : s[i] \in ToSet(Tail(s)) \union {Head(s)}
  <2> TAKE i \in DOMAIN s
  <2>1. CASE i = 1
    BY <2>1, <1>1
  <2>2. CASE i # 1
    <3>1. i - 1 \in 1..(Len(s) - 1) /\ s[i] = Tail(s)[i - 1]
      BY <2>2, <1>1, <1>2
    <3> QED BY <3>1, <1>3 DEF ToSet
  <2> QED BY <2>1, <2>2
<1>5. \A i \in DOMAIN Tail(s) : Tail(s)[i] \in ToSet(s)
  <2> TAKE i \in DOMAIN Tail(s)
  <2>1. i + 1 \in DOMAIN s /\ Tail(s)[i] = s[i + 1]
    BY <1>1, <1>2, <1>3
  <2> QED BY <2>1 DEF ToSet
<1>6. Head(s) \in ToSet(s)
  BY <1>1 DEF ToSet
<1> QED BY <1>1, <1>4, <1>5, <1>6 DEF ToSet

\* What one more event changes in the history.
LEMMA OneMoreRecorded ==
    ASSUME published \in Seq(Key), NEW k \in Key, published' = Append(published, k)
    PROVE  published' \in Seq(Key) /\ Recorded' = Recorded \union {k}
<1>1. /\ Len(published) \in Nat /\ DOMAIN published = 1..Len(published)
      /\ published' \in Seq(Key) /\ Len(published') = Len(published) + 1
      /\ \A i \in 1..Len(published) : published'[i] = published[i]
      /\ published'[Len(published) + 1] = k
  OBVIOUS
<1>2. DOMAIN published' = 1..(Len(published) + 1)
  BY <1>1
<1>3. Recorded' \subseteq Recorded \union {k}
  BY <1>1, <1>2 DEF Recorded
<1>4. Recorded \subseteq Recorded'
  BY <1>1, <1>2 DEF Recorded
<1>5. k \in Recorded'
  BY <1>1, <1>2 DEF Recorded
<1> QED BY <1>1, <1>3, <1>4, <1>5

LEMMA TypedInit == Init => Typed
BY DEF Init, Typed, Job, NoJob, Feed!Init

LEMMA TypedStep == Typed /\ [Next]_vars => Typed'
<1> SUFFICES ASSUME Typed, [Next]_vars PROVE Typed'
  OBVIOUS
<1> USE DeliveryAssumption DEF Typed, Job
<1>1. ASSUME NEW w \in Worker, NEW n \in Notice, Deliver(w, n) PROVE Typed'
  BY <1>1 DEF Deliver, store, client
<1>2. ASSUME NEW w \in Worker, LockStore(w) PROVE Typed'
  BY <1>2 DEF LockStore, store, client
<1>3. ASSUME NEW w \in Worker, AppendEntry(w) PROVE Typed'
  <2>1. job[w].left \in Seq(Key) /\ job[w].left # <<>>
    BY <1>3 DEF AppendEntry
  <2>2. Head(job[w].left) \in Key /\ LeftAfter(job[w].left) \in Seq(Key)
    BY <2>1, HeadAndTail DEF LeftAfter
  <2>3. /\ job' \in [Worker -> Job]
        /\ \A v \in Worker : job'[v].stage # "idle" => job'[v].notice \in Notice
    BY <1>3, <2>2 DEF AppendEntry
  <2>4. feed' \subseteq [seq : Nat \ {0}, key : Key] /\ high' \in Nat /\ acked' \in Nat
    <3>1. CASE Feed!Publish(Head(job[w].left))
      <4>1. high + 1 \in Nat \ {0} /\ [seq |-> high + 1, key |-> Head(job[w].left)]
                                        \in [seq : Nat \ {0}, key : Key]
        BY <2>2 DEF Typed
      <4> HIDE DEF Job
      <4> QED BY <3>1, <4>1 DEF Feed!Publish
    <3>2. CASE UNCHANGED store
      BY <3>2 DEF store
    <3> QED BY <1>3, <3>1, <3>2 DEF AppendEntry
  <2>5. published' \in Seq(Key)
    BY <1>3, <2>2, OneMoreRecorded DEF AppendEntry
  <2> QED BY <1>3, <2>3, <2>4, <2>5 DEF AppendEntry, client
<1>4. ASSUME NEW w \in Worker, UnlockStore(w) PROVE Typed'
  BY <1>4 DEF UnlockStore, store, client
<1>5. ASSUME NEW w \in Worker, Answer(w) PROVE Typed'
  BY <1>5 DEF Answer, store, client, NoJob
<1>6. ASSUME NEW w \in Worker, HubGivesUp(w) PROVE Typed'
  BY <1>6 DEF HubGivesUp, store, client
<1>7. CASE Crash
  BY <1>7 DEF Crash, store, client, NoJob
<1>8. CASE Poll
  <2>1. page' \subseteq Nat
    BY <1>8 DEF Poll, EventsAfter, Newer
  <2> QED BY <1>8, <2>1 DEF Poll, store, client
<1>12. CASE Process \/ SaveCursor \/ ClientRestarts
  BY <1>12 DEF Process, SaveCursor, ClientRestarts, store, client
<1>9. CASE Ack
  BY <1>9 DEF Ack, Feed!Ack, client
<1>10. CASE Compact
  BY <1>10 DEF Compact, Feed!Trim, client
<1>11. CASE UNCHANGED vars
  BY <1>11 DEF vars, store, client
<1> QED BY <1>1, <1>2, <1>3, <1>4, <1>5, <1>6, <1>7, <1>8, <1>9, <1>10, <1>11, <1>12
        DEF Next, Handle, Client

-----------------------------------------------------------------------------
(* What the hub has an answer for is stored *)

\* A job that goes on with nothing new recorded, and as it was.
LEMMA JobsUndisturbed ==
    ASSUME Underway, Signed, Answered, OnlySignedIsStored, Typed,
           UNCHANGED published, UNCHANGED job, UNCHANGED hub
    PROVE  Underway' /\ Signed' /\ Answered' /\ OnlySignedIsStored'
BY DEF Underway, Signed, Answered, AnsweredIsStored, OnlySignedIsStored, Recorded

LEMMA JobStep == JobInv /\ [Next]_vars => JobInv'
<1> SUFFICES ASSUME JobInv, [Next]_vars PROVE JobInv'
  OBVIOUS
<1>0. Typed'
  BY TypedStep DEF JobInv
<1> DEFINE Rest == Underway /\ Signed /\ Answered /\ OnlySignedIsStored
<1>u. Typed /\ Rest
  BY DEF JobInv
<1>r. UNCHANGED published => Recorded' = Recorded
  BY DEF Recorded
<1> SUFFICES Rest'
  BY <1>0 DEF JobInv
<1>1. ASSUME NEW w \in Worker, NEW n \in Notice, Deliver(w, n) PROVE Rest'
  <2>1. UNCHANGED published /\ Recorded' = Recorded /\ hub' = [hub EXCEPT ![n] = "sent"]
    BY <1>1, <1>r DEF Deliver
  <2>2. \A v \in Worker : v # w => job'[v] = job[v]
    BY <1>u, <1>1 DEF Deliver, Typed
  <2>3. CASE n \notin Forged
    <3>1. job'[w].stage = "lock" /\ job'[w].notice = n /\ job'[w].left = Entries[n]
      BY <1>u, <1>1, <2>3 DEF Deliver, Verified, Typed
    <3>2. Underway'
      BY <1>u, <2>1, <2>2, <3>1 DEF Underway
    <3>3. Signed'
      BY <1>u, <2>2, <2>3, <3>1 DEF Signed
    <3> QED BY <3>2, <3>3, <1>u, <2>1 DEF Answered, AnsweredIsStored, OnlySignedIsStored, Typed
  <2>4. CASE n \in Forged
    <3>1. job'[w].stage = "answer" /\ job'[w].notice = n /\ job'[w].left = <<>>
      BY <1>u, <1>1, <2>4 DEF Deliver, Verified, Typed
    <3>2. Underway'
      BY <1>u, <2>1, <2>2, <2>4, <3>1 DEF Underway
    <3>3. Signed'
      BY <1>u, <2>2, <3>1 DEF Signed
    <3> QED BY <3>2, <3>3, <1>u, <2>1 DEF Answered, AnsweredIsStored, OnlySignedIsStored, Typed
  <2> QED BY <2>3, <2>4
<1>2. ASSUME NEW w \in Worker, LockStore(w) PROVE Rest'
  <2>1. UNCHANGED <<published, hub>> /\ Recorded' = Recorded
    BY <1>2, <1>r DEF LockStore
  <2>2. /\ job[w].stage = "lock" /\ job'[w].stage = "append"
        /\ job'[w].notice = job[w].notice /\ job'[w].left = job[w].left
        /\ \A v \in Worker : v # w => job'[v] = job[v]
    BY <1>u, <1>2 DEF LockStore, Typed, Job
  <2>3. Underway'
    BY <1>u, <2>1, <2>2 DEF Underway
  <2>4. Signed'
    BY <1>u, <2>2 DEF Signed
  <2> QED BY <2>1, <2>3, <2>4, <1>u DEF Answered, AnsweredIsStored, OnlySignedIsStored
<1>3. ASSUME NEW w \in Worker, AppendEntry(w) PROVE Rest'
  <2> DEFINE k == Head(job[w].left)
  <2>1. /\ job[w].stage = "append" /\ job[w].left \in Seq(Key) /\ job[w].left # <<>>
        /\ job[w].notice \in Notice
    BY <1>u, <1>3 DEF AppendEntry, Typed, Job
  <2>2. /\ k \in Key /\ LeftAfter(job[w].left) \in Seq(Key)
        /\ ToSet(job[w].left) = ToSet(LeftAfter(job[w].left)) \union {k}
    BY <2>1, HeadAndTail DEF LeftAfter
  <2>3. /\ Recorded \subseteq Recorded' /\ Recorded' \subseteq Recorded \union {k}
        /\ Faults = {} => k \in Recorded'
    <3>1. CASE Feed!Publish(k) /\ published' = Append(published, k)
      BY <3>1, <2>2, <1>u, OneMoreRecorded DEF Typed
    <3>2. CASE (MaySuppress(k) \/ "append" \in Faults) /\ UNCHANGED <<store, published>>
      BY <3>2, <1>r DEF MaySuppress, Recorded
    <3> QED BY <1>3, <3>1, <3>2 DEF AppendEntry
  <2>4. /\ job'[w].stage = "append" /\ job'[w].notice = job[w].notice
        /\ job'[w].left = LeftAfter(job[w].left)
        /\ \A v \in Worker : v # w => job'[v] = job[v]
    BY <1>u, <1>3, <2>1 DEF AppendEntry, Typed, Job
  <2>5. Underway'
    BY <1>u, <2>1, <2>2, <2>3, <2>4 DEF Underway
  <2>6. Signed'
    BY <1>u, <2>1, <2>2, <2>4 DEF Signed
  <2>7. Answered'
    BY <1>u, <1>3, <2>3 DEF Answered, AnsweredIsStored, AppendEntry
  <2>8. OnlySignedIsStored'
    <3>1. job[w].notice \in Notice \ Forged /\ k \in ToSet(Entries[job[w].notice])
      BY <1>u, <2>1, <2>2 DEF Signed
    <3> QED BY <1>u, <2>3, <3>1 DEF OnlySignedIsStored
  <2> QED BY <2>5, <2>6, <2>7, <2>8
<1>4. ASSUME NEW w \in Worker, UnlockStore(w) PROVE Rest'
  <2>1. UNCHANGED <<published, hub>> /\ Recorded' = Recorded
    BY <1>4, <1>r DEF UnlockStore
  <2>2. /\ job[w].stage = "append" /\ job[w].left = <<>> /\ job'[w].stage = "answer"
        /\ job'[w].notice = job[w].notice /\ job'[w].left = job[w].left
        /\ \A v \in Worker : v # w => job'[v] = job[v]
    BY <1>u, <1>4 DEF UnlockStore, Typed, Job
  <2>3. Underway'
    BY <1>u, <2>1, <2>2 DEF Underway
  <2>4. Signed'
    BY <1>u, <2>2 DEF Signed
  <2> QED BY <2>1, <2>3, <2>4, <1>u DEF Answered, AnsweredIsStored, OnlySignedIsStored
<1>5. ASSUME NEW w \in Worker, Answer(w) PROVE Rest'
  <2>1. UNCHANGED published /\ Recorded' = Recorded
    BY <1>5, <1>r DEF Answer
  <2>2. job'[w].stage = "idle" /\ \A v \in Worker : v # w => job'[v] = job[v]
    BY <1>u, <1>5 DEF Answer, Typed, Job, NoJob
  <2>3. Underway' /\ Signed'
    BY <1>u, <2>1, <2>2 DEF Underway, Signed
  <2>4. Faults = {} /\ job[w].notice \notin Forged =>
          ToSet(Entries[job[w].notice]) \subseteq Recorded
    BY <1>u, <1>5 DEF Answer, Underway, ToSet
  <2>5. Answered'
    BY <1>u, <1>5, <2>1, <2>4 DEF Answered, AnsweredIsStored, Answer, Typed
  <2> QED BY <2>1, <2>3, <2>5, <1>u DEF OnlySignedIsStored
<1>6. ASSUME NEW w \in Worker, HubGivesUp(w) PROVE Rest'
  <2>1. UNCHANGED published /\ Recorded' = Recorded
    BY <1>6, <1>r DEF HubGivesUp
  <2>2. \A v \in Worker : /\ job'[v].stage = job[v].stage /\ job'[v].notice = job[v].notice
                          /\ job'[v].left = job[v].left
    BY <1>u, <1>6 DEF HubGivesUp, Typed, Job
  <2>3. Underway' /\ Signed'
    BY <1>u, <2>1, <2>2 DEF Underway, Signed
  <2>4. Answered'
    BY <1>u, <1>6, <2>1 DEF Answered, AnsweredIsStored, HubGivesUp, Typed
  <2> QED BY <2>1, <2>3, <2>4, <1>u DEF OnlySignedIsStored
<1>7. CASE Crash
  <2>1. UNCHANGED published /\ Recorded' = Recorded
    BY <1>7, <1>r DEF Crash
  <2>2. \A v \in Worker : job'[v].stage = "idle"
    BY <1>7 DEF Crash, NoJob
  <2>3. \A n \in Notice : hub'[n] = "done" => hub[n] = "done"
    BY <1>7 DEF Crash
  <2> QED BY <2>1, <2>2, <2>3, <1>u DEF Underway, Signed, Answered, AnsweredIsStored,
                                       OnlySignedIsStored
<1>8. CASE Client \/ ClientRestarts \/ Compact \/ UNCHANGED vars
  <2>1. UNCHANGED <<published, job, hub>>
    BY <1>8 DEF Client, Poll, Process, SaveCursor, Ack, ClientRestarts, Compact, vars
  <2> QED BY <2>1, <1>u, JobsUndisturbed
<1> QED BY <1>1, <1>2, <1>3, <1>4, <1>5, <1>6, <1>7, <1>8 DEF Next, Handle

LEMMA JobInit == Init => JobInv
<1> SUFFICES ASSUME Init PROVE JobInv
  OBVIOUS
<1>1. Recorded = {}
  BY DEF Init, Recorded
<1> QED BY <1>1, TypedInit DEF Init, JobInv, Underway, Signed, Answered, AnsweredIsStored,
                              OnlySignedIsStored, NoJob

\* A notification that the hub has an answer for is in the log, all of it,
\* whatever crashed and however its entries were shared by two workers, when
\* no append fails (callback.rs:149-171).
THEOREM AnsweredIsStoredAlways == Spec => [](Faults = {} => AnsweredIsStored)
<1>1. JobInv => (Faults = {} => AnsweredIsStored)
  BY DEF JobInv, Answered
<1> QED BY <1>1, JobInit, JobStep, PTL DEF Spec

\* No event comes from a notification that nobody signed, failing appends or
\* not (callback.rs:134-145).
THEOREM OnlySignedIsStoredAlways == Spec => []OnlySignedIsStored
<1>1. JobInv => OnlySignedIsStored
  BY DEF JobInv
<1> QED BY <1>1, JobInit, JobStep, PTL DEF Spec

-----------------------------------------------------------------------------
(* The client's cursor *)

\* Nothing that the cursor's invariant is about moves.
LEMMA CursorUndisturbed ==
    ASSUME Typed, Dropped, Cursors, PageCovers, UNCHANGED <<store, client>>
    PROVE  Dropped' /\ Cursors' /\ PageCovers'
BY DEF Dropped, Cursors, PageCovers, Old, Held, store, client

LEMMA CursorStep == CursorInv /\ [Next]_vars => CursorInv'
<1> SUFFICES ASSUME CursorInv, [Next]_vars PROVE CursorInv'
  OBVIOUS
<1>0. Typed'
  BY TypedStep DEF CursorInv
<1> DEFINE Rest == Dropped /\ Cursors /\ PageCovers
<1>u. Typed /\ Rest
  BY DEF CursorInv
<1> SUFFICES Rest'
  BY <1>0 DEF CursorInv
<1> USE DeliveryAssumption
<1>1. ASSUME NEW w \in Worker, NEW k, Feed!Publish(k), UNCHANGED client PROVE Rest'
  <2>1. /\ high' = high + 1 /\ acked' = acked
        /\ feed' = feed \union {[seq |-> high + 1, key |-> k]}
        /\ cursor' = cursor /\ pos' = pos /\ page' = page /\ taken' = taken
    BY <1>1 DEF Feed!Publish, client
  <2>2. \A s \in Nat : Old(s) => Old(s)'
    BY <1>u, <2>1 DEF Old, Typed
  <2>3. \A s \in Nat : Held(s) => Held(s)'
    <3>1. feed \subseteq feed'
      BY <2>1
    <3> QED BY <3>1 DEF Held
  <2>4. \E e \in feed' : e.seq = high + 1
    <3> DEFINE new == [seq |-> high + 1, key |-> k]
    <3>1. new \in feed' /\ new.seq = high + 1
      BY <2>1
    <3> QED BY <3>1
  <2>5. Dropped'
    <3>1. \A e \in feed' : e.seq <= high'
      BY <1>u, <2>1 DEF Dropped, Typed
    <3>2. \A s \in 1..high' : Held(s)' \/ Old(s)' \/ s <= acked'
      <4> TAKE s \in 1..high'
      <4>1. CASE s = high + 1
        BY <2>4, <4>1 DEF Held
      <4>2. CASE s # high + 1
        BY <1>u, <2>1, <2>2, <2>3, <4>2 DEF Dropped, Typed
      <4> QED BY <4>1, <4>2
    <3> QED BY <3>1, <3>2 DEF Dropped
  <2>6. Cursors'
    BY <1>u, <2>1, <2>2 DEF Cursors, Typed
  <2>7. PageCovers'
    BY <1>u, <2>1, <2>2 DEF PageCovers, Typed
  <2> QED BY <2>5, <2>6, <2>7
<1>2. CASE Poll
  <2>1. /\ pos = cursor /\ page' = EventsAfter(cursor)
        /\ UNCHANGED <<feed, high, acked, cursor, pos, taken>>
    BY <1>2 DEF Poll, store
  <2>2. Dropped' /\ Cursors'
    BY <1>u, <2>1 DEF Dropped, Cursors, Old, Held
  <2>3. \A s \in Newer(cursor) : s \in (cursor + 1)..high
    BY <1>u DEF Newer, Typed, Dropped
  <2>4. ASSUME NEW p \in page', NEW s \in (pos + 1)..p PROVE s \in page' \/ Old(s)
    <3>1. p \in Newer(cursor) /\ Cardinality({r \in Newer(cursor) : r <= p}) <= Page
      BY <2>1, <2>4 DEF EventsAfter
    <3>2. /\ s \in 1..high /\ s <= p /\ cursor < s /\ ~(s <= acked)
          /\ p \in Nat /\ s \in Nat
      BY <1>u, <2>1, <2>3, <3>1 DEF Typed, Cursors
    <3>3. CASE Held(s)
      <4> DEFINE UpTo(n) == {r \in Newer(cursor) : r <= n}
      <4>1. s \in Newer(cursor)
        BY <3>2, <3>3 DEF Newer, Held
      <4>2. UpTo(s) \subseteq UpTo(p)
        BY <2>3, <3>2, <1>u DEF Typed
      <4>3. IsFiniteSet(UpTo(p))
        <5>1. UpTo(p) \subseteq 1..high
          BY <2>3, <1>u DEF Typed
        <5>2. IsFiniteSet(1..high)
          BY FS_Interval, <1>u DEF Typed
        <5> QED BY <5>1, <5>2, FS_Subset
      <4>4. Cardinality(UpTo(s)) <= Cardinality(UpTo(p)) /\ IsFiniteSet(UpTo(s))
        BY <4>2, <4>3, FS_Subset
      <4>5. Cardinality(UpTo(s)) \in Nat /\ Cardinality(UpTo(p)) \in Nat
        BY <4>3, <4>4, FS_CardinalityType
      <4>6. Cardinality(UpTo(s)) <= Page
        BY <3>1, <4>4, <4>5
      <4> QED BY <2>1, <4>1, <4>6 DEF EventsAfter
    <3> QED BY <1>u, <3>2, <3>3 DEF Dropped
  <2>5. page' \subseteq (pos + 1)..high
    BY <2>1, <2>3 DEF EventsAfter
  <2> QED BY <2>1, <2>2, <2>4, <2>5 DEF PageCovers, Old
<1>3. CASE Process
  <2> PICK s \in page : /\ \A r \in page : s <= r
                        /\ pos' = s /\ taken' = taken \union {s} /\ page' = page \ {s}
    BY <1>3 DEF Process
  <2>1. UNCHANGED <<feed, high, acked, cursor>>
    BY <1>3 DEF Process, store
  <2>2. s \in (pos + 1)..high /\ s \in Nat
    BY <1>u DEF PageCovers, Typed
  <2>3. Dropped'
    BY <1>u, <2>1 DEF Dropped, Old, Held
  <2>4. \A q \in 1..s : q \in taken' \/ Old(q)
    BY <1>u, <2>2 DEF Cursors, PageCovers, Typed
  <2>5. Cursors'
    BY <1>u, <2>1, <2>2, <2>4 DEF Cursors, Old, Typed
  <2>6. PageCovers'
    BY <1>u, <2>1, <2>2 DEF PageCovers, Old, Typed
  <2> QED BY <2>3, <2>5, <2>6
<1>4. CASE SaveCursor
  <2>1. cursor' = pos /\ UNCHANGED <<feed, high, acked, pos, page, taken>>
    BY <1>4 DEF SaveCursor, store
  <2> QED BY <1>u, <2>1 DEF Typed, Dropped, Cursors, PageCovers, Old, Held
<1>5. CASE Ack
  <2>1. acked' = cursor /\ acked < cursor /\ UNCHANGED <<feed, high, cursor, pos, page, taken>>
    BY <1>5, <1>u DEF Ack, Feed!Ack, client, Typed
  <2>2. Dropped'
    BY <1>u, <2>1 DEF Dropped, Old, Held, Typed
  <2> QED BY <1>u, <2>1, <2>2 DEF Typed, Cursors, PageCovers, Old
<1>6. CASE ClientRestarts
  <2>1. pos' = cursor /\ page' = {} /\ UNCHANGED <<feed, high, acked, cursor, taken>>
    BY <1>6 DEF ClientRestarts, store
  <2> QED BY <1>u, <2>1 DEF Typed, Dropped, Cursors, PageCovers, Old, Held
<1>7. CASE Compact
  <2> PICK n \in 1..high : Feed!Trim(n)
    BY <1>7 DEF Compact
  <2>1. /\ n + Margin <= acked \/ n + MaxRetained <= high
        /\ feed' = {e \in feed : e.seq > n}
        /\ UNCHANGED <<high, acked, cursor, pos, page, taken>>
    BY <1>7 DEF Compact, Feed!Trim, client
  <2>2. \A s \in 1..high : Held(s) => Held(s)' \/ Old(s) \/ s <= acked
    <3> SUFFICES ASSUME NEW s \in 1..high, Held(s) PROVE Held(s)' \/ Old(s) \/ s <= acked
      OBVIOUS
    <3>1. CASE s > n
      BY <2>1, <3>1 DEF Held
    <3>2. CASE ~(s > n)
      BY <2>1, <3>2, <1>u DEF Old, Typed
    <3> QED BY <3>1, <3>2
  <2>3. Dropped'
    BY <1>u, <2>1, <2>2 DEF Dropped, Old
  <2> QED BY <1>u, <2>1, <2>3 DEF Cursors, PageCovers, Old
<1>8. ASSUME UNCHANGED <<store, client>> PROVE Rest'
  BY <1>u, <1>8, CursorUndisturbed
<1>9. ASSUME NEW w \in Worker, AppendEntry(w) PROVE Rest'
  BY <1>1, <1>8, <1>9 DEF AppendEntry, store
<1>10. ASSUME NEW w \in Worker, NEW n \in Notice, Deliver(w, n) PROVE Rest'
  BY <1>8, <1>10 DEF Deliver
<1>11. ASSUME NEW w \in Worker, LockStore(w) \/ UnlockStore(w) \/ Answer(w) \/ HubGivesUp(w)
       PROVE Rest'
  BY <1>8, <1>11 DEF LockStore, UnlockStore, Answer, HubGivesUp
<1>12. CASE Crash \/ UNCHANGED vars
  BY <1>8, <1>12 DEF Crash, vars
<1> QED BY <1>2, <1>3, <1>4, <1>5, <1>6, <1>7, <1>9, <1>10, <1>11, <1>12
        DEF Next, Handle, Client

\* The client's cursor never passes an event it has not processed, unless that
\* event was too old to be retained: for pages of any size, whatever is
\* compacted and whoever restarts (api.rs:81-111, store.rs).
THEOREM CursorNeverSkipsAlways == Spec => []CursorNeverSkips
<1>1. Init => CursorInv
  BY TypedInit DEF Init, Feed!Init, CursorInv, Dropped, Cursors, PageCovers
<1>2. CursorInv => CursorNeverSkips
  BY DEF CursorInv, Cursors, CursorNeverSkips, Old, Typed
<1> QED BY <1>1, <1>2, CursorStep, PTL DEF Spec

-----------------------------------------------------------------------------
(* The store within Delivery *)

\* However hub, workers and client interleave, what they do to the event store
\* is what EventFeed allows: each step is a step of it, or leaves it alone.
THEOREM KeepsToTheFeed == Spec => Feed!Spec
<1>1. Init => Feed!Init
  BY DEF Init
<1>2. CursorInv /\ [Next]_vars => [Feed!Next]_(Feed!vars)
  <2> SUFFICES ASSUME CursorInv, [Next]_vars, ~UNCHANGED <<feed, high, acked>>
               PROVE  Feed!Next
    BY DEF Feed!vars
  <2>u. Typed /\ Cursors
    BY DEF CursorInv
  <2>1. ASSUME NEW w \in Worker, AppendEntry(w) PROVE Feed!Next
    <3>1. Head(job[w].left) \in Key
      BY <2>u, <2>1, HeadAndTail DEF AppendEntry, Typed, Job
    <3> QED BY <2>1, <3>1 DEF AppendEntry, store, Feed!Next
  <2>2. CASE Ack
    <3>1. cursor \in 1..high /\ Feed!Ack(cursor)
      BY <2>2, <2>u DEF Ack, Feed!Ack, Typed, Cursors
    <3> QED BY <3>1 DEF Feed!Next
  <2>3. CASE Compact
    BY <2>3 DEF Compact, Feed!Next
  <2>4. ASSUME NEW w \in Worker, NEW n \in Notice, Deliver(w, n) PROVE FALSE
    BY <2>4 DEF Deliver, store
  <2>5. ASSUME NEW w \in Worker, LockStore(w) \/ UnlockStore(w) \/ Answer(w) \/ HubGivesUp(w)
        PROVE FALSE
    BY <2>5 DEF LockStore, UnlockStore, Answer, HubGivesUp, store
  <2>6. ASSUME Crash \/ Poll \/ Process \/ SaveCursor \/ ClientRestarts \/ UNCHANGED vars
        PROVE FALSE
    BY <2>6 DEF Crash, Poll, Process, SaveCursor, ClientRestarts, vars, store
  <2> QED BY <2>1, <2>2, <2>3, <2>4, <2>5, <2>6 DEF Next, Handle, Client
<1>3. Init => CursorInv
  BY TypedInit DEF Init, Feed!Init, CursorInv, Dropped, Cursors, PageCovers
<1> QED BY <1>1, <1>2, <1>3, CursorStep, PTL DEF Spec, Feed!Spec


-----------------------------------------------------------------------------
(* Types *)

\* One worker at a time appends: the one that holds the store's mutex.
Locked ==
    /\ storeLock \in Worker \union {None}
    /\ \A w \in Worker : storeLock = w <=> job[w].stage = "append"

\* What the histories and the bound have to do with the store.
Sized ==
    /\ Len(published) = high
    /\ taken \subseteq 1..high
    /\ mishaps \in 0..MaxMishaps

LEMMA LockedStep == Typed /\ Locked /\ [Next]_vars => Locked'
<1> SUFFICES ASSUME Typed, Locked, [Next]_vars PROVE Locked'
  OBVIOUS
<1> USE DeliveryAssumption
<1>1. ASSUME NEW w \in Worker, UNCHANGED storeLock,
             job'[w].stage = "append" <=> job[w].stage = "append",
             \A v \in Worker : v # w => job'[v] = job[v]
      PROVE  Locked'
  BY <1>1 DEF Locked
<1>2. ASSUME NEW w \in Worker, NEW n \in Notice, Deliver(w, n) PROVE Locked'
  <2>1. /\ UNCHANGED storeLock /\ job[w].stage = "idle" /\ job'[w].stage \in {"lock", "answer"}
        /\ \A v \in Worker : v # w => job'[v] = job[v]
    BY <1>2 DEF Deliver, Typed
  <2> QED BY <1>1, <2>1
<1>3. ASSUME NEW w \in Worker, LockStore(w) PROVE Locked'
  <2>1. /\ storeLock = None /\ storeLock' = w /\ job'[w].stage = "append"
        /\ \A v \in Worker : v # w => job'[v] = job[v]
    BY <1>3 DEF LockStore, Typed, Job
  <2> QED BY <2>1 DEF Locked
<1>4. ASSUME NEW w \in Worker, AppendEntry(w) PROVE Locked'
  <2>1. /\ UNCHANGED storeLock /\ job'[w].stage = job[w].stage
        /\ \A v \in Worker : v # w => job'[v] = job[v]
    BY <1>4 DEF AppendEntry, Typed, Job
  <2> QED BY <1>1, <2>1
<1>5. ASSUME NEW w \in Worker, UnlockStore(w) PROVE Locked'
  <2>1. /\ job[w].stage = "append" /\ storeLock' = None /\ job'[w].stage = "answer"
        /\ \A v \in Worker : v # w => job'[v] = job[v]
    BY <1>5 DEF UnlockStore, ReleasedBy, Typed, Job
  <2> QED BY <2>1 DEF Locked
<1>6. ASSUME NEW w \in Worker, Answer(w) PROVE Locked'
  <2>1. /\ UNCHANGED storeLock /\ job[w].stage = "answer" /\ job'[w].stage = "idle"
        /\ \A v \in Worker : v # w => job'[v] = job[v]
    BY <1>6 DEF Answer, NoJob, Typed
  <2> QED BY <1>1, <2>1
<1>7. ASSUME NEW w \in Worker, HubGivesUp(w) PROVE Locked'
  <2>1. /\ UNCHANGED storeLock /\ job'[w].stage = job[w].stage
        /\ \A v \in Worker : v # w => job'[v] = job[v]
    BY <1>7 DEF HubGivesUp, Typed, Job
  <2> QED BY <1>1, <2>1
<1>8. CASE Crash
  BY <1>8 DEF Crash, NoJob, Locked
<1>9. CASE Client \/ ClientRestarts \/ Compact \/ UNCHANGED vars
  BY <1>9 DEF Client, Poll, Process, SaveCursor, Ack, ClientRestarts, Compact, vars, Locked
<1> QED BY <1>2, <1>3, <1>4, <1>5, <1>6, <1>7, <1>8, <1>9 DEF Next, Handle

LEMMA SizedStep == CursorInv /\ Sized /\ [Next]_vars => Sized'
<1> SUFFICES ASSUME CursorInv, Sized, [Next]_vars PROVE Sized'
  OBVIOUS
<1>u. Typed /\ PageCovers /\ high \in Nat /\ pos \in Nat /\ MaxMishaps \in Nat
  BY DeliveryAssumption DEF CursorInv, Typed
<1>1. mishaps' \in 0..MaxMishaps
  <2>1. mishaps' = mishaps \/ Mishap
    BY DEF Next, Handle, Client, Deliver, LockStore, AppendEntry, UnlockStore, Answer, HubGivesUp,
           Crash, Poll, Process, SaveCursor, Ack, ClientRestarts, Compact, vars
  <2> QED BY <1>u, <2>1 DEF Mishap, Sized
<1>2. ASSUME NEW w \in Worker, AppendEntry(w) PROVE Sized'
  <2>1. CASE UNCHANGED <<store, published>>
    BY <1>1, <1>2, <2>1 DEF AppendEntry, Sized, client, store
  <2>2. ASSUME NEW k \in Key, Feed!Publish(k), published' = Append(published, k) PROVE Sized'
    <3>1. Len(published') = Len(published) + 1 /\ high' = high + 1 /\ UNCHANGED taken
      BY <1>u, <1>2, <2>2 DEF Typed, Feed!Publish, AppendEntry, client
    <3> QED BY <1>1, <1>u, <3>1 DEF Sized
  <2>3. Head(job[w].left) \in Key
    BY <1>u, <1>2, HeadAndTail DEF AppendEntry, Typed, Job
  <2> QED BY <1>2, <2>1, <2>2, <2>3 DEF AppendEntry
<1>3. CASE Process
  <2>1. UNCHANGED <<published, high>> /\ \E s \in page : taken' = taken \union {s}
    BY <1>3 DEF Process, store
  <2>2. page \subseteq 1..high
    BY <1>u DEF PageCovers
  <2> QED BY <1>1, <2>1, <2>2 DEF Sized
<1>4. ASSUME UNCHANGED <<published, high, taken>> PROVE Sized'
  BY <1>1, <1>4 DEF Sized
<1>5. ASSUME NEW w \in Worker, NEW n \in Notice, Deliver(w, n) PROVE Sized'
  BY <1>4, <1>5 DEF Deliver, store, client
<1>6. ASSUME NEW w \in Worker, LockStore(w) \/ UnlockStore(w) \/ Answer(w) \/ HubGivesUp(w)
      PROVE  Sized'
  BY <1>4, <1>6 DEF LockStore, UnlockStore, Answer, HubGivesUp, store, client
<1>7. CASE Crash \/ Poll \/ SaveCursor \/ Ack \/ ClientRestarts \/ Compact \/ UNCHANGED vars
  BY <1>4, <1>7 DEF Crash, Poll, SaveCursor, Ack, ClientRestarts, Compact, Feed!Ack, Feed!Trim,
                    vars, store, client
<1> QED BY <1>2, <1>3, <1>5, <1>6, <1>7 DEF Next, Handle, Client

\* Every variable has its type; one worker at a time appends, and the client's
\* position, page and cursor stay within what was published.
THEOREM TypeCorrect == Spec => []TypeOK
<1> DEFINE Inv == CursorInv /\ Locked /\ Sized
<1>1. Init => Inv
  <2> SUFFICES ASSUME Init PROVE Inv
    OBVIOUS
  <2>1. CursorInv
    BY TypedInit DEF Init, Feed!Init, CursorInv, Dropped, Cursors, PageCovers
  <2>2. Locked
    BY DeliveryAssumption DEF Init, NoJob, Locked
  <2>3. Sized
    BY DeliveryAssumption DEF Init, Feed!Init, Sized
  <2> QED BY <2>1, <2>2, <2>3
<1>2. Inv /\ [Next]_vars => Inv'
  BY CursorStep, LockedStep, SizedStep DEF CursorInv
<1>3. Inv => TypeOK
  <2> SUFFICES ASSUME Inv PROVE TypeOK
    OBVIOUS
  <2>u. Typed /\ Locked /\ Sized /\ Cursors /\ PageCovers
    BY DEF CursorInv
  <2>1. Feed!TypeOK
    BY <2>u DEF Typed, Feed!TypeOK
  <2>2. \A w \in Worker :
          /\ job[w].stage \in {"idle", "lock", "append", "answer"}
          /\ job[w].notice \in Notice \union {None}
          /\ job[w].left \in Seq(Key) /\ job[w].heard \in BOOLEAN
    BY <2>u DEF Typed, Job
  <2>3. cursor \in 0..high /\ pos \in cursor..high /\ page \subseteq 1..high
    BY <2>u DEF Typed, Cursors, PageCovers
  <2>4. hub \in [Notice -> {"owed", "sent", "done"}] /\ published \in Seq(Key)
    BY <2>u DEF Typed
  <2> QED BY <2>u, <2>1, <2>2, <2>3, <2>4 DEF TypeOK, Locked, Sized
<1> QED BY <1>1, <1>2, <1>3, PTL DEF Spec
=============================================================================
