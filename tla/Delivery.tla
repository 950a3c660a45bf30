------------------------------ MODULE Delivery ------------------------------
(***************************************************************************)
(* A notification's way from the hub to the client: handle_notify          *)
(* (src/callback.rs) on the HTTP workers, the event store as its clients   *)
(* see it (EventFeed, which EventStore implements), and the poll and ack   *)
(* handlers of src/api.rs.                                                 *)
(*                                                                         *)
(* A notification is a batch of entries.  A worker appends them one by one *)
(* while it holds the store's mutex and answers when it has released it;   *)
(* the process may die in between.                                         *)
(*                                                                         *)
(* The hub and the client are external, as the README describes them: the  *)
(* hub sends a notification until it is answered with a 2xx, the client    *)
(* polls with a cursor that it saves when it has processed a page.         *)
(*                                                                         *)
(* Abstractions.  An entry of a notification is its duplicate key.  The    *)
(* token was found by the lookup that precedes handle_notify.              *)
(***************************************************************************)
EXTENDS Naturals, Sequences, FiniteSets, SequencesExt

CONSTANTS
    Notice,       \* notifications that reach the callback
    Forged,       \* those that are not signed with the subscription's secret
    Entries,      \* the entries of each, in the order of atom::parse
    Worker,       \* HTTP workers
    None,
    Page,         \* the most events the client asks for in a poll
    Key, Window, Margin, MaxRetained, MaxHigh,  \* as in EventFeed
    MaxMishaps,   \* bound: crashes of the relay and of the client, requests
                  \* that the hub gives up waiting for
    Faults        \* "append": an append fails

ASSUME DeliveryAssumption ==
    /\ Forged \subseteq Notice
    /\ Entries \in [Notice -> Seq(Key)]
    /\ Page \in Nat \ {0}
    /\ Margin \in Nat /\ MaxRetained \in Nat
    /\ MaxMishaps \in Nat
    /\ None \notin Worker
    /\ Faults \subseteq {"append"}

VARIABLES
    feed, high, acked,  \* the event store
    storeLock,          \* the worker that holds its mutex, or None
    job,                \* the notification each worker is handling
    hub,                \* what the hub knows of each: "owed", "sent", "done"
    cursor,             \* the client's saved cursor
    pos,                \* the last event it has processed
    page,               \* the events of its last poll still to be processed
    published,          \* history: the key of every event, by seq
    taken,              \* history: the seqs the client processed
    mishaps

store  == <<feed, high, acked>>
client == <<cursor, pos, page, taken>>
vars   == <<store, storeLock, job, hub, client, published, mishaps>>

Feed == INSTANCE EventFeed

\* heard: the hub is still waiting for the answer.
NoJob == [stage |-> "idle", notice |-> None, left |-> <<>>, heard |-> FALSE]

Init ==
    /\ Feed!Init
    /\ storeLock = None
    /\ job = [w \in Worker |-> NoJob]
    /\ hub = [n \in Notice |-> "owed"]
    /\ cursor = 0 /\ pos = 0 /\ page = {}
    /\ published = <<>> /\ taken = {}
    /\ mishaps = 0

-----------------------------------------------------------------------------
(* handle_notify *)

\* A bad signature is answered 204 like a good one, and nothing is stored.
AnySignature(n) == TRUE
Verified(n)     == n \notin Forged

Deliver(w, n) ==
    /\ job[w].stage = "idle" /\ hub[n] = "owed"
    /\ hub' = [hub EXCEPT ![n] = "sent"]
    /\ job' = [job EXCEPT ![w] =
                [stage |-> IF Verified(n) THEN "lock" ELSE "answer", notice |-> n,
                 left |-> IF Verified(n) THEN Entries[n] ELSE <<>>, heard |-> TRUE]]
    /\ UNCHANGED <<store, storeLock, client, published, mishaps>>

LockStore(w) ==
    /\ job[w].stage = "lock" /\ storeLock = None
    /\ storeLock' = w
    /\ job' = [job EXCEPT ![w].stage = "append"]
    /\ UNCHANGED <<store, hub, client, published, mishaps>>

\* Memory holds the keys of the last Window events, or what compaction has
\* left of them when the process was restarted.
MaySuppress(k) ==
    \E s \in DOMAIN published : published[s] = k /\ s + Window > high

\* After an entry comes the next, whatever became of it.
LeftOne(left)   == <<>>
LeftAfter(left) == Tail(left)

\* The loop over the entries: each is a new event, a duplicate, or an error
\* that is only logged.
AppendEntry(w) ==
    /\ job[w].stage = "append" /\ job[w].left # <<>>
    /\ LET k == Head(job[w].left) IN
        \/ Feed!Publish(k) /\ published' = Append(published, k)
        \/ /\ MaySuppress(k) \/ "append" \in Faults
           /\ UNCHANGED <<store, published>>
    /\ job' = [job EXCEPT ![w].left = LeftAfter(@)]
    /\ UNCHANGED <<storeLock, hub, client, mishaps>>

\* The store's mutex after the loop.
StillHeldBy(w) == w
ReleasedBy(w)  == None

UnlockStore(w) ==
    /\ job[w].stage = "append" /\ job[w].left = <<>>
    /\ storeLock' = ReleasedBy(w)
    /\ job' = [job EXCEPT ![w].stage = "answer"]
    /\ UNCHANGED <<store, hub, client, published, mishaps>>

\* 204
Answer(w) ==
    /\ job[w].stage = "answer"
    /\ hub' = IF job[w].heard THEN [hub EXCEPT ![job[w].notice] = "done"] ELSE hub
    /\ job' = [job EXCEPT ![w] = NoJob]
    /\ UNCHANGED <<store, storeLock, client, published, mishaps>>

Mishap == mishaps < MaxMishaps /\ mishaps' = mishaps + 1

\* The hub's request times out or its answer is lost: it will send again, and
\* the worker goes on with what it was doing.
HubGivesUp(w) ==
    /\ Mishap
    /\ job[w].stage # "idle" /\ job[w].heard
    /\ hub' = [hub EXCEPT ![job[w].notice] = "owed"]
    /\ job' = [job EXCEPT ![w].heard = FALSE]
    /\ UNCHANGED <<store, storeLock, client, published>>

\* What was appended is in the log; the requests are gone.
Crash ==
    /\ Mishap
    /\ job' = [w \in Worker |-> NoJob] /\ storeLock' = None
    /\ hub' = [n \in Notice |-> IF hub[n] = "sent" THEN "owed" ELSE hub[n]]
    /\ UNCHANGED <<store, client, published>>

-----------------------------------------------------------------------------
(* The client, and the handlers that serve it under the store's mutex *)

\* GET /api/events: the first Page events above the cursor, in ascending order.
Newer(after) == {e.seq : e \in {e \in feed : e.seq > after}}
LatestEvents(after) ==
    {s \in Newer(after) : Cardinality({r \in Newer(after) : r >= s}) <= Page}
EventsAfter(after) ==
    {s \in Newer(after) : Cardinality({r \in Newer(after) : r <= s}) <= Page}

Poll ==
    /\ storeLock = None
    /\ page = {} /\ pos = cursor
    /\ page' = EventsAfter(cursor) /\ page' # {}
    /\ UNCHANGED <<store, storeLock, job, hub, cursor, pos, taken, published, mishaps>>

\* The client takes a page in its order.
Process ==
    /\ \E s \in page :
         /\ \A r \in page : s <= r
         /\ pos' = s /\ taken' = taken \union {s}
         /\ page' = page \ {s}
    /\ UNCHANGED <<store, storeLock, job, hub, cursor, published, mishaps>>

SaveCursor ==
    /\ page = {} /\ pos # cursor
    /\ cursor' = pos
    /\ UNCHANGED <<store, storeLock, job, hub, pos, page, taken, published, mishaps>>

\* POST /api/ack: set_ack refuses to go back.
Ack ==
    /\ storeLock = None
    /\ Feed!Ack(cursor)
    /\ UNCHANGED <<storeLock, job, hub, client, published, mishaps>>

ClientRestarts ==
    /\ Mishap
    /\ pos' = cursor /\ page' = {}
    /\ UNCHANGED <<store, storeLock, job, hub, cursor, taken, published>>

\* maybe_compact, on the renewal thread: n is the last seq it drops.
Horizon(n) ==
    /\ n + Margin <= acked \/ n + MaxRetained <= high
    /\ n + Margin >= acked /\ n + MaxRetained >= high

Compact ==
    /\ storeLock = None
    /\ \E n \in 1..high : Horizon(n) /\ Feed!Trim(n)
    /\ UNCHANGED <<storeLock, job, hub, client, published, mishaps>>

-----------------------------------------------------------------------------
Handle(w) == LockStore(w) \/ AppendEntry(w) \/ UnlockStore(w) \/ Answer(w)
Client    == Poll \/ Process \/ SaveCursor \/ Ack

Next ==
    \/ \E w \in Worker, n \in Notice : Deliver(w, n)
    \/ \E w \in Worker : Handle(w) \/ HubGivesUp(w)
    \/ Crash \/ Client \/ ClientRestarts \/ Compact

Spec == Init /\ [][Next]_vars

\* Workers run on, the hub sends what it is owed, the client keeps polling.
\* Nobody has to give up, crash or compact.
FairSpec ==
    /\ Spec
    /\ \A w \in Worker : WF_vars(Handle(w))
    /\ \A n \in Notice : WF_vars(\E w \in Worker : Deliver(w, n))
    /\ WF_vars(Client)

-----------------------------------------------------------------------------
(* Properties *)

TypeOK ==
    /\ Feed!TypeOK
    /\ storeLock \in Worker \union {None}
    /\ \A w \in Worker :
         /\ job[w].stage \in {"idle", "lock", "append", "answer"}
         /\ job[w].notice \in Notice \union {None}
         /\ job[w].left \in Seq(Key) /\ job[w].heard \in BOOLEAN
         /\ storeLock = w <=> job[w].stage = "append"
    /\ hub \in [Notice -> {"owed", "sent", "done"}]
    /\ cursor \in 0..high /\ pos \in cursor..high
    /\ page \subseteq 1..high
    /\ published \in Seq(Key) /\ Len(published) = high
    /\ taken \subseteq 1..high
    /\ mishaps \in 0..MaxMishaps

\* The keys of the events that were ever recorded.
Recorded == {published[s] : s \in DOMAIN published}

\* A notification that the hub has an answer for is in the log, all of it,
\* although two workers may have shared its entries and any of them may have
\* died (callback.rs:149-171): the hub will not send it again.
AnsweredIsStored ==
    \A n \in Notice \ Forged : hub[n] = "done" => ToSet(Entries[n]) \subseteq Recorded

\* No event comes from a notification that nobody signed (callback.rs:134-145).
OnlySignedIsStored ==
    \A k \in Recorded : \E n \in Notice \ Forged : k \in ToSet(Entries[n])

\* The client's cursor never passes an event it has not processed, unless that
\* event was too old to be retained: neither pages, nor its own restarts, nor
\* a compaction between two polls make it miss one (api.rs:81-111, store.rs).
CursorNeverSkips ==
    \A s \in 1..cursor : s \in taken \/ s + MaxRetained <= high

\* Whatever is lost, repeated or restarted, every entry of every signed
\* notification is processed by the client in the end, unless its event grew too
\* old first (README.md:191-195, at-least-once).
EveryNoticeArrives ==
    <>(\A n \in Notice \ Forged : \A k \in ToSet(Entries[n]) :
         \E s \in DOMAIN published :
           published[s] = k /\ (s \in taken \/ s + MaxRetained <= high))

=============================================================================
