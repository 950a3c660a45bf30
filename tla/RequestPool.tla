----------------------------- MODULE RequestPool ------------------------------
(***************************************************************************)
(* How the vendored tiny_http serves connections: the pool of workers that *)
(* run one connection each (util/task_pool.rs), the wait of a worker for   *)
(* the answer to the request it passed on (lib.rs, request.rs), the queue  *)
(* of requests (util/messages_queue.rs) and the threads of src/main.rs     *)
(* that answer them.                                                       *)
(*                                                                         *)
(* The pool's todo list is behind a mutex and every step that holds it is  *)
(* one action; active_tasks and waiting_tasks are counters that threads    *)
(* change as they go, waiting_tasks under the mutex only.                  *)
(*                                                                         *)
(* Abstractions.  Connections are TLS ones, whose worker waits for an      *)
(* answer before it reads on.  The text of a request is left out, but not  *)
(* whether its body was "buffered" (up to 1024 bytes) or is "held": read   *)
(* from the socket by whoever owns the request, who alone can give the     *)
(* socket's reader back.  A handler takes as long as it likes.             *)
(***************************************************************************)
EXTENDS Naturals, Sequences, FiniteSets, SequencesExt

CONSTANTS
    Thread,       \* threads the OS can give to the pool
    Handler,      \* cfg.workers threads
    Conn,         \* connections
    None,
    MinThreads,   \* MIN_THREADS
    MaxThreads,   \* MAX_THREADS
    MaxRequests,  \* bound: requests, on all connections
    MaxStuck,     \* bound: handlers that never return
    Hazards

\* "held": a body that is not buffered.  "late": the wait for an answer may end
\* before an answer that does come.
ASSUME PoolAssumption ==
    /\ MinThreads \in Nat \ {0} /\ MaxThreads \in Nat /\ MinThreads <= MaxThreads
    /\ MinThreads <= Cardinality(Thread)
    /\ MaxRequests \in Nat /\ MaxStuck \in Nat
    /\ Hazards \subseteq {"held", "late"}
    /\ IsFiniteSet(Thread) /\ None \notin Conn

VARIABLES
    th,        \* where each pool thread is
    conn,      \* the connection it has
    todo,      \* connections that wait for a thread
    accepted,  \* connections the accept thread has passed to spawn
    closed,    \* connections whose client object and receiver are gone
    req, body, \* the request of each connection, and its body
    messages,  \* requests that wait for a handler
    serving,   \* the request each handler has
    stuck,     \* handlers that will never return
    requests,  \* bound
    aborted    \* a thread panicked: panic=abort

pool     == <<th, conn, todo>>
clients  == <<accepted, closed>>
handlers == <<messages, serving, stuck>>
vars     == <<pool, clients, req, body, handlers, requests, aborted>>

\* Registered in active_tasks: from its first step to the end of its closure.
Active == {t \in Thread : th[t] \notin {"none", "new"}}

\* Registered in waiting_tasks: until it has the mutex back.
Waiting == {t \in Thread : th[t] \in {"wait", "timed", "woken", "expired"}}

\* TaskPool::new
Init ==
    /\ \E T \in SUBSET Thread :
         /\ Cardinality(T) = MinThreads
         /\ th = [t \in Thread |-> IF t \in T THEN "new" ELSE "none"]
    /\ conn = [t \in Thread |-> None] /\ todo = <<>>
    /\ accepted = {} /\ closed = {}
    /\ req = [c \in Conn |-> "none"] /\ body = [c \in Conn |-> "buffered"]
    /\ messages = <<>> /\ serving = [h \in Handler |-> None] /\ stuck = {}
    /\ requests = 0 /\ aborted = FALSE

-----------------------------------------------------------------------------
(* TaskPool::spawn, called by the accept thread for each connection *)

\* Condvar::notify_one
NotifyNobody == UNCHANGED th
NotifyOne ==
    LET asleep == {t \in Thread : th[t] \in {"wait", "timed"}} IN
    IF asleep = {} THEN UNCHANGED th
    ELSE \E t \in asleep : th' = [th EXCEPT ![t] = "woken"]

\* The OS refuses a thread when it has no more: the connection is dropped.
AddThread(c) ==
    LET free == {t \in Thread : th[t] = "none"} IN
    IF free = {} THEN closed' = closed \union {c} /\ UNCHANGED <<th, conn>>
    ELSE \E t \in free :
           /\ th' = [th EXCEPT ![t] = "new"]
           /\ conn' = [conn EXCEPT ![t] = c]
           /\ UNCHANGED closed

Accept(c) ==
    /\ c \notin accepted
    /\ accepted' = accepted \union {c}
    /\ \/ /\ Waiting = {} /\ Cardinality(Active) < MaxThreads
          /\ AddThread(c)
          /\ UNCHANGED todo
       \/ /\ ~(Waiting = {} /\ Cardinality(Active) < MaxThreads)
          /\ todo' = Append(todo, c)
          /\ NotifyOne
          /\ UNCHANGED <<conn, closed>>
    /\ UNCHANGED <<req, body, handlers, requests, aborted>>

-----------------------------------------------------------------------------
(* The loop of a pool thread *)

Goes(t, to) == th' = [th EXCEPT ![t] = to]

\* A thread that spawn created has its first task; those of TaskPool::new have none.
TaskFirst(t) == "serve"
FirstStep(t) == IF conn[t] = None THEN "ready" ELSE "serve"

Register(t) ==
    /\ th[t] = "new"
    /\ Goes(t, FirstStep(t))
    /\ UNCHANGED <<conn, todo, clients, req, body, handlers, requests, aborted>>

\* What pop_front leaves.
AllOfTodo  == todo
RestOfTodo == Tail(todo)

\* The thread has the mutex: it takes a task, or sleeps, or returns.
TakeTask(t) ==
    /\ th[t] \in {"ready", "woken", "expired"}
    /\ \/ /\ todo # <<>>
          /\ conn' = [conn EXCEPT ![t] = Head(todo)]
          /\ todo' = RestOfTodo
          /\ Goes(t, "serve")
       \/ /\ todo = <<>>
          /\ Goes(t, IF th[t] = "expired" THEN "exit"
                     ELSE IF Cardinality(Active) <= MinThreads THEN "wait" ELSE "timed")
          /\ UNCHANGED <<conn, todo>>
    /\ UNCHANGED <<clients, req, body, handlers, requests, aborted>>

\* wait_timeout times out.
Expire(t) ==
    /\ th[t] = "timed"
    /\ Goes(t, "expired")
    /\ UNCHANGED <<conn, todo, clients, req, body, handlers, requests, aborted>>

\* The guard of active_tasks is dropped when the mutex no longer is held.
Exit(t) ==
    /\ th[t] = "exit"
    /\ Goes(t, "none")
    /\ UNCHANGED <<conn, todo, clients, req, body, handlers, requests, aborted>>

-----------------------------------------------------------------------------
(* A connection: the closure that lib.rs gives to spawn *)

Bodies == {"buffered"} \union {b \in {"held"} : b \in Hazards}

ReadRequest(t) ==
    /\ th[t] = "serve"
    /\ requests < MaxRequests /\ requests' = requests + 1
    /\ \E b \in Bodies : body' = [body EXCEPT ![conn[t]] = b]
    /\ req' = [req EXCEPT ![conn[t]] = "queued"]
    /\ messages' = Append(messages, conn[t])
    /\ Goes(t, "recv")
    /\ UNCHANGED <<conn, todo, clients, serving, stuck, aborted>>

\* The client and the receiver are dropped and the closure returns.
Leave(t) ==
    /\ closed' = closed \union {conn[t]}
    /\ conn' = [conn EXCEPT ![t] = None]
    /\ Goes(t, "ready")

\* The client hangs up, sends nonsense, or says nothing for SOCKET_TIMEOUT.
HangUp(t) ==
    /\ th[t] = "serve"
    /\ Leave(t)
    /\ UNCHANGED <<todo, accepted, req, body, handlers, requests, aborted>>

Receive(t) ==
    /\ th[t] = "recv" /\ req[conn[t]] = "answered"
    /\ req' = [req EXCEPT ![conn[t]] = "none"]
    /\ Goes(t, "serve")
    /\ UNCHANGED <<conn, todo, clients, body, handlers, requests, aborted>>

\* Nobody is left who will answer c.
NeverAnswered(c) ==
    \/ \E h \in stuck : serving[h] = c
    \/ req[c] = "queued" /\ stuck = Handler

\* The 300 seconds of the wait are over.
WaitsForEver(c) == FALSE
WaitsNoTime(c)  == req[c] # "answered"
Overdue(c)      == req[c] # "answered" /\ (NeverAnswered(c) \/ "late" \in Hazards)

GiveUp(t) ==
    /\ th[t] = "recv" /\ Overdue(conn[t])
    /\ Goes(t, "drop")
    /\ UNCHANGED <<conn, todo, clients, req, body, handlers, requests, aborted>>

\* Dropping the client waits for the reader of its socket, which the request
\* has when its body is held.
Drop(t) ==
    /\ th[t] = "drop"
    /\ body[conn[t]] = "buffered" \/ req[conn[t]] = "answered"
    /\ Leave(t)
    /\ UNCHANGED <<todo, accepted, req, body, handlers, requests, aborted>>

-----------------------------------------------------------------------------
(* worker (main.rs) *)

Pop(h) ==
    /\ serving[h] = None /\ messages # <<>>
    /\ serving' = [serving EXCEPT ![h] = Head(messages)]
    /\ messages' = Tail(messages)
    /\ req' = [req EXCEPT ![Head(messages)] = "handled"]
    /\ UNCHANGED <<pool, clients, body, stuck, requests, aborted>>

GetStuck(h) ==
    /\ serving[h] # None /\ h \notin stuck
    /\ Cardinality(stuck) < MaxStuck
    /\ stuck' = stuck \union {h}
    /\ UNCHANGED <<pool, clients, req, body, messages, serving, requests, aborted>>

\* Request::respond: the unwrap of send panics when the receiver is gone.
Respond(h) ==
    /\ serving[h] # None /\ h \notin stuck
    /\ aborted' = (serving[h] \in closed)
    /\ req' = [req EXCEPT ![serving[h]] = "answered"]
    /\ serving' = [serving EXCEPT ![h] = None]
    /\ UNCHANGED <<pool, clients, body, messages, stuck, requests>>

-----------------------------------------------------------------------------
PoolStep(t) ==
    \/ Register(t) \/ TakeTask(t) \/ Exit(t)
    \/ HangUp(t) \/ Receive(t) \/ GiveUp(t) \/ Drop(t)

Next ==
    /\ ~aborted
    /\ \/ \E c \in Conn : Accept(c)
       \/ \E t \in Thread : PoolStep(t) \/ Expire(t) \/ ReadRequest(t)
       \/ \E h \in Handler : Pop(h) \/ GetStuck(h) \/ Respond(h)

Spec == Init /\ [][Next]_vars

\* Threads run on and sockets time out.  Nobody has to connect or to send a
\* request, and the timed wait of an idle thread may last.
FairSpec ==
    /\ Spec
    /\ \A t \in Thread : WF_vars(~aborted /\ PoolStep(t))
    /\ \A h \in Handler : WF_vars(~aborted /\ (Pop(h) \/ Respond(h)))

-----------------------------------------------------------------------------
(* Properties *)

TypeOK ==
    /\ th \in [Thread -> {"none", "new", "ready", "wait", "timed", "woken", "expired",
                          "exit", "serve", "recv", "drop"}]
    /\ conn \in [Thread -> Conn \union {None}]
    /\ \A t \in Thread : th[t] \in {"serve", "recv", "drop"} => conn[t] # None
    /\ todo \in Seq(Conn) /\ messages \in Seq(Conn)
    /\ accepted \subseteq Conn /\ closed \subseteq accepted
    /\ req \in [Conn -> {"none", "queued", "handled", "answered"}]
    /\ body \in [Conn -> {"buffered", "held"}]
    /\ serving \in [Handler -> Conn \union {None}] /\ stuck \subseteq Handler
    /\ requests \in 0..MaxRequests /\ aborted \in BOOLEAN

\* While a thread sleeps, every connection in the todo list has a thread of its
\* own on the way to the mutex: no wakeup is lost, although the thread that was
\* notified, one that has just finished and one whose wait has just timed out
\* may take each other's tasks (task_pool.rs:81-97, 115-146).
NoLostWakeup ==
    (\E t \in Thread : th[t] \in {"wait", "timed"}) =>
      Len(todo) <= Cardinality({t \in Thread : th[t] \in {"ready", "woken", "expired"}})

\* A connection is in one place: never served twice, nor closed while it is
\* served or waits (task_pool.rs:99-146, lib.rs:327-376).
OnePlace ==
    \A c \in Conn :
      LET threads == {t \in Thread : conn[t] = c}
          places  == {i \in DOMAIN todo : todo[i] = c} IN
      Cardinality(threads) + Cardinality(places)
        = IF c \in accepted /\ c \notin closed THEN 1 ELSE 0

\* A request that cannot be answered costs a connection, not the process
\* (README.md, "Denial-of-service resistance"; lib.rs:347-352).
NeverAborts == ~aborted

\* The thread waits for a request whose reader nobody will give back.
Eaten(t) == th[t] = "drop" /\ body[conn[t]] = "held" /\ NeverAnswered(conn[t])

\* The todo list has nobody to take from it: the exits of all threads were
\* under way when spawn counted them.
Stranded == \A t \in Thread : th[t] \in {"none", "exit"} \/ Eaten(t)

\* A thread that waits for an answer gets it or gives up, and is back in the
\* pool, whatever its handler does, unless the handler holds its socket.
WorkerReclaimed ==
    \A t \in Thread : []<>(th[t] \notin {"recv", "drop"} \/ Eaten(t))

\* A connection that was queued is served, unless the pool has no thread left.
QueuedIsServed ==
    \A c \in Conn : []<>(c \notin ToSet(todo) \/ Stranded)

\* No worker is lost to a request that never completes (README.md: "not a
\* permanently-eaten pool worker").
NoneEaten == \A t \in Thread : ~Eaten(t)

\* The todo list is not left to a pool without threads.
NeverStranded == todo # <<>> => ~Stranded

\* Below the ceiling a connection does not queue while every thread has one
\* (task_pool.rs:9, "a new thread is created every time all are full").
NoneQueuedBelowCeiling ==
    \E t \in Thread : th[t] \in {"new", "ready", "woken", "expired"}
    \/ todo = <<>> \/ Cardinality(Active) >= MaxThreads

=============================================================================
