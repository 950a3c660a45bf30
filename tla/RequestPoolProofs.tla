------------------------- MODULE RequestPoolProofs --------------------------
(***************************************************************************)
(* Proofs about RequestPool, for any number of threads, handlers and       *)
(* connections, and any bounds of the pool.                                *)
(*                                                                         *)
(* NoLostWakeup is inductive with the types alone.  OnePlace is Placed,    *)
(* said with cardinalities.  NeverAborts needs to know where a request can *)
(* be (Asked): one that nobody waits for will never be answered.           *)
(***************************************************************************)
EXTENDS RequestPool, FiniteSetTheorems, TLAPS

Stages == {"none", "new", "ready", "wait", "timed", "woken", "expired", "exit",
           "serve", "recv", "drop"}

\* TypeOK, and which threads have a connection.
Typed ==
    /\ th \in [Thread -> Stages]
    /\ conn \in [Thread -> Conn \union {None}]
    /\ \A t \in Thread :
         /\ th[t] \in {"serve", "recv", "drop"} => conn[t] \in Conn
         /\ conn[t] \in Conn => th[t] \in {"new", "serve", "recv", "drop"}
    /\ todo \in Seq(Conn) /\ messages \in Seq(Conn)
    /\ accepted \subseteq Conn /\ closed \subseteq Conn
    /\ req \in [Conn -> {"none", "queued", "handled", "answered"}]
    /\ body \in [Conn -> {"buffered", "held"}]
    /\ serving \in [Handler -> Conn \union {None}] /\ stuck \subseteq Handler

Asleep  == {t \in Thread : th[t] \in {"wait", "timed"}}
Enroute == {t \in Thread : th[t] \in {"ready", "woken", "expired"}}

Queued(c)  == \E i \in DOMAIN todo : todo[i] = c
HasIt(c)   == \E t \in Thread : conn[t] = c

\* A connection that is open has one thread or one place in the list.
Placed ==
    /\ closed \subseteq accepted
    /\ \A c \in Conn : HasIt(c) \/ Queued(c) <=> c \in accepted /\ c \notin closed
    /\ \A c \in Conn : ~(HasIt(c) /\ Queued(c))
    /\ \A t, u \in Thread : conn[t] = conn[u] /\ conn[t] \in Conn => t = u
    /\ \A i, j \in DOMAIN todo : todo[i] = todo[j] => i = j

Waited(c) == \E t \in Thread : th[t] = "recv" /\ conn[t] = c

\* The request of a connection is where its state says, once, and somebody
\* waits for its answer as long as there may be one.
Asked ==
    /\ \A h \in Handler : serving[h] \in Conn => req[serving[h]] = "handled"
    /\ \A h \in stuck : serving[h] \in Conn
    /\ \A g, h \in Handler : serving[g] = serving[h] /\ serving[g] \in Conn => g = h
    /\ \A i \in DOMAIN messages : req[messages[i]] = "queued"
    /\ \A i, j \in DOMAIN messages : messages[i] = messages[j] => i = j
    /\ \A c \in Conn : req[c] # "none" =>
         c \in closed \/ \E t \in Thread : conn[t] = c /\ th[t] \in {"recv", "drop"}
    /\ \A c \in Conn : req[c] \in {"queued", "handled"} => NeverAnswered(c) \/ Waited(c)

-----------------------------------------------------------------------------
(* Types *)

LEMMA HeadAndTail ==
    ASSUME NEW S, NEW s \in Seq(S), s # <<>>
    PROVE  /\ Len(s) \in Nat \ {0} /\ DOMAIN s = 1..Len(s)
           /\ Head(s) = s[1] /\ Head(s) \in S /\ Tail(s) \in Seq(S)
           /\ Len(Tail(s)) = Len(s) - 1 /\ DOMAIN Tail(s) = 1..(Len(s) - 1)
           /\ \A i \in 1..(Len(s) - 1) : Tail(s)[i] = s[i + 1]
<1>1. /\ Len(s) \in Nat \ {0} /\ DOMAIN s = 1..Len(s)
      /\ Head(s) = s[1] /\ Head(s) \in S /\ Tail(s) \in Seq(S)
  OBVIOUS
<1>2. Len(Tail(s)) = Len(s) - 1 /\ \A i \in 1..(Len(s) - 1) : Tail(s)[i] = s[i + 1]
  OBVIOUS
<1>3. DOMAIN Tail(s) = 1..(Len(s) - 1)
  BY <1>1, <1>2
<1> QED BY <1>1, <1>2, <1>3

LEMMA AppendOne ==
    ASSUME NEW S, NEW s \in Seq(S), NEW x \in S
    PROVE  /\ Append(s, x) \in Seq(S) /\ Len(s) \in Nat /\ DOMAIN s = 1..Len(s)
           /\ Len(Append(s, x)) = Len(s) + 1 /\ DOMAIN Append(s, x) = 1..(Len(s) + 1)
           /\ \A i \in 1..Len(s) : Append(s, x)[i] = s[i]
           /\ Append(s, x)[Len(s) + 1] = x
<1>1. /\ Append(s, x) \in Seq(S) /\ Len(s) \in Nat /\ DOMAIN s = 1..Len(s)
      /\ Len(Append(s, x)) = Len(s) + 1
      /\ \A i \in 1..Len(s) : Append(s, x)[i] = s[i]
      /\ Append(s, x)[Len(s) + 1] = x
  OBVIOUS
<1>2. DOMAIN Append(s, x) = 1..(Len(s) + 1)
  BY <1>1
<1> QED BY <1>1, <1>2

LEMMA TypedInit == Init => Typed
<1> SUFFICES ASSUME Init PROVE Typed
  OBVIOUS
<1>1. PICK T \in SUBSET Thread : th = [t \in Thread |-> IF t \in T THEN "new" ELSE "none"]
  BY DEF Init
<1>2. th \in [Thread -> Stages]
  BY <1>1 DEF Stages
<1>3. <<>> \in Seq(Conn)
  OBVIOUS
<1> QED BY <1>1, <1>2, <1>3, PoolAssumption DEF Init, Typed

\* What a step does to th alone.
LEMMA Notified ==
    ASSUME Typed, NotifyOne
    PROVE  /\ th' \in [Thread -> Stages]
           /\ \/ Asleep = {} /\ th' = th
              \/ \E t \in Asleep : th' = [th EXCEPT ![t] = "woken"]
           /\ \A t \in Thread : th[t] \in {"new", "serve", "recv", "drop"} => th'[t] = th[t]
           /\ \A t \in Thread : th'[t] \in {"serve", "recv", "drop"} => th'[t] = th[t]
<1>1. CASE Asleep = {}
  <2>1. th' = th
    BY <1>1 DEF NotifyOne, Asleep
  <2> QED BY <1>1, <2>1 DEF Typed
<1>2. CASE Asleep # {}
  <2> PICK t \in Asleep : th' = [th EXCEPT ![t] = "woken"]
    BY <1>2 DEF NotifyOne, Asleep
  <2> QED BY DEF Typed, Stages, Asleep
<1> QED BY <1>1, <1>2

LEMMA TypedStep == Typed /\ [Next]_vars => Typed'
<1> SUFFICES ASSUME Typed, [Next]_vars PROVE Typed'
  OBVIOUS
<1> USE PoolAssumption DEF Typed, Stages
<1>1. ASSUME NEW c \in Conn, Accept(c) PROVE Typed'
  <2>1. CASE AddThread(c) /\ UNCHANGED todo
    <3>1. CASE \E t \in Thread : th[t] = "none"
      <4> PICK t \in Thread : /\ th[t] = "none" /\ th' = [th EXCEPT ![t] = "new"]
                              /\ conn' = [conn EXCEPT ![t] = c] /\ UNCHANGED closed
        BY <2>1, <3>1 DEF AddThread
      <4> QED BY <1>1, <2>1 DEF Accept, handlers
    <3>2. CASE ~\E t \in Thread : th[t] = "none"
      <4>1. closed' = closed \union {c} /\ UNCHANGED <<th, conn>>
        BY <2>1, <3>2 DEF AddThread
      <4> QED BY <1>1, <2>1, <4>1 DEF Accept, handlers
    <3> QED BY <3>1, <3>2
  <2>2. CASE todo' = Append(todo, c) /\ NotifyOne /\ UNCHANGED <<conn, closed>>
    <3>1. todo' \in Seq(Conn)
      BY <2>2, AppendOne
    <3> QED BY <1>1, <2>2, <3>1, Notified DEF Accept, handlers
  <2> QED BY <1>1, <2>1, <2>2 DEF Accept
<1>2. ASSUME NEW t \in Thread, Register(t) PROVE Typed'
  BY <1>2 DEF Register, FirstStep, Goes, clients, handlers
<1>3. ASSUME NEW t \in Thread, TakeTask(t) PROVE Typed'
  <2>1. CASE todo # <<>>
    <3>1. Head(todo) \in Conn /\ Tail(todo) \in Seq(Conn)
      BY <2>1, HeadAndTail
    <3>2. /\ th' = [th EXCEPT ![t] = "serve"] /\ conn' = [conn EXCEPT ![t] = Head(todo)]
          /\ todo' = Tail(todo)
      BY <1>3, <2>1 DEF TakeTask, Goes, RestOfTodo
    <3> QED BY <1>3, <3>1, <3>2 DEF TakeTask, clients, handlers
  <2>2. CASE todo = <<>>
    BY <1>3, <2>2 DEF TakeTask, Goes, clients, handlers
  <2> QED BY <2>1, <2>2
<1>4. ASSUME NEW t \in Thread, Expire(t) \/ Exit(t) PROVE Typed'
  BY <1>4 DEF Expire, Exit, Goes, clients, handlers
<1>5. ASSUME NEW t \in Thread, ReadRequest(t) PROVE Typed'
  <2>1. conn[t] \in Conn
    BY <1>5 DEF ReadRequest
  <2>2. messages' \in Seq(Conn)
    BY <1>5, <2>1, AppendOne DEF ReadRequest
  <2>3. body' \in [Conn -> {"buffered", "held"}]
    BY <1>5 DEF ReadRequest, Bodies
  <2> QED BY <1>5, <2>1, <2>2, <2>3 DEF ReadRequest, Goes, clients
<1>6. ASSUME NEW t \in Thread, HangUp(t) \/ Drop(t) PROVE Typed'
  <2>1. conn[t] \in Conn
    BY <1>6 DEF HangUp, Drop
  <2>2. /\ th' = [th EXCEPT ![t] = "ready"] /\ conn' = [conn EXCEPT ![t] = None]
        /\ closed' = closed \union {conn[t]}
        /\ UNCHANGED <<todo, accepted, req, body, handlers>>
    BY <1>6 DEF HangUp, Drop, Leave, Goes
  <2> QED BY <2>1, <2>2 DEF handlers
<1>7. ASSUME NEW t \in Thread, Receive(t) \/ GiveUp(t) PROVE Typed'
  BY <1>7 DEF Receive, GiveUp, Goes, clients, handlers
<1>8. ASSUME NEW h \in Handler, Pop(h) PROVE Typed'
  <2>1. Head(messages) \in Conn /\ Tail(messages) \in Seq(Conn)
    BY <1>8, HeadAndTail DEF Pop
  <2> QED BY <1>8, <2>1 DEF Pop, pool, clients
<1>9. ASSUME NEW h \in Handler, GetStuck(h) \/ Respond(h) PROVE Typed'
  BY <1>9 DEF GetStuck, Respond, pool, clients
<1>10. CASE UNCHANGED vars
  BY <1>10 DEF vars, pool, clients, handlers
<1> QED BY <1>1, <1>2, <1>3, <1>4, <1>5, <1>6, <1>7, <1>8, <1>9, <1>10 DEF Next, PoolStep

-----------------------------------------------------------------------------
(* Wakeups *)

\* More threads on their way, none of them leaving.
LEMMA MoreEnroute ==
    ASSUME Enroute \subseteq Enroute'
    PROVE  /\ IsFiniteSet(Enroute) /\ IsFiniteSet(Enroute')
           /\ Cardinality(Enroute) \in Nat /\ Cardinality(Enroute') \in Nat
           /\ Cardinality(Enroute) <= Cardinality(Enroute')
<1>1. Enroute \subseteq Thread /\ Enroute' \subseteq Thread
  BY DEF Enroute
<1>2. IsFiniteSet(Enroute) /\ IsFiniteSet(Enroute')
  BY <1>1, FS_Subset, PoolAssumption
<1> QED BY <1>2, FS_Subset, FS_CardinalityType

LEMMA WakeupStep == Typed /\ NoLostWakeup /\ [Next]_vars => NoLostWakeup'
<1> SUFFICES ASSUME Typed, NoLostWakeup, [Next]_vars, Asleep' # {}
             PROVE  Len(todo') <= Cardinality(Enroute')
  BY DEF NoLostWakeup, Asleep, Enroute
<1>u. Asleep # {} => Len(todo) <= Cardinality(Enroute)
  BY DEF NoLostWakeup, Asleep, Enroute
<1>t. Len(todo) \in Nat
  BY DEF Typed
<1>0. ASSUME todo' = todo, Asleep' \subseteq Asleep, Enroute \subseteq Enroute'
      PROVE  Len(todo') <= Cardinality(Enroute')
  BY <1>0, <1>u, <1>t, MoreEnroute
<1>1. ASSUME NEW c \in Conn, Accept(c) PROVE Len(todo') <= Cardinality(Enroute')
  <2>1. CASE AddThread(c) /\ UNCHANGED todo
    <3>1. th' = th \/ \E t \in Thread : th[t] = "none" /\ th' = [th EXCEPT ![t] = "new"]
      BY <2>1 DEF AddThread
    <3>2. Asleep' \subseteq Asleep /\ Enroute \subseteq Enroute'
      BY <3>1 DEF Asleep, Enroute, Typed
    <3> QED BY <1>0, <2>1, <3>2
  <2>2. CASE todo' = Append(todo, c) /\ NotifyOne
    <3>1. Asleep # {}
      BY <2>2, Notified DEF Asleep
    <3> PICK t \in Asleep : th' = [th EXCEPT ![t] = "woken"]
      BY <2>2, <3>1, Notified
    <3>2. Enroute' = Enroute \union {t} /\ t \notin Enroute
      BY DEF Enroute, Asleep, Typed
    <3>3. Cardinality(Enroute') = Cardinality(Enroute) + 1
      BY <3>2, MoreEnroute, FS_AddElement
    <3>4. Len(todo') = Len(todo) + 1
      BY <2>2, AppendOne DEF Typed
    <3> QED BY <1>u, <1>t, <3>1, <3>2, <3>3, <3>4, MoreEnroute
  <2> QED BY <1>1, <2>1, <2>2 DEF Accept
<1>2. ASSUME NEW t \in Thread, TakeTask(t) PROVE Len(todo') <= Cardinality(Enroute')
  <2>1. CASE todo # <<>>
    <3>1. /\ th' = [th EXCEPT ![t] = "serve"] /\ todo' = Tail(todo)
          /\ th[t] \in {"ready", "woken", "expired"}
      BY <1>2, <2>1 DEF TakeTask, Goes, RestOfTodo
    <3>2. Asleep' = Asleep /\ Enroute' = Enroute \ {t} /\ t \in Enroute
      BY <3>1 DEF Asleep, Enroute, Typed
    <3>3. Enroute \subseteq Thread
      BY DEF Enroute
    <3>4. IsFiniteSet(Enroute) /\ Cardinality(Enroute) \in Nat
      BY <3>3, PoolAssumption, FS_Subset, FS_CardinalityType
    <3>5. Cardinality(Enroute') = Cardinality(Enroute) - 1
      BY <3>2, <3>4, FS_RemoveElement
    <3>6. Len(todo') = Len(todo) - 1
      BY <2>1, <3>1, HeadAndTail DEF Typed
    <3> QED BY <1>u, <1>t, <3>2, <3>4, <3>5, <3>6
  <2>2. CASE todo = <<>>
    <3>1. Len(todo') = 0
      BY <1>2, <2>2 DEF TakeTask
    <3>2. Enroute' \subseteq Thread
      BY DEF Enroute
    <3>3. Cardinality(Enroute') \in Nat
      BY <3>2, PoolAssumption, FS_Subset, FS_CardinalityType
    <3> QED BY <3>1, <3>3
  <2> QED BY <2>1, <2>2
<1>3. ASSUME NEW t \in Thread,
             Register(t) \/ Expire(t) \/ Exit(t) \/ ReadRequest(t)
             \/ HangUp(t) \/ Receive(t) \/ GiveUp(t) \/ Drop(t)
      PROVE  Len(todo') <= Cardinality(Enroute')
  <2>1. /\ todo' = todo /\ th[t] \in {"new", "timed", "exit", "serve", "recv", "drop"}
        /\ \E to \in {"ready", "serve", "expired", "none", "recv", "drop"} :
             th' = [th EXCEPT ![t] = to]
    BY <1>3 DEF Register, FirstStep, Expire, Exit, ReadRequest, HangUp, Receive, GiveUp,
                Drop, Leave, Goes
  <2>2. Asleep' \subseteq Asleep /\ Enroute \subseteq Enroute'
    BY <2>1 DEF Asleep, Enroute, Typed
  <2> QED BY <1>0, <2>1, <2>2
<1>4. ASSUME UNCHANGED pool PROVE Len(todo') <= Cardinality(Enroute')
  BY <1>0, <1>4 DEF pool, Asleep, Enroute
<1>5. ASSUME NEW h \in Handler, Pop(h) \/ GetStuck(h) \/ Respond(h)
      PROVE  Len(todo') <= Cardinality(Enroute')
  BY <1>4, <1>5 DEF Pop, GetStuck, Respond
<1> QED BY <1>1, <1>2, <1>3, <1>4, <1>5 DEF Next, PoolStep, vars

\* While a thread sleeps, every connection in the todo list has a thread of its
\* own on the way to the mutex: for any number of threads, no wakeup is lost
\* (task_pool.rs:81-97, 115-146).
THEOREM NoLostWakeupAlways == Spec => []NoLostWakeup
<1>1. Init => NoLostWakeup
  BY DEF Init, NoLostWakeup
<1> QED BY <1>1, TypedInit, TypedStep, WakeupStep, PTL DEF Spec

-----------------------------------------------------------------------------
(* Places *)

LEMMA PlacedInit == Init => Placed
<1> SUFFICES ASSUME Init PROVE Placed
  OBVIOUS
<1>1. /\ conn = [t \in Thread |-> None] /\ todo = <<>> /\ accepted = {} /\ closed = {}
  BY DEF Init
<1>2. \A c \in Conn : ~HasIt(c) /\ ~Queued(c)
  BY <1>1, PoolAssumption DEF HasIt, Queued
<1> QED BY <1>1, <1>2, PoolAssumption DEF Placed

\* The state of conn and todo is all that Placed is about.
LEMMA PlacedKept ==
    ASSUME Placed, UNCHANGED <<conn, todo, accepted, closed>> PROVE Placed'
BY DEF Placed, HasIt, Queued

LEMMA PlacedStep == Typed /\ Placed /\ [Next]_vars => Placed'
<1> SUFFICES ASSUME Typed, Placed, [Next]_vars PROVE Placed'
  OBVIOUS
<1> USE PoolAssumption DEF Typed
<1>1. ASSUME NEW c \in Conn, Accept(c) PROVE Placed'
  <2>1. /\ c \notin accepted /\ accepted' = accepted \union {c}
        /\ c \notin closed /\ ~HasIt(c) /\ ~Queued(c)
    BY <1>1 DEF Accept, Placed
  <2>2. CASE AddThread(c) /\ UNCHANGED todo
    <3>1. CASE \E t \in Thread : th[t] = "none"
      <4> PICK t \in Thread : /\ th[t] = "none"
                              /\ conn' = [conn EXCEPT ![t] = c] /\ UNCHANGED closed
        BY <2>2, <3>1 DEF AddThread
      <4>1. conn[t] = None
        OBVIOUS
      <4>2. \A d \in Conn : Queued(d)' <=> Queued(d)
        BY <2>2 DEF Queued
      <4>3. \A d \in Conn : HasIt(d)' <=> d = c \/ HasIt(d)
        BY <4>1 DEF HasIt
      <4>4. \A u, v \in Thread : conn'[u] = conn'[v] /\ conn'[u] \in Conn => u = v
        BY <2>1 DEF HasIt, Placed
      <4> QED BY <2>1, <2>2, <4>2, <4>3, <4>4 DEF Placed
    <3>2. CASE ~\E t \in Thread : th[t] = "none"
      <4>1. closed' = closed \union {c} /\ UNCHANGED conn
        BY <2>2, <3>2 DEF AddThread
      <4> QED BY <2>1, <2>2, <4>1 DEF Placed, HasIt, Queued
    <3> QED BY <3>1, <3>2
  <2>3. CASE todo' = Append(todo, c) /\ UNCHANGED <<conn, closed>>
    <3>0. /\ Len(todo) \in Nat /\ DOMAIN todo = 1..Len(todo)
          /\ DOMAIN todo' = 1..(Len(todo) + 1) /\ todo'[Len(todo) + 1] = c
          /\ \A i \in 1..Len(todo) : todo'[i] = todo[i]
      BY <2>3, AppendOne
    <3>1. \A d \in Conn : Queued(d)' <=> d = c \/ Queued(d)
      <4> TAKE d \in Conn
      <4>1. ASSUME Queued(d)' PROVE d = c \/ Queued(d)
        <5> PICK i \in DOMAIN todo' : todo'[i] = d
          BY <4>1 DEF Queued
        <5>1. i = Len(todo) + 1 \/ i \in 1..Len(todo)
          BY <3>0
        <5> QED BY <3>0, <5>1 DEF Queued
      <4>2. Queued(c)'
        <5>1. Len(todo) + 1 \in DOMAIN todo'
          BY <3>0
        <5> QED BY <3>0, <5>1 DEF Queued
      <4>3. ASSUME Queued(d) PROVE Queued(d)'
        <5> PICK i \in DOMAIN todo : todo[i] = d
          BY <4>3 DEF Queued
        <5>1. i \in DOMAIN todo' /\ todo'[i] = d
          BY <3>0
        <5> QED BY <5>1 DEF Queued
      <4> QED BY <4>1, <4>2, <4>3
    <3>2. \A i, j \in DOMAIN todo' : todo'[i] = todo'[j] => i = j
      BY <2>1, <2>3, AppendOne DEF Queued, Placed
    <3>3. \A d \in Conn : HasIt(d)' <=> HasIt(d)
      BY <2>3 DEF HasIt
    <3> QED BY <2>1, <2>3, <3>1, <3>2, <3>3 DEF Placed
  <2> QED BY <1>1, <2>2, <2>3 DEF Accept
<1>2. ASSUME NEW t \in Thread, TakeTask(t) PROVE Placed'
  <2>1. CASE todo # <<>>
    <3> PICK c \in Conn : c = Head(todo)
      BY <2>1, HeadAndTail
    <3>1. /\ conn' = [conn EXCEPT ![t] = c] /\ todo' = Tail(todo)
          /\ UNCHANGED <<accepted, closed>> /\ conn[t] = None
      BY <1>2, <2>1 DEF TakeTask, RestOfTodo, clients
    <3>2. /\ Len(todo) \in Nat \ {0} /\ DOMAIN todo = 1..Len(todo)
          /\ c = todo[1] /\ c \in Conn /\ DOMAIN todo' = 1..(Len(todo) - 1)
          /\ \A i \in 1..(Len(todo) - 1) : todo'[i] = todo[i + 1]
      BY <2>1, <3>1, HeadAndTail
    <3>3. Queued(c) /\ ~HasIt(c) /\ c \in accepted /\ c \notin closed
      <4>1. 1 \in DOMAIN todo /\ todo[1] = c
        BY <3>2
      <4>2. Queued(c)
        BY <4>1 DEF Queued
      <4> QED BY <4>2 DEF Placed
    <3>4. \A d \in Conn : HasIt(d)' <=> d = c \/ HasIt(d)
      BY <3>1, <3>2 DEF HasIt
    <3>5. ~Queued(c)'
      <4> SUFFICES ASSUME NEW i \in DOMAIN todo', todo'[i] = c PROVE FALSE
        BY DEF Queued
      <4>1. i + 1 \in DOMAIN todo /\ 1 \in DOMAIN todo /\ todo[i + 1] = todo[1] /\ i + 1 # 1
        BY <3>2
      <4> QED BY <4>1 DEF Placed
    <3>6. \A d \in Conn : d # c => (Queued(d)' <=> Queued(d))
      <4> TAKE d \in Conn
      <4>1. ASSUME d # c, Queued(d) PROVE Queued(d)'
        <5> PICK i \in DOMAIN todo : todo[i] = d
          BY <4>1 DEF Queued
        <5>1. i - 1 \in DOMAIN todo' /\ todo'[i - 1] = d
          BY <3>2, <4>1
        <5> QED BY <5>1 DEF Queued
      <4>2. ASSUME Queued(d)' PROVE Queued(d)
        <5> PICK i \in DOMAIN todo' : todo'[i] = d
          BY <4>2 DEF Queued
        <5>1. i + 1 \in DOMAIN todo /\ todo[i + 1] = d
          BY <3>2
        <5> QED BY <5>1 DEF Queued
      <4> QED BY <4>1, <4>2
    <3>7. \A i, j \in DOMAIN todo' : todo'[i] = todo'[j] => i = j
      <4> SUFFICES ASSUME NEW i \in DOMAIN todo', NEW j \in DOMAIN todo', todo'[i] = todo'[j]
                   PROVE  i = j
        OBVIOUS
      <4>1. /\ i + 1 \in DOMAIN todo /\ j + 1 \in DOMAIN todo
            /\ todo[i + 1] = todo[j + 1] /\ i \in Nat /\ j \in Nat
        BY <3>2
      <4>2. i + 1 = j + 1
        BY <4>1 DEF Placed
      <4> QED BY <4>1, <4>2
    <3>8. \A u, v \in Thread : conn'[u] = conn'[v] /\ conn'[u] \in Conn => u = v
      BY <3>1, <3>3 DEF HasIt, Placed
    <3>9. ASSUME NEW d \in Conn
          PROVE  /\ HasIt(d)' \/ Queued(d)' <=> d \in accepted /\ d \notin closed
                 /\ ~(HasIt(d)' /\ Queued(d)')
      <4>1. CASE d = c
        BY <3>3, <3>4, <3>5, <4>1
      <4>2. CASE d # c
        BY <3>4, <3>6, <4>2 DEF Placed
      <4> QED BY <4>1, <4>2
    <3> QED BY <3>1, <3>7, <3>8, <3>9 DEF Placed
  <2>2. CASE todo = <<>>
    <3>1. UNCHANGED <<conn, todo, accepted, closed>>
      BY <1>2, <2>2 DEF TakeTask, clients
    <3> QED BY <3>1, PlacedKept
  <2> QED BY <2>1, <2>2
<1>3. ASSUME NEW t \in Thread, HangUp(t) \/ Drop(t) PROVE Placed'
  <2>1. /\ conn[t] \in Conn /\ conn' = [conn EXCEPT ![t] = None]
        /\ closed' = closed \union {conn[t]} /\ UNCHANGED <<todo, accepted>>
    BY <1>3 DEF HangUp, Drop, Leave
  <2>2. HasIt(conn[t]) /\ ~Queued(conn[t])
    BY <2>1 DEF HasIt, Placed
  <2>3. \A d \in Conn : HasIt(d)' <=> d # conn[t] /\ HasIt(d)
    BY <2>1 DEF HasIt, Placed
  <2>4. \A d \in Conn : Queued(d)' <=> Queued(d)
    BY <2>1 DEF Queued
  <2> QED BY <2>1, <2>2, <2>3, <2>4 DEF Placed
<1>4. ASSUME NEW t \in Thread,
             \/ Register(t) \/ Expire(t) \/ Exit(t) \/ ReadRequest(t)
             \/ Receive(t) \/ GiveUp(t)
      PROVE  Placed'
  BY <1>4, PlacedKept DEF Register, Expire, Exit, ReadRequest, Receive, GiveUp, clients
<1>5. ASSUME NEW h \in Handler, Pop(h) \/ GetStuck(h) \/ Respond(h) PROVE Placed'
  BY <1>5, PlacedKept DEF Pop, GetStuck, Respond, pool, clients
<1>6. CASE UNCHANGED vars
  BY <1>6, PlacedKept DEF vars, pool, clients
<1> QED BY <1>1, <1>2, <1>3, <1>4, <1>5, <1>6 DEF Next, PoolStep

\* A set with at most one element is counted by whether it has one.
LEMMA AtMostOne ==
    ASSUME NEW S, \A x, y \in S : x = y
    PROVE  Cardinality(S) = IF S = {} THEN 0 ELSE 1
<1>1. CASE S = {}
  BY <1>1, FS_EmptySet
<1>2. CASE S # {}
  <2> PICK x : x \in S
    BY <1>2
  <2>1. S = {x}
    OBVIOUS
  <2> QED BY <2>1, FS_Singleton
<1> QED BY <1>1, <1>2

LEMMA PlacedIsOnePlace == Typed /\ Placed => OnePlace
<1> SUFFICES ASSUME Typed, Placed, NEW c \in Conn
             PROVE  Cardinality({t \in Thread : conn[t] = c})
                      + Cardinality({i \in DOMAIN todo : todo[i] = c})
                    = IF c \in accepted /\ c \notin closed THEN 1 ELSE 0
  BY DEF OnePlace
<1> DEFINE threads == {t \in Thread : conn[t] = c}
           places  == {i \in DOMAIN todo : todo[i] = c}
<1>1. Cardinality(threads) = IF HasIt(c) THEN 1 ELSE 0
  <2>1. \A t, u \in threads : t = u
    BY DEF Placed
  <2>2. threads = {} <=> ~HasIt(c)
    BY DEF HasIt
  <2> QED BY <2>1, <2>2, AtMostOne
<1>2. Cardinality(places) = IF Queued(c) THEN 1 ELSE 0
  <2>1. \A i, j \in places : i = j
    BY DEF Placed
  <2>2. places = {} <=> ~Queued(c)
    BY DEF Queued
  <2> QED BY <2>1, <2>2, AtMostOne
<1>3. /\ HasIt(c) \/ Queued(c) <=> c \in accepted /\ c \notin closed
      /\ ~(HasIt(c) /\ Queued(c))
  BY DEF Placed
<1> HIDE DEF threads, places
<1>4. Cardinality(threads) + Cardinality(places)
        = IF c \in accepted /\ c \notin closed THEN 1 ELSE 0
  BY <1>1, <1>2, <1>3
<1> QED BY <1>4 DEF threads, places

\* A connection is in one place: never served twice, nor closed while it is
\* served or waits (task_pool.rs:99-146, lib.rs:327-376).
THEOREM OnePlaceAlways == Spec => []OnePlace
<1>1. Typed /\ Placed /\ [Next]_vars => Typed' /\ Placed'
  BY TypedStep, PlacedStep
<1> QED BY <1>1, TypedInit, PlacedInit, PlacedIsOnePlace, PTL DEF Spec

-----------------------------------------------------------------------------
(* Aborts *)

LEMMA AskedInit == Init => Asked
<1> SUFFICES ASSUME Init PROVE Asked
  OBVIOUS
<1>1. /\ messages = <<>> /\ req = [c \in Conn |-> "none"] /\ stuck = {}
      /\ serving = [h \in Handler |-> None]
  BY DEF Init
<1> QED BY <1>1, PoolAssumption DEF Asked

\* What Asked is about, apart from the threads, stays as it is.
LEMMA AskedKept ==
    ASSUME Asked, UNCHANGED <<req, messages, serving, stuck>>, closed \subseteq closed',
           \A t \in Thread : th[t] \in {"recv", "drop"} => th'[t] = th[t] /\ conn'[t] = conn[t]
    PROVE  Asked'
BY DEF Asked, NeverAnswered, Waited

\* A thread that has read no request serves a connection that has none.
LEMMA NoneBeforeRead ==
    ASSUME Placed, Asked, NEW t \in Thread, th[t] = "serve", conn[t] \in Conn
    PROVE  req[conn[t]] = "none"
<1>1. conn[t] \notin closed
  BY DEF Placed, HasIt
<1>2. \A u \in Thread : conn[u] = conn[t] => u = t
  BY DEF Placed
<1> QED BY <1>1, <1>2 DEF Asked

LEMMA AskedStep ==
    ASSUME "late" \notin Hazards, Typed, Placed, Asked, [Next]_vars
    PROVE  Asked'
<1> USE PoolAssumption DEF Typed
<1>1. ASSUME NEW c \in Conn, Accept(c) PROVE Asked'
  <2>1. \A t \in Thread : th[t] \in {"recv", "drop"} => th'[t] = th[t] /\ conn'[t] = conn[t]
    <3>1. CASE NotifyOne /\ UNCHANGED conn
      BY <3>1, Notified
    <3>2. CASE AddThread(c)
      BY <3>2 DEF AddThread
    <3> QED BY <1>1, <3>1, <3>2 DEF Accept
  <2>2. closed \subseteq closed' /\ UNCHANGED <<req, messages, serving, stuck>>
    BY <1>1 DEF Accept, AddThread, handlers
  <2> QED BY <2>1, <2>2, AskedKept
<1>2. ASSUME NEW t \in Thread, Register(t) \/ Expire(t) \/ Exit(t) \/ TakeTask(t) \/ HangUp(t)
      PROVE  Asked'
  <2>1. th[t] \notin {"recv", "drop"}
    BY <1>2 DEF Register, Expire, Exit, TakeTask, HangUp
  <2>2. \A u \in Thread : u # t => th'[u] = th[u] /\ conn'[u] = conn[u]
    BY <1>2 DEF Register, Expire, Exit, TakeTask, HangUp, Leave, Goes
  <2>3. closed \subseteq closed' /\ UNCHANGED <<req, messages, serving, stuck>>
    BY <1>2 DEF Register, Expire, Exit, TakeTask, HangUp, Leave, clients, handlers
  <2> QED BY <2>1, <2>2, <2>3, AskedKept
<1>3. ASSUME NEW t \in Thread, ReadRequest(t) PROVE Asked'
  <2> PICK c \in Conn : c = conn[t]
    BY <1>3 DEF ReadRequest
  <2>1. /\ req[c] = "none" /\ req' = [req EXCEPT ![c] = "queued"]
        /\ messages' = Append(messages, c) /\ th' = [th EXCEPT ![t] = "recv"]
        /\ UNCHANGED <<conn, closed, serving, stuck>> /\ th[t] = "serve"
    BY <1>3, NoneBeforeRead DEF ReadRequest, Goes, clients
  <2>2. /\ Len(messages) \in Nat /\ DOMAIN messages = 1..Len(messages)
        /\ DOMAIN messages' = 1..(Len(messages) + 1) /\ messages'[Len(messages) + 1] = c
        /\ \A i \in 1..Len(messages) : messages'[i] = messages[i] /\ messages[i] \in Conn
    BY <2>1, AppendOne
  <2>3. \A i \in DOMAIN messages : messages[i] # c
    BY <2>1 DEF Asked
  <2>4. \A i \in DOMAIN messages' : req'[messages'[i]] = "queued"
    BY <2>1, <2>2 DEF Asked
  <2>5. \A i, j \in DOMAIN messages' : messages'[i] = messages'[j] => i = j
    BY <2>2, <2>3 DEF Asked
  <2>6. \A h \in Handler : serving'[h] \in Conn => req'[serving'[h]] = "handled"
    BY <2>1 DEF Asked
  <2>7. ASSUME NEW d \in Conn, req'[d] # "none"
        PROVE  d \in closed' \/ \E u \in Thread : conn'[u] = d /\ th'[u] \in {"recv", "drop"}
    BY <2>1, <2>7 DEF Asked
  <2>8. ASSUME NEW d \in Conn, req'[d] \in {"queued", "handled"}
        PROVE  NeverAnswered(d)' \/ Waited(d)'
    <3>1. CASE d = c
      BY <2>1, <3>1 DEF Waited
    <3>2. CASE d # c
      BY <2>1, <2>8, <3>2 DEF Asked, NeverAnswered, Waited
    <3> QED BY <3>1, <3>2
  <2> QED BY <2>1, <2>4, <2>5, <2>6, <2>7, <2>8 DEF Asked
<1>4. ASSUME NEW t \in Thread, Receive(t) PROVE Asked'
  <2> PICK c \in Conn : c = conn[t]
    BY <1>4 DEF Receive
  <2>1. /\ req[c] = "answered" /\ req' = [req EXCEPT ![c] = "none"]
        /\ th[t] = "recv" /\ th' = [th EXCEPT ![t] = "serve"]
        /\ UNCHANGED <<conn, closed, messages, serving, stuck>>
    BY <1>4 DEF Receive, Goes, clients, handlers
  <2>2. \A h \in Handler : serving'[h] \in Conn => req'[serving'[h]] = "handled"
    BY <2>1 DEF Asked
  <2>3. \A i \in DOMAIN messages' : req'[messages'[i]] = "queued"
    BY <2>1 DEF Asked
  <2>4. ASSUME NEW d \in Conn, d # c, NEW u \in Thread, conn[u] = d PROVE th'[u] = th[u]
    BY <2>1, <2>4
  <2>5. ASSUME NEW d \in Conn, req'[d] # "none"
        PROVE  d \in closed' \/ \E u \in Thread : conn'[u] = d /\ th'[u] \in {"recv", "drop"}
    BY <2>1, <2>4, <2>5 DEF Asked
  <2>6. ASSUME NEW d \in Conn, req'[d] \in {"queued", "handled"}
        PROVE  NeverAnswered(d)' \/ Waited(d)'
    BY <2>1, <2>4, <2>6 DEF Asked, NeverAnswered, Waited
  <2> QED BY <2>1, <2>2, <2>3, <2>5, <2>6 DEF Asked
<1>5. ASSUME NEW t \in Thread, GiveUp(t) PROVE Asked'
  <2> PICK c \in Conn : c = conn[t]
    BY <1>5 DEF GiveUp
  <2>1. /\ th[t] = "recv" /\ th' = [th EXCEPT ![t] = "drop"] /\ NeverAnswered(c)
        /\ UNCHANGED <<conn, closed, req, messages, serving, stuck>>
    BY <1>5 DEF GiveUp, Overdue, Goes, clients, handlers
  <2>2. ASSUME NEW d \in Conn, req'[d] # "none"
        PROVE  d \in closed' \/ \E u \in Thread : conn'[u] = d /\ th'[u] \in {"recv", "drop"}
    BY <2>1, <2>2 DEF Asked
  <2>3. ASSUME NEW d \in Conn, req'[d] \in {"queued", "handled"}
        PROVE  NeverAnswered(d)' \/ Waited(d)'
    <3>1. CASE d = c
      BY <2>1, <3>1 DEF NeverAnswered
    <3>2. CASE d # c
      BY <2>1, <2>3, <3>2 DEF Asked, NeverAnswered, Waited
    <3> QED BY <3>1, <3>2
  <2> QED BY <2>1, <2>2, <2>3 DEF Asked
<1>6. ASSUME NEW t \in Thread, Drop(t) PROVE Asked'
  <2> PICK c \in Conn : c = conn[t]
    BY <1>6 DEF Drop
  <2>1. /\ th[t] = "drop" /\ th' = [th EXCEPT ![t] = "ready"]
        /\ conn' = [conn EXCEPT ![t] = None] /\ closed' = closed \union {c}
        /\ UNCHANGED <<req, messages, serving, stuck>>
    BY <1>6 DEF Drop, Leave, Goes, handlers
  <2>2. ASSUME NEW d \in Conn, req'[d] # "none"
        PROVE  d \in closed' \/ \E u \in Thread : conn'[u] = d /\ th'[u] \in {"recv", "drop"}
    BY <2>1, <2>2 DEF Asked
  <2>3. ASSUME NEW d \in Conn, req'[d] \in {"queued", "handled"}
        PROVE  NeverAnswered(d)' \/ Waited(d)'
    BY <2>1, <2>3 DEF Asked, NeverAnswered, Waited
  <2> QED BY <2>1, <2>2, <2>3 DEF Asked
<1>7. ASSUME NEW h \in Handler, Pop(h) PROVE Asked'
  <2>0. /\ serving[h] = None /\ messages # <<>>
        /\ serving' = [serving EXCEPT ![h] = Head(messages)] /\ messages' = Tail(messages)
        /\ req' = [req EXCEPT ![Head(messages)] = "handled"]
        /\ UNCHANGED <<th, conn, closed, stuck>>
    BY <1>7 DEF Pop, pool, clients
  <2> PICK c \in Conn : c = Head(messages)
    BY <2>0, HeadAndTail
  <2>1. /\ Len(messages) \in Nat \ {0} /\ DOMAIN messages = 1..Len(messages)
        /\ c = messages[1] /\ DOMAIN messages' = 1..(Len(messages) - 1)
        /\ \A i \in 1..(Len(messages) - 1) : messages'[i] = messages[i + 1]
                                             /\ messages'[i] \in Conn
    BY <2>0, HeadAndTail
  <2>2. req[c] = "queued"
    <3>1. 1 \in DOMAIN messages
      BY <2>1
    <3> QED BY <2>1, <3>1 DEF Asked
  <2>3. ASSUME NEW i \in DOMAIN messages' PROVE messages'[i] # c /\ req'[messages'[i]] = "queued"
    <3>1. /\ i + 1 \in DOMAIN messages /\ 1 \in DOMAIN messages /\ i + 1 # 1
          /\ messages'[i] = messages[i + 1]
      BY <2>1
    <3>2. messages'[i] # c /\ req[messages'[i]] = "queued"
      BY <2>1, <3>1 DEF Asked
    <3> QED BY <2>0, <2>1, <3>2
  <2>4. ASSUME NEW i \in DOMAIN messages', NEW j \in DOMAIN messages', messages'[i] = messages'[j]
        PROVE  i = j
    <3>1. /\ i + 1 \in DOMAIN messages /\ j + 1 \in DOMAIN messages
          /\ messages[i + 1] = messages[j + 1] /\ i \in Nat /\ j \in Nat
      BY <2>1, <2>4
    <3>2. i + 1 = j + 1
      BY <3>1 DEF Asked
    <3> QED BY <3>1, <3>2
  <2>5. h \notin stuck /\ \A g \in Handler : serving[g] # c
    BY <2>0, <2>2 DEF Asked
  <2>6. \A g \in Handler : serving'[g] \in Conn => req'[serving'[g]] = "handled"
    BY <2>0, <2>5 DEF Asked
  <2>7. \A g \in stuck' : serving'[g] \in Conn
    BY <2>0, <2>5 DEF Asked
  <2>8. \A g, k \in Handler : serving'[g] = serving'[k] /\ serving'[g] \in Conn => g = k
    BY <2>0, <2>5 DEF Asked
  <2>9. ASSUME NEW d \in Conn, req'[d] # "none"
        PROVE  d \in closed' \/ \E u \in Thread : conn'[u] = d /\ th'[u] \in {"recv", "drop"}
    BY <2>0, <2>2, <2>9 DEF Asked
  <2>10. ASSUME NEW d \in Conn, req'[d] \in {"queued", "handled"}
         PROVE  NeverAnswered(d)' \/ Waited(d)'
    <3>1. req[d] \in {"queued", "handled"}
      BY <2>0, <2>2, <2>10
    <3>2. CASE Waited(d)
      BY <2>0, <3>2 DEF Waited
    <3>3. CASE NeverAnswered(d)
      <4>1. \E g \in stuck : serving[g] = d
        BY <2>5, <3>3 DEF NeverAnswered
      <4> QED BY <2>0, <2>5, <4>1 DEF NeverAnswered
    <3> QED BY <3>1, <3>2, <3>3 DEF Asked
  <2> QED BY <2>3, <2>4, <2>6, <2>7, <2>8, <2>9, <2>10 DEF Asked
<1>8. ASSUME NEW h \in Handler, GetStuck(h) PROVE Asked'
  <2>1. /\ stuck' = stuck \union {h} /\ serving[h] \in Conn
        /\ UNCHANGED <<th, conn, closed, req, messages, serving>>
    BY <1>8 DEF GetStuck, pool, clients
  <2>2. \A c \in Conn : NeverAnswered(c) => NeverAnswered(c)'
    BY <2>1 DEF NeverAnswered
  <2> QED BY <2>1, <2>2 DEF Asked, Waited
<1>9. ASSUME NEW h \in Handler, Respond(h) PROVE Asked'
  <2> PICK c \in Conn : c = serving[h]
    BY <1>9 DEF Respond
  <2>1. /\ h \notin stuck /\ serving' = [serving EXCEPT ![h] = None]
        /\ req' = [req EXCEPT ![c] = "answered"] /\ req[c] = "handled"
        /\ UNCHANGED <<th, conn, closed, messages, stuck>>
    BY <1>9 DEF Respond, pool, clients, Asked
  <2>2. \A g \in Handler :
          serving'[g] \in Conn => g # h /\ serving'[g] = serving[g] /\ serving[g] # c
    BY <2>1 DEF Asked
  <2>3. \A g \in Handler : serving'[g] \in Conn => req'[serving'[g]] = "handled"
    BY <2>1, <2>2 DEF Asked
  <2>4. \A i \in DOMAIN messages' : req'[messages'[i]] = "queued"
    BY <2>1 DEF Asked
  <2>5. \A g \in stuck' : serving'[g] \in Conn
    BY <2>1 DEF Asked
  <2>6. ASSUME NEW d \in Conn, req'[d] # "none"
        PROVE  d \in closed' \/ \E u \in Thread : conn'[u] = d /\ th'[u] \in {"recv", "drop"}
    BY <2>1, <2>6 DEF Asked
  <2>7. ASSUME NEW d \in Conn, req'[d] \in {"queued", "handled"}
        PROVE  NeverAnswered(d)' \/ Waited(d)'
    BY <2>1, <2>7 DEF Asked, NeverAnswered, Waited
  <2> QED BY <2>1, <2>2, <2>3, <2>4, <2>5, <2>6, <2>7 DEF Asked
<1>10. CASE UNCHANGED vars
  BY <1>10, AskedKept DEF vars, pool, clients, handlers
<1> QED BY <1>1, <1>2, <1>3, <1>4, <1>5, <1>6, <1>7, <1>8, <1>9, <1>10 DEF Next, PoolStep

LEMMA AbortStep ==
    ASSUME Typed, Placed, Asked, NeverAborts, [Next]_vars PROVE NeverAborts'
<1> USE DEF NeverAborts
<1>1. ASSUME NEW h \in Handler, Respond(h) PROVE ~aborted'
  <2> PICK c \in Conn : c = serving[h]
    BY <1>1 DEF Respond, Typed
  <2>1. req[c] = "handled" /\ h \notin stuck
    BY <1>1 DEF Respond, Asked
  <2>2. ~NeverAnswered(c)
    BY <2>1 DEF NeverAnswered, Asked, Typed
  <2>3. Waited(c)
    BY <2>1, <2>2 DEF Asked
  <2>4. c \notin closed
    BY <2>3 DEF Waited, HasIt, Placed
  <2> QED BY <1>1, <2>4 DEF Respond
<1>2. ASSUME NEW c \in Conn, Accept(c) PROVE ~aborted'
  BY <1>2 DEF Accept
<1>3. ASSUME NEW t \in Thread, PoolStep(t) \/ Expire(t) \/ ReadRequest(t) PROVE ~aborted'
  BY <1>3 DEF PoolStep, Register, TakeTask, Exit, HangUp, Receive, GiveUp, Drop, Expire,
              ReadRequest
<1>4. ASSUME NEW h \in Handler, Pop(h) \/ GetStuck(h) PROVE ~aborted'
  BY <1>4 DEF Pop, GetStuck
<1> QED BY <1>1, <1>2, <1>3, <1>4 DEF Next, vars

\* A request that cannot be answered costs a connection, not the process, as
\* long as the wait for an answer ends before no answer that does come
\* (lib.rs:347-352): nobody responds to a receiver that is gone.
THEOREM NeverAbortsAlways == ASSUME "late" \notin Hazards PROVE Spec => []NeverAborts
<1> DEFINE Inv == Typed /\ Placed /\ Asked /\ NeverAborts
<1>1. Init => Inv
  BY TypedInit, PlacedInit, AskedInit DEF NeverAborts, Init
<1>2. Inv /\ [Next]_vars => Inv'
  BY TypedStep, PlacedStep, AskedStep, AbortStep
<1>3. Inv => NeverAborts
  OBVIOUS
<1> QED BY <1>1, <1>2, <1>3, PTL DEF Spec


-----------------------------------------------------------------------------
(* What is left of TypeOK *)

Bounded == requests \in 0..MaxRequests /\ aborted \in BOOLEAN

LEMMA BoundedStep == Bounded /\ [Next]_vars => Bounded'
<1> SUFFICES ASSUME Bounded, [Next]_vars PROVE Bounded'
  OBVIOUS
<1>1. ASSUME NEW t \in Thread, ReadRequest(t) PROVE Bounded'
  BY <1>1, PoolAssumption DEF ReadRequest, Bounded
<1>2. ASSUME NEW h \in Handler, Respond(h) PROVE Bounded'
  <2>1. UNCHANGED requests /\ aborted' \in BOOLEAN
    BY <1>2 DEF Respond
  <2> QED BY <2>1 DEF Bounded
<1>3. ASSUME NEW t \in Thread, PoolStep(t) \/ Expire(t) PROVE UNCHANGED <<requests, aborted>>
  BY <1>3 DEF PoolStep, Register, TakeTask, Exit, HangUp, Receive, GiveUp, Drop, Expire
<1>4. ASSUME NEW h \in Handler, Pop(h) \/ GetStuck(h) PROVE UNCHANGED <<requests, aborted>>
  BY <1>4 DEF Pop, GetStuck
<1>5. ASSUME NEW c \in Conn, Accept(c) PROVE UNCHANGED <<requests, aborted>>
  BY <1>5 DEF Accept
<1>6. UNCHANGED <<requests, aborted>> => Bounded'
  BY DEF Bounded
<1> QED BY <1>1, <1>2, <1>3, <1>4, <1>5, <1>6 DEF Next, vars

\* Every variable has its type; a thread that serves has a connection, and only
\* what was accepted is closed.
THEOREM TypeCorrect == Spec => []TypeOK
<1>1. Init => Bounded
  <2>1. Init => requests \in 0..MaxRequests
    BY PoolAssumption DEF Init
  <2>2. Init => aborted \in BOOLEAN
    BY DEF Init
  <2> QED BY <2>1, <2>2 DEF Bounded
<1>2. Typed /\ Placed /\ Bounded => TypeOK
  BY PoolAssumption DEF Typed, Placed, Bounded, TypeOK, Stages
<1> QED BY <1>1, <1>2, TypedInit, TypedStep, PlacedInit, PlacedStep, BoundedStep, PTL DEF Spec
=============================================================================
