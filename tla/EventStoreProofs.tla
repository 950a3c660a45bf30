-------------------------- MODULE EventStoreProofs --------------------------
(***************************************************************************)
(* Proofs about EventStore, for any keys, capacities and bounds, and any   *)
(* number of crashes.                                                      *)
(*                                                                         *)
(* On a disk that does not damage the log: NotLost and SeqFresh are not    *)
(* inductive, since a restart can only number on from what it reads, and a *)
(* compaction may drop what it has not copied.  Kept and Loaded say what   *)
(* the two loops have done so far, TopLogged that the newest event is      *)
(* always in the log, and AckLogged that the client has acked nothing the  *)
(* log is not above.  IInv is their conjunction.                           *)
(*                                                                         *)
(* On any disk, and whatever the client acks: the types, the suppressed    *)
(* duplicates, and what a load and a compaction make of the log.  The last *)
(* rests on LoopInv: after n lines, a loop has what Scan keeps of them.    *)
(***************************************************************************)
EXTENDS EventStoreFeed, ScanProofs

\* Whole event lines only.
Sound(s) == \A i \in DOMAIN s : s[i].kind = "event" /\ s[i].seq # 0 /\ s[i].key \in Key

\* The log and the copy are undamaged, and Store.log is open on the log.
Clean == tail = NoTail /\ log = "named" /\ Sound(file) /\ Sound(tmp)

\* nextSeq is one above the newest of the first n events of the log.
NumberedTo(n) ==
    /\ \A i \in 1..n : file[i].seq < nextSeq
    /\ nextSeq = 1 \/ \E i \in 1..n : file[i].seq = nextSeq - 1

Loaded ==
    /\ phase = "down" => nextSeq = 1
    /\ phase = "loading" => at \in 1..(Len(file) + 1) /\ NumberedTo(at - 1)

TopLogged ==
    /\ phase \in {"ready", "compacting"} => NumberedTo(Len(file))
    /\ \A r \in recorded : \E i \in DOMAIN file : r.seq <= file[i].seq

AckLogged ==
    /\ ackThrough <= acked /\ ackFile <= acked
    /\ acked = 0 \/ \E i \in DOMAIN file : acked <= file[i].seq

\* The copy holds what is kept of the lines the compaction has read.
Kept ==
    phase = "compacting" =>
        /\ at \in 1..(Len(file) + 1)
        /\ \A i \in 1..(at - 1) :
             file[i].seq > KeepAbove => \E j \in DOMAIN tmp : tmp[j] = file[i]
        /\ \A j \in DOMAIN tmp : \E i \in DOMAIN file : tmp[j] = file[i]

\* NotLost, for a clean log.
StillLogged ==
    \A r \in recorded :
        \/ \E i \in DOMAIN file : file[i] = EventLine(r.seq, r.key)
        \/ r.seq + CompactMargin <= acked
        \/ \E i \in DOMAIN file : r.seq + MaxRetained <= file[i].seq

IInv == TypeOK /\ Clean /\ Loaded /\ TopLogged /\ AckLogged /\ Kept /\ StillLogged

-----------------------------------------------------------------------------
(* Lemmas *)

LEMMA MaxOfMinus ==
    ASSUME NEW a \in Nat, NEW b \in Nat
    PROVE  /\ MaxOf(a, b) \in Nat /\ Minus(a, b) \in Nat
           /\ MaxOf(a, b) = a \/ MaxOf(a, b) = b
           /\ MaxOf(a, b) >= a /\ MaxOf(a, b) >= b
           /\ Minus(a, b) = 0 \/ Minus(a, b) + b = a
           /\ Minus(a, b) <= a
  BY DEF MaxOf, Minus

\* The window never outgrows its capacity.
LEMMA PushedType ==
    ASSUME NEW s \in Seq(Line), Len(s) <= RecentCap, NEW l \in Line
    PROVE  Pushed(s, l) \in Seq(Line) /\ Len(Pushed(s, l)) <= RecentCap
  BY StoreAssumption DEF Pushed

\* What a push does, position by position: d entries leave at the front.
LEMMA PushedIs ==
    ASSUME NEW s \in Seq(Line), Len(s) <= RecentCap, NEW l \in Line
    PROVE  LET p == Pushed(s, l) IN
           /\ p \in Seq(Line) /\ Len(p) \in Nat \ {0} /\ DOMAIN p = 1..Len(p)
           /\ p[Len(p)] = l
           /\ \/ Len(s) = RecentCap /\ Len(p) = Len(s) /\ \A j \in 1..(Len(p) - 1) : p[j] = s[j + 1]
              \/ Len(s) < RecentCap /\ Len(p) = Len(s) + 1 /\ \A j \in 1..(Len(p) - 1) : p[j] = s[j]
<1>1. Append(s, l) \in Seq(Line) /\ Len(Append(s, l)) = Len(s) + 1 /\ Len(s) \in Nat
      /\ RecentCap \in Nat \ {0}
  BY StoreAssumption
<1>2. CASE Len(s) >= RecentCap
  <2>1. Pushed(s, l) = Tail(Append(s, l))
    BY <1>2 DEF Pushed
  <2> QED BY <1>1, <1>2, <2>1
<1>3. CASE ~(Len(s) >= RecentCap)
  <2>1. Pushed(s, l) = Append(s, l)
    BY <1>3 DEF Pushed
  <2> QED BY <1>1, <1>3, <2>1
<1> QED BY <1>2, <1>3

LEMMA BelowLast ==
    \A n \in Nat : \A j \in 1..n : j # n => j \in 1..(n - 1) /\ j + 1 \in 1..n
  OBVIOUS

\* A clean log is read to its end, and gives back every event in it.
LEMMA CleanLines ==
    ASSUME TypeOK, Clean
    PROVE  /\ Lines = file
           /\ Reachable = DOMAIN file
  <1>1. tail.kind = "none"
    BY DEF Clean, NoTail
  <1>2. Lines = file
    BY <1>1 DEF Lines
  <1>3. \A i \in DOMAIN file : \A j \in 1..i : j \in DOMAIN file
    BY DEF TypeOK
  <1>4. \A i \in DOMAIN file : file[i].kind # "bad"
    BY DEF Clean, Sound
  <1>5. Reachable = {i \in DOMAIN file : \A j \in 1..i : file[j].kind # "bad"}
    BY <1>2 DEF Reachable
  <1> QED
    BY <1>2, <1>3, <1>4, <1>5

\* What an append that is not torn leaves behind.
LEMMA LineWrittenClean ==
    ASSUME NEW k \in Key, TypeOK, Clean, LineWritten(k)
    PROVE  /\ file' = Append(file, EventLine(nextSeq, k))
           /\ tail' = NoTail
           /\ EventLine(nextSeq, k) \in Line
           /\ file' \in Seq(Line)
           /\ Len(file') = Len(file) + 1
           /\ \A i \in DOMAIN file : file'[i] = file[i]
           /\ file'[Len(file) + 1] = EventLine(nextSeq, k)
  <1>1. file' = Append(file, EventLine(nextSeq, k)) /\ tail' = NoTail
    BY DEF LineWritten, Clean, Glued, NoTail
  <1>2. EventLine(nextSeq, k) \in Line
    BY DEF TypeOK, EventLine, Line, LineKinds
  <1>3. file \in Seq(Line)
    BY DEF TypeOK
  <1> QED
    BY <1>1, <1>2, <1>3

\* An append adds one whole line to a clean log.
LEMMA LineWrittenTyped ==
    ASSUME NEW k \in Key, TypeOK, Clean, LineWritten(k), log' = "named",
           tmp' \in {tmp, <<>>}
    PROVE  /\ file' \in Seq(Line) /\ tail' \in Tail_
           /\ Clean'
  <1>1. /\ file' \in Seq(Line) /\ Len(file') = Len(file) + 1 /\ tail' = NoTail
        /\ \A i \in DOMAIN file : file'[i] = file[i]
        /\ file'[Len(file) + 1] = EventLine(nextSeq, k)
    BY LineWrittenClean
  <1>2. NoTail \in Tail_
    BY DEF NoTail, Tail_
  <1>3. \A i \in DOMAIN file' : i \in DOMAIN file \/ i = Len(file) + 1
    BY <1>1 DEF TypeOK
  <1>4. Sound(file')
    BY <1>1, <1>3 DEF Clean, Sound, EventLine, TypeOK
  <1>5. Sound(tmp')
    BY DEF Clean, Sound
  <1> QED
    BY <1>1, <1>2, <1>4, <1>5 DEF Clean

-----------------------------------------------------------------------------
(* Types, on a disk that does anything to the log *)

\* The numbers that a torn write can leave are numbers.
LEMMA ShiftIs == \A n \in Nat : Shift(n) \in Nat \ {0}
<1> DEFINE Above(F, n) == F = [m \in 0..n |-> IF m < 10 THEN 10 ELSE 10 * F[m \div 10]]
           T == {n \in Nat : \E F : Above(F, n)}
<1>1. 0 \in T
  <2> DEFINE F == [m \in 0..0 |-> 10]
  <2>1. \A m \in 0..0 : m < 10
    OBVIOUS
  <2>2. Above(F, 0)
    BY <2>1
  <2> QED BY <2>2
<1>2. \A n \in Nat : n \in T => n + 1 \in T
  <2> SUFFICES ASSUME NEW n \in Nat, NEW F, Above(F, n) PROVE \E G : Above(G, n + 1)
    OBVIOUS
  <2> DEFINE Last == IF n + 1 < 10 THEN 10 ELSE 10 * F[(n + 1) \div 10]
             G == [m \in 0..(n + 1) |-> IF m = n + 1 THEN Last ELSE F[m]]
             H == [m \in 0..(n + 1) |-> IF m < 10 THEN 10 ELSE 10 * G[m \div 10]]
  <2>1. \A m \in 0..n : F[m] = IF m < 10 THEN 10 ELSE 10 * F[m \div 10]
    OBVIOUS
  <2>2. \A m \in 0..(n + 1) : ~(m < 10) => m \div 10 \in 0..(n + 1) /\ m \div 10 # n + 1
    OBVIOUS
  <2>3. \A m \in 0..(n + 1) : ~(m < 10) => G[m \div 10] = F[m \div 10]
    BY <2>2
  <2>4. \A m \in 0..(n + 1) : m = n + 1 \/ m \in 0..n
    OBVIOUS
  <2>5. \A m \in 0..(n + 1) : G[m] = H[m]
    <3> TAKE m \in 0..(n + 1)
    <3>1. CASE m = n + 1
      BY <3>1, <2>3
    <3>2. CASE m \in 0..n
      BY <3>2, <2>1, <2>3
    <3> QED BY <3>1, <3>2, <2>4
  <2>6. G = H
    BY <2>5
  <2> QED BY <2>6
<1> HIDE DEF T
<1>3. \A n \in Nat : \E F : Above(F, n)
  <2>1. \A n \in Nat : n \in T
    BY <1>1, <1>2, NatSetInduction
  <2> QED BY <2>1 DEF T
<1>4. ASSUME NEW n \in Nat PROVE Shift(n) \in Nat \ {0}
  <2> DEFINE F == CHOOSE G : Above(G, n)
             U == {k \in Nat : \A m \in 0..n : m <= k => F[m] \in Nat \ {0}}
  <2>1. Above(F, n)
    BY <1>3
  <2>2. Shift(n) = F[n]
    BY DEF Shift
  <2> HIDE DEF F
  <2>3. \A m \in 0..n : F[m] = IF m < 10 THEN 10 ELSE 10 * F[m \div 10]
    BY <2>1
  <2>4. 0 \in U
    BY <2>3
  <2>5. \A k \in Nat : k \in U => k + 1 \in U
    <3> SUFFICES ASSUME NEW k \in Nat, k \in U, NEW m \in 0..n, m <= k + 1
                 PROVE  F[m] \in Nat \ {0}
      OBVIOUS
    <3>1. CASE m < 10
      BY <2>3, <3>1
    <3>2. CASE ~(m < 10)
      <4>1. m \div 10 \in 0..n /\ m \div 10 <= k
        BY <3>2
      <4>2. F[m \div 10] \in Nat \ {0}
        BY <4>1
      <4>3. F[m] = 10 * F[m \div 10]
        BY <2>3, <3>2
      <4> QED BY <4>2, <4>3
    <3> QED BY <3>1, <3>2
  <2> HIDE DEF U
  <2>6. n \in U
    BY <2>4, <2>5, NatSetInduction
  <2> QED BY <2>2, <2>6 DEF U
<1> QED BY <1>4

\* What a reader gets from any log, the unterminated last line included.
LEMMA LinesAre ==
    ASSUME file \in Seq(Line), tail \in Tail_
    PROVE  Lines \in Seq(Line)
<1>1. Junk \in Line
  BY DEF Junk, Line, LineKinds
<1>2. CASE tail.kind = "none"
  BY <1>2 DEF Lines
<1>3. CASE tail.kind = "digits"
  <2>1. Lines = Append(file, Junk)
    BY <1>3 DEF Lines
  <2> QED BY <1>1, <2>1
<1>4. CASE tail.kind \in {"cut", "junk", "bad"}
  <2>1. Lines = Append(file, tail)
    BY <1>4 DEF Lines
  <2>2. tail \in Line
    BY <1>4 DEF Tail_, Line, LineKinds
  <2> QED BY <2>1, <2>2
<1> QED BY <1>2, <1>3, <1>4 DEF Tail_

\* A line is a line, whatever it was appended to.
LEMMA GluedTyped ==
    ASSUME NEW t \in Tail_, NEW n \in Nat \ {0}, NEW k \in Key
    PROVE  Glued(t, EventLine(n, k)) \in Line
<1> DEFINE l == EventLine(n, k)
<1>1. l \in Line /\ l = [kind |-> "event", seq |-> n, key |-> k]
  BY DEF EventLine, Line, LineKinds
<1>2. Junk \in Line /\ Bad \in Line
  BY DEF Junk, Bad, Line, LineKinds
<1>3. CASE t.kind = "none"
  BY <1>1, <1>3 DEF Glued
<1>4. CASE t.kind = "digits"
  <2>1. Joined(t.seq, n) \in Nat
    <3>1. t.seq \in Nat /\ Shift(n) \in Nat
      BY ShiftIs DEF Tail_
    <3>2. \A a, b, c \in Nat : a * b + c \in Nat
      OBVIOUS
    <3> QED BY <3>1, <3>2 DEF Joined
  <2>2. Glued(t, l) = [l EXCEPT !.seq = Joined(t.seq, l.seq)]
    BY <1>4 DEF Glued
  <2>3. l.seq = n
    BY <1>1
  <2> HIDE DEF l
  <2> QED BY <1>1, <2>1, <2>2, <2>3 DEF Line, l
<1>5. CASE t.kind \in {"junk", "cut"}
  BY <1>2, <1>5 DEF Glued
<1>6. CASE t.kind = "bad"
  BY <1>2, <1>6 DEF Glued
<1> QED BY <1>3, <1>4, <1>5, <1>6 DEF Tail_

LEMMA TornTyped ==
    ASSUME NEW n \in Nat, NEW k \in Key
    PROVE  TornTails(n, k) \subseteq Tail_
<1>1. \A q \in {1} \union {Shift(m) : m \in 0..n} : q \in Nat \ {0}
  BY ShiftIs
<1>2. \A q \in Nat \ {0} : n \div q \in Nat
  OBVIOUS
<1>3. NoKey \in Key \union {NoKey} /\ k \in Key \union {NoKey}
  OBVIOUS
<1>4. \A q \in {1} \union {Shift(m) : m \in 0..n} :
        [kind |-> "digits", seq |-> n \div q, key |-> NoKey] \in Tail_
  BY <1>1, <1>2, <1>3 DEF Tail_
<1>5. Junk \in Tail_ /\ Bad \in Tail_ /\ [kind |-> "cut", seq |-> n, key |-> k] \in Tail_
  BY <1>3 DEF Junk, Bad, Tail_
<1> QED BY <1>4, <1>5 DEF TornTails

LEMMA WrittenTyped ==
    ASSUME TypeOK, NEW k \in Key, LineWritten(k)
    PROVE  file' \in Seq(Line) /\ tail' \in Tail_
<1>1. file \in Seq(Line) /\ tail \in Tail_ /\ nextSeq \in Nat \ {0}
  BY DEF TypeOK
<1>2. CASE log = "removed"
  BY <1>1, <1>2 DEF LineWritten
<1>3. CASE log # "removed"
  <2>1. file' = Append(file, Glued(tail, EventLine(nextSeq, k))) /\ tail' = NoTail
    BY <1>3 DEF LineWritten
  <2>2. NoTail \in Tail_
    BY DEF NoTail, Tail_
  <2> QED BY <1>1, <2>1, <2>2, GluedTyped
<1> QED BY <1>2, <1>3

LEMMA TornTailTyped ==
    ASSUME TypeOK, NEW k \in Key, LineTorn(k)
    PROVE  file' \in Seq(Line) /\ tail' \in Tail_ /\ ackFile' \in Nat
<1>1. tail' \in TornTails(nextSeq, k) /\ UNCHANGED <<file, ackFile>>
  BY DEF LineTorn
<1>2. nextSeq \in Nat
  BY DEF TypeOK
<1> QED BY <1>1, <1>2, TornTyped DEF TypeOK

LEMMA TypeStep ==
    ASSUME TypeOK, [Next]_vars
    PROVE  TypeOK'
<1> USE DEF diskVars, memVars
<1>l. Lines \in Seq(Line)
  BY LinesAre DEF TypeOK
<1>n. Len(Lines) \in Nat /\ \A i \in DOMAIN Lines : Lines[i] \in Line /\ Lines[i].seq \in Nat
  <2>1. \A i \in DOMAIN Lines : Lines[i] \in Line
    BY <1>l
  <2> QED BY <1>l, <2>1 DEF Line
<1>1. CASE OpenBegin
  BY <1>1 DEF OpenBegin, TypeOK
<1>2. CASE OpenLine
  <2>1. /\ phase = "loading" /\ at \in Nat /\ at # 0 /\ at \in DOMAIN Lines
    BY <1>2, <1>l, <1>n DEF OpenLine, TypeOK
  <2>2. at' \in Nat \ {0}
    BY <1>2, <1>n, <2>1 DEF OpenLine, NextAfter
  <2>3. nextSeq' \in Nat \ {0}
    BY <1>2, <1>n, <2>1 DEF OpenLine, NumberedPast, TypeOK
  <2>4. recent' \in Seq(Line) /\ Len(recent') <= RecentCap
    <3>1. recent' \in {recent, Pushed(recent, Lines[at])}
      BY <1>2 DEF OpenLine
    <3> QED BY <1>n, <2>1, <3>1, PushedType DEF TypeOK
  <2> QED BY <1>2, <2>2, <2>3, <2>4 DEF OpenLine, TypeOK
<1>3. CASE OpenEnd
  <2>1. KeysOf(recent) \subseteq Key \union {NoKey}
    <3>1. \A i \in DOMAIN recent : recent[i] \in Line
      BY DEF TypeOK
    <3> QED BY <3>1 DEF KeysOf, Line
  <2> QED BY <1>3, <2>1 DEF OpenEnd, TypeOK
<1>4. ASSUME NEW k \in Key, AppendOk(k) PROVE TypeOK'
  <2>1. file' \in Seq(Line) /\ tail' \in Tail_
    BY <1>4, WrittenTyped DEF AppendOk
  <2>2. recent' \in Seq(Line) /\ Len(recent') <= RecentCap
    <3>1. EventLine(nextSeq, k) \in Line
      BY DEF TypeOK, EventLine, Line, LineKinds
    <3> QED BY <1>4, <3>1, PushedType DEF AppendOk, TypeOK
  <2> QED BY <1>4, <2>1, <2>2 DEF AppendOk, Appendable, TypeOK
<1>5. ASSUME NEW k \in Key, AppendUnsynced(k) \/ AppendTorn(k) PROVE TypeOK'
  <2>1. UNCHANGED <<memVars, recorded, acked>>
    BY <1>5 DEF AppendUnsynced, AppendTorn
  <2>2. file' \in Seq(Line) /\ tail' \in Tail_ /\ ackFile' \in Nat
    BY <1>5, WrittenTyped, TornTailTyped DEF AppendUnsynced, AppendTorn, TypeOK
  <2> QED BY <2>1, <2>2 DEF TypeOK
<1>6. CASE Crash \/ \E k \in Key : CrashAfterWrite(k) \/ CrashInWrite(k)
  <2>1. LoseMemory /\ UNCHANGED <<recorded, acked>>
    BY <1>6 DEF Crash, CrashAfterWrite, CrashInWrite
  <2>2. file' \in Seq(Line) /\ tail' \in Tail_ /\ ackFile' \in Nat
    BY <1>6, WrittenTyped, TornTailTyped DEF Crash, CrashAfterWrite, CrashInWrite, TypeOK
  <2> QED BY <2>1, <2>2, StoreAssumption DEF LoseMemory, TypeOK
<1>7. ASSUME NEW t \in Ackable, SetAck(t) PROVE TypeOK'
  <2>1. t \in Nat
    BY StoreAssumption DEF Ackable
  <2>2. ackThrough' \in Nat /\ ackFile' \in Nat /\ acked' \in Nat
    BY <1>7, <2>1 DEF SetAck, TypeOK, MaxOf
  <2> QED BY <1>7, <2>2 DEF SetAck, TypeOK
<1>8. CASE CompactBegin
  BY <1>8 DEF CompactBegin, TypeOK
<1>9. CASE CompactLine
  <2>1. /\ phase = "compacting" /\ at \in Nat /\ at # 0 /\ at \in DOMAIN Lines
    BY <1>9, <1>l, <1>n DEF CompactLine, TypeOK
  <2>2. at' \in Nat \ {0}
    BY <1>9, <1>n, <2>1 DEF CompactLine, NextAfter
  <2>3. tmp' \in Seq(Line) /\ dropped' \in Nat
    <3>1. tmp' \in {tmp, Append(tmp, Lines[at])} /\ dropped' \in {dropped, dropped + 1}
      BY <1>9 DEF CompactLine
    <3>2. tmp \in Seq(Line) /\ dropped \in Nat
      BY DEF TypeOK
    <3>3. Append(tmp, Lines[at]) \in Seq(Line) /\ dropped + 1 \in Nat
      BY <1>n, <2>1, <3>2
    <3> QED BY <3>1, <3>2, <3>3
  <2> QED BY <1>9, <2>2, <2>3 DEF CompactLine, TypeOK
<1>10. CASE CompactDiscard \/ CompactFail
  <2>1. CASE CompactDiscard
    BY <2>1 DEF CompactDiscard, TypeOK
  <2>2. CASE CompactFail
    BY <2>2 DEF CompactFail, TypeOK
  <2> QED BY <1>10, <2>1, <2>2
<1>11. CASE CompactSwap
  <2>1. log' \in {"named", "removed"} /\ NoTail \in Tail_
    BY <1>11 DEF CompactSwap, NoTail, Tail_
  <2> QED BY <1>11, <2>1 DEF CompactSwap, TypeOK
<1>12. CASE UNCHANGED vars
  BY <1>12 DEF vars, TypeOK
<1> QED
  BY <1>1, <1>2, <1>3, <1>4, <1>5, <1>6, <1>7, <1>8, <1>9, <1>10, <1>11, <1>12 DEF Next

-----------------------------------------------------------------------------
(* The log of a sound disk *)

LEMMA TypeInit == Init => TypeOK /\ Clean
  BY StoreAssumption DEF Init, TypeOK, Clean, Sound, NoTail, Tail_

LEMMA CleanStep ==
    ASSUME Faults = {}, TypeOK, Clean, [Next]_vars
    PROVE  Clean'
<1> USE DEF diskVars, memVars
<1>1. ASSUME UNCHANGED <<file, tail, log>>, tmp' \in {tmp, <<>>} PROVE Clean'
  BY <1>1 DEF Clean, Sound
<1>2. CASE \/ OpenBegin \/ OpenLine \/ OpenEnd \/ Crash \/ \E t \in Ackable : SetAck(t)
           \/ CompactBegin \/ CompactDiscard \/ CompactFail \/ UNCHANGED vars
  <2>1. UNCHANGED <<file, tail>> /\ log' = "named" /\ tmp' \in {tmp, <<>>}
    BY <1>2 DEF OpenBegin, OpenLine, OpenEnd, Crash, LoseMemory, SetAck, CompactBegin,
                CompactDiscard, CompactFail, vars, Clean
  <2> QED BY <1>1, <2>1 DEF Clean
<1>3. ASSUME NEW k \in Key, AppendOk(k) \/ CrashAfterWrite(k) PROVE Clean'
  <2>1. LineWritten(k) /\ log' = "named" /\ tmp' \in {tmp, <<>>}
    BY <1>3 DEF AppendOk, CrashAfterWrite, LoseMemory, Clean
  <2> QED BY <2>1, LineWrittenTyped
<1>4. CASE CompactLine
  <2>1. Lines = file /\ at \in DOMAIN file /\ file[at] \in Line
    BY <1>4, CleanLines DEF CompactLine, TypeOK
  <2>2. file[at].kind = "event" /\ file[at].seq # 0 /\ file[at].key \in Key
    BY <2>1 DEF Clean, Sound
  <2>3. tmp \in Seq(Line) /\ Sound(tmp) /\ tmp' \in {tmp, Append(tmp, file[at])}
    BY <1>4, <2>1 DEF CompactLine, TypeOK, Clean
  <2>4. Sound(Append(tmp, file[at]))
    BY <2>1, <2>2, <2>3 DEF Sound
  <2>5. Sound(tmp')
    BY <2>3, <2>4
  <2> QED BY <1>4, <2>5 DEF CompactLine, Clean
<1>5. CASE CompactSwap
  BY <1>5 DEF CompactSwap, Clean, Sound
<1> QED
  BY <1>2, <1>3, <1>4, <1>5 DEF Next, AppendUnsynced, AppendTorn, CrashInWrite, LineTorn

-----------------------------------------------------------------------------
(* The inductive invariant *)

\* The facts about the old state that the steps below start from.
LEMMA LogFacts ==
    ASSUME TypeOK
    PROVE  /\ Len(file) \in Nat /\ DOMAIN file = 1..Len(file)
           /\ \A i \in DOMAIN file : file[i] \in Line /\ file[i].seq \in Nat
           /\ \A r \in recorded : r.seq \in Nat \ {0} /\ r.key \in Key
           /\ KeepAbove \in Nat
  <1>1. Len(file) \in Nat /\ DOMAIN file = 1..Len(file)
        /\ \A i \in DOMAIN file : file[i] \in Line
    BY DEF TypeOK
  <1>2. \A i \in DOMAIN file : file[i].seq \in Nat
    BY <1>1 DEF Line
  <1>3. \A r \in recorded : r.seq \in Nat \ {0} /\ r.key \in Key
    BY DEF TypeOK
  <1>4. KeepAbove \in Nat
    BY StoreAssumption DEF KeepAbove, MaxSeqNow, MaxOf, Minus, TypeOK
  <1> QED
    BY <1>1, <1>2, <1>3, <1>4

\* A compaction keeps the newest event.
LEMMA KeepAboveNewest ==
    ASSUME TypeOK, AckLogged, NumberedTo(Len(file)), nextSeq # 1
    PROVE  KeepAbove < nextSeq - 1
  <1>0. ackThrough \in Nat /\ acked \in Nat /\ nextSeq \in Nat \ {0}
    BY DEF TypeOK
  <1>1. ackThrough = 0 \/ ackThrough < nextSeq
    <2>1. ackThrough <= acked
      BY DEF AckLogged
    <2>2. CASE acked = 0
      BY <1>0, <2>1, <2>2
    <2>3. CASE \E i \in DOMAIN file : acked <= file[i].seq
      <3>1. PICK i \in DOMAIN file : acked <= file[i].seq
        BY <2>3
      <3>2. file[i].seq \in Nat /\ file[i].seq < nextSeq
        BY <3>1, LogFacts DEF NumberedTo
      <3> QED
        BY <1>0, <2>1, <3>1, <3>2
    <2> QED
      BY <2>2, <2>3 DEF AckLogged
  <1>2. Minus(ackThrough, CompactMargin) < nextSeq - 1
    BY <1>0, <1>1, StoreAssumption DEF Minus
  <1>3. Minus(MaxSeqNow, MaxRetained) < nextSeq - 1
    BY <1>0, StoreAssumption DEF Minus, MaxSeqNow
  <1> QED
    BY <1>2, <1>3 DEF KeepAbove, MaxOf

\* A step that leaves the log, the events and the acks alone.
LEMMA LogUnchanged ==
    ASSUME TypeOK, TopLogged, AckLogged, StillLogged,
           UNCHANGED <<file, recorded, acked>>
    PROVE  /\ StillLogged'
           /\ \A r \in recorded' : \E i \in DOMAIN file' : r.seq <= file'[i].seq
           /\ acked' = 0 \/ \E i \in DOMAIN file' : acked' <= file'[i].seq
  BY DEF TopLogged, AckLogged, StillLogged

\* A step that adds the next event to the log.
LEMMA LogGrown ==
    ASSUME TypeOK, Clean, TopLogged, AckLogged, StillLogged, NumberedTo(Len(file)),
           NEW k \in Key, LineWritten(k), acked' = acked,
           recorded' \in {recorded, recorded \union {[seq |-> nextSeq, key |-> k]}}
    PROVE  /\ StillLogged'
           /\ \A r \in recorded' : \E i \in DOMAIN file' : r.seq <= file'[i].seq
           /\ acked' = 0 \/ \E i \in DOMAIN file' : acked' <= file'[i].seq
           /\ \A i \in DOMAIN file' : file'[i].seq < nextSeq + 1
           /\ Len(file) + 1 \in DOMAIN file'
           /\ file'[Len(file) + 1].seq = nextSeq
  <1>1. /\ file' \in Seq(Line) /\ Len(file') = Len(file) + 1
        /\ \A i \in DOMAIN file : i \in DOMAIN file' /\ file'[i] = file[i]
        /\ file'[Len(file) + 1] = EventLine(nextSeq, k)
        /\ Len(file) + 1 \in DOMAIN file'
        /\ \A i \in DOMAIN file' : i \in DOMAIN file \/ i = Len(file) + 1
    BY LineWrittenClean, LogFacts
  <1>2. EventLine(nextSeq, k).seq = nextSeq
    BY DEF EventLine
  <1>3. \A i \in DOMAIN file : file'[i].seq = file[i].seq /\ file[i].seq < nextSeq
    BY <1>1, LogFacts DEF NumberedTo
  <1>4. \A i \in DOMAIN file' : file'[i].seq < nextSeq + 1
    BY <1>1, <1>2, <1>3, LogFacts DEF TypeOK
  <1>5. \A r \in recorded' : r \in recorded \/ r = [seq |-> nextSeq, key |-> k]
    OBVIOUS
  <1>6. StillLogged'
    <2> SUFFICES ASSUME NEW r \in recorded'
                 PROVE  \/ \E i \in DOMAIN file' : file'[i] = EventLine(r.seq, r.key)
                        \/ r.seq + CompactMargin <= acked'
                        \/ \E i \in DOMAIN file' : r.seq + MaxRetained <= file'[i].seq
      BY DEF StillLogged
    <2>1. CASE r \in recorded
      BY <1>1, <2>1 DEF StillLogged
    <2>2. CASE r = [seq |-> nextSeq, key |-> k]
      BY <1>1, <2>2
    <2> QED
      BY <1>5, <2>1, <2>2
  <1>7. \A r \in recorded' : \E i \in DOMAIN file' : r.seq <= file'[i].seq
    <2> SUFFICES ASSUME NEW r \in recorded'
                 PROVE  \E i \in DOMAIN file' : r.seq <= file'[i].seq
      OBVIOUS
    <2>1. CASE r \in recorded
      BY <1>1, <2>1 DEF TopLogged
    <2>2. CASE r = [seq |-> nextSeq, key |-> k]
      BY <1>1, <1>2, <2>2 DEF TypeOK
    <2> QED
      BY <1>5, <2>1, <2>2
  <1>8. acked' = 0 \/ \E i \in DOMAIN file' : acked' <= file'[i].seq
    BY <1>1 DEF AckLogged
  <1> QED
    BY <1>1, <1>2, <1>4, <1>6, <1>7, <1>8

-----------------------------------------------------------------------------
(* One lemma per action that moves a loop or the log *)

LEMMA OpenLineStep ==
    ASSUME IInv, OpenLine
    PROVE  Loaded' /\ TopLogged' /\ AckLogged' /\ Kept' /\ StillLogged'
  <1> USE DEF IInv, diskVars
  <1>1. /\ phase = "loading" /\ phase' = "loading"
        /\ UNCHANGED <<file, ackFile, ackThrough, tmp, recorded, acked>>
    BY DEF OpenLine
  <1>2. at \in DOMAIN file /\ Lines = file
    BY CleanLines, LogFacts DEF OpenLine, TypeOK
  <1>3. file[at].kind = "event" /\ file[at].seq \in Nat
    BY <1>2, LogFacts DEF Clean, Sound
  <1>4. /\ nextSeq' = IF file[at].seq >= nextSeq THEN file[at].seq + 1 ELSE nextSeq
        /\ at' = at + 1
    BY <1>2, <1>3 DEF OpenLine, Parses, NumberedPast, NextAfter
  <1>5. NumberedTo(at - 1) /\ at \in 1..Len(file) /\ nextSeq \in Nat \ {0}
    BY <1>1, <1>2, LogFacts DEF Loaded, TypeOK
  <1>6. at' - 1 = at
    BY <1>4, <1>5, LogFacts
  <1>7. \A i \in 1..at : file[i].seq < nextSeq'
    <2>1. ASSUME NEW i \in 1..at PROVE file[i].seq < nextSeq'
      <3>1. i \in 1..(at - 1) => file[i].seq < nextSeq
        BY <1>5 DEF NumberedTo
      <3>2. i = at \/ i \in 1..(at - 1)
        BY <1>5, LogFacts
      <3>3. file[i].seq \in Nat
        BY <1>5, LogFacts
      <3> QED
        BY <1>3, <1>4, <1>5, <3>1, <3>2, <3>3
    <2> QED
      BY <2>1
  <1>8. nextSeq' = 1 \/ \E i \in 1..at : file[i].seq = nextSeq' - 1
    <2>1. CASE file[at].seq >= nextSeq
      BY <1>3, <1>4, <1>5, <2>1
    <2>2. CASE ~(file[at].seq >= nextSeq)
      BY <1>4, <1>5, <2>2, LogFacts DEF NumberedTo
    <2> QED
      BY <2>1, <2>2
  <1>9. NumberedTo(at - 1)'
    BY <1>1, <1>6, <1>7, <1>8 DEF NumberedTo
  <1>10. Loaded'
    BY <1>1, <1>4, <1>5, <1>9, LogFacts DEF Loaded
  <1> QED
    BY <1>1, <1>10, LogUnchanged DEF TopLogged, AckLogged, Kept

LEMMA OpenEndStep ==
    ASSUME IInv, OpenEnd
    PROVE  Loaded' /\ TopLogged' /\ AckLogged' /\ Kept' /\ StillLogged'
  <1> USE DEF IInv, diskVars
  <1>1. /\ phase = "loading" /\ phase' = "ready"
        /\ UNCHANGED <<file, ackFile, nextSeq, recorded, acked>>
        /\ ackThrough' = ackFile
    BY DEF OpenEnd
  <1>2. at - 1 = Len(file)
    BY CleanLines, LogFacts DEF OpenEnd, Loaded
  <1>3. NumberedTo(Len(file))'
    BY <1>1, <1>2 DEF Loaded, NumberedTo
  <1> QED
    BY <1>1, <1>3, LogUnchanged DEF Loaded, TopLogged, AckLogged, Kept

LEMMA AppendOkStep ==
    ASSUME IInv, NEW k \in Key, AppendOk(k)
    PROVE  Loaded' /\ TopLogged' /\ AckLogged' /\ Kept' /\ StillLogged'
  <1> USE DEF IInv
  <1>1. /\ phase = "ready" /\ phase' = "ready" /\ LineWritten(k)
        /\ nextSeq' = nextSeq + 1
        /\ recorded' = recorded \union {[seq |-> nextSeq, key |-> k]}
        /\ UNCHANGED <<ackFile, ackThrough, acked>>
    BY DEF AppendOk, Appendable
  <1>2. NumberedTo(Len(file)) /\ nextSeq \in Nat
    BY <1>1 DEF TopLogged, TypeOK
  <1>3. /\ StillLogged'
        /\ \A r \in recorded' : \E i \in DOMAIN file' : r.seq <= file'[i].seq
        /\ acked' = 0 \/ \E i \in DOMAIN file' : acked' <= file'[i].seq
        /\ \A i \in DOMAIN file' : file'[i].seq < nextSeq'
        /\ Len(file) + 1 \in DOMAIN file'
        /\ file'[Len(file) + 1].seq = nextSeq' - 1
    BY <1>1, <1>2, LogGrown
  <1>4. DOMAIN file' = 1..Len(file')
    BY <1>1, LineWrittenClean
  <1>5. NumberedTo(Len(file))'
    BY <1>3, <1>4 DEF NumberedTo
  <1> QED
    BY <1>1, <1>3, <1>5 DEF Loaded, TopLogged, AckLogged, Kept

LEMMA CrashAfterWriteStep ==
    ASSUME IInv, NEW k \in Key, CrashAfterWrite(k)
    PROVE  Loaded' /\ TopLogged' /\ AckLogged' /\ Kept' /\ StillLogged'
  <1> USE DEF IInv
  <1>1. /\ phase = "ready" /\ phase' = "down" /\ LineWritten(k)
        /\ nextSeq' = 1 /\ ackThrough' = 0
        /\ UNCHANGED <<ackFile, recorded, acked>>
    BY DEF CrashAfterWrite, Appendable, LoseMemory
  <1>2. /\ StillLogged'
        /\ \A r \in recorded' : \E i \in DOMAIN file' : r.seq <= file'[i].seq
        /\ acked' = 0 \/ \E i \in DOMAIN file' : acked' <= file'[i].seq
    BY <1>1, LogGrown DEF TopLogged
  <1> QED
    BY <1>1, <1>2 DEF Loaded, TopLogged, AckLogged, Kept, TypeOK

LEMMA SetAckStep ==
    ASSUME Faults = {}, IInv, NEW t \in Ackable, SetAck(t)
    PROVE  Loaded' /\ TopLogged' /\ AckLogged' /\ Kept' /\ StillLogged'
  <1> USE DEF IInv
  <1>1. /\ phase = "ready" /\ phase' = "ready"
        /\ UNCHANGED <<file, nextSeq, recorded>>
        /\ ackThrough' = t /\ ackFile' \in {t, ackFile}
        /\ acked' = MaxOf(acked, t)
    BY DEF SetAck
  <1>2. t \in Nat \ {0} /\ t <= MaxSeqNow
    BY StoreAssumption DEF Ackable
  <1>3. nextSeq # 1 /\ t <= nextSeq - 1
    BY <1>2 DEF MaxSeqNow, Minus, TypeOK
  <1>4. \E i \in DOMAIN file : t <= file[i].seq
    BY <1>1, <1>3, LogFacts DEF TopLogged, NumberedTo
  <1>5. acked' \in Nat /\ acked' >= acked /\ acked' >= t /\ acked' \in {acked, t}
    BY <1>1, <1>2 DEF MaxOf, TypeOK
  <1>6. AckLogged'
    BY <1>1, <1>2, <1>4, <1>5 DEF AckLogged, TypeOK
  <1>7. StillLogged'
    <2>1. \A r \in recorded :
            r.seq + CompactMargin <= acked => r.seq + CompactMargin <= acked'
      BY <1>5, LogFacts, StoreAssumption DEF TypeOK
    <2> QED
      BY <1>1, <2>1 DEF StillLogged
  <1>8. TopLogged'
    BY <1>1 DEF TopLogged, NumberedTo
  <1> QED
    BY <1>1, <1>6, <1>7, <1>8 DEF Loaded, Kept

LEMMA CompactLineStep ==
    ASSUME IInv, CompactLine
    PROVE  Loaded' /\ TopLogged' /\ AckLogged' /\ Kept' /\ StillLogged'
  <1> USE DEF IInv, diskVars
  <1>1. /\ phase = "compacting" /\ phase' = "compacting"
        /\ UNCHANGED <<file, ackFile, nextSeq, ackThrough, recorded, acked>>
    BY DEF CompactLine
  <1>2. at \in DOMAIN file /\ Lines = file
    BY <1>1, CleanLines, LogFacts DEF CompactLine, Kept
  <1>3. file[at].kind = "event"
    BY <1>2 DEF Clean, Sound
  <1>3a. file[at].seq \in Nat /\ KeepAbove \in Nat
    BY <1>2, LogFacts DEF TypeOK, Line
  <1>4. KeepAbove' = KeepAbove
    BY <1>1 DEF KeepAbove, MaxSeqNow
  <1>5. /\ at' = at + 1
        /\ \/ file[at].seq > KeepAbove /\ tmp' = Append(tmp, file[at])
           \/ file[at].seq <= KeepAbove /\ tmp' = tmp
    BY <1>2, <1>3, <1>3a DEF CompactLine, Keeps, Parses, NextAfter
  <1>6. /\ at' \in 1..(Len(file) + 1) /\ at' - 1 = at
        /\ \A i \in 1..at : i \in 1..(at - 1) \/ i = at
    BY <1>2, <1>5, LogFacts
  <1>7. /\ \A j \in DOMAIN tmp : j \in DOMAIN tmp' /\ tmp'[j] = tmp[j]
        /\ \A j \in DOMAIN tmp' : j \in DOMAIN tmp \/ tmp'[j] = file[at]
        /\ file[at].seq > KeepAbove => \E j \in DOMAIN tmp' : tmp'[j] = file[at]
    <2>1. tmp \in Seq(Line) /\ file[at] \in Line /\ KeepAbove \in Nat
      BY <1>2, LogFacts DEF TypeOK
    <2>2. CASE tmp' = tmp
      BY <1>2, <1>5, <2>1, <2>2, LogFacts
    <2>3. CASE tmp' = Append(tmp, file[at])
      BY <2>1, <2>3
    <2> QED
      BY <1>5, <2>2, <2>3
  <1>8. \A i \in 1..at : file[i].seq > KeepAbove => \E j \in DOMAIN tmp' : tmp'[j] = file[i]
    BY <1>1, <1>6, <1>7 DEF Kept
  <1>9. \A j \in DOMAIN tmp' : \E i \in DOMAIN file : tmp'[j] = file[i]
    BY <1>1, <1>2, <1>7 DEF Kept
  <1>10. Kept'
    BY <1>1, <1>4, <1>6, <1>8, <1>9 DEF Kept
  <1> QED
    BY <1>1, <1>10, LogUnchanged DEF Loaded, TopLogged, AckLogged, NumberedTo

LEMMA CompactSwapStep ==
    ASSUME IInv, CompactSwap
    PROVE  Loaded' /\ TopLogged' /\ AckLogged' /\ Kept' /\ StillLogged'
  <1> USE DEF IInv
  <1>1. /\ phase = "compacting" /\ phase' = "ready" /\ file' = tmp
        /\ UNCHANGED <<ackFile, nextSeq, ackThrough, recorded, acked>>
    BY DEF CompactSwap
  <1>2. at - 1 = Len(file)
    BY <1>1, CleanLines, LogFacts DEF CompactSwap, Kept
  <1>3. \A i \in DOMAIN file :
          file[i].seq > KeepAbove => \E j \in DOMAIN file' : file'[j] = file[i]
    BY <1>1, <1>2, LogFacts DEF Kept
  <1>4. \A j \in DOMAIN file' : \E i \in DOMAIN file : file'[j] = file[i]
    BY <1>1 DEF Kept
  <1>5. NumberedTo(Len(file)) /\ nextSeq \in Nat \ {0}
    BY <1>1 DEF TopLogged, TypeOK
  <1>6. \A i \in DOMAIN file : file[i].seq <= nextSeq - 1
    BY <1>5, LogFacts DEF NumberedTo
  \* The newest event is among the lines that were kept.
  <1>7. nextSeq # 1 => \E j \in DOMAIN file' : file'[j].seq = nextSeq - 1
    <2> SUFFICES ASSUME nextSeq # 1
                 PROVE  \E j \in DOMAIN file' : file'[j].seq = nextSeq - 1
      OBVIOUS
    <2>1. KeepAbove < nextSeq - 1
      BY <1>5, KeepAboveNewest
    <2>2. PICK i \in DOMAIN file : file[i].seq = nextSeq - 1
      BY <1>5, LogFacts DEF NumberedTo
    <2> QED
      BY <1>3, <1>5, <2>1, <2>2, LogFacts
  <1>8. DOMAIN file' = 1..Len(file')
    BY <1>1 DEF TypeOK
  <1>9. NumberedTo(Len(file))'
    BY <1>1, <1>4, <1>5, <1>7, <1>8, LogFacts DEF NumberedTo
  \* So whatever the log was above, it still is.
  <1>10. \A n \in Nat : (\E i \in DOMAIN file : n <= file[i].seq) /\ n # 0 =>
                          \E j \in DOMAIN file' : n <= file'[j].seq
    <2> SUFFICES ASSUME NEW n \in Nat, NEW i \in DOMAIN file, n <= file[i].seq, n # 0
                 PROVE  \E j \in DOMAIN file' : n <= file'[j].seq
      OBVIOUS
    <2>1. n <= nextSeq - 1 /\ nextSeq # 1
      BY <1>5, <1>6, LogFacts
    <2> QED
      BY <1>7, <2>1
  <1>11. TopLogged'
    BY <1>1, <1>9, <1>10, LogFacts DEF TopLogged
  <1>12. AckLogged'
    BY <1>1, <1>10 DEF AckLogged, TypeOK
  <1>13. StillLogged'
    <2> SUFFICES ASSUME NEW r \in recorded
                 PROVE  \/ \E i \in DOMAIN file' : file'[i] = EventLine(r.seq, r.key)
                        \/ r.seq + CompactMargin <= acked
                        \/ \E i \in DOMAIN file' : r.seq + MaxRetained <= file'[i].seq
      BY <1>1 DEF StillLogged
    <2>1. r.seq \in Nat \ {0} /\ r.seq + MaxRetained \in Nat \ {0}
      BY LogFacts, StoreAssumption
    <2>2. CASE \E i \in DOMAIN file : r.seq + MaxRetained <= file[i].seq
      BY <1>10, <2>1, <2>2
    <2>3. CASE r.seq + CompactMargin <= acked
      BY <2>3
    <2>4. CASE \E i \in DOMAIN file : file[i] = EventLine(r.seq, r.key)
      <3>1. PICK i \in DOMAIN file : file[i] = EventLine(r.seq, r.key)
        BY <2>4
      <3>2. file[i].seq = r.seq
        BY <3>1 DEF EventLine
      <3>3. CASE r.seq > KeepAbove
        BY <1>3, <3>1, <3>2, <3>3
      <3>4. CASE r.seq <= KeepAbove
        <4>1. r.seq <= Minus(ackThrough, CompactMargin) \/ r.seq <= Minus(MaxSeqNow, MaxRetained)
          BY <3>4 DEF KeepAbove, MaxOf
        <4>2. CASE r.seq <= Minus(ackThrough, CompactMargin)
          BY <2>1, <4>2, StoreAssumption DEF Minus, AckLogged, TypeOK
        <4>3. CASE r.seq <= Minus(MaxSeqNow, MaxRetained)
          <5>1. r.seq + MaxRetained <= nextSeq - 1 /\ nextSeq # 1
            BY <1>5, <2>1, <4>3, StoreAssumption DEF Minus, MaxSeqNow
          <5> QED
            BY <1>7, <5>1
        <4> QED
          BY <4>1, <4>2, <4>3
      <3> QED
        BY <2>1, <3>3, <3>4, LogFacts
    <2> QED
      BY <2>2, <2>3, <2>4 DEF StillLogged
  <1> QED
    BY <1>1, <1>11, <1>12, <1>13 DEF Loaded, Kept

-----------------------------------------------------------------------------
(* The theorems *)

LEMMA IInvInit == Init => IInv
  BY TypeInit DEF Init, IInv, Loaded, TopLogged, AckLogged, Kept, StillLogged

LEMMA IInvStep ==
    ASSUME Faults = {}, IInv, [Next]_vars
    PROVE  IInv'
  <1> USE DEF diskVars
  <1>0. TypeOK' /\ Clean'
    BY TypeStep, CleanStep DEF IInv
  <1> DEFINE Rest == Loaded /\ TopLogged /\ AckLogged /\ Kept /\ StillLogged
  <1> SUFFICES Rest'
    BY <1>0 DEF IInv
  <1>1. CASE OpenBegin
    <2>1. NumberedTo(at - 1)'
      BY <1>1 DEF OpenBegin, IInv, Loaded, NumberedTo
    <2>2. at' = 1 /\ Len(file)' \in Nat
      BY <1>1, LogFacts DEF OpenBegin, IInv
    <2> QED
      BY <1>1, <2>1, <2>2, LogUnchanged
         DEF OpenBegin, IInv, Loaded, TopLogged, AckLogged, Kept
  <1>2. CASE OpenLine
    BY <1>2, OpenLineStep
  <1>3. CASE OpenEnd
    BY <1>3, OpenEndStep
  <1>4. ASSUME NEW k \in Key, AppendOk(k) PROVE Rest'
    BY <1>4, AppendOkStep
  <1>5. ASSUME NEW k \in Key, CrashAfterWrite(k) PROVE Rest'
    BY <1>5, CrashAfterWriteStep
  <1>6. CASE Crash
    BY <1>6, LogUnchanged
       DEF Crash, LoseMemory, IInv, Loaded, TopLogged, AckLogged, Kept, TypeOK
  <1>7. ASSUME NEW t \in Ackable, SetAck(t) PROVE Rest'
    BY <1>7, SetAckStep
  <1>8. CASE CompactBegin
    BY <1>8, LogUnchanged, LogFacts
       DEF CompactBegin, IInv, Loaded, TopLogged, AckLogged, Kept, NumberedTo
  <1>9. CASE CompactLine
    BY <1>9, CompactLineStep
  <1>10. CASE CompactDiscard
    BY <1>10, LogUnchanged
       DEF CompactDiscard, IInv, Loaded, TopLogged, AckLogged, Kept, NumberedTo
  <1>11. CASE CompactFail
    BY <1>11, LogUnchanged
       DEF CompactFail, IInv, Loaded, TopLogged, AckLogged, Kept, NumberedTo
  <1>12. CASE CompactSwap
    BY <1>12, CompactSwapStep
  <1>13. CASE UNCHANGED vars
    <2>1. KeepAbove' = KeepAbove
      BY <1>13 DEF vars, memVars, KeepAbove, MaxSeqNow
    <2> QED
      BY <1>13, <2>1, LogUnchanged
         DEF vars, memVars, IInv, Loaded, TopLogged, AckLogged, Kept, NumberedTo
  <1> QED
    BY <1>1, <1>2, <1>3, <1>4, <1>5, <1>6, <1>7, <1>8, <1>9, <1>10, <1>11,
       <1>12, <1>13
       DEF Next, AppendUnsynced, AppendTorn, CrashInWrite, LineTorn

\* On a disk that does not damage the log, and with a client that acks what
\* it was served, every state satisfies the inductive invariant.
THEOREM Invariance ==
    ASSUME Faults = {}
    PROVE  Spec => []IInv
  BY IInvInit, IInvStep, PTL DEF Spec

\* Every variable keeps its type, whatever the disk does and the client acks: a
\* row glued to a torn one is still a row, and the window never outgrows its cap.
THEOREM TypeCorrect == Spec => []TypeOK
  BY TypeInit, TypeStep, PTL DEF Spec

\* An event whose append returned is in the log, across crashes, reloads and
\* compactions, until the client is done with it or it is too old.
THEOREM EventsAreKept ==
    ASSUME Faults = {}
    PROVE  Spec => []NotLost
  <1>1. IInv => NotLost
    <2> SUFFICES ASSUME IInv, NEW r \in recorded
                 PROVE  Readable(r) \/ Expendable(r)
      BY DEF NotLost
    <2>1. Lines = file /\ Reachable = DOMAIN file
      BY CleanLines DEF IInv
    <2> QED
      BY <2>1 DEF IInv, StillLogged, Readable, Expendable
  <1> QED
    BY <1>1, Invariance, PTL

\* No seq is ever assigned twice, although a restart numbers on from a log
\* that was compacted.
THEOREM SeqIsFresh ==
    ASSUME Faults = {}
    PROVE  Spec => []SeqFresh
  <1>1. IInv => SeqFresh
    <2> SUFFICES ASSUME IInv, phase \in {"ready", "compacting"}
                 PROVE  /\ \A r \in recorded : r.seq < nextSeq
                        /\ \A i \in DOMAIN Lines : Lines[i].seq < nextSeq
      BY DEF SeqFresh
    <2>1. \A i \in DOMAIN file : file[i].seq < nextSeq
      BY LogFacts DEF IInv, TopLogged, NumberedTo
    <2>2. \A r \in recorded : \E i \in DOMAIN file : r.seq <= file[i].seq
      BY DEF IInv, TopLogged
    <2> QED
      BY <2>1, <2>2, CleanLines, LogFacts DEF IInv, TypeOK
  <1> QED
    BY <1>1, Invariance, PTL

-----------------------------------------------------------------------------
(* The duplicate keys, on a disk that does anything to the log *)

IsSeq(s) == \E S : s \in Seq(S)

Held ==
    /\ IsSeq(recent)
    /\ phase \in {"ready", "compacting"} => seen \subseteq KeysOf(recent)

\* Only the head's key leaves the window when a line is pushed.
LEMMA PushedKeys ==
    ASSUME NEW s, IsSeq(s), NEW l
    PROVE  /\ IsSeq(Pushed(s, l))
           /\ l.key \in KeysOf(Pushed(s, l))
           /\ \A x \in KeysOf(s) :
                x \in KeysOf(Pushed(s, l)) \/ (Len(s) >= RecentCap /\ x = Head(s).key)
  <1>1. PICK S : s \in Seq(S)
    BY DEF IsSeq
  <1>2. PICK T : T = S \union {l}
    OBVIOUS
  <1>3. s \in Seq(T) /\ l \in T /\ Len(s) \in Nat /\ RecentCap \in Nat \ {0}
    BY <1>1, <1>2, StoreAssumption
  <1>4. CASE Len(s) >= RecentCap
    <2>0. Append(s, l) \in Seq(T) /\ Append(s, l) # <<>>
      BY <1>3
    <2>1. PICK p \in Seq(T) : p = Tail(Append(s, l))
      <3>1. Tail(Append(s, l)) \in Seq(T)
        BY <2>0
      <3> QED
        BY <3>1
    <2>2. /\ Len(p) = Len(s) /\ p[Len(s)] = l /\ Len(s) \in 1..Len(p)
          /\ \A i \in 2..Len(s) : i - 1 \in 1..Len(p) /\ p[i - 1] = s[i]
      BY <1>3, <1>4, <2>0, <2>1
    <2>3. Pushed(s, l) = p
      BY <1>4, <2>1 DEF Pushed
    <2>4. \A i \in DOMAIN s : i = 1 \/ i \in 2..Len(s)
      BY <1>3
    <2>5. Head(s) = s[1] /\ DOMAIN p = 1..Len(p)
      BY <1>3, <1>4, <2>1
    <2>6. \A i \in DOMAIN s : s[i].key \in KeysOf(p) \/ s[i].key = Head(s).key
      BY <2>2, <2>4, <2>5 DEF KeysOf
    <2>7. \A x \in KeysOf(s) : x \in KeysOf(p) \/ x = Head(s).key
      BY <2>6 DEF KeysOf
    <2>8. l.key \in KeysOf(p)
      BY <2>2, <2>5 DEF KeysOf
    <2>9. IsSeq(p)
      BY <2>1 DEF IsSeq
    <2> QED
      BY <1>4, <2>3, <2>7, <2>8, <2>9
  <1>5. CASE ~(Len(s) >= RecentCap)
    <2>1. PICK p \in Seq(T) : p = Append(s, l)
      <3>1. Append(s, l) \in Seq(T)
        BY <1>3
      <3> QED
        BY <3>1
    <2>2. /\ Len(p) = Len(s) + 1 /\ p[Len(s) + 1] = l /\ Len(s) + 1 \in DOMAIN p
          /\ \A i \in DOMAIN s : i \in DOMAIN p /\ p[i] = s[i]
      BY <1>3, <2>1
    <2>3. Pushed(s, l) = p
      BY <1>5, <2>1 DEF Pushed
    <2> QED
      BY <2>1, <2>2, <2>3 DEF KeysOf, IsSeq
  <1> QED
    BY <1>4, <1>5

LEMMA HeldStep ==
    ASSUME Held, [Next]_vars
    PROVE  Held'
  <1> USE DEF diskVars, memVars
  <1>1. CASE OpenLine
    <2>1. recent' = recent \/ \E l : recent' = Pushed(recent, l)
      BY <1>1 DEF OpenLine
    <2> QED
      BY <1>1, <2>1, PushedKeys DEF OpenLine, Held
  <1>2. ASSUME NEW k \in Key, AppendOk(k) PROVE Held'
    <2>1. /\ recent' = Pushed(recent, EventLine(nextSeq, k)) /\ phase = "ready"
          /\ seen' = (seen \union {k}) \ Evicted
      BY <1>2 DEF AppendOk, Appendable
    <2>2. EventLine(nextSeq, k).key = k
      BY DEF EventLine
    <2>3. \A x \in seen' : x = k \/ (x \in KeysOf(recent) /\ x \notin Evicted)
      BY <2>1 DEF Held
    <2>4. \A x \in seen' : x \in KeysOf(recent')
      BY <2>1, <2>2, <2>3, PushedKeys DEF Evicted, Held
    <2> QED
      BY <2>1, <2>4, PushedKeys DEF Held
  <1>3. CASE OpenEnd
    BY <1>3 DEF OpenEnd, Held
  <1>4. CASE Crash \/ \E k \in Key : CrashAfterWrite(k) \/ CrashInWrite(k)
    <2>1. recent' = <<>> /\ phase' = "down"
      BY <1>4 DEF Crash, CrashAfterWrite, CrashInWrite, LoseMemory
    <2>2. <<>> \in Seq({})
      OBVIOUS
    <2> QED
      BY <2>1, <2>2 DEF Held, IsSeq
  <1>5. CASE \/ OpenBegin \/ \E k \in Key : AppendUnsynced(k) \/ AppendTorn(k)
             \/ \E t \in Ackable : SetAck(t)
             \/ CompactBegin \/ CompactLine \/ CompactDiscard \/ CompactFail \/ CompactSwap
             \/ UNCHANGED vars
    <2>1. UNCHANGED <<recent, seen>>
      BY <1>5 DEF OpenBegin, AppendUnsynced, AppendTorn, SetAck, CompactBegin, CompactLine,
                  CompactDiscard, CompactFail, CompactSwap, vars
    <2>2. phase' \in {"ready", "compacting"} => phase \in {"ready", "compacting"}
      BY <1>5 DEF OpenBegin, AppendUnsynced, AppendTorn, SetAck, CompactBegin, CompactLine,
                  CompactDiscard, CompactFail, CompactSwap, vars
    <2> QED
      BY <2>1, <2>2 DEF Held
  <1> QED
    BY <1>1, <1>2, <1>3, <1>4, <1>5 DEF Next

\* Nothing is suppressed for longer than the window holds it, whatever the disk
\* does to the log and whatever the client acks (store.rs:139-168).
THEOREM SuppressedAreHeld == Spec => []SuppressedIsHeld
  <1>1. Init => Held
    <2>1. <<>> \in Seq({})
      OBVIOUS
    <2> QED
      BY <2>1 DEF Init, Held, IsSeq
  <1>2. Held /\ [Next]_vars => Held'
    BY HeldStep
  <1>3. Held => SuppressedIsHeld
    BY DEF Held, SuppressedIsHeld
  <1> QED
    BY <1>1, <1>2, <1>3, PTL DEF Spec

-----------------------------------------------------------------------------
(* The two loops over the log, on a disk that does anything to it *)

\* The loop has read the lines before at, none of them unreadable, or it has
\* met one that is, and stopped.
Reached ==
    /\ at \in 1..(Len(Lines) + 1)
    /\ at = Len(Lines) + 1 \/ \A j \in 1..(at - 1) : Lines[j].kind # "bad"

\* win is the newest of s, as many as memory holds.
Newest(win, s) ==
    /\ Len(win) = Len(s) \/ (Len(win) = RecentCap /\ Len(win) <= Len(s))
    /\ \A j \in DOMAIN win : win[j] = s[Len(s) - Len(win) + j]

\* What a load has built of the lines it has read.
LoadedSoFar ==
    LET got == Scan(Lines, Loadable)[at - 1] IN
    /\ Newest(recent, got)
    /\ \A i \in DOMAIN got : got[i].seq < nextSeq

Retained == {i \in Reachable : Keeps(Lines[i])}

LoopInv ==
    /\ TypeOK
    /\ phase = "down" => recent = <<>>
    /\ phase = "loading" => Reached /\ LoadedSoFar
    /\ phase = "compacting" => Reached /\ tmp = Scan(Lines, Retained)[at - 1]

LEMMA NewestGrows ==
    ASSUME NEW s \in Seq(Line), NEW win \in Seq(Line), Len(win) <= RecentCap, NEW l \in Line,
           Newest(win, s)
    PROVE  Newest(Pushed(win, l), Append(s, l))
<1> DEFINE p == Pushed(win, l)  t == Append(s, l)
<1>1. /\ p \in Seq(Line) /\ Len(p) \in Nat \ {0} /\ DOMAIN p = 1..Len(p) /\ p[Len(p)] = l
      /\ \/ Len(win) = RecentCap /\ Len(p) = Len(win) /\ \A j \in 1..(Len(p) - 1) : p[j] = win[j + 1]
         \/ Len(win) < RecentCap /\ Len(p) = Len(win) + 1 /\ \A j \in 1..(Len(p) - 1) : p[j] = win[j]
  BY PushedIs
<1>2. PICK W \in Nat, P \in Nat, N \in Nat, C \in Nat :
        W = Len(win) /\ P = Len(p) /\ N = Len(s) /\ C = RecentCap
  <2>1. Len(win) \in Nat /\ Len(s) \in Nat /\ RecentCap \in Nat
    BY StoreAssumption
  <2>2. Len(p) \in Nat
    BY <1>1
  <2> HIDE DEF p
  <2> QED BY <2>1, <2>2
<1>3. /\ Len(t) = N + 1 /\ t[N + 1] = l /\ \A i \in 1..N : t[i] = s[i]
      /\ DOMAIN win = 1..W
  BY <1>2
<1>4. PICK d \in {0, 1} : P + d = W + 1 /\ (d = 1 => W = C) /\ \A j \in 1..(P - 1) : p[j] = win[j + d]
  <2> HIDE DEF p
  <2>1. CASE Len(win) = RecentCap /\ Len(p) = Len(win) /\ \A j \in 1..(Len(p) - 1) : p[j] = win[j + 1]
    BY <1>2, <2>1
  <2>2. CASE Len(win) < RecentCap /\ Len(p) = Len(win) + 1 /\ \A j \in 1..(Len(p) - 1) : p[j] = win[j]
    <3>1. P + 0 = W + 1 /\ \A j \in 1..(P - 1) : j + 0 = j
      BY <1>2, <2>2
    <3> QED BY <1>2, <2>2, <3>1
  <2> QED BY <1>1, <2>1, <2>2
<1>5. (W = N \/ (W = C /\ W <= N)) /\ \A j \in 1..W : win[j] = s[N - W + j]
  BY <1>2, <1>3 DEF Newest
<1>6. DOMAIN p = 1..P /\ p[P] = l /\ P # 0
  BY <1>1, <1>2
<1>c. W <= C
  BY <1>2
<1> HIDE DEF p, t
<1>7. P = N + 1 \/ (P = C /\ P <= N + 1)
  <2>1. d \in Nat /\ P + d = W + 1 /\ (d = 0 \/ d = 1)
    BY <1>4
  <2>2. CASE d = 1
    <3>1. P = W /\ W = C
      BY <1>4, <2>1, <2>2
    <3> QED BY <1>5, <3>1
  <2>3. CASE d = 0
    <3>1. P = W + 1
      BY <2>1, <2>3
    <3>2. P <= C
      BY <1>1, <1>2, <1>4, <2>3, <3>1
    <3> QED BY <1>5, <3>1, <3>2
  <2> QED BY <2>1, <2>2, <2>3
<1>8. \A j \in 1..P : p[j] = t[(N + 1) - P + j]
  <2> SUFFICES ASSUME NEW j \in 1..P PROVE p[j] = t[(N + 1) - P + j]
    OBVIOUS
  <2>1. CASE j = P
    <3>1. (N + 1) - P + j = N + 1
      BY <2>1
    <3> QED BY <1>3, <1>6, <2>1, <3>1
  <2>2. CASE j # P
    <3>1. j \in 1..(P - 1) /\ j < P
      BY <2>2
    <3>2. d \in Nat /\ P + d = W + 1 /\ W <= N
      BY <1>4, <1>5
    <3>3. j + d \in 1..W /\ N - W + (j + d) = (N + 1) - P + j /\ N - W + (j + d) \in 1..N
      BY <3>1, <3>2
    <3>4. p[j] = s[N - W + (j + d)]
      BY <1>4, <1>5, <3>1, <3>3
    <3> QED BY <1>3, <3>3, <3>4
  <2> QED BY <2>1, <2>2
<1>9. Newest(p, t)
  BY <1>2, <1>3, <1>6, <1>7, <1>8 DEF Newest
<1> QED BY <1>9 DEF p, t

\* The window after a load, as one slice of the log.
LEMMA NewestIs ==
    ASSUME NEW s \in Seq(Line), NEW win \in Seq(Line), Len(win) <= RecentCap, Newest(win, s)
    PROVE  win = SubSeq(s, Minus(Len(s), RecentCap) + 1, Len(s))
<1>1. PICK W \in Nat, N \in Nat, C \in Nat : W = Len(win) /\ N = Len(s) /\ C = RecentCap
  <2>1. Len(win) \in Nat /\ Len(s) \in Nat /\ RecentCap \in Nat
    BY StoreAssumption
  <2> QED BY <2>1
<1>2. (W = N \/ (W = C /\ W <= N)) /\ W <= C /\ \A j \in 1..W : win[j] = s[N - W + j]
  <2>1. DOMAIN win = 1..W
    BY <1>1
  <2> QED BY <1>1, <2>1 DEF Newest
<1>3. Minus(N, C) = N - W
  BY <1>2 DEF Minus
<1> DEFINE p == SubSeq(s, (N - W) + 1, N)
<1>4. p \in Seq(Line) /\ Len(p) = W /\ \A j \in 1..W : p[j] = s[N - W + j]
  <2>1. (N - W) + 1 \in Nat \ {0} /\ (N - W) + 1 <= N + 1 /\ N - ((N - W) + 1) + 1 = W
    BY <1>2
  <2>2. \A j \in 1..W : (N - W) + 1 + j - 1 = N - W + j
    BY <1>2
  <2> QED BY <1>1, <2>1, <2>2
<1> HIDE DEF p
<1>5. win = p
  BY <1>1, <1>2, <1>4
<1> QED BY <1>1, <1>3, <1>5 DEF p

\* One line more: what the loop has kept grows by it if it is one to keep, and
\* a line that cannot be read is the last, nothing after it being reachable.
LEMMA ReadsOn ==
    ASSUME TypeOK, Reached, at <= Len(Lines), at' = NextAfter(Lines[at]),
           UNCHANGED <<file, tail>>, NEW keep, keep \subseteq Reachable
    PROVE  /\ Reached' /\ at - 1 \in 0..Len(Lines)
           /\ at \in Reachable <=> Lines[at].kind # "bad"
           /\ at \in DOMAIN Lines
           /\ Scan(Lines, keep)[at' - 1]
                = IF at \in keep THEN Append(Scan(Lines, keep)[at - 1], Lines[at])
                                 ELSE Scan(Lines, keep)[at - 1]
<1> DEFINE L == Lines  F == Scan(L, keep)
<1>1. L \in Seq(Line) /\ Lines' = L
  BY LinesAre DEF TypeOK, Lines
<1>2. Len(L) \in Nat /\ DOMAIN L = 1..Len(L) /\ at \in 1..Len(L) /\ at \in Nat
      /\ \A j \in 1..(at - 1) : L[j].kind # "bad"
  BY <1>1 DEF Reached
<1>3. Reachable = {i \in DOMAIN L : \A j \in 1..i : L[j].kind # "bad"}
  BY DEF Reachable
<1>4. at' = IF L[at].kind = "bad" THEN Len(L) + 1 ELSE at + 1
  BY DEF NextAfter
<1>5. /\ DOMAIN F = 0..Len(L)
      /\ \A n \in 1..Len(L) : F[n] = IF n \in keep THEN Append(F[n - 1], L[n]) ELSE F[n - 1]
  BY <1>2, ScanDef
<1>7. Reached' <=> /\ at' \in 1..(Len(L) + 1)
                   /\ at' = Len(L) + 1 \/ \A j \in 1..(at' - 1) : L[j].kind # "bad"
  BY <1>1 DEF Reached
<1> HIDE DEF L, F
<1>6. \A j \in 1..at : j = at \/ j \in 1..(at - 1)
  BY <1>2
<1>8. at - 1 \in 0..Len(L) /\ at \in DOMAIN L /\ at \in 1..at
  BY <1>2
<1>9. CASE L[at].kind # "bad"
  <2>1. at' = at + 1 /\ at' - 1 = at
    BY <1>2, <1>4, <1>9
  <2>2. \A j \in 1..at : L[j].kind # "bad"
    BY <1>2, <1>6, <1>9
  <2>3. Reached'
    BY <1>2, <1>7, <2>1, <2>2
  <2>4. at \in Reachable
    BY <1>3, <1>8, <2>2
  <2>5. F[at' - 1] = IF at \in keep THEN Append(F[at - 1], L[at]) ELSE F[at - 1]
    BY <1>2, <1>5, <2>1
  <2> QED BY <1>8, <1>9, <2>3, <2>4, <2>5 DEF L, F
<1>10. CASE L[at].kind = "bad"
  <2>1. at' = Len(L) + 1 /\ at' - 1 = Len(L)
    BY <1>2, <1>4, <1>10
  <2>2. \A n \in at..Len(L) : n \notin Reachable
    <3> SUFFICES ASSUME NEW n \in at..Len(L), n \in Reachable PROVE FALSE
      OBVIOUS
    <3>1. at \in 1..n
      BY <1>2
    <3> QED BY <1>3, <1>10, <3>1
  <2>3. Reached'
    BY <1>2, <1>7, <2>1
  <2>4. at \notin Reachable
    BY <1>2, <2>2
  <2>5. F[Len(L)] = F[at - 1]
    <3>1. at - 1 \in 0..Len(L) /\ Len(L) \in (at - 1)..Len(L)
      BY <1>2
    <3>2. \A n \in ((at - 1) + 1)..Len(L) : n \notin keep
      BY <1>2, <2>2
    <3>3. \A n \in (at - 1)..Len(L) : Scan(L, keep)[n] = Scan(L, keep)[at - 1]
      BY <1>2, <3>1, <3>2, ScanIdle
    <3> QED BY <3>1, <3>3 DEF F
  <2> QED BY <1>8, <1>10, <2>1, <2>3, <2>4, <2>5 DEF L, F
<1> QED BY <1>9, <1>10

LEMMA LoopStep ==
    ASSUME LoopInv, [Next]_vars
    PROVE  LoopInv'
<1> USE DEF diskVars, memVars
<1>0. TypeOK /\ TypeOK'
  BY TypeStep DEF LoopInv
<1>l. Lines \in Seq(Line) /\ Len(Lines) \in Nat /\ DOMAIN Lines = 1..Len(Lines)
  BY <1>0, LinesAre DEF TypeOK
<1>u. UNCHANGED <<file, tail>> =>
        Lines' = Lines /\ Reachable' = Reachable /\ Loadable' = Loadable
  BY DEF Lines, Reachable, Loadable
<1>s. \A keep : Scan(Lines, keep)[0] = <<>>
  BY <1>l, ScanDef
<1>1. CASE OpenBegin
  <2>1. /\ phase' = "loading" /\ at' = 1 /\ at' - 1 = 0 /\ recent' = <<>> /\ UNCHANGED <<file, tail>>
    BY <1>1 DEF OpenBegin, LoopInv
  <2>2. Reached'
    BY <1>l, <1>u, <2>1 DEF Reached
  <2>3. Newest(<<>>, <<>>)
    BY DEF Newest
  <2>4. LoadedSoFar'
    BY <1>s, <1>u, <2>1, <2>3 DEF LoadedSoFar
  <2> QED BY <1>0, <2>1, <2>2, <2>4 DEF LoopInv
<1>2. CASE OpenLine
  <2> DEFINE l == Lines[at]  F == Scan(Lines, Loadable)
  <2>1. /\ phase = "loading" /\ phase' = "loading" /\ at <= Len(Lines) /\ at' = NextAfter(l)
        /\ UNCHANGED <<file, tail>>
    BY <1>2 DEF OpenLine
  <2>2. Reached /\ Newest(recent, F[at - 1]) /\ \A i \in DOMAIN F[at - 1] : F[at - 1][i].seq < nextSeq
    BY <2>1 DEF LoopInv, LoadedSoFar
  <2>3. Loadable \subseteq Reachable
    BY DEF Loadable
  <2>4. /\ Reached' /\ at - 1 \in 0..Len(Lines) /\ at \in DOMAIN Lines
        /\ at \in Reachable <=> l.kind # "bad"
        /\ F[at' - 1] = IF at \in Loadable THEN Append(F[at - 1], l) ELSE F[at - 1]
    BY <1>0, <2>1, <2>2, <2>3, ReadsOn
  <2>5. l \in Line /\ l.seq \in Nat
    <3>1. l \in Line
      BY <1>l, <2>4
    <3> QED BY <3>1 DEF Line
  <2>6. F[at - 1] \in Seq(Line)
    BY <1>l, <2>4, ScanType
  <2>7. recent \in Seq(Line) /\ Len(recent) <= RecentCap /\ nextSeq \in Nat
    BY <1>0 DEF TypeOK
  <2>8. at \in Loadable <=> Parses(l)
    BY <2>4 DEF Loadable, Parses
  <2>9. LoadedSoFar' <=> /\ Newest(recent', F[at' - 1])
                         /\ \A i \in DOMAIN F[at' - 1] : F[at' - 1][i].seq < nextSeq'
    BY <1>u, <2>1 DEF LoadedSoFar
  <2>10. CASE Parses(l)
    <3>1. recent' = Pushed(recent, l) /\ nextSeq' = IF l.seq >= nextSeq THEN l.seq + 1 ELSE nextSeq
      BY <1>2, <2>10 DEF OpenLine, NumberedPast
    <3>2. F[at' - 1] = Append(F[at - 1], l)
      BY <2>4, <2>8, <2>10
    <3> DEFINE g == F[at - 1]
    <3>3. g \in Seq(Line) /\ Newest(recent, g) /\ \A i \in DOMAIN g : g[i].seq < nextSeq
      BY <2>2, <2>6
    <3> HIDE DEF g, l, F
    <3>4. Newest(Pushed(recent, l), Append(g, l))
      BY <2>5, <2>7, <3>3, NewestGrows
    <3>5. \A i \in DOMAIN g : g[i].seq \in Nat
      <4>1. \A i \in DOMAIN g : g[i] \in Line
        BY <3>3
      <4> QED BY <4>1 DEF Line
    <3>6. \A i \in DOMAIN Append(g, l) : Append(g, l)[i].seq < nextSeq'
      <4> SUFFICES ASSUME NEW i \in DOMAIN Append(g, l) PROVE Append(g, l)[i].seq < nextSeq'
        OBVIOUS
      <4>1. i \in DOMAIN g \/ Append(g, l)[i] = l
        BY <3>3
      <4>2. i \in DOMAIN g => Append(g, l)[i] = g[i]
        BY <3>3
      <4>3. nextSeq' > l.seq /\ nextSeq' >= nextSeq /\ nextSeq' \in Nat
        BY <2>5, <2>7, <3>1
      <4> QED BY <2>5, <2>7, <3>3, <3>5, <4>1, <4>2, <4>3
    <3>7. LoadedSoFar'
      BY <2>9, <3>1, <3>2, <3>4, <3>6 DEF g
    <3> QED BY <1>0, <2>1, <2>4, <3>7 DEF LoopInv
  <2>11. CASE ~Parses(l)
    <3>1. UNCHANGED <<nextSeq, recent>>
      BY <1>2, <2>11 DEF OpenLine
    <3>2. F[at' - 1] = F[at - 1]
      BY <2>4, <2>8, <2>11
    <3>3. LoadedSoFar'
      BY <2>2, <2>9, <3>1, <3>2
    <3> QED BY <1>0, <2>1, <2>4, <3>3 DEF LoopInv
  <2> QED BY <2>10, <2>11
<1>3. CASE OpenEnd \/ \E t \in Ackable : SetAck(t)
  <2>1. phase' = "ready"
    BY <1>3 DEF OpenEnd, SetAck
  <2> QED BY <1>0, <2>1 DEF LoopInv
<1>4. ASSUME NEW k \in Key, AppendOk(k) \/ AppendUnsynced(k) \/ AppendTorn(k) PROVE LoopInv'
  <2>1. phase' = "ready"
    BY <1>4 DEF AppendOk, AppendUnsynced, AppendTorn, Appendable
  <2> QED BY <1>0, <2>1 DEF LoopInv
<1>5. CASE Crash \/ \E k \in Key : CrashAfterWrite(k) \/ CrashInWrite(k)
  <2>1. phase' = "down" /\ recent' = <<>>
    BY <1>5 DEF Crash, CrashAfterWrite, CrashInWrite, LoseMemory
  <2> QED BY <1>0, <2>1 DEF LoopInv
<1>6. CASE CompactBegin
  <2>1. phase' = "compacting" /\ at' = 1 /\ at' - 1 = 0 /\ tmp' = <<>> /\ UNCHANGED <<file, tail>>
    BY <1>6 DEF CompactBegin
  <2>2. Reached'
    BY <1>l, <1>u, <2>1 DEF Reached
  <2>3. Scan(Lines', Retained')[0] = <<>>
    BY <1>s, <1>u, <2>1
  <2> QED BY <1>0, <2>1, <2>2, <2>3 DEF LoopInv
<1>7. CASE CompactLine
  <2> DEFINE l == Lines[at]  F == Scan(Lines, Retained)
  <2>1. /\ phase = "compacting" /\ phase' = "compacting" /\ at <= Len(Lines) /\ at' = NextAfter(l)
        /\ UNCHANGED <<file, tail, nextSeq, ackThrough>>
        /\ tmp' = IF Keeps(l) THEN Append(tmp, l) ELSE tmp
    BY <1>7 DEF CompactLine
  <2>2. Reached /\ tmp = F[at - 1]
    BY <2>1 DEF LoopInv
  <2>3. Retained \subseteq Reachable
    BY DEF Retained
  <2>4. /\ Reached'
        /\ at \in Reachable <=> l.kind # "bad"
        /\ F[at' - 1] = IF at \in Retained THEN Append(F[at - 1], l) ELSE F[at - 1]
    BY <1>0, <2>1, <2>2, <2>3, ReadsOn
  <2>5. at \in Retained <=> Keeps(l)
    BY <2>4 DEF Retained, Keeps, Parses
  <2>6. Retained' = Retained
    <3>1. KeepAbove' = KeepAbove
      BY <2>1 DEF KeepAbove, MaxSeqNow
    <3> QED BY <1>u, <2>1, <3>1 DEF Retained, Keeps, Parses
  <2>7. tmp' = Scan(Lines', Retained')[at' - 1]
    BY <1>u, <2>1, <2>2, <2>4, <2>5, <2>6
  <2> QED BY <1>0, <2>1, <2>4, <2>7 DEF LoopInv
<1>8. CASE CompactDiscard \/ CompactFail \/ CompactSwap
  <2>1. phase' = "ready"
    BY <1>8 DEF CompactDiscard, CompactFail, CompactSwap
  <2> QED BY <1>0, <2>1 DEF LoopInv
<1>9. CASE UNCHANGED vars
  <2>1. Retained' = Retained
    <3>1. KeepAbove' = KeepAbove
      BY <1>9 DEF vars, KeepAbove, MaxSeqNow
    <3> QED BY <1>9, <1>u, <3>1 DEF vars, Retained, Keeps, Parses
  <2> QED BY <1>0, <1>9, <1>u, <2>1 DEF vars, LoopInv, Reached, LoadedSoFar
<1> QED BY <1>1, <1>2, <1>3, <1>4, <1>5, <1>6, <1>7, <1>8, <1>9 DEF Next

LEMMA LoopInvariance == Spec => []LoopInv
<1>1. Init => LoopInv
  BY TypeInit DEF Init, LoopInv
<1> QED BY <1>1, LoopStep, PTL DEF Spec

\* Where a loop ends, it has read the whole log.
LEMMA LoopEnds ==
    ASSUME TypeOK, Reached, at > Len(Lines)
    PROVE  at - 1 = Len(Lines) /\ Lines \in Seq(Line) /\ Len(Lines) \in 0..Len(Lines)
<1>1. Lines \in Seq(Line)
  BY LinesAre DEF TypeOK
<1>2. Len(Lines) \in Nat /\ at \in 1..(Len(Lines) + 1)
  BY <1>1 DEF Reached
<1> QED BY <1>1, <1>2

\* A restart rebuilds the window from the end of what is readable, and numbers
\* on above all of it, whatever damage the log has (store.rs:73-121).
THEOREM LoadsAreExact == Spec => LoadExact
<1>1. ASSUME LoopInv, [Next]_vars, phase = "loading", phase' = "ready"
      PROVE  /\ recent = SubSeq(ParsedLog, Minus(Len(ParsedLog), RecentCap) + 1, Len(ParsedLog))
             /\ \A i \in DOMAIN ParsedLog : ParsedLog[i].seq < nextSeq
  <2>1. OpenEnd
    BY <1>1 DEF Next, OpenBegin, OpenLine, AppendOk, AppendUnsynced, AppendTorn, Appendable, Crash,
                CrashAfterWrite, CrashInWrite, LoseMemory, SetAck, CompactBegin, CompactLine,
                CompactDiscard, CompactFail, CompactSwap, vars, memVars
  <2>2. at > Len(Lines) /\ TypeOK /\ Reached /\ LoadedSoFar
    BY <1>1, <2>1 DEF OpenEnd, LoopInv
  <2>3. at - 1 = Len(Lines) /\ Lines \in Seq(Line) /\ Len(Lines) \in 0..Len(Lines)
    BY <2>2, LoopEnds
  <2>4. Scan(Lines, Loadable)[at - 1] = ParsedLog
    BY <2>3 DEF ParsedLog, Filtered
  <2>5. ParsedLog \in Seq(Line)
    BY <2>3, <2>4, ScanType
  <2>6. Newest(recent, ParsedLog) /\ \A i \in DOMAIN ParsedLog : ParsedLog[i].seq < nextSeq
    BY <2>2, <2>4 DEF LoadedSoFar
  <2>7. recent \in Seq(Line) /\ Len(recent) <= RecentCap
    BY <2>2 DEF TypeOK
  <2> QED BY <2>5, <2>6, <2>7, NewestIs
<1> QED BY <1>1, LoopInvariance, PTL DEF Spec, LoadExact

\* A compaction takes out exactly the readable events up to KeepAbove, in order,
\* whatever damage the log has: it never drops or doubles another, and what it
\* leaves behind is readable to the end (store.rs:246-305).
THEOREM CompactionsAreExact == Spec => CompactionExact
<1>1. ASSUME LoopInv, [Next]_vars, phase = "compacting", file' # file
      PROVE  ParsedLog' = Filtered(ParsedLog, Newer(ParsedLog, KeepAbove))
  <2>1. CompactSwap
    BY <1>1 DEF Next, OpenBegin, OpenLine, OpenEnd, AppendOk, AppendUnsynced, AppendTorn, Appendable,
                Crash, CrashAfterWrite, CrashInWrite, LineTorn, SetAck, CompactBegin, CompactLine,
                CompactDiscard, CompactFail, vars, diskVars
  <2>2. /\ at > Len(Lines) /\ file' = tmp /\ tail' = NoTail
        /\ TypeOK /\ Reached /\ tmp = Scan(Lines, Retained)[at - 1]
    BY <1>1, <2>1 DEF CompactSwap, LoopInv
  <2>3. at - 1 = Len(Lines) /\ Lines \in Seq(Line) /\ Len(Lines) \in 0..Len(Lines)
    BY <2>2, LoopEnds
  <2>4. tmp = Scan(Lines, Retained)[Len(Lines)] /\ tmp \in Seq(Line)
    BY <2>2, <2>3 DEF TypeOK
  <2>5. \A i \in DOMAIN tmp : Parses(tmp[i]) /\ tmp[i].kind # "bad"
    <3>1. PICK e : Source(tmp, Lines, Retained \intersect 1..Len(Lines), e)
      BY <2>3, <2>4, ScanSource
    <3>2. \A i \in DOMAIN tmp : e[i] \in Retained /\ tmp[i] = Lines[e[i]]
      BY <3>1 DEF Source
    <3> QED BY <3>2 DEF Retained, Keeps, Parses
  <2>6. Lines' = tmp
    BY <2>2 DEF Lines, NoTail
  <2>7. \A n \in 1..Len(tmp) : n \in Loadable'
    <3> SUFFICES ASSUME NEW n \in 1..Len(tmp)
                 PROVE  n \in DOMAIN tmp /\ Parses(tmp[n]) /\ \A j \in 1..n : tmp[j].kind # "bad"
      BY <2>6 DEF Loadable, Reachable, Parses
    <3>1. DOMAIN tmp = 1..Len(tmp) /\ \A j \in 1..n : j \in 1..Len(tmp)
      BY <2>4
    <3> QED BY <2>5, <3>1
  <2>8. ParsedLog' = tmp
    <3>1. Filtered(tmp, Loadable') = tmp
      BY <2>4, <2>7, FilteredAll
    <3> QED BY <2>6, <3>1 DEF ParsedLog
  <2> DEFINE V == {l \in Line : l.seq > KeepAbove}
             g == Scan(Lines, Loadable)[Len(Lines)]
             W == Among(Loadable, Lines, V)
  <2>9. \A i \in DOMAIN Lines : Lines[i] \in Line
    BY <2>3
  <2>10. W = Retained
    BY <2>9 DEF Retained, Keeps, Loadable, Reachable, Among
  <2>11. g = ParsedLog /\ g \in Seq(Line)
    BY <2>3, ScanType DEF ParsedLog, Filtered
  <2>12. Newer(g, KeepAbove) = Positions(g, V)
    <3>1. \A i \in DOMAIN g : g[i] \in Line
      BY <2>11
    <3> HIDE DEF g
    <3> QED BY <3>1 DEF Newer, Positions
  <2> HIDE DEF V
  <2>13. Filtered(g, Positions(g, V)) = Scan(Lines, W)[Len(Lines)]
    BY <2>3, FilteredTwice
  <2> HIDE DEF g, W
  <2> QED BY <2>4, <2>8, <2>10, <2>11, <2>12, <2>13
<1> QED BY <1>1, LoopInvariance, PTL DEF Spec, CompactionExact

-----------------------------------------------------------------------------
(***************************************************************************)
(* EventStore implements EventFeed, on a disk that does not damage the log,*)
(* for any keys, capacities and bounds, and any number of crashes.         *)
(*                                                                         *)
(* Whether an append is a duplicate is decided by the window, and the feed *)
(* decides it by the log.  The two differ: a compaction may drop from the  *)
(* log what the window still has, and a restart then reads back less than  *)
(* was in memory.  Windowed says what always holds: the window has the     *)
(* newest events, as many as it can or at least all that the log has, and  *)
(* is the log's own where both have the number.  CopyIsSuffix says the same*)
(* of what a compaction has copied so far.  FeedInv is IInv with these two,*)
(* NoDuplicateInWindow and the promises of the feed.                       *)
(***************************************************************************)

\* The events of s are numbered with no gap.
Consecutive(s) == \A i, j \in DOMAIN s : s[j].seq + i = s[i].seq + j

\* No key twice among RecentCap + 1 events of s in a row.
KeysApart(s) ==
    \A i, j \in DOMAIN s :
        s[i].key = s[j].key /\ s[i].seq < s[j].seq => s[i].seq + RecentCap < s[j].seq

\* The window win is the newest events before the number next, and has no key
\* twice; of the first n lines of s it has those, or as many as it can.
Window(win, next, s, n) ==
    /\ Sound(win)
    /\ \A j \in DOMAIN win : win[j].seq + Len(win) + 1 = next + j
    /\ \A i, j \in DOMAIN win : win[i].key = win[j].key => i = j
    /\ \A i \in 1..n, j \in DOMAIN win : s[i].seq = win[j].seq => s[i] = win[j]
    /\ Len(win) = RecentCap \/ \A i \in 1..n : s[i].seq + Len(win) >= next

\* The line of s after the first n goes on from the window.
Follows(s, n, win, next) ==
    /\ Sound(<<s[n + 1]>>)
    /\ \A i \in 1..n : s[i].seq < s[n + 1].seq
    /\ \A j \in DOMAIN win : win[j].key # s[n + 1].key
    /\ s[n + 1].seq = next \/ (n = 0 /\ win = <<>>)

\* s is what t has after its first d entries.
EndOf(s, t, d) == Len(s) + d = Len(t) /\ \A i \in DOMAIN s : s[i] = t[d + i]

Windowed ==
    /\ phase = "down" => recent = <<>>
    /\ phase = "loading" =>
         /\ Window(recent, nextSeq, file, at - 1)
         /\ Len(recent) <= at - 1
         /\ \A j \in DOMAIN recent : recent[j] = file[at - 1 - Len(recent) + j]
    /\ phase \in {"ready", "compacting"} =>
         /\ Window(recent, nextSeq, file, Len(file))
         /\ \A j \in DOMAIN recent : recent[j].key \in seen

\* The copy holds the last lines the compaction has read, the ones it keeps.
CopyIsSuffix ==
    phase = "compacting" =>
        /\ Len(tmp) + dropped = at - 1
        /\ \A j \in DOMAIN tmp : tmp[j] = file[dropped + j] /\ tmp[j].seq > KeepAbove
        /\ \A i \in 1..dropped : file[i].seq <= KeepAbove

FeedInv ==
    /\ IInv
    /\ Consecutive(file) /\ KeysApart(file)
    /\ Windowed /\ CopyIsSuffix
    /\ NoDuplicateInWindow

-----------------------------------------------------------------------------
(* Lemmas *)

\* A clean log ends with the number before the next one.
LEMMA TopIs ==
    ASSUME TypeOK, Clean, Consecutive(file), NEW n \in Nat, n <= Len(file), NumberedTo(n)
    PROVE  /\ n = 0 => nextSeq = 1
           /\ n # 0 => file[n].seq + 1 = nextSeq
<1>1. /\ DOMAIN file = 1..Len(file) /\ Len(file) \in Nat /\ nextSeq \in Nat \ {0}
      /\ \A i \in DOMAIN file : file[i].seq \in Nat \ {0}
  BY LogFacts DEF Clean, Sound, TypeOK
<1>2. CASE n = 0
  BY <1>2 DEF NumberedTo
<1>3. CASE n # 0
  <2>1. n \in DOMAIN file /\ n \in 1..n /\ file[n].seq < nextSeq
    BY <1>1, <1>3 DEF NumberedTo
  <2>2. nextSeq # 1
    BY <1>1, <2>1
  <2>3. PICK i \in 1..n : file[i].seq = nextSeq - 1
    BY <2>2 DEF NumberedTo
  <2>4. file[n].seq + i = file[i].seq + n
    BY <1>1, <2>1, <2>3 DEF Consecutive
  <2> QED BY <1>1, <1>3, <2>1, <2>3, <2>4
<1> QED BY <1>2, <1>3

\* The next event of s in the window.
LEMMA WindowGrows ==
    ASSUME NEW s \in Seq(Line), NEW n \in Nat, n + 1 \in DOMAIN s,
           NEW win \in Seq(Line), Len(win) <= RecentCap, NEW next \in Nat,
           Window(win, next, s, n), Follows(s, n, win, next)
    PROVE  Window(Pushed(win, s[n + 1]), s[n + 1].seq + 1, s, n + 1)
<1> DEFINE l == s[n + 1]  p == Pushed(win, l)
<1>1. l \in Line /\ l.seq \in Nat /\ n + 1 \in 1..Len(s) /\ Len(s) \in Nat
  <2>1. n + 1 \in 1..Len(s) /\ Len(s) \in Nat /\ s[n + 1] \in Line
    OBVIOUS
  <2> QED BY <2>1 DEF Line
<1>f. /\ l.kind = "event" /\ l.seq # 0 /\ l.key \in Key
      /\ \A i \in 1..n : s[i].seq < l.seq
      /\ \A j \in DOMAIN win : win[j].key # l.key
      /\ n # 0 => l.seq = next
  <2>1. /\ \A i \in 1..n : s[i].seq < l.seq
        /\ \A j \in DOMAIN win : win[j].key # l.key
        /\ n # 0 => l.seq = next
    BY DEF Follows
  <2>2. Sound(<<l>>)
    BY DEF Follows
  <2> HIDE DEF l
  <2> QED BY <2>1, <2>2 DEF Sound
<1>g. win # <<>> => l.seq = next
  BY DEF Follows
<1>s. \A i \in 1..n : s[i] \in Line /\ s[i].seq \in Nat
  <2>1. \A i \in 1..n : s[i] \in Line
    BY <1>1
  <2> QED BY <2>1 DEF Line
<1>2. /\ p \in Seq(Line) /\ Len(p) \in Nat \ {0} /\ DOMAIN p = 1..Len(p) /\ p[Len(p)] = l
      /\ DOMAIN win = 1..Len(win) /\ Len(win) \in Nat
      /\ RecentCap \in Nat \ {0}
  <2>1. DOMAIN win = 1..Len(win) /\ Len(win) \in Nat /\ RecentCap \in Nat \ {0}
    BY StoreAssumption
  <2> HIDE DEF p, l
  <2>2. /\ Pushed(win, l) \in Seq(Line) /\ Len(Pushed(win, l)) \in Nat \ {0}
        /\ DOMAIN Pushed(win, l) = 1..Len(Pushed(win, l))
        /\ Pushed(win, l)[Len(Pushed(win, l))] = l
    BY <1>1, PushedIs
  <2> QED BY <2>1, <2>2 DEF p
<1>3. PICK d \in {0, 1} :
        /\ Len(p) + d = Len(win) + 1
        /\ \A j \in 1..(Len(p) - 1) : p[j] = win[j + d]
        /\ d = 1 => Len(p) = RecentCap
        /\ d = 0 => Len(win) < RecentCap
  <2> HIDE DEF p, l
  <2>1. CASE Len(win) = RecentCap /\ Len(p) = Len(win) /\ \A j \in 1..(Len(p) - 1) : p[j] = win[j + 1]
    <3>1. Len(p) + 1 = Len(win) + 1
      BY <2>1
    <3> QED BY <1>2, <2>1, <3>1
  <2>2. CASE Len(win) < RecentCap /\ Len(p) = Len(win) + 1 /\ \A j \in 1..(Len(p) - 1) : p[j] = win[j]
    <3>1. Len(p) + 0 = Len(win) + 1 /\ \A j \in 1..(Len(p) - 1) : j + 0 = j
      BY <1>2, <2>2
    <3> QED BY <1>2, <2>2, <3>1
  <2>3. \/ Len(win) = RecentCap /\ Len(p) = Len(win) /\ \A j \in 1..(Len(p) - 1) : p[j] = win[j + 1]
        \/ Len(win) < RecentCap /\ Len(p) = Len(win) + 1 /\ \A j \in 1..(Len(p) - 1) : p[j] = win[j]
    BY <1>1, PushedIs DEF p
  <2> QED BY <2>1, <2>2, <2>3
<1>d. d \in Nat /\ Len(p) + d = Len(win) + 1
  BY <1>3
<1> HIDE DEF p, l
<1>c. RecentCap \in Nat
  BY StoreAssumption
<1>n. Len(p) \in Nat /\ Len(p) >= 1 /\ Len(win) \in Nat
  BY <1>2
<1>4. \A j \in DOMAIN p : j = Len(p) \/ (j \in 1..(Len(p) - 1) /\ j + d \in DOMAIN win /\ p[j] = win[j + d])
  <2> SUFFICES ASSUME NEW j \in DOMAIN p, j # Len(p)
               PROVE  j \in 1..(Len(p) - 1) /\ j + d \in DOMAIN win /\ p[j] = win[j + d]
    OBVIOUS
  <2>1. j \in 1..(Len(p) - 1)
    BY <1>2
  <2>2. j + d \in 1..Len(win)
    BY <1>2, <1>d, <2>1
  <2> QED BY <1>2, <1>3, <2>1, <2>2
<1>5. \A j \in DOMAIN win : win[j].seq \in Nat
  <2>1. \A j \in DOMAIN win : win[j] \in Line
    OBVIOUS
  <2> QED BY <2>1 DEF Line
<1>6. Sound(p)
  <2> SUFFICES ASSUME NEW j \in DOMAIN p
               PROVE  p[j].kind = "event" /\ p[j].seq # 0 /\ p[j].key \in Key
    BY DEF Sound
  <2>1. CASE j = Len(p)
    BY <2>1, <1>2, <1>f
  <2>2. CASE j # Len(p)
    BY <2>2, <1>4 DEF Window, Sound
  <2> QED BY <2>1, <2>2
<1>7. \A j \in DOMAIN p : j # Len(p) => p[j].seq + Len(p) = l.seq + j /\ p[j].seq \in Nat
  <2> SUFFICES ASSUME NEW j \in DOMAIN p, j # Len(p)
               PROVE  p[j].seq + Len(p) = l.seq + j /\ p[j].seq \in Nat
    OBVIOUS
  <2>1. j + d \in DOMAIN win /\ p[j] = win[j + d]
    BY <1>4
  <2>2. win # <<>>
    BY <2>1
  <2>3. l.seq = next
    BY <1>g, <2>2
  <2>4. win[j + d].seq + Len(win) + 1 = next + (j + d)
    BY <2>1 DEF Window
  <2>5. p[j].seq \in Nat /\ p[j].seq + Len(win) + 1 = l.seq + (j + d) /\ j \in Nat
    BY <1>2, <1>5, <2>1, <2>3, <2>4
  <2>6. PICK a \in Nat, b \in Nat, x \in Nat, y \in Nat, z \in Nat :
          a = p[j].seq /\ b = l.seq /\ x = j /\ y = Len(p) /\ z = Len(win)
    BY <1>1, <1>2, <2>5
  <2>7. a + z + 1 = b + (x + d) /\ y + d = z + 1 /\ d \in Nat
    BY <1>d, <2>5, <2>6
  <2>8. a + y = b + x
    BY <2>7
  <2> QED BY <2>6, <2>8
<1>8. \A j \in DOMAIN p : p[j].seq + Len(p) + 1 = l.seq + 1 + j
  <2> TAKE j \in DOMAIN p
  <2>1. CASE j = Len(p)
    BY <2>1, <1>1, <1>2
  <2>2. CASE j # Len(p)
    BY <2>2, <1>1, <1>2, <1>7
  <2> QED BY <2>1, <2>2
<1>9. \A i, j \in DOMAIN p : p[i].key = p[j].key => i = j
  <2> SUFFICES ASSUME NEW i \in DOMAIN p, NEW j \in DOMAIN p, p[i].key = p[j].key PROVE i = j
    OBVIOUS
  <2>1. CASE i = Len(p) /\ j = Len(p)
    BY <2>1
  <2>2. CASE i # Len(p) /\ j # Len(p)
    <3>1. i + d = j + d
      BY <2>2, <1>4 DEF Window
    <3>2. i \in Nat /\ j \in Nat
      BY <1>2
    <3> QED BY <3>1, <3>2, <1>d
  <2>3. CASE (i = Len(p)) # (j = Len(p))
    BY <2>3, <1>2, <1>4, <1>f
  <2> QED BY <2>1, <2>2, <2>3
<1>10. \A i \in 1..(n + 1), j \in DOMAIN p : s[i].seq = p[j].seq => s[i] = p[j]
  <2> SUFFICES ASSUME NEW i \in 1..(n + 1), NEW j \in DOMAIN p, s[i].seq = p[j].seq
               PROVE  s[i] = p[j]
    OBVIOUS
  <2>1. CASE i = n + 1 /\ j = Len(p)
    BY <2>1, <1>2 DEF l
  <2>2. CASE i = n + 1 /\ j # Len(p)
    <3>1. p[j].seq + Len(p) = l.seq + j /\ p[j].seq \in Nat /\ j < Len(p) /\ s[i].seq = l.seq
      BY <2>2, <1>2, <1>7 DEF l
    <3> QED BY <3>1, <1>1, <1>2
  <2>3. CASE i # n + 1
    <3>1. i \in 1..n /\ s[i].seq \in Nat
      BY <2>3, <1>s
    <3>2. s[i].seq < l.seq
      BY <3>1, <1>f
    <3>3. j # Len(p)
      BY <3>1, <3>2, <1>1, <1>2
    <3> QED BY <3>1, <3>3, <1>4 DEF Window
  <2> QED BY <2>1, <2>2, <2>3
<1>11. Len(p) = RecentCap \/ \A i \in 1..(n + 1) : s[i].seq + Len(p) >= l.seq + 1
  <2> SUFFICES ASSUME Len(p) # RecentCap, NEW i \in 1..(n + 1)
               PROVE  s[i].seq + Len(p) >= l.seq + 1
    OBVIOUS
  <2>1. CASE i = n + 1
    <3>1. s[i].seq = l.seq
      BY <2>1 DEF l
    <3> QED BY <3>1, <1>1, <1>n
  <2>2. CASE i # n + 1
    <3>1. i \in 1..n /\ s[i].seq \in Nat
      BY <2>2, <1>s
    <3>2. d = 0
      BY <1>3
    <3>3. Len(win) < RecentCap /\ Len(p) = Len(win) + 1
      <4>1. Len(win) < RecentCap
        BY <1>3, <3>2
      <4> QED BY <4>1, <1>n, <1>d, <3>2
    <3>4. s[i].seq + Len(win) >= next /\ l.seq = next
      <4>1. n # 0
        BY <3>1
      <4>2. l.seq = next
        BY <4>1, <1>f
      <4>3. Len(win) # RecentCap
        BY <3>3, <1>n, <1>c
      <4> QED BY <3>1, <4>2, <4>3 DEF Window
    <3> QED BY <3>1, <3>3, <3>4, <1>1, <1>n
  <2> QED BY <2>1, <2>2
<1> QED BY <1>6, <1>8, <1>9, <1>10, <1>11 DEF Window, l, p

\* The numbers of a clean log, and of the window.
LEMMA Numbers ==
    ASSUME TypeOK, Clean
    PROVE  /\ Len(file) \in Nat /\ DOMAIN file = 1..Len(file) /\ nextSeq \in Nat \ {0}
           /\ \A i \in DOMAIN file : file[i] \in Line /\ file[i].seq \in Nat \ {0}
           /\ Len(recent) \in Nat /\ DOMAIN recent = 1..Len(recent) /\ Len(recent) <= RecentCap
           /\ \A j \in DOMAIN recent : recent[j] \in Line /\ recent[j].seq \in Nat
           /\ RecentCap \in Nat \ {0}
<1>1. Len(recent) \in Nat /\ DOMAIN recent = 1..Len(recent) /\ Len(recent) <= RecentCap
  BY DEF TypeOK
<1>2. \A j \in DOMAIN recent : recent[j] \in Line
  BY DEF TypeOK
<1>3. \A j \in DOMAIN recent : recent[j].seq \in Nat
  BY <1>2 DEF Line
<1> QED BY <1>1, <1>2, <1>3, LogFacts, StoreAssumption DEF Clean, Sound, TypeOK

\* An event of the log that is as new as the window is in it.
LEMMA InWindow ==
    ASSUME TypeOK, Clean, Window(recent, nextSeq, file, Len(file)),
           NEW i \in DOMAIN file, file[i].seq < nextSeq, file[i].seq + Len(recent) >= nextSeq
    PROVE  \E j \in DOMAIN recent : recent[j] = file[i]
<1> DEFINE n == file[i].seq  W == Len(recent)
<1>1. /\ n \in Nat /\ W \in Nat /\ nextSeq \in Nat /\ i \in 1..Len(file)
      /\ DOMAIN recent = 1..W /\ \A j \in DOMAIN recent : recent[j].seq \in Nat
  BY Numbers
<1>2. n + W >= nextSeq
  OBVIOUS
<1>3. \A j \in DOMAIN recent : recent[j].seq + W + 1 = nextSeq + j /\ (n = recent[j].seq => file[i] = recent[j])
  BY <1>1 DEF Window
<1> HIDE DEF W
<1>4. n < nextSeq
  OBVIOUS
<1> HIDE DEF n
<1>5. PICK j \in 1..W : j + nextSeq = n + W + 1
  <2>1. n + W + 1 - nextSeq \in 1..W
    BY <1>1, <1>2, <1>4
  <2>2. (n + W + 1 - nextSeq) + nextSeq = n + W + 1
    BY <1>1
  <2> QED BY <2>1, <2>2
<1>6. recent[j].seq = n
  <2>1. recent[j].seq + W + 1 = nextSeq + j /\ recent[j].seq \in Nat
    BY <1>1, <1>3
  <2> QED BY <1>1, <1>5, <2>1
<1> QED BY <1>1, <1>3, <1>5, <1>6

\* A recent event of the log is in the window, full or not.
LEMMA Covered ==
    ASSUME TypeOK, Clean, Window(recent, nextSeq, file, Len(file)),
           NEW i \in DOMAIN file, file[i].seq < nextSeq, file[i].seq + RecentCap >= nextSeq
    PROVE  \E j \in DOMAIN recent : recent[j] = file[i]
<1>1. i \in 1..Len(file)
  BY Numbers
<1>2. file[i].seq + Len(recent) >= nextSeq
  BY <1>1 DEF Window
<1> QED BY <1>2, InWindow

\* An event that is appended continues the log, and is not like a recent one.
LEMMA FileGrows ==
    ASSUME TypeOK, Clean, Consecutive(file), KeysApart(file), NumberedTo(Len(file)),
           Window(recent, nextSeq, file, Len(file)), \A j \in DOMAIN recent : recent[j].key \in seen,
           NEW k \in Key, k \notin seen, LineWritten(k)
    PROVE  Consecutive(file') /\ KeysApart(file')
<1> DEFINE n == Len(file)
<1>1. /\ \A i \in DOMAIN file' : i \in 1..n \/ i = n + 1
      /\ \A i \in 1..n : file'[i] = file[i]
      /\ file'[n + 1].seq = nextSeq /\ file'[n + 1].key = k
      /\ n \in Nat /\ DOMAIN file = 1..n
  <2>1. /\ file' \in Seq(Line) /\ Len(file') = n + 1
        /\ \A i \in DOMAIN file : file'[i] = file[i]
        /\ file'[n + 1] = EventLine(nextSeq, k)
    BY LineWrittenClean
  <2>2. \A i \in DOMAIN file' : i \in 1..n \/ i = n + 1
    BY <2>1, Numbers
  <2> QED BY <2>1, <2>2, Numbers DEF EventLine
<1>2. \A i \in 1..n : /\ file[i].seq \in Nat /\ file[i].seq + n + 1 = nextSeq + i
                      /\ file[i].seq < nextSeq
  <2> SUFFICES ASSUME NEW i \in 1..n
               PROVE  /\ file[i].seq \in Nat /\ file[i].seq + n + 1 = nextSeq + i
                      /\ file[i].seq < nextSeq
    OBVIOUS
  <2>1. n # 0 /\ n <= n /\ n \in DOMAIN file /\ i \in DOMAIN file
    BY Numbers
  <2>2. file[n].seq + 1 = nextSeq
    BY <1>1, <2>1, TopIs
  <2>3. file[n].seq + i = file[i].seq + n
    BY <2>1 DEF Consecutive
  <2>4. file[n].seq \in Nat /\ file[i].seq \in Nat /\ nextSeq \in Nat
    BY <2>1, Numbers
  <2> QED BY <1>1, <2>2, <2>3, <2>4
<1>3. \A i \in 1..n : file[i].key = k => file[i].seq + RecentCap < nextSeq
  <2> SUFFICES ASSUME NEW i \in 1..n, file[i].key = k, ~(file[i].seq + RecentCap < nextSeq)
               PROVE  FALSE
    OBVIOUS
  <2>1. file[i].seq + RecentCap >= nextSeq /\ file[i].seq < nextSeq
    BY <1>2, Numbers
  <2>2. PICK j \in DOMAIN recent : recent[j] = file[i]
    BY <1>1, <2>1, Covered
  <2> QED BY <2>2
<1>4. nextSeq \in Nat
  BY Numbers
<1> HIDE DEF n
<1>5. Consecutive(file')
  <2> SUFFICES ASSUME NEW i \in DOMAIN file', NEW j \in DOMAIN file'
               PROVE  file'[j].seq + i = file'[i].seq + j
    BY DEF Consecutive
  <2>1. CASE i \in 1..n /\ j \in 1..n
    BY <1>1, <2>1 DEF Consecutive
  <2>2. CASE i = n + 1 /\ j = n + 1
    BY <2>2
  <2>3. CASE i = n + 1 /\ j \in 1..n
    <3>1. file'[j].seq = file[j].seq /\ file'[i].seq = nextSeq
      BY <1>1, <2>3
    <3>2. file[j].seq \in Nat /\ file[j].seq + n + 1 = nextSeq + j
      BY <1>2, <2>3
    <3> QED BY <3>1, <3>2, <1>1, <1>4, <2>3
  <2>4. CASE j = n + 1 /\ i \in 1..n
    <3>1. file'[i].seq = file[i].seq /\ file'[j].seq = nextSeq
      BY <1>1, <2>4
    <3>2. file[i].seq \in Nat /\ file[i].seq + n + 1 = nextSeq + i
      BY <1>2, <2>4
    <3> QED BY <3>1, <3>2, <1>1, <1>4, <2>4
  <2> QED BY <1>1, <2>1, <2>2, <2>3, <2>4
<1>6. KeysApart(file')
  <2> SUFFICES ASSUME NEW i \in DOMAIN file', NEW j \in DOMAIN file',
                      file'[i].key = file'[j].key, file'[i].seq < file'[j].seq
               PROVE  file'[i].seq + RecentCap < file'[j].seq
    BY DEF KeysApart
  <2>1. CASE i \in 1..n /\ j \in 1..n
    BY <1>1, <2>1 DEF KeysApart
  <2>2. CASE i = n + 1 /\ j = n + 1
    BY <1>1, <1>4, <2>2
  <2>3. CASE i = n + 1 /\ j \in 1..n
    <3>1. file'[j].seq = file[j].seq /\ file'[i].seq = nextSeq /\ file[j].seq < nextSeq /\ file[j].seq \in Nat
      BY <1>1, <1>2, <2>3
    <3> QED BY <3>1, <1>4
  <2>4. CASE j = n + 1 /\ i \in 1..n
    BY <1>1, <1>3, <2>4
  <2> QED BY <1>1, <2>1, <2>2, <2>3, <2>4
<1> QED BY <1>5, <1>6

\* The end of a log is like the log.
LEMMA FileCut ==
    ASSUME Consecutive(file), KeysApart(file), file \in Seq(Line), NEW s \in Seq(Line), NEW d \in Nat,
           EndOf(s, file, d)
    PROVE  /\ \A i \in DOMAIN s : d + i \in DOMAIN file
           /\ Consecutive(s) /\ KeysApart(s)
           /\ \A win, next : Window(win, next, file, Len(file)) => Window(win, next, s, Len(s))
<1>1. /\ DOMAIN s = 1..Len(s) /\ Len(s) \in Nat /\ DOMAIN file = 1..Len(file) /\ Len(file) \in Nat
      /\ \A i \in DOMAIN s : d + i \in DOMAIN file /\ s[i] = file[d + i] /\ i \in Nat
  BY DEF EndOf
<1>2. \A i \in DOMAIN file : file[i].seq \in Nat
  <2>1. \A i \in DOMAIN file : file[i] \in Line
    OBVIOUS
  <2> QED BY <2>1 DEF Line
<1>3. Consecutive(s)
  <2> SUFFICES ASSUME NEW i \in DOMAIN s, NEW j \in DOMAIN s
               PROVE  s[j].seq + i = s[i].seq + j
    BY DEF Consecutive
  <2>1. file[d + j].seq + (d + i) = file[d + i].seq + (d + j)
    BY <1>1 DEF Consecutive
  <2>2. s[i].seq = file[d + i].seq /\ s[j].seq = file[d + j].seq /\ s[i].seq \in Nat /\ s[j].seq \in Nat
    BY <1>1, <1>2
  <2>3. i \in Nat /\ j \in Nat
    BY <1>1
  <2>4. PICK a \in Nat, b \in Nat, x \in Nat, y \in Nat :
          a = s[j].seq /\ b = s[i].seq /\ x = i /\ y = j
    BY <2>2, <2>3
  <2>5. a + (d + x) = b + (d + y)
    BY <2>1, <2>2, <2>4
  <2>6. a + x = b + y
    BY <2>5
  <2> QED BY <2>4, <2>6
<1>4. KeysApart(s)
  BY <1>1 DEF KeysApart
<1>5. ASSUME NEW win, NEW next, Window(win, next, file, Len(file))
      PROVE  Window(win, next, s, Len(s))
  <2>1. \A i \in 1..Len(s) : s[i] = file[d + i] /\ d + i \in 1..Len(file)
    BY <1>1
  <2>2. /\ Sound(win) /\ \A j \in DOMAIN win : win[j].seq + Len(win) + 1 = next + j
        /\ \A i, j \in DOMAIN win : win[i].key = win[j].key => i = j
    BY <1>5 DEF Window
  <2>3. \A i \in 1..Len(s), j \in DOMAIN win : s[i].seq = win[j].seq => s[i] = win[j]
    BY <1>5, <2>1 DEF Window
  <2>4. Len(win) = RecentCap \/ \A i \in 1..Len(s) : s[i].seq + Len(win) >= next
    BY <1>5, <2>1 DEF Window
  <2> QED BY <2>2, <2>3, <2>4 DEF Window
<1> QED BY <1>1, <1>3, <1>4, <1>5


-----------------------------------------------------------------------------
(* The inductive invariant *)

LEMMA WindowOfShortest ==
    /\ DuplicateWindow \in Nat /\ DuplicateWindow <= RecentCap
    /\ DuplicateWindow <= CompactMargin /\ DuplicateWindow <= MaxRetained
<1> DEFINE S == {RecentCap, CompactMargin, MaxRetained}
<1>1. \A x \in S : x \in Nat
  BY StoreAssumption
<1>2. \E w \in S : \A v \in S : w <= v
  <2>1. CASE RecentCap <= CompactMargin /\ RecentCap <= MaxRetained
    BY <1>1, <2>1
  <2>2. CASE CompactMargin <= RecentCap /\ CompactMargin <= MaxRetained
    BY <1>1, <2>2
  <2>3. CASE MaxRetained <= RecentCap /\ MaxRetained <= CompactMargin
    BY <1>1, <2>3
  <2> QED BY <1>1, <2>1, <2>2, <2>3
<1>3. DuplicateWindow \in S /\ \A v \in S : DuplicateWindow <= v
  BY <1>2 DEF DuplicateWindow
<1> QED BY <1>1, <1>3

\* An event of the log that was recorded recently has its key in the window.
LEMMA RecentlyRecorded ==
    ASSUME FeedInv, phase = "ready", NEW r \in recorded, r.seq + DuplicateWindow >= nextSeq
    PROVE  r.key \in seen
<1>1. /\ r.seq \in Nat \ {0} /\ nextSeq \in Nat \ {0} /\ acked \in Nat
      /\ \A i \in DOMAIN file : file[i].seq \in Nat /\ file[i].seq < nextSeq
      /\ RecentCap \in Nat /\ CompactMargin \in Nat /\ MaxRetained \in Nat
  <2>1. \A i \in DOMAIN file : file[i].seq < nextSeq
    BY Numbers DEF FeedInv, IInv, TopLogged, NumberedTo
  <2>2. r.seq \in Nat \ {0}
    BY LogFacts DEF FeedInv, IInv
  <2> QED BY <2>1, <2>2, Numbers, StoreAssumption DEF FeedInv, IInv, TypeOK
<1>2. acked < nextSeq
  <2>1. acked = 0 \/ \E i \in DOMAIN file : acked <= file[i].seq
    BY DEF FeedInv, IInv, AckLogged
  <2> QED BY <1>1, <2>1
<1>3. ~(r.seq + CompactMargin <= acked)
  BY <1>1, <1>2, WindowOfShortest
<1>4. ~ \E i \in DOMAIN file : r.seq + MaxRetained <= file[i].seq
  <2> SUFFICES ASSUME NEW i \in DOMAIN file, r.seq + MaxRetained <= file[i].seq PROVE FALSE
    OBVIOUS
  <2>1. file[i].seq \in Nat /\ file[i].seq < nextSeq
    BY <1>1
  <2> QED BY <1>1, <2>1, WindowOfShortest
<1>5. PICK i \in DOMAIN file : file[i] = EventLine(r.seq, r.key)
  BY <1>3, <1>4 DEF FeedInv, IInv, StillLogged
<1>6. file[i].seq = r.seq /\ file[i].key = r.key
  BY <1>5 DEF EventLine
<1>7. file[i].seq + RecentCap >= nextSeq /\ file[i].seq < nextSeq
  BY <1>1, <1>6, WindowOfShortest
<1>8. PICK j \in DOMAIN recent : recent[j] = file[i]
  BY <1>7, Covered DEF FeedInv, IInv, Windowed
<1> QED BY <1>6, <1>8 DEF FeedInv, Windowed

\* What an append that returns adds to the log and to the window.
LEMMA AppendOkFeed ==
    ASSUME FeedInv, NEW k \in Key, AppendOk(k)
    PROVE  /\ Consecutive(file') /\ KeysApart(file') /\ Windowed' /\ CopyIsSuffix'
           /\ NoDuplicateInWindow'
<1> DEFINE n == Len(file)  l == EventLine(nextSeq, k)
<1>1. /\ phase = "ready" /\ phase' = "ready" /\ k \notin seen /\ LineWritten(k)
      /\ nextSeq' = nextSeq + 1 /\ recent' = Pushed(recent, l)
      /\ seen' = (seen \union {k}) \ Evicted
      /\ recorded' = recorded \union {[seq |-> nextSeq, key |-> k]}
  BY DEF AppendOk, Appendable
<1>2. /\ TypeOK /\ Clean /\ Consecutive(file) /\ KeysApart(file) /\ NumberedTo(n)
      /\ Window(recent, nextSeq, file, n) /\ \A j \in DOMAIN recent : recent[j].key \in seen
  BY <1>1 DEF FeedInv, IInv, TopLogged, Windowed
<1>3. Consecutive(file') /\ KeysApart(file')
  BY <1>1, <1>2, FileGrows
<1>4. /\ file' \in Seq(Line) /\ Len(file') = n + 1 /\ n \in Nat
      /\ \A i \in 1..n : file'[i] = file[i] /\ file[i].seq < nextSeq
      /\ n + 1 \in DOMAIN file' /\ file'[n + 1] = l
      /\ l \in Line /\ l.kind = "event" /\ l.seq = nextSeq /\ l.key = k
  <2>1. n \in Nat /\ DOMAIN file = 1..n
    BY <1>2, Numbers
  <2>2. /\ l \in Line /\ file' \in Seq(Line) /\ Len(file') = n + 1 /\ file'[n + 1] = l
        /\ \A i \in DOMAIN file : file'[i] = file[i]
    BY <1>1, <1>2, LineWrittenClean
  <2>3. l.kind = "event" /\ l.seq = nextSeq /\ l.key = k
    BY DEF EventLine
  <2>4. \A i \in 1..n : file[i].seq < nextSeq
    BY <1>2 DEF NumberedTo
  <2> HIDE DEF n, l
  <2>5. n + 1 \in DOMAIN file'
    BY <2>1, <2>2
  <2> QED BY <2>1, <2>2, <2>3, <2>4, <2>5
<1>5. Window(recent', nextSeq', file', n + 1)
  <2>1. Window(recent, nextSeq, file', n)
    BY <1>2, <1>4 DEF Window
  <2>2. recent \in Seq(Line) /\ Len(recent) <= RecentCap /\ nextSeq \in Nat \ {0}
    BY <1>2 DEF TypeOK
  <2>3. \A j \in DOMAIN recent : recent[j].key # l.key
    BY <1>1, <1>2, <1>4
  <2>4. Follows(file', n, recent, nextSeq)
    <3>1. Sound(<<file'[n + 1]>>)
      BY <1>4, <2>2 DEF Sound
    <3>2. \A i \in 1..n : file'[i].seq < file'[n + 1].seq
      BY <1>4
    <3>3. file'[n + 1].seq = nextSeq /\ \A j \in DOMAIN recent : recent[j].key # file'[n + 1].key
      BY <1>4, <2>3
    <3> HIDE DEF n, l
    <3> QED BY <3>1, <3>2, <3>3 DEF Follows
  <2>5. Window(Pushed(recent, file'[n + 1]), file'[n + 1].seq + 1, file', n + 1)
    <3>1. n \in Nat /\ n + 1 \in DOMAIN file' /\ file' \in Seq(Line) /\ nextSeq \in Nat
      BY <1>4, <2>2
    <3> HIDE DEF n, l
    <3> QED BY <3>1, <2>1, <2>2, <2>4, WindowGrows
  <2> QED BY <1>1, <1>4, <2>5
<1>6. \A j \in DOMAIN recent' : recent'[j].key \in seen'
  <2> DEFINE p == Pushed(recent, l)
  <2>1. /\ p \in Seq(Line) /\ Len(p) \in Nat \ {0} /\ DOMAIN p = 1..Len(p) /\ p[Len(p)] = l
        /\ \/ Len(recent) = RecentCap /\ Len(p) = Len(recent) /\ \A j \in 1..(Len(p) - 1) : p[j] = recent[j + 1]
           \/ Len(recent) < RecentCap /\ Len(p) = Len(recent) + 1 /\ \A j \in 1..(Len(p) - 1) : p[j] = recent[j]
    <3> HIDE DEF l
    <3> QED BY <1>2, <1>4, PushedIs DEF TypeOK
  <2>2. \A i, j \in DOMAIN p : p[i].key = p[j].key => i = j
    BY <1>1, <1>5 DEF Window
  <2>3. Len(recent) \in Nat /\ DOMAIN recent = 1..Len(recent) /\ RecentCap \in Nat \ {0}
    BY <1>2, Numbers
  <2>4. recent # <<>> => Head(recent) = recent[1]
    BY <1>2 DEF TypeOK
  <2> HIDE DEF p, l
  <2> SUFFICES ASSUME NEW j \in DOMAIN p PROVE p[j].key \in seen'
    BY <1>1 DEF p
  <2>5. CASE Len(recent) = RecentCap /\ Len(p) = Len(recent) /\ \A i \in 1..(Len(p) - 1) : p[i] = recent[i + 1]
    <3>1. Evicted = {recent[1].key}
      BY <2>3, <2>4, <2>5 DEF Evicted
    <3>2. 1 \in DOMAIN recent
      BY <2>3, <2>5
    <3>3. CASE j = Len(p)
      <4>1. p[j].key = k
        BY <2>1, <3>3, <1>4
      <4>2. k # recent[1].key
        BY <1>1, <1>2, <3>2
      <4> QED BY <4>1, <4>2, <3>1, <1>1
    <3>4. CASE j # Len(p)
      <4>1. j \in 1..(Len(p) - 1) /\ j + 1 \in DOMAIN recent /\ j + 1 # 1
        BY <2>1, <2>3, <2>5, <3>4
      <4>2. p[j] = recent[j + 1]
        BY <2>5, <4>1
      <4>3. recent[j + 1].key # recent[1].key
        BY <1>2, <3>2, <4>1 DEF Window
      <4> QED BY <4>1, <4>2, <4>3, <3>1, <1>1, <1>2
    <3> QED BY <3>3, <3>4
  <2>6. CASE Len(recent) < RecentCap /\ Len(p) = Len(recent) + 1 /\ \A i \in 1..(Len(p) - 1) : p[i] = recent[i]
    <3>1. Evicted = {}
      BY <2>3, <2>6 DEF Evicted
    <3>2. CASE j = Len(p)
      BY <2>1, <3>1, <3>2, <1>1, <1>4
    <3>3. CASE j # Len(p)
      <4>1. j \in 1..(Len(p) - 1)
        BY <2>1, <3>3, BelowLast
      <4>2. j \in DOMAIN recent
        BY <2>3, <2>6, <4>1
      <4> QED BY <4>1, <4>2, <2>6, <3>1, <1>1, <1>2
    <3> QED BY <3>2, <3>3
  <2> QED BY <2>1, <2>5, <2>6
<1>7. NoDuplicateInWindow'
  <2>1. NoDuplicateInWindow /\ \A r \in recorded : r.seq \in Nat /\ r.seq < nextSeq
    <3>1. \A r \in recorded : \E i \in DOMAIN file : r.seq <= file[i].seq
      BY DEF FeedInv, IInv, TopLogged
    <3>2. \A i \in DOMAIN file : file[i].seq \in Nat /\ file[i].seq < nextSeq
      BY <1>2, <1>4, Numbers
    <3>3. \A r \in recorded : r.seq \in Nat
      BY <1>2, LogFacts
    <3>4. nextSeq \in Nat
      BY <1>2, Numbers
    <3> QED BY <3>1, <3>2, <3>3, <3>4 DEF FeedInv
  <2>2. nextSeq \in Nat /\ DuplicateWindow \in Nat
    BY <1>2, Numbers, WindowOfShortest
  <2>3. \A r \in recorded : r.key = k => r.seq + DuplicateWindow < nextSeq
    BY <1>1, <2>1, <2>2, RecentlyRecorded
  <2> SUFFICES ASSUME NEW r \in recorded', NEW s \in recorded', r.key = s.key, r.seq < s.seq
               PROVE  r.seq + DuplicateWindow < s.seq
    BY DEF NoDuplicateInWindow, DuplicateWindow
  <2>4. CASE r \in recorded /\ s \in recorded
    BY <2>1, <2>4 DEF NoDuplicateInWindow
  <2>5. CASE r \in recorded /\ s = [seq |-> nextSeq, key |-> k]
    BY <2>3, <2>5
  <2>6. CASE r = [seq |-> nextSeq, key |-> k]
    BY <1>1, <2>1, <2>2, <2>6
  <2> QED BY <1>1, <2>4, <2>5, <2>6
<1> QED BY <1>1, <1>3, <1>4, <1>5, <1>6, <1>7 DEF Windowed, CopyIsSuffix

LEMMA OpenLineFeed ==
    ASSUME FeedInv, OpenLine
    PROVE  Windowed'
<1> DEFINE n == at - 1  l == file[at]
<1>1. /\ phase = "loading" /\ phase' = "loading" /\ UNCHANGED file
      /\ Lines = file /\ at \in DOMAIN file
  BY CleanLines, LogFacts DEF OpenLine, FeedInv, IInv, TypeOK, diskVars
<1>2. /\ Window(recent, nextSeq, file, n) /\ Len(recent) <= n
      /\ \A j \in DOMAIN recent : recent[j] = file[n - Len(recent) + j]
      /\ NumberedTo(n) /\ Consecutive(file) /\ KeysApart(file)
      /\ TypeOK /\ Clean
  BY <1>1 DEF FeedInv, IInv, Windowed, Loaded
<1>3. /\ at \in 1..Len(file) /\ n \in Nat /\ n + 1 = at /\ n < at /\ Len(file) \in Nat
      /\ nextSeq \in Nat \ {0} /\ l \in Line /\ l.seq \in Nat \ {0}
      /\ DOMAIN file = 1..Len(file) /\ \A i \in DOMAIN file : file[i].seq \in Nat
      /\ recent \in Seq(Line) /\ Len(recent) \in Nat /\ DOMAIN recent = 1..Len(recent)
      /\ Len(recent) <= RecentCap /\ RecentCap \in Nat
  BY <1>1, <1>2, Numbers DEF TypeOK
<1>4. l.kind = "event" /\ l.key \in Key
  BY <1>1, <1>2 DEF Clean, Sound
<1>5. /\ recent' = Pushed(recent, l) /\ at' = at + 1
      /\ nextSeq' = IF l.seq >= nextSeq THEN l.seq + 1 ELSE nextSeq
  BY <1>1, <1>4 DEF OpenLine, Parses, NumberedPast, NextAfter
<1>6. \A i \in 1..n : i \in DOMAIN file /\ file[i].seq + at = l.seq + i /\ file[i].seq < l.seq
  <2> SUFFICES ASSUME NEW i \in 1..n
               PROVE  i \in DOMAIN file /\ file[i].seq + at = l.seq + i /\ file[i].seq < l.seq
    OBVIOUS
  <2>1. i \in DOMAIN file /\ i \in Nat /\ i < at
    BY <1>3
  <2>2. file[i].seq + at = l.seq + i
    BY <1>1, <1>2, <2>1 DEF Consecutive
  <2>3. file[i].seq \in Nat /\ l.seq \in Nat /\ at \in Nat
    BY <1>3, <2>1
  <2> HIDE DEF l
  <2>4. PICK a \in Nat, b \in Nat, x \in Nat, y \in Nat :
          a = file[i].seq /\ b = l.seq /\ x = at /\ y = i
    BY <2>1, <2>3
  <2>5. a + x = b + y /\ y < x
    BY <2>1, <2>2, <2>4
  <2>6. a < b
    BY <2>5
  <2> QED BY <2>1, <2>2, <2>4, <2>6
<1>7. l.seq = nextSeq \/ (n = 0 /\ recent = <<>>)
  <2>1. CASE n = 0
    <3>1. Len(recent) = 0
      BY <2>1, <1>2, <1>3
    <3>2. recent = <<>>
      <4> HIDE DEF n, l
      <4> QED BY <3>1, <1>3
    <3> QED BY <2>1, <3>2
  <2>2. CASE n # 0
    <3>1. file[n].seq + 1 = nextSeq
      BY <2>2, <1>2, <1>3, TopIs
    <3>2. file[n].seq + at = l.seq + n /\ file[n].seq \in Nat
      BY <2>2, <1>3, <1>6
    <3> QED BY <3>1, <3>2, <1>3
  <2> QED BY <2>1, <2>2
<1>8. l.seq >= nextSeq
  <2>1. n = 0 => nextSeq = 1
    BY <1>2, <1>3, TopIs
  <2> QED BY <2>1, <1>3, <1>7
<1>9. \A j \in DOMAIN recent : recent[j].key # l.key
  <2> SUFFICES ASSUME NEW j \in DOMAIN recent, recent[j].key = l.key PROVE FALSE
    OBVIOUS
  <2>1. PICK q \in 1..n : q + Len(recent) = n + j /\ recent[j] = file[q]
    <3>1. n - Len(recent) + j \in 1..n /\ (n - Len(recent) + j) + Len(recent) = n + j
      BY <1>2, <1>3
    <3> QED BY <3>1, <1>2
  <2>2. file[q].seq + at = l.seq + q /\ file[q].seq < l.seq /\ file[q].key = l.key /\ q \in DOMAIN file
    BY <1>6, <2>1
  <2>3. file[q].seq + RecentCap < l.seq
    BY <1>1, <1>2, <2>2 DEF KeysApart
  <2> HIDE DEF n, l
  <2>4. PICK a \in Nat, b \in Nat, W \in Nat, x \in Nat :
          a = file[q].seq /\ b = l.seq /\ W = Len(recent) /\ x = j
    <3>1. j \in Nat /\ file[q].seq \in Nat /\ l.seq \in Nat /\ Len(recent) \in Nat
      BY <1>3, <2>2
    <3> QED BY <3>1
  <2>5. /\ a + at = b + q /\ a + RecentCap < b /\ q + W = n + x /\ n + 1 = at /\ x >= 1
        /\ W <= RecentCap /\ RecentCap \in Nat /\ n \in Nat /\ q \in Nat
    BY <1>3, <2>1, <2>2, <2>3, <2>4
  <2> QED BY <2>5
<1>10. Follows(file, n, recent, nextSeq)
  <2>1. Sound(<<file[n + 1]>>)
    BY <1>3, <1>4 DEF Sound
  <2>2. file[n + 1] = l
    BY <1>3
  <2> HIDE DEF n, l
  <2> QED BY <1>6, <1>7, <1>9, <2>1, <2>2 DEF Follows
<1>11. Window(Pushed(recent, file[n + 1]), file[n + 1].seq + 1, file, n + 1)
  <2>1. file \in Seq(Line) /\ n + 1 \in DOMAIN file /\ nextSeq \in Nat
    BY <1>1, <1>2, <1>3 DEF TypeOK
  <2> HIDE DEF n
  <2> QED BY <1>2, <1>3, <1>10, <2>1, WindowGrows
<1>12. Window(recent', nextSeq', file', at' - 1)
  <2>1. at' - 1 = at
    BY <1>3, <1>5
  <2> QED BY <2>1, <1>1, <1>3, <1>5, <1>8, <1>11
<1>13. /\ Len(recent') <= at' - 1
       /\ \A j \in DOMAIN recent' : recent'[j] = file'[at' - 1 - Len(recent') + j]
  <2> DEFINE p == Pushed(recent, l)
  <2>1. /\ p \in Seq(Line) /\ Len(p) \in Nat \ {0} /\ DOMAIN p = 1..Len(p) /\ p[Len(p)] = l
        /\ \/ Len(recent) = RecentCap /\ Len(p) = Len(recent) /\ \A j \in 1..(Len(p) - 1) : p[j] = recent[j + 1]
           \/ Len(recent) < RecentCap /\ Len(p) = Len(recent) + 1 /\ \A j \in 1..(Len(p) - 1) : p[j] = recent[j]
    <3> HIDE DEF l
    <3> QED BY <1>3, PushedIs
  <2>2. at' - 1 = at
    BY <1>3, <1>5
  <2> HIDE DEF p, n
  <2>w. PICK P \in Nat, W \in Nat, A \in Nat, N \in Nat :
          P = Len(p) /\ W = Len(recent) /\ A = at /\ N = n
    <3>0. at \in Nat
      BY <1>2 DEF TypeOK
    <3>1. at \in Nat /\ n \in Nat /\ Len(p) \in Nat /\ Len(recent) \in Nat
      BY <1>3, <2>1, <3>0
    <3> QED BY <3>1
  <2>e. P # 0 /\ W <= N /\ N + 1 = A /\ DOMAIN p = 1..P /\ DOMAIN recent = 1..W
    BY <1>2, <1>3, <2>1, <2>w
  <2>c. PICK d \in {0, 1} : P + d = W + 1 /\ \A j \in 1..(P - 1) : p[j] = recent[j + d]
    <3>1. CASE Len(recent) = RecentCap /\ Len(p) = Len(recent) /\ \A j \in 1..(Len(p) - 1) : p[j] = recent[j + 1]
      BY <2>w, <3>1
    <3>2. CASE Len(recent) < RecentCap /\ Len(p) = Len(recent) + 1 /\ \A j \in 1..(Len(p) - 1) : p[j] = recent[j]
      <4>1. P + 0 = W + 1 /\ \A j \in 1..(P - 1) : j + 0 = j
        BY <2>w, <3>2
      <4> QED BY <2>w, <3>2, <4>1
    <3> QED BY <2>1, <3>1, <3>2
  <2>3. P <= A
    BY <2>c, <2>e
  <2>4. \A j \in 1..P : p[j] = file[A - P + j]
    <3> SUFFICES ASSUME NEW j \in 1..P PROVE p[j] = file[A - P + j]
      OBVIOUS
    <3>1. CASE j = P
      <4>1. A - P + j = A
        BY <3>1
      <4> QED BY <4>1, <3>1, <2>1, <2>w
    <3>2. CASE j # P
      <4>1. j \in 1..(P - 1) /\ j + d \in 1..W /\ N - W + (j + d) = A - P + j
        <5>1. d \in Nat /\ P + d = W + 1 /\ N + 1 = A /\ W <= N /\ j <= P /\ j >= 1
          BY <2>c, <2>e
        <5>2. j \in 1..(P - 1)
          BY <3>2
        <5> QED BY <5>1, <5>2
      <4>2. p[j] = recent[j + d] /\ recent[j + d] = file[N - W + (j + d)]
        BY <4>1, <2>c, <2>e, <2>w, <1>2
      <4> QED BY <4>1, <4>2
    <3> QED BY <3>1, <3>2
  <2>5. Len(p) <= at /\ \A j \in DOMAIN p : p[j] = file[at - Len(p) + j]
    BY <2>w, <2>e, <2>3, <2>4
  <2> QED BY <1>1, <1>5, <2>2, <2>5 DEF p
<1> QED BY <1>1, <1>12, <1>13 DEF Windowed

LEMMA OpenBeginFeed ==
    ASSUME FeedInv, OpenBegin
    PROVE  Windowed'
<1>1. recent = <<>> /\ recent' = <<>> /\ phase' = "loading" /\ at' = 1 /\ at' - 1 = 0
  BY DEF OpenBegin, FeedInv, Windowed
<1>2. Window(<<>>, nextSeq', file', 0)
  BY DEF Window, Sound
<1>3. Len(<<>>) = 0 /\ DOMAIN <<>> = {}
  OBVIOUS
<1> QED BY <1>1, <1>2, <1>3 DEF Windowed

LEMMA OpenEndFeed ==
    ASSUME FeedInv, OpenEnd
    PROVE  Windowed'
<1>1. /\ phase = "loading" /\ phase' = "ready" /\ seen' = KeysOf(recent)
      /\ UNCHANGED <<file, recent, nextSeq>>
  BY DEF OpenEnd, diskVars
<1>2. at - 1 = Len(file)
  BY <1>1, CleanLines, LogFacts DEF OpenEnd, FeedInv, IInv, Loaded
<1>3. Window(recent, nextSeq, file, Len(file))
  BY <1>1, <1>2 DEF FeedInv, Windowed
<1> QED BY <1>1, <1>3 DEF Windowed, KeysOf

\* A compaction reads on: a kept line follows the ones it has kept, and a line
\* it leaves out has none before it.
LEMMA CompactLineFeed ==
    ASSUME FeedInv, CompactLine
    PROVE  CopyIsSuffix'
<1>1. /\ phase = "compacting" /\ phase' = "compacting"
      /\ UNCHANGED <<file, nextSeq, ackThrough>>
      /\ Lines = file /\ at \in DOMAIN file /\ file[at].kind = "event"
      /\ TypeOK /\ Consecutive(file)
  <2>1. /\ phase = "compacting" /\ phase' = "compacting" /\ at <= Len(Lines)
        /\ UNCHANGED <<file, nextSeq, ackThrough>>
    BY DEF CompactLine, diskVars
  <2>2. Lines = file /\ TypeOK /\ Clean /\ Consecutive(file)
    BY CleanLines DEF FeedInv, IInv
  <2>3. at \in DOMAIN file
    BY <2>1, <2>2, LogFacts DEF FeedInv, IInv, Kept
  <2> QED BY <2>1, <2>2, <2>3 DEF Clean, Sound
<1>2. /\ Len(tmp) + dropped = at - 1
      /\ \A j \in DOMAIN tmp : tmp[j] = file[dropped + j] /\ tmp[j].seq > KeepAbove
      /\ \A i \in 1..dropped : file[i].seq <= KeepAbove
  BY <1>1 DEF FeedInv, CopyIsSuffix
<1>3. /\ at \in Nat /\ at \in 1..Len(file) /\ Len(file) \in Nat /\ DOMAIN file = 1..Len(file)
      /\ tmp \in Seq(Line) /\ Len(tmp) \in Nat /\ DOMAIN tmp = 1..Len(tmp) /\ dropped \in Nat
      /\ file[at] \in Line /\ KeepAbove \in Nat
      /\ \A i \in DOMAIN file : file[i].seq \in Nat
  BY <1>1, LogFacts DEF TypeOK
<1>4. KeepAbove' = KeepAbove
  BY <1>1 DEF KeepAbove, MaxSeqNow
<1>5. /\ at' = at + 1
      /\ tmp' = IF file[at].seq > KeepAbove THEN Append(tmp, file[at]) ELSE tmp
      /\ dropped' = IF ~(file[at].seq > KeepAbove) THEN dropped + 1 ELSE dropped
  BY <1>1 DEF CompactLine, Keeps, Parses, NextAfter
<1>6. CASE file[at].seq > KeepAbove
  <2>1. tmp' = Append(tmp, file[at]) /\ dropped' = dropped
    BY <1>5, <1>6
  <2>2. /\ Len(tmp') = Len(tmp) + 1 /\ DOMAIN tmp' = 1..(Len(tmp) + 1)
        /\ tmp'[Len(tmp) + 1] = file[at] /\ \A j \in 1..Len(tmp) : tmp'[j] = tmp[j]
    BY <1>3, <2>1
  <2>3. dropped + (Len(tmp) + 1) = at /\ Len(tmp') + dropped' = at' - 1
    <3>1. PICK W \in Nat, d \in Nat, a \in Nat : W = Len(tmp) /\ d = dropped /\ a = at
      BY <1>3
    <3>2. W + d = a - 1
      BY <1>2, <3>1
    <3>3. d + (W + 1) = a /\ (W + 1) + d = (a + 1) - 1
      BY <3>2
    <3> QED BY <1>5, <2>1, <2>2, <3>1, <3>3
  <2>4. \A j \in DOMAIN tmp' : tmp'[j] = file[dropped + j] /\ tmp'[j].seq > KeepAbove
    <3> SUFFICES ASSUME NEW j \in DOMAIN tmp'
                 PROVE  tmp'[j] = file[dropped + j] /\ tmp'[j].seq > KeepAbove
      OBVIOUS
    <3>1. CASE j = Len(tmp) + 1
      BY <3>1, <2>2, <2>3, <1>6
    <3>2. CASE j # Len(tmp) + 1
      <4>1. j \in DOMAIN tmp
        BY <1>3, <2>2, <3>2
      <4> QED BY <4>1, <1>2, <1>3, <2>2
    <3> QED BY <3>1, <3>2
  <2> QED BY <1>1, <1>2, <1>4, <2>1, <2>3, <2>4 DEF CopyIsSuffix
<1>7. CASE ~(file[at].seq > KeepAbove)
  <2>1. tmp' = tmp /\ dropped' = dropped + 1
    BY <1>5, <1>7
  <2>2. DOMAIN tmp = {}
    <3> SUFFICES ASSUME NEW j \in DOMAIN tmp PROVE FALSE
      OBVIOUS
    <3>1. dropped + j \in DOMAIN file /\ dropped + j < at /\ dropped + j \in Nat
      BY <1>2, <1>3
    <3>2. file[dropped + j].seq > KeepAbove
      BY <1>2
    <3>3. file[at].seq + (dropped + j) = file[dropped + j].seq + at
      BY <1>1, <3>1 DEF Consecutive
    <3>4. file[at].seq \in Nat /\ file[dropped + j].seq \in Nat
      BY <1>1, <1>3, <3>1
    <3>5. PICK a \in Nat, b \in Nat, x \in Nat, y \in Nat :
            a = file[at].seq /\ b = file[dropped + j].seq /\ x = dropped + j /\ y = at
      BY <3>1, <3>4, <1>3
    <3>6. a + x = b + y /\ x < y /\ b > KeepAbove /\ ~(a > KeepAbove) /\ KeepAbove \in Nat
      BY <1>3, <1>7, <3>1, <3>2, <3>3, <3>5
    <3> QED BY <3>6
  <2>3. Len(tmp) = 0
    BY <1>3, <2>2
  <2>4. dropped + 1 = at /\ Len(tmp') + dropped' = at' - 1
    BY <1>2, <1>3, <1>5, <2>1, <2>3
  <2>5. \A i \in 1..(dropped + 1) : file[i].seq <= KeepAbove
    <3> SUFFICES ASSUME NEW i \in 1..(dropped + 1) PROVE file[i].seq <= KeepAbove
      OBVIOUS
    <3>1. i \in 1..dropped \/ i = at
      BY <1>3, <2>4
    <3>2. file[at].seq <= KeepAbove
      BY <1>1, <1>3, <1>7
    <3> QED BY <3>1, <3>2, <1>2
  <2> QED BY <1>1, <1>4, <2>1, <2>2, <2>4, <2>5 DEF CopyIsSuffix
<1> QED BY <1>6, <1>7

\* The copy takes the place of the log.
LEMMA CompactSwapFeed ==
    ASSUME FeedInv, CompactSwap
    PROVE  Consecutive(file') /\ KeysApart(file') /\ Windowed' /\ CopyIsSuffix'
<1>1. /\ phase = "compacting" /\ phase' = "ready" /\ file' = tmp
      /\ UNCHANGED <<nextSeq, recent, seen>>
  BY DEF CompactSwap
<1>2. /\ TypeOK /\ Clean /\ Consecutive(file) /\ KeysApart(file)
      /\ Window(recent, nextSeq, file, Len(file)) /\ \A j \in DOMAIN recent : recent[j].key \in seen
  BY <1>1 DEF FeedInv, IInv, Windowed
<1>3. at - 1 = Len(file)
  BY <1>1, CleanLines, LogFacts DEF CompactSwap, FeedInv, IInv, Kept
<1>4. EndOf(tmp, file, dropped)
  BY <1>1, <1>3 DEF FeedInv, CopyIsSuffix, EndOf
<1>5. tmp \in Seq(Line) /\ file \in Seq(Line) /\ dropped \in Nat
  BY <1>2 DEF TypeOK
<1>6. /\ Consecutive(tmp) /\ KeysApart(tmp)
      /\ Window(recent, nextSeq, tmp, Len(tmp))
  BY <1>2, <1>4, <1>5, FileCut
<1> QED BY <1>1, <1>2, <1>6 DEF Windowed, CopyIsSuffix

LEMMA CrashAfterWriteFeed ==
    ASSUME FeedInv, NEW k \in Key, CrashAfterWrite(k)
    PROVE  Consecutive(file') /\ KeysApart(file') /\ Windowed' /\ CopyIsSuffix'
<1>1. /\ phase = "ready" /\ phase' = "down" /\ recent' = <<>> /\ k \notin seen /\ LineWritten(k)
  BY DEF CrashAfterWrite, LoseMemory, Appendable
<1>2. /\ TypeOK /\ Clean /\ Consecutive(file) /\ KeysApart(file) /\ NumberedTo(Len(file))
      /\ Window(recent, nextSeq, file, Len(file)) /\ \A j \in DOMAIN recent : recent[j].key \in seen
  BY <1>1 DEF FeedInv, IInv, TopLogged, Windowed
<1>3. Consecutive(file') /\ KeysApart(file')
  BY <1>1, <1>2, FileGrows
<1> QED BY <1>1, <1>3 DEF Windowed, CopyIsSuffix

\* A step that leaves the log, the window and the numbering as they are.
LEMMA FeedUnchanged ==
    ASSUME FeedInv, UNCHANGED <<file, nextSeq, recent, seen>>,
           phase \in {"ready", "compacting"}, phase' \in {"ready", "compacting"}
    PROVE  Windowed'
  BY DEF FeedInv, Windowed

-----------------------------------------------------------------------------
LEMMA FeedInit == Init => FeedInv
<1> SUFFICES ASSUME Init PROVE FeedInv
  OBVIOUS
<1>1. file = <<>> /\ recent = <<>> /\ phase = "down" /\ recorded = {}
  BY DEF Init
<1>2. Consecutive(<<>>) /\ KeysApart(<<>>)
  BY DEF Consecutive, KeysApart
<1> QED BY <1>1, <1>2, IInvInit DEF FeedInv, Windowed, CopyIsSuffix, NoDuplicateInWindow

LEMMA FeedStep ==
    ASSUME Faults = {}, FeedInv, [Next]_vars
    PROVE  FeedInv'
<1>0. IInv'
  BY IInvStep DEF FeedInv
<1> DEFINE Rest == /\ Consecutive(file) /\ KeysApart(file) /\ Windowed /\ CopyIsSuffix
                   /\ NoDuplicateInWindow
<1> SUFFICES Rest'
  BY <1>0 DEF FeedInv
<1>d. recorded' = recorded => NoDuplicateInWindow'
  BY DEF FeedInv, NoDuplicateInWindow, DuplicateWindow
<1>f. file' = file => Consecutive(file') /\ KeysApart(file')
  BY DEF FeedInv
<1>1. CASE OpenBegin
  <2>1. UNCHANGED <<file, recorded>> /\ phase' = "loading"
    BY <1>1 DEF OpenBegin, diskVars
  <2> QED BY <1>1, <1>d, <1>f, <2>1, OpenBeginFeed DEF CopyIsSuffix
<1>2. CASE OpenLine
  <2>1. UNCHANGED <<file, recorded>> /\ phase' = "loading"
    BY <1>2 DEF OpenLine, diskVars
  <2> QED BY <1>2, <1>d, <1>f, <2>1, OpenLineFeed DEF CopyIsSuffix
<1>3. CASE OpenEnd
  <2>1. UNCHANGED <<file, recorded>> /\ phase' = "ready"
    BY <1>3 DEF OpenEnd, diskVars
  <2> QED BY <1>3, <1>d, <1>f, <2>1, OpenEndFeed DEF CopyIsSuffix
<1>4. ASSUME NEW k \in Key, AppendOk(k) PROVE Rest'
  BY <1>4, AppendOkFeed
<1>5. ASSUME NEW k \in Key, CrashAfterWrite(k) PROVE Rest'
  <2>1. recorded' = recorded
    BY <1>5 DEF CrashAfterWrite
  <2> QED BY <1>5, <1>d, <2>1, CrashAfterWriteFeed
<1>6. CASE Crash
  <2>1. UNCHANGED <<file, recorded>> /\ phase' = "down" /\ recent' = <<>>
    BY <1>6 DEF Crash, LoseMemory, diskVars
  <2> QED BY <1>d, <1>f, <2>1 DEF Windowed, CopyIsSuffix
<1>7. ASSUME NEW t \in Ackable, SetAck(t) PROVE Rest'
  <2>1. /\ UNCHANGED <<file, recorded, nextSeq, recent, seen>>
        /\ phase = "ready" /\ phase' = "ready"
    BY <1>7 DEF SetAck
  <2> QED BY <1>d, <1>f, <2>1, FeedUnchanged DEF CopyIsSuffix
<1>8. CASE CompactBegin
  <2>1. /\ UNCHANGED <<file, recorded, nextSeq, recent, seen>>
        /\ phase = "ready" /\ phase' = "compacting"
        /\ tmp' = <<>> /\ dropped' = 0 /\ at' = 1
    BY <1>8 DEF CompactBegin, diskVars
  <2>2. CopyIsSuffix'
    <3>1. Len(<<>>) + 0 = 1 - 1 /\ DOMAIN <<>> = {} /\ 1..0 = {}
      OBVIOUS
    <3> QED BY <2>1, <3>1 DEF CopyIsSuffix
  <2> QED BY <1>d, <1>f, <2>1, <2>2, FeedUnchanged
<1>9. CASE CompactLine
  <2>1. /\ UNCHANGED <<file, recorded, nextSeq, recent, seen>>
        /\ phase = "compacting" /\ phase' = "compacting"
    BY <1>9 DEF CompactLine, diskVars
  <2> QED BY <1>9, <1>d, <1>f, <2>1, FeedUnchanged, CompactLineFeed
<1>10. CASE CompactDiscard \/ CompactFail
  <2>1. /\ UNCHANGED <<file, recorded, nextSeq, recent, seen>>
        /\ phase = "compacting" /\ phase' = "ready"
    BY <1>10 DEF CompactDiscard, CompactFail, diskVars
  <2> QED BY <1>d, <1>f, <2>1, FeedUnchanged DEF CopyIsSuffix
<1>11. CASE CompactSwap
  <2>1. recorded' = recorded
    BY <1>11 DEF CompactSwap
  <2> QED BY <1>11, <1>d, <2>1, CompactSwapFeed
<1>12. CASE UNCHANGED vars
  <2>1. KeepAbove' = KeepAbove
    BY <1>12 DEF vars, memVars, KeepAbove, MaxSeqNow
  <2> QED BY <1>12, <1>d, <1>f, <2>1 DEF vars, memVars, diskVars, FeedInv, Windowed, CopyIsSuffix
<1> QED
  BY <1>1, <1>2, <1>3, <1>4, <1>5, <1>6, <1>7, <1>8, <1>9, <1>10, <1>11, <1>12
     DEF Next, AppendUnsynced, AppendTorn, CrashInWrite, LineTorn

-----------------------------------------------------------------------------
(* The theorems *)

\* The events of the lines of s, and the number of the last.
EventsOf(s) == {[seq |-> s[i].seq, key |-> s[i].key] : i \in DOMAIN s}
LastOf(s)   == IF s = <<>> THEN 0 ELSE s[Len(s)].seq

LEMMA FeedIs ==
    /\ tail = NoTail => LoggedEvents = EventsOf(file) /\ Highest = LastOf(file)
    /\ tail' = NoTail => LoggedEvents' = EventsOf(file') /\ Highest' = LastOf(file')
<1>1. tail = NoTail => Lines = file
  BY DEF Lines, NoTail
<1>2. tail' = NoTail => Lines' = file'
  BY DEF Lines, NoTail
<1> QED BY <1>1, <1>2 DEF LoggedEvents, Highest, EventsOf, LastOf

\* The events of the log, by position, and its length, by number.
LEMMA FeedPositions ==
    ASSUME TypeOK, Clean, Consecutive(file)
    PROVE  /\ \A e \in EventsOf(file) : \E i \in DOMAIN file :
                e = [seq |-> file[i].seq, key |-> file[i].key]
           /\ \A i \in DOMAIN file : /\ file[i].seq \in Nat \ {0} /\ i \in Nat
                                     /\ file[i].seq + Len(file) = LastOf(file) + i
           /\ LastOf(file) \in Nat
           /\ file # <<>> => Len(file) \in DOMAIN file
<1>1. /\ Len(file) \in Nat /\ DOMAIN file = 1..Len(file)
      /\ \A i \in DOMAIN file : file[i].seq \in Nat \ {0} /\ i \in Nat
  BY Numbers
<1>2. file # <<>> => Len(file) \in DOMAIN file
  BY <1>1 DEF TypeOK
<1>3. \A i \in DOMAIN file : file # <<>>
  BY <1>1
<1>4. \A i \in DOMAIN file : file[i].seq + Len(file) = LastOf(file) + i
  BY <1>2, <1>3 DEF LastOf, Consecutive
<1>5. LastOf(file) \in Nat
  BY <1>1, <1>2 DEF LastOf
<1> QED BY <1>1, <1>2, <1>4, <1>5 DEF EventsOf

LEMMA HoleFree ==
    ASSUME TypeOK, Clean, Consecutive(file)
    PROVE  FeedHasNoHole
<1>1. LoggedEvents = EventsOf(file) /\ Highest = LastOf(file)
  BY FeedIs DEF Clean
<1> SUFFICES ASSUME NEW e \in EventsOf(file), NEW n \in e.seq..LastOf(file)
             PROVE  \E f \in EventsOf(file) : f.seq = n
  BY <1>1 DEF FeedHasNoHole, Feed!NoHole
<1>2. PICK i \in DOMAIN file : e = [seq |-> file[i].seq, key |-> file[i].key]
  BY FeedPositions
<1>3. PICK a \in Nat, L \in Nat, h \in Nat, x \in Nat :
        a = file[i].seq /\ L = Len(file) /\ h = LastOf(file) /\ x = i
  BY FeedPositions, Numbers
<1>4. a + L = h + x /\ n \in a..h /\ x >= 1
  BY <1>2, <1>3, FeedPositions, Numbers
<1>5. PICK y \in 1..L : n + x = a + y
  <2>1. n + x - a \in 1..L /\ n + x = a + (n + x - a)
    BY <1>4
  <2> QED BY <2>1
<1>6. y \in DOMAIN file /\ file[y].seq + x = a + y
  BY <1>3, <1>5, Numbers DEF Consecutive
<1>7. file[y].seq \in Nat
  BY <1>6, FeedPositions
<1>8. file[y].seq = n
  BY <1>4, <1>5, <1>6, <1>7
<1>9. [seq |-> file[y].seq, key |-> file[y].key] \in EventsOf(file)
  BY <1>6 DEF EventsOf
<1> QED BY <1>8, <1>9

LEMMA KeysDistinct ==
    ASSUME TypeOK, Clean, Consecutive(file), KeysApart(file)
    PROVE  FeedIsDistinct
<1>1. LoggedEvents = EventsOf(file)
  BY FeedIs DEF Clean
<1> SUFFICES ASSUME NEW e \in EventsOf(file), NEW f \in EventsOf(file)
             PROVE  /\ e.seq = f.seq => e = f
                    /\ e.key = f.key /\ e.seq < f.seq => e.seq + RecentCap < f.seq
  BY <1>1 DEF FeedIsDistinct, Feed!Distinct
<1>2. PICK i \in DOMAIN file : e = [seq |-> file[i].seq, key |-> file[i].key]
  BY FeedPositions
<1>3. PICK j \in DOMAIN file : f = [seq |-> file[j].seq, key |-> file[j].key]
  BY FeedPositions
<1>4. ASSUME file[i].seq = file[j].seq PROVE e = f
  <2>1. file[j].seq + i = file[i].seq + j /\ i \in Nat /\ j \in Nat /\ file[i].seq \in Nat
    BY FeedPositions DEF Consecutive
  <2>2. i = j
    BY <1>4, <2>1
  <2> QED BY <1>2, <1>3, <2>2
<1>5. file[i].key = file[j].key /\ file[i].seq < file[j].seq => file[i].seq + RecentCap < file[j].seq
  BY DEF KeysApart
<1> QED BY <1>2, <1>3, <1>4, <1>5

\* The log's last number is the one before the next.
LEMMA HighestIs ==
    ASSUME FeedInv, phase \in {"ready", "compacting"}
    PROVE  LastOf(file) + 1 = nextSeq
<1>1. /\ TypeOK /\ Clean /\ Consecutive(file) /\ NumberedTo(Len(file))
      /\ Len(file) \in Nat /\ file \in Seq(Line)
  BY Numbers DEF FeedInv, IInv, TopLogged, TypeOK
<1>2. /\ Len(file) = 0 => nextSeq = 1
      /\ Len(file) # 0 => file[Len(file)].seq + 1 = nextSeq
  BY <1>1, TopIs
<1>3. file = <<>> <=> Len(file) = 0
  BY <1>1
<1> QED BY <1>2, <1>3 DEF LastOf

\* An append that reaches the log publishes an event.
LEMMA AppendPublishes ==
    ASSUME FeedInv, NEW k \in Key, Appendable(k), LineWritten(k), acked' = acked
    PROVE  Feed!Publish(k)
<1>1. phase = "ready" /\ k \notin seen /\ nextSeq <= MaxSeq
  BY DEF Appendable
<1>2. /\ TypeOK /\ Clean /\ Consecutive(file) /\ KeysApart(file) /\ NumberedTo(Len(file))
      /\ Window(recent, nextSeq, file, Len(file)) /\ \A j \in DOMAIN recent : recent[j].key \in seen
  BY <1>1 DEF FeedInv, IInv, TopLogged, Windowed
<1>3. KeysApart(file')
  BY <1>1, <1>2, FileGrows
<1>4. /\ file' \in Seq(Line) /\ Len(file') = Len(file) + 1 /\ tail' = NoTail /\ tail = NoTail
      /\ \A i \in DOMAIN file : file'[i] = file[i]
      /\ file'[Len(file) + 1] = EventLine(nextSeq, k)
  BY <1>2, LineWrittenClean DEF Clean
<1>5. /\ Len(file) \in Nat /\ DOMAIN file = 1..Len(file) /\ nextSeq \in Nat
      /\ DOMAIN file' = 1..(Len(file) + 1)
  BY <1>2, <1>4, Numbers
<1>6. LastOf(file) + 1 = nextSeq /\ LastOf(file) \in Nat
  BY <1>1, <1>2, HighestIs, FeedPositions
<1>7. /\ LoggedEvents = EventsOf(file) /\ Highest = LastOf(file)
      /\ LoggedEvents' = EventsOf(file') /\ Highest' = LastOf(file')
  BY <1>4, FeedIs
<1>8. LastOf(file') = nextSeq
  <2>1. file' # <<>>
    BY <1>4, <1>5
  <2> QED BY <2>1, <1>4 DEF LastOf, EventLine
<1>9. EventsOf(file') = EventsOf(file) \union {[seq |-> nextSeq, key |-> k]}
  <2>1. \A i \in DOMAIN file' : i \in DOMAIN file \/ i = Len(file) + 1
    BY <1>5
  <2>2. file'[Len(file) + 1].seq = nextSeq /\ file'[Len(file) + 1].key = k
    BY <1>4 DEF EventLine
  <2>3. \A i \in DOMAIN file : i \in DOMAIN file'
    BY <1>5
  <2>4. Len(file) + 1 \in DOMAIN file'
    BY <1>5
  <2> QED BY <1>4, <2>1, <2>2, <2>3, <2>4 DEF EventsOf
<1>10. \A e \in EventsOf(file) : e.key = k => e.seq + RecentCap <= LastOf(file)
  <2> SUFFICES ASSUME NEW e \in EventsOf(file), e.key = k
               PROVE  e.seq + RecentCap <= LastOf(file)
    OBVIOUS
  <2>1. PICK i \in DOMAIN file : e = [seq |-> file[i].seq, key |-> file[i].key]
    BY <1>2, FeedPositions
  <2>2. /\ i \in DOMAIN file' /\ file'[i] = file[i] /\ Len(file) + 1 \in DOMAIN file'
        /\ file'[Len(file) + 1].seq = nextSeq /\ file'[Len(file) + 1].key = k
        /\ file[i].seq < nextSeq
    BY <1>2, <1>4, <1>5 DEF EventLine, NumberedTo
  <2>3. file[i].seq + RecentCap < nextSeq
    BY <1>3, <2>1, <2>2 DEF KeysApart
  <2>4. file[i].seq \in Nat /\ RecentCap \in Nat
    BY <1>2, FeedPositions, StoreAssumption
  <2> QED BY <1>6, <2>1, <2>3, <2>4
<1>11. LastOf(file) < MaxSeq
  BY <1>1, <1>5, <1>6, StoreAssumption
<1> QED BY <1>6, <1>7, <1>8, <1>9, <1>10, <1>11 DEF Feed!Publish

\* A compaction that replaces the log trims it.
LEMMA SwapTrims ==
    ASSUME FeedInv, CompactSwap
    PROVE  \E n \in 1..Highest : Feed!Trim(n)
<1>1. /\ phase = "compacting" /\ file' = tmp /\ tail' = NoTail /\ acked' = acked
      /\ dropped > 0 /\ at > Len(Lines)
  BY DEF CompactSwap
<1>2. /\ TypeOK /\ Clean /\ Consecutive(file) /\ NumberedTo(Len(file)) /\ AckLogged
      /\ tail = NoTail
  BY <1>1 DEF FeedInv, IInv, TopLogged, Clean
<1>3. at - 1 = Len(file)
  BY <1>1, CleanLines, LogFacts DEF FeedInv, IInv, Kept
<1>4. /\ Len(tmp) + dropped = Len(file)
      /\ \A j \in DOMAIN tmp : tmp[j] = file[dropped + j] /\ tmp[j].seq > KeepAbove
      /\ \A i \in 1..dropped : file[i].seq <= KeepAbove
  BY <1>1, <1>3 DEF FeedInv, CopyIsSuffix
<1>5. /\ LoggedEvents = EventsOf(file) /\ Highest = LastOf(file)
      /\ LoggedEvents' = EventsOf(tmp) /\ Highest' = LastOf(tmp)
  BY <1>1, <1>2, FeedIs
<1>6. /\ KeepAbove \in Nat /\ Len(file) \in Nat /\ DOMAIN file = 1..Len(file) /\ dropped \in Nat
      /\ tmp \in Seq(Line) /\ Len(tmp) \in Nat /\ DOMAIN tmp = 1..Len(tmp)
      /\ nextSeq \in Nat /\ ackThrough \in Nat /\ acked \in Nat
      /\ \A i \in DOMAIN file : file[i].seq \in Nat \ {0}
  BY <1>2, LogFacts, Numbers DEF TypeOK
<1>7. 1 \in DOMAIN file /\ 1 \in 1..dropped /\ Len(file) \in DOMAIN file
  BY <1>1, <1>4, <1>6
<1>8. KeepAbove >= 1
  <2>1. file[1].seq <= KeepAbove /\ file[1].seq >= 1 /\ file[1].seq \in Nat
    BY <1>4, <1>6, <1>7
  <2> QED BY <2>1, <1>6
<1>9. LastOf(file) + 1 = nextSeq /\ LastOf(file) \in Nat /\ LastOf(file) = file[Len(file)].seq
  <2>1. file # <<>>
    BY <1>7
  <2> QED BY <2>1, <1>1, <1>2, HighestIs, FeedPositions DEF LastOf
<1>10. KeepAbove < LastOf(file)
  <2>1. LastOf(file) >= 1
    BY <1>6, <1>7, <1>9
  <2>2. KeepAbove < nextSeq - 1
    BY <1>2, <1>9, <2>1, KeepAboveNewest
  <2> QED BY <2>2, <1>6, <1>9
<1>11. KeepAbove + CompactMargin <= acked \/ KeepAbove + MaxRetained <= LastOf(file)
  <2>1. ackThrough <= acked /\ MaxSeqNow = LastOf(file) /\ CompactMargin \in Nat /\ MaxRetained \in Nat
    BY <1>2, <1>6, <1>9, StoreAssumption DEF AckLogged, MaxSeqNow, Minus
  <2>2. \/ KeepAbove = Minus(ackThrough, CompactMargin)
        \/ KeepAbove = Minus(LastOf(file), MaxRetained)
    BY <2>1 DEF KeepAbove, MaxOf
  <2>3. CASE KeepAbove = Minus(ackThrough, CompactMargin)
    <3>1. KeepAbove + CompactMargin = ackThrough
      BY <2>1, <2>3, <1>6, <1>8 DEF Minus
    <3> QED BY <3>1, <2>1
  <2>4. CASE KeepAbove = Minus(LastOf(file), MaxRetained)
    <3>1. KeepAbove + MaxRetained = LastOf(file)
      BY <2>1, <2>4, <1>6, <1>8, <1>9 DEF Minus
    <3> QED BY <3>1, <2>1, <1>9
  <2> QED BY <2>2, <2>3, <2>4
<1>12. \A i \in DOMAIN file : file[i].seq > KeepAbove =>
         \E j \in DOMAIN tmp : tmp[j] = file[i]
  BY <1>1, <1>3, <1>6 DEF FeedInv, IInv, Kept
<1>13. \A j \in DOMAIN tmp : dropped + j \in DOMAIN file
  BY <1>4, <1>6
<1>14. EventsOf(tmp) = {e \in EventsOf(file) : e.seq > KeepAbove}
  <2>1. ASSUME NEW e \in EventsOf(tmp) PROVE e \in EventsOf(file) /\ e.seq > KeepAbove
    <3>1. PICK j \in DOMAIN tmp : e = [seq |-> tmp[j].seq, key |-> tmp[j].key]
      BY DEF EventsOf
    <3> QED BY <3>1, <1>4, <1>13 DEF EventsOf
  <2>2. ASSUME NEW e \in EventsOf(file), e.seq > KeepAbove PROVE e \in EventsOf(tmp)
    <3>1. PICK i \in DOMAIN file : e = [seq |-> file[i].seq, key |-> file[i].key]
      BY DEF EventsOf
    <3>2. PICK j \in DOMAIN tmp : tmp[j] = file[i]
      BY <1>12, <2>2, <3>1
    <3> QED BY <3>1, <3>2 DEF EventsOf
  <2> QED BY <2>1, <2>2
<1>15. LastOf(tmp) = LastOf(file)
  <2>1. PICK j \in DOMAIN tmp : tmp[j] = file[Len(file)]
    BY <1>7, <1>9, <1>10, <1>12
  <2>2. Len(tmp) \in DOMAIN tmp /\ tmp # <<>>
    BY <1>6, <2>1
  <2>3. tmp[Len(tmp)] = file[dropped + Len(tmp)]
    BY <1>4, <2>2
  <2>4. dropped + Len(tmp) = Len(file)
    BY <1>4, <1>6
  <2> QED BY <2>2, <2>3, <2>4, <1>9 DEF LastOf
<1>16. Feed!Trim(KeepAbove)
  BY <1>1, <1>5, <1>11, <1>14, <1>15 DEF Feed!Trim
<1>17. KeepAbove \in 1..Highest
  BY <1>5, <1>6, <1>8, <1>9, <1>10
<1> QED BY <1>16, <1>17

LEMMA StepKeepsToFeed ==
    ASSUME Faults = {}, FeedInv, [Next]_vars
    PROVE  [Feed!Next]_(Feed!vars)
<1> SUFFICES ASSUME ~UNCHANGED <<LoggedEvents, Highest, acked>> PROVE Feed!Next
  BY DEF Feed!vars
<1>q. UNCHANGED <<file, tail, acked>> => FALSE
  BY DEF LoggedEvents, Highest, Lines
<1>1. ASSUME NEW k \in Key, AppendOk(k) \/ CrashAfterWrite(k) PROVE Feed!Next
  <2>1. Appendable(k) /\ LineWritten(k) /\ acked' = acked
    BY <1>1 DEF AppendOk, CrashAfterWrite
  <2> QED BY <2>1, AppendPublishes DEF FeedInv, Feed!Next
<1>2. ASSUME NEW t \in Ackable, SetAck(t) PROVE Feed!Next
  <2>1. phase = "ready" /\ acked' = MaxOf(acked, t) /\ UNCHANGED <<file, tail>>
    BY <1>2 DEF SetAck
  <2>2. UNCHANGED <<LoggedEvents, Highest>>
    BY <2>1 DEF LoggedEvents, Highest, Lines
  <2>3. acked' # acked
    BY <2>2
  <2>4. acked' = t /\ t > acked
    <3>1. t \in Nat /\ acked \in Nat
      BY StoreAssumption DEF Ackable, FeedInv, IInv, TypeOK
    <3> QED BY <2>1, <2>3, <3>1 DEF MaxOf
  <2>5. t \in 1..Highest
    <3>1. t \in Nat /\ t >= 1 /\ t <= MaxSeqNow
      BY StoreAssumption DEF Ackable
    <3>2. Highest + 1 = nextSeq /\ Highest \in Nat /\ nextSeq \in Nat
      BY <2>1, HighestIs, FeedIs, FeedPositions, Numbers DEF FeedInv, IInv, Clean
    <3>3. MaxSeqNow = Highest
      BY <3>2 DEF MaxSeqNow, Minus
    <3> QED BY <3>1, <3>2, <3>3
  <2> QED BY <2>2, <2>4, <2>5 DEF Feed!Ack, Feed!Next
<1>3. CASE CompactSwap
  BY <1>3, SwapTrims DEF Feed!Next
<1>4. ASSUME \/ OpenBegin \/ OpenLine \/ OpenEnd \/ Crash
             \/ CompactBegin \/ CompactLine \/ CompactDiscard \/ CompactFail
             \/ UNCHANGED vars
      PROVE  FALSE
  BY <1>4, <1>q DEF OpenBegin, OpenLine, OpenEnd, Crash, CompactBegin, CompactLine,
                    CompactDiscard, CompactFail, vars, diskVars
<1> QED
  BY <1>1, <1>2, <1>3, <1>4 DEF Next, AppendUnsynced, AppendTorn, CrashInWrite, LineTorn

\* On a sound disk and with an honest client, whatever crashes, every state
\* satisfies the inductive invariant of the feed.
THEOREM FeedInvariance ==
    ASSUME Faults = {}
    PROVE  Spec => []FeedInv
  BY FeedInit, FeedStep, PTL DEF Spec

\* A notification that the hub delivers again is not recorded again among the
\* newest events, although crashes, reloads and compactions come in between
\* (store.rs:139-168).
THEOREM NoDuplicates ==
    ASSUME Faults = {}
    PROVE  Spec => []NoDuplicateInWindow
<1>1. FeedInv => NoDuplicateInWindow
  BY DEF FeedInv
<1> QED BY <1>1, FeedInvariance, PTL

\* Whatever a compaction has dropped, what the log holds has no hole.
THEOREM FeedHasNoHoleAlways ==
    ASSUME Faults = {}
    PROVE  Spec => []FeedHasNoHole
<1>1. FeedInv => FeedHasNoHole
  BY HoleFree DEF FeedInv, IInv
<1> QED BY <1>1, FeedInvariance, PTL

\* The log has no key twice among RecentCap + 1 events in a row, and one event
\* for each number, although a restart starts from less than was in memory.
THEOREM FeedIsDistinctAlways ==
    ASSUME Faults = {}
    PROVE  Spec => []FeedIsDistinct
<1>1. FeedInv => FeedIsDistinct
  BY KeysDistinct DEF FeedInv, IInv
<1> QED BY <1>1, FeedInvariance, PTL

\* The event store implements the feed: an append publishes, whether or not the
\* process lives to say so, a compaction trims, and no client can see a restart,
\* a reload, or a compaction that fails.
THEOREM StoreImplementsFeed ==
    ASSUME Faults = {}
    PROVE  Spec => ImplementsFeed
<1>1. Init => Feed!Init
  BY DEF Init, Feed!Init, LoggedEvents, Highest, Lines, NoTail
<1> QED BY <1>1, FeedInvariance, StepKeepsToFeed, PTL DEF Spec, ImplementsFeed, Feed!Spec

-----------------------------------------------------------------------------
(* The polls *)

Ascending(s) == \A i, j \in DOMAIN s : i < j => s[i].seq < s[j].seq

\* The page p of at most max entries of s above after leaves none out before it ends.
PageOf(p, s, after, max) ==
    /\ p \in Seq(Line) /\ Len(p) <= max /\ Ascending(p)
    /\ \A i \in DOMAIN p : after < p[i].seq
    /\ \A i \in DOMAIN s :
         /\ after < s[i].seq
         /\ Len(p) = max => s[i].seq <= p[max].seq
         => \E j \in DOMAIN p : p[j] = s[i]

LEMMA PageIs ==
    ASSUME NEW s \in Seq(Line), Ascending(s), NEW after \in Nat, NEW max \in Nat \ {0}
    PROVE  PageOf(FirstOf(Filtered(s, Newer(s, after)), max), s, after, max)
<1> DEFINE keep == Newer(s, after)  g == Filtered(s, keep)  p == FirstOf(g, max)
<1>1. Len(s) \in Nat /\ DOMAIN s = 1..Len(s) /\ Len(s) \in 0..Len(s)
  OBVIOUS
<1>2. g \in Seq(Line)
  BY <1>1, ScanType DEF Filtered
<1>3. PICK e : Source(g, s, keep \intersect 1..Len(s), e)
  BY <1>1, ScanSource DEF Filtered
<1>4. keep = {i \in DOMAIN s : s[i].seq > after} /\ keep \intersect 1..Len(s) = keep
  BY <1>1 DEF Newer
<1> HIDE DEF keep, g
<1>5. /\ \A i \in DOMAIN g : e[i] \in keep /\ e[i] \in DOMAIN s /\ g[i] = s[e[i]]
      /\ \A i, j \in DOMAIN g : i < j => e[i] < e[j]
      /\ \A i \in keep : \E j \in DOMAIN g : e[j] = i
  BY <1>3, <1>4 DEF Source
<1>6. \A i \in DOMAIN s : s[i] \in Line /\ s[i].seq \in Nat
  <2>1. \A i \in DOMAIN s : s[i] \in Line
    OBVIOUS
  <2> QED BY <2>1 DEF Line
<1>7. Ascending(g)
  BY <1>5 DEF Ascending
<1>8. /\ p \in Seq(Line) /\ Len(p) \in Nat /\ DOMAIN p = 1..Len(p) /\ Len(g) \in Nat
      /\ DOMAIN g = 1..Len(g)
      /\ Len(p) <= max /\ Len(p) <= Len(g) /\ (Len(p) = max \/ Len(p) = Len(g))
      /\ \A i \in 1..Len(p) : p[i] = g[i]
  <2>1. Len(g) \in Nat /\ DOMAIN g = 1..Len(g)
    BY <1>2
  <2>2. CASE max < Len(g)
    <3>1. p = SubSeq(g, 1, max)
      BY <2>2 DEF FirstOf
    <3> QED BY <1>2, <2>1, <2>2, <3>1
  <2>3. CASE ~(max < Len(g))
    <3>1. p = SubSeq(g, 1, Len(g))
      BY <2>3 DEF FirstOf
    <3> QED BY <1>2, <2>1, <2>3, <3>1
  <2> QED BY <2>2, <2>3
<1> HIDE DEF p
<1>s. PICK P \in Nat, G \in Nat : P = Len(p) /\ G = Len(g)
  BY <1>8
<1>t. /\ DOMAIN p = 1..P /\ DOMAIN g = 1..G /\ P <= max /\ P <= G /\ (P = max \/ P = G)
      /\ \A i \in 1..P : p[i] = g[i]
  BY <1>8, <1>s
<1>9. \A i \in DOMAIN p : i \in DOMAIN g /\ p[i] = g[i]
  BY <1>t
<1>10. Ascending(p)
  BY <1>7, <1>9 DEF Ascending
<1>11. \A i \in DOMAIN p : after < p[i].seq
  BY <1>4, <1>5, <1>6, <1>9
<1>12. ASSUME NEW i \in DOMAIN s, after < s[i].seq, Len(p) = max => s[i].seq <= p[max].seq
       PROVE  \E j \in DOMAIN p : p[j] = s[i]
  <2>1. i \in keep
    BY <1>4, <1>6, <1>12
  <2>2. PICK q \in DOMAIN g : e[q] = i
    BY <1>5, <2>1
  <2>3. g[q] = s[i]
    BY <1>5, <2>2
  <2>4. CASE q <= P
    <3>1. q \in DOMAIN p
      BY <1>t, <2>4
    <3> QED BY <1>9, <2>3, <3>1
  <2>5. CASE ~(q <= P)
    <3>1. Len(p) = max /\ max \in DOMAIN p /\ max \in DOMAIN g /\ max < q
      <4>1. q \in 1..G /\ P = max
        BY <1>t, <2>5
      <4> QED BY <4>1, <1>s, <1>t, <2>5
    <3>2. g[max].seq < s[i].seq
      BY <1>7, <2>3, <3>1 DEF Ascending
    <3>3. s[i].seq <= g[max].seq
      BY <1>9, <1>12, <3>1
    <3>4. s[i].seq \in Nat /\ g[max].seq \in Nat
      BY <1>5, <1>6, <3>1
    <3> QED BY <3>2, <3>3, <3>4
  <2> QED BY <2>4, <2>5
<1>13. PageOf(p, s, after, max)
  BY <1>8, <1>10, <1>11, <1>12 DEF PageOf
<1> QED BY <1>13 DEF p, g, keep

LEMMA PollIsExact ==
    ASSUME FeedInv, phase = "ready", NEW after \in 0..MaxSeqNow, NEW max \in Nat \ {0}
    PROVE  /\ Len(EventsAfter(after, max)) <= max
           /\ \A i \in DOMAIN EventsAfter(after, max) : after < EventsAfter(after, max)[i].seq
           /\ Ascending(EventsAfter(after, max))
           /\ \A r \in recorded :
                /\ after < r.seq
                /\ ~Expendable(r)
                /\ Len(EventsAfter(after, max)) = max => r.seq <= EventsAfter(after, max)[max].seq
                => \E i \in DOMAIN EventsAfter(after, max) :
                     /\ EventsAfter(after, max)[i].seq = r.seq
                     /\ EventsAfter(after, max)[i].key = r.key
<1> DEFINE got == EventsAfter(after, max)
           front == IF recent = <<>> THEN nextSeq ELSE Head(recent).seq
<1>1. /\ TypeOK /\ Clean /\ Consecutive(file) /\ NumberedTo(Len(file))
      /\ Window(recent, nextSeq, file, Len(file))
  BY DEF FeedInv, IInv, TopLogged, Windowed
<1>2. /\ Len(file) \in Nat /\ DOMAIN file = 1..Len(file) /\ file \in Seq(Line)
      /\ \A i \in DOMAIN file : file[i].seq \in Nat
      /\ recent \in Seq(Line) /\ Len(recent) \in Nat /\ DOMAIN recent = 1..Len(recent)
      /\ \A j \in DOMAIN recent : recent[j].seq \in Nat
      /\ nextSeq \in Nat \ {0}
  BY <1>1, Numbers DEF TypeOK
<1>3. after \in Nat /\ after < nextSeq
  <2>1. MaxSeqNow \in Nat /\ MaxSeqNow < nextSeq
    BY <1>2 DEF MaxSeqNow, Minus
  <2> QED BY <1>2, <2>1
<1>4. ParsedLog = file
  <2>1. Lines = file /\ Reachable = DOMAIN file
    BY <1>1, CleanLines
  <2>2. \A n \in 1..Len(file) : n \in Loadable
    BY <1>1, <1>2, <2>1 DEF Loadable, Parses, Clean, Sound
  <2>3. Filtered(file, Loadable) = file
    BY <1>2, <2>2, FilteredAll
  <2> QED BY <2>1, <2>3 DEF ParsedLog
<1>5. Ascending(file)
  <2> SUFFICES ASSUME NEW i \in DOMAIN file, NEW j \in DOMAIN file, i < j
               PROVE  file[i].seq < file[j].seq
    BY DEF Ascending
  <2>1. file[j].seq + i = file[i].seq + j
    BY <1>1 DEF Consecutive
  <2>2. PICK a \in Nat, b \in Nat, x \in Nat, y \in Nat :
          a = file[i].seq /\ b = file[j].seq /\ x = i /\ y = j
    BY <1>2
  <2>3. b + x = a + y /\ x < y
    BY <2>1, <2>2
  <2> QED BY <2>2, <2>3
<1>6. Ascending(recent)
  <2> SUFFICES ASSUME NEW i \in DOMAIN recent, NEW j \in DOMAIN recent, i < j
               PROVE  recent[i].seq < recent[j].seq
    BY DEF Ascending
  <2>1. recent[i].seq + Len(recent) + 1 = nextSeq + i /\ recent[j].seq + Len(recent) + 1 = nextSeq + j
    BY <1>1 DEF Window
  <2>2. PICK a \in Nat, b \in Nat, x \in Nat, y \in Nat, W \in Nat, n \in Nat :
          /\ a = recent[i].seq /\ b = recent[j].seq /\ x = i /\ y = j
          /\ W = Len(recent) /\ n = nextSeq
    <3>1. recent[i].seq \in Nat /\ recent[j].seq \in Nat /\ i \in Nat /\ j \in Nat
      BY <1>2
    <3> QED BY <3>1, <1>2
  <2>3. a + W + 1 = n + x /\ b + W + 1 = n + y /\ x < y
    BY <2>1, <2>2
  <2>4. a < b
    BY <2>3
  <2> QED BY <2>2, <2>4
<1>7. ASSUME NEW r \in recorded, ~Expendable(r)
      PROVE  /\ r.seq \in Nat /\ r.seq < nextSeq
             /\ \E i \in DOMAIN file : file[i] = EventLine(r.seq, r.key)
  <2>1. PICK i \in DOMAIN file : file[i] = EventLine(r.seq, r.key)
    BY <1>1, <1>7, CleanLines DEF FeedInv, IInv, StillLogged, Expendable
  <2>2. file[i].seq = r.seq
    BY <2>1 DEF EventLine
  <2> QED BY <1>1, <1>2, <2>1, <2>2 DEF NumberedTo
<1>8. \A k : EventLine(k.seq, k.key).seq = k.seq /\ EventLine(k.seq, k.key).key = k.key
  BY DEF EventLine
<1>9. CASE WindowCovers(after, front)
  <2>1. got = FirstOf(Filtered(recent, Newer(recent, after)), max)
    BY <1>9 DEF EventsAfter
  <2>2. PageOf(got, recent, after, max)
    BY <1>2, <1>3, <1>6, <2>1, PageIs
  <2>3. ASSUME NEW r \in recorded, ~Expendable(r), after < r.seq
        PROVE  \E j \in DOMAIN recent : recent[j].seq = r.seq /\ recent[j].key = r.key
    <3>1. PICK i \in DOMAIN file : file[i] = EventLine(r.seq, r.key)
      BY <1>7, <2>3
    <3>2. file[i].seq = r.seq /\ file[i].key = r.key /\ r.seq \in Nat /\ r.seq < nextSeq
      BY <1>7, <1>8, <2>3, <3>1
    <3>3. after + 1 >= front
      BY <1>9 DEF WindowCovers
    <3>4. recent # <<>>
      BY <1>2, <1>3, <2>3, <3>2, <3>3
    <3>5. 1 \in DOMAIN recent /\ front = recent[1].seq
      BY <1>2, <3>4
    <3>6. recent[1].seq + Len(recent) + 1 = nextSeq + 1 /\ recent[1].seq \in Nat
      BY <1>1, <1>2, <3>5 DEF Window
    <3>7. file[i].seq + Len(recent) >= nextSeq
      <4> HIDE DEF front
      <4> QED BY <1>2, <1>3, <2>3, <3>2, <3>3, <3>5, <3>6
    <3>8. PICK j \in DOMAIN recent : recent[j] = file[i]
      BY <1>1, <3>2, <3>7, InWindow
    <3> QED BY <3>2, <3>8
  <2> HIDE DEF got
  <2>4. ASSUME NEW r \in recorded, after < r.seq, ~Expendable(r),
               Len(got) = max => r.seq <= got[max].seq
        PROVE  \E i \in DOMAIN got : got[i].seq = r.seq /\ got[i].key = r.key
    <3>1. PICK j \in DOMAIN recent : recent[j].seq = r.seq /\ recent[j].key = r.key
      BY <2>3, <2>4
    <3>2. \E i \in DOMAIN got : got[i] = recent[j]
      BY <2>2, <2>4, <3>1 DEF PageOf
    <3> QED BY <3>1, <3>2
  <2>5. Len(got) <= max /\ Ascending(got) /\ \A i \in DOMAIN got : after < got[i].seq
    BY <2>2 DEF PageOf
  <2> QED BY <2>4, <2>5 DEF got
<1>10. CASE ~WindowCovers(after, front)
  <2>1. got = FirstOf(Filtered(file, Newer(file, after)), max)
    BY <1>4, <1>10 DEF EventsAfter
  <2>2. PageOf(got, file, after, max)
    BY <1>2, <1>3, <1>5, <2>1, PageIs
  <2> HIDE DEF got
  <2>4. ASSUME NEW r \in recorded, after < r.seq, ~Expendable(r),
               Len(got) = max => r.seq <= got[max].seq
        PROVE  \E i \in DOMAIN got : got[i].seq = r.seq /\ got[i].key = r.key
    <3>1. PICK j \in DOMAIN file : file[j] = EventLine(r.seq, r.key)
      BY <1>7, <2>4
    <3>2. file[j].seq = r.seq /\ file[j].key = r.key
      BY <1>8, <3>1
    <3>3. \E i \in DOMAIN got : got[i] = file[j]
      BY <2>2, <2>4, <3>2 DEF PageOf
    <3> QED BY <3>2, <3>3
  <2>5. Len(got) <= max /\ Ascending(got) /\ \A i \in DOMAIN got : after < got[i].seq
    BY <2>2 DEF PageOf
  <2> QED BY <2>4, <2>5 DEF got
<1> QED BY <1>9, <1>10

\* A poll with any cursor the server ever gave returns newer events only, in
\* ascending order, no more than asked, and leaves no retained event out, from
\* the window and from the log alike (store.rs:178-213).
THEOREM PollsAreComplete ==
    ASSUME Faults = {}
    PROVE  Spec => []PollNeverSkips
<1>1. FeedInv => PollNeverSkips
  <2>1. \A max \in 1..3 : max \in Nat \ {0}
    OBVIOUS
  <2> QED BY <2>1, PollIsExact DEF PollNeverSkips, Ascending
<1> QED BY <1>1, FeedInvariance, PTL

=============================================================================
