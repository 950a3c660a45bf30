----------------------------- MODULE EventStore -----------------------------
(***************************************************************************)
(* The durable event log of src/store.rs: append with duplicate            *)
(* suppression, the in-memory window, reads after a cursor, the ack        *)
(* horizon, compaction, and what a restart finds on disk.                  *)
(*                                                                         *)
(* Every operation of Store runs under the store mutex (app.store), so an  *)
(* operation is atomic for the other threads.  A crash is not kept out by  *)
(* a mutex: it may fall inside an append, between two lines of a load and  *)
(* between two lines of a compaction, which is why those loops take one    *)
(* step per line.                                                          *)
(*                                                                         *)
(* Abstractions.  An event is its seq and its duplicate key (video id,     *)
(* timestamp and kind); channel, title and received_at are payload.  The   *)
(* log is a sequence of lines, of which only four kinds matter:            *)
(*   "event"  a line that parses back to the event that was written;       *)
(*   "cut"    seven fields, but the title stops short: it parses;          *)
(*   "junk"   not seven fields: parse_line returns None, it is skipped;    *)
(*   "bad"    not UTF-8: lines() returns Err and every reader stops there. *)
(* An unterminated last line is kept apart in tail.  The size of the log   *)
(* is counted in lines.                                                    *)
(***************************************************************************)
EXTENDS Naturals, Sequences, Scan

CONSTANTS
    Key,            \* duplicate keys a notification may carry
    NoKey,          \* the key of a line that has none
    RecentCap,      \* RECENT_CAP: events held in memory
    CompactLines,   \* COMPACT_BYTES, in lines
    CompactMargin,  \* COMPACT_MARGIN
    MaxRetained,    \* MAX_RETAINED_EVENTS
    MaxSeq,         \* bound: no append is tried above this seq, and no ack far above
    MaxLines,       \* bound: no append is tried on a log of more lines
    Faults          \* the faults of the environment this instance has

\* "tear": a write stops half-way.  "sync": sync_data fails after the write.
\* "reopen": the log cannot be reopened after a compaction's rename.
\* "overack": the client acks a seq the server never issued.
FaultKinds == {"tear", "sync", "reopen", "overack"}

ASSUME StoreAssumption ==
    /\ NoKey \notin Key
    /\ RecentCap \in Nat \ {0}
    /\ CompactLines \in Nat
    /\ CompactMargin \in Nat \ {0}
    /\ MaxRetained \in Nat \ {0}
    /\ MaxSeq \in Nat
    /\ MaxLines \in Nat
    /\ Faults \subseteq FaultKinds

VARIABLES
    \* On disk.
    file,       \* the complete lines of events.log
    tail,       \* its unterminated last line
    ackFile,    \* the number in ack.txt, 0 when there is none
    \* The Store object and the loop that is running under its mutex.
    phase,      \* "down", "loading", "ready" or "compacting"
    at,         \* next line the load or the compaction reads
    nextSeq, recent, seen, ackThrough,
    tmp,        \* what compaction has written to events.log.tmp
    dropped,    \* how many lines compaction has left out
    log,        \* Store.log: open on events.log ("named") or on a file a
                \* compaction has replaced ("removed")
    \* History, read by no action.
    recorded,   \* seq and key of the events whose append returned Ok(Some(seq))
    acked       \* highest seq the client ever acked

diskVars == <<file, tail, ackFile>>
memVars  == <<phase, at, nextSeq, recent, seen, ackThrough, tmp, dropped, log>>
vars     == <<diskVars, memVars, recorded, acked>>

-----------------------------------------------------------------------------
(* Lines *)

LineKinds == {"event", "cut", "junk", "bad"}
Line      == [kind : LineKinds, seq : Nat, key : Key \union {NoKey}]
Tail_     == [kind : {"none", "digits", "cut", "junk", "bad"},
              seq : Nat, key : Key \union {NoKey}]

EventLine(n, k) == [kind |-> "event", seq |-> n, key |-> k]
Junk            == [kind |-> "junk", seq |-> 0, key |-> NoKey]
Bad             == [kind |-> "bad", seq |-> 0, key |-> NoKey]
NoTail          == [kind |-> "none", seq |-> 0, key |-> NoKey]

\* parse_line(line).is_some()
Parses(l) == l.kind \in {"event", "cut"}

\* The least power of ten above n.
Shift(n) ==
    LET above[m \in 0..n] == IF m < 10 THEN 10 ELSE 10 * above[m \div 10]
    IN  above[n]

\* The number whose digits are those of d followed by those of n.
Joined(d, n) == d * Shift(n) + n

\* What a write of EventLine(n, k) may leave behind when it stops short:
\* some digits of the seq, a row with too few fields, a row that ends inside
\* the title, or a row that ends inside a character of the title.
TornTails(n, k) ==
    {[kind |-> "digits", seq |-> n \div p, key |-> NoKey] :
        p \in {q \in {1} \union {Shift(m) : m \in 0..n} : n >= q}}
    \union {Junk, Bad, [kind |-> "cut", seq |-> n, key |-> k]}

\* The line that results when l is appended to an unterminated t.
Glued(t, l) ==
    CASE t.kind = "none"            -> l
      [] t.kind = "digits"          -> [l EXCEPT !.seq = Joined(t.seq, l.seq)]
      [] t.kind \in {"junk", "cut"} -> Junk
      [] t.kind = "bad"             -> Bad

\* What BufReader::lines yields for the log: the unterminated tail is a line.
Lines ==
    CASE tail.kind = "none"   -> file
      [] tail.kind = "digits" -> Append(file, Junk)
      [] OTHER                -> Append(file, tail)

\* Positions of the lines a reader gets to before it meets one it cannot read.
Reachable == {i \in DOMAIN Lines : \A j \in 1..i : Lines[j].kind # "bad"}

\* Whether reading the log now gives the event r.
Readable(r) == \E i \in Reachable : Lines[i] = EventLine(r.seq, r.key)

\* The keys of the events in the window.
NoKeys(s) == {}
KeysOf(s) == {s[i].key : i \in DOMAIN s}

PushedUncapped(s, l) == Append(s, l)

\* VecDeque::push_back followed by pop_front beyond the cap.
Pushed(s, l) == IF Len(s) >= RecentCap THEN Tail(Append(s, l)) ELSE Append(s, l)

MaxOf(a, b) == IF a >= b THEN a ELSE b
Minus(a, b) == IF a >= b THEN a - b ELSE 0   \* saturating_sub

\* Store::max_seq
MaxSeqNow == Minus(nextSeq, 1)

-----------------------------------------------------------------------------
Init ==
    /\ file = <<>> /\ tail = NoTail /\ ackFile = 0
    /\ phase = "down" /\ at = 0 /\ nextSeq = 1 /\ recent = <<>> /\ seen = {}
    /\ ackThrough = 0 /\ tmp = <<>> /\ dropped = 0 /\ log = "named"
    /\ recorded = {} /\ acked = 0

\* Everything the process held is gone; what is on disk stays.
LoseMemory ==
    /\ phase' = "down" /\ at' = 0 /\ nextSeq' = 1 /\ recent' = <<>> /\ seen' = {}
    /\ ackThrough' = 0 /\ tmp' = <<>> /\ dropped' = 0 /\ log' = "named"

-----------------------------------------------------------------------------
(* Store::open *)

OpenBegin ==
    /\ phase = "down"
    /\ phase' = "loading"
    /\ at' = 1
    /\ UNCHANGED <<diskVars, nextSeq, recent, seen, ackThrough, tmp, dropped,
                   log, recorded, acked>>

\* The next seq after a load has met the seq n.
NumberedPastLast(n) == n + 1
NumberedPast(n)     == IF n >= nextSeq THEN n + 1 ELSE nextSeq

\* Where a reader goes from the line l at at: a line it cannot read ends the log.
NextSkipsBad(l) == at + 1
NextAfter(l)    == IF l.kind = "bad" THEN Len(Lines) + 1 ELSE at + 1

OpenLine ==
    /\ phase = "loading"
    /\ at <= Len(Lines)
    /\ LET l == Lines[at] IN
        /\ at' = NextAfter(l)
        /\ \/ /\ Parses(l)
              /\ nextSeq' = NumberedPast(l.seq)
              /\ recent' = Pushed(recent, l)
           \/ /\ ~Parses(l)
              /\ UNCHANGED <<nextSeq, recent>>
    /\ UNCHANGED <<diskVars, phase, seen, ackThrough, tmp, dropped, log,
                   recorded, acked>>

OpenEnd ==
    /\ phase = "loading"
    /\ at > Len(Lines)
    /\ seen' = KeysOf(recent)
    /\ ackThrough' = ackFile
    /\ phase' = "ready"
    /\ at' = 0
    /\ UNCHANGED <<diskVars, nextSeq, recent, tmp, dropped, log, recorded,
                   acked>>

-----------------------------------------------------------------------------
(* Store::append.  A duplicate (k \in seen) returns Ok(None) and changes    *)
(* nothing; so does a write that fails before its first byte.               *)

Appendable(k) ==
    /\ phase = "ready"
    /\ nextSeq <= MaxSeq /\ Len(file) < MaxLines
    /\ k \notin seen

\* write_all put the whole line in the file Store.log is open on.
LineWritten(k) ==
    IF log = "removed"
      THEN UNCHANGED <<file, tail>>
      ELSE /\ file' = Append(file, Glued(tail, EventLine(nextSeq, k)))
           /\ tail' = NoTail

\* The keys of the event that falls out of a full window.
NeverEvicted == {}
Evicted      == IF Len(recent) >= RecentCap THEN {Head(recent).key} ELSE {}

AppendOk(k) ==
    /\ Appendable(k)
    /\ LineWritten(k)
    /\ nextSeq' = nextSeq + 1
    /\ recent' = Pushed(recent, EventLine(nextSeq, k))
    /\ seen' = (seen \union {k}) \ Evicted
    /\ recorded' = recorded \union {[seq |-> nextSeq, key |-> k]}
    /\ UNCHANGED <<ackFile, phase, at, ackThrough, tmp, dropped, log, acked>>

\* sync_data fails: Err, with the line in the file and no trace in memory.
AppendUnsynced(k) ==
    /\ "sync" \in Faults
    /\ Appendable(k)
    /\ LineWritten(k)
    /\ UNCHANGED <<ackFile, memVars, recorded, acked>>

\* write_all stops part of the way.  Bound: no tear on top of a torn tail.
LineTorn(k) ==
    /\ "tear" \in Faults
    /\ tail = NoTail
    /\ log = "named"
    /\ tail' \in TornTails(nextSeq, k)
    /\ UNCHANGED <<file, ackFile>>

AppendTorn(k) ==
    /\ Appendable(k)
    /\ LineTorn(k)
    /\ UNCHANGED <<memVars, recorded, acked>>

-----------------------------------------------------------------------------
(* Crashes *)

Crash ==
    /\ phase # "down"
    /\ LoseMemory
    /\ UNCHANGED <<diskVars, recorded, acked>>

\* The process dies after the line reached the file and before append returned.
CrashAfterWrite(k) ==
    /\ Appendable(k)
    /\ LineWritten(k)
    /\ LoseMemory
    /\ UNCHANGED <<ackFile, recorded, acked>>

CrashInWrite(k) ==
    /\ Appendable(k)
    /\ LineTorn(k)
    /\ LoseMemory
    /\ UNCHANGED <<recorded, acked>>

-----------------------------------------------------------------------------
(* Store::set_ack.  An honest client acks a seq it was served.  A failing   *)
(* write_atomic is only logged, and leaves ack.txt as it was.               *)

Ackable ==
    {t \in 1..(MaxSeq + CompactMargin) : t <= MaxSeqNow \/ "overack" \in Faults}

SetAck(through) ==
    /\ phase = "ready"
    /\ through > ackThrough
    /\ ackThrough' = through
    /\ ackFile' \in {through, ackFile}
    /\ acked' = MaxOf(acked, through)
    /\ UNCHANGED <<file, tail, phase, at, nextSeq, recent, seen, tmp, dropped,
                   log, recorded>>

-----------------------------------------------------------------------------
(* Store::maybe_compact *)

KeepAboveNoMargin == MaxOf(ackThrough, Minus(MaxSeqNow, MaxRetained))

\* Events up to this seq are dropped.
KeepAbove == MaxOf(Minus(ackThrough, CompactMargin), Minus(MaxSeqNow, MaxRetained))

CompactBegin ==
    /\ phase = "ready"
    /\ Len(Lines) >= CompactLines
    /\ phase' = "compacting"
    /\ at' = 1
    /\ tmp' = <<>>
    /\ dropped' = 0
    /\ UNCHANGED <<diskVars, nextSeq, recent, seen, ackThrough, log,
                   recorded, acked>>

\* Whether compaction copies the line l.
KeepsAcked(l) == Parses(l) /\ l.seq <= KeepAbove
Keeps(l)      == Parses(l) /\ l.seq > KeepAbove

CompactLine ==
    /\ phase = "compacting"
    /\ at <= Len(Lines)
    /\ LET l == Lines[at] IN
        /\ at' = NextAfter(l)
        /\ tmp' = IF Keeps(l) THEN Append(tmp, l) ELSE tmp
        /\ dropped' = IF Parses(l) /\ ~Keeps(l) THEN dropped + 1 ELSE dropped
    /\ UNCHANGED <<diskVars, phase, nextSeq, recent, seen, ackThrough, log,
                   recorded, acked>>

\* Nothing was reclaimable: the copy is discarded.
CompactDiscard ==
    /\ phase = "compacting"
    /\ at > Len(Lines)
    /\ dropped = 0
    /\ phase' = "ready" /\ at' = 0 /\ tmp' = <<>>
    /\ UNCHANGED <<diskVars, nextSeq, recent, seen, ackThrough, dropped, log,
                   recorded, acked>>

\* Creating, writing, syncing or renaming the copy fails: Err, the log is
\* untouched, and the next compaction truncates the copy.
CompactFail ==
    /\ phase = "compacting"
    /\ phase' = "ready" /\ at' = 0 /\ tmp' = <<>> /\ dropped' = 0
    /\ UNCHANGED <<diskVars, nextSeq, recent, seen, ackThrough, log,
                   recorded, acked>>

\* rename(events.log.tmp, events.log), then reopen for appending.
CompactSwap ==
    /\ phase = "compacting"
    /\ at > Len(Lines)
    /\ dropped > 0
    /\ file' = tmp
    /\ tail' = NoTail
    /\ log' \in {"named"} \union {l \in {"removed"} : "reopen" \in Faults}
    /\ phase' = "ready" /\ at' = 0 /\ tmp' = <<>> /\ dropped' = 0
    /\ UNCHANGED <<ackFile, nextSeq, recent, seen, ackThrough, recorded, acked>>

-----------------------------------------------------------------------------
Next ==
    \/ OpenBegin \/ OpenLine \/ OpenEnd
    \/ \E k \in Key : AppendOk(k) \/ AppendUnsynced(k) \/ AppendTorn(k)
    \/ Crash
    \/ \E k \in Key : CrashAfterWrite(k) \/ CrashInWrite(k)
    \/ \E t \in Ackable : SetAck(t)
    \/ CompactBegin \/ CompactLine \/ CompactDiscard \/ CompactFail \/ CompactSwap

Spec == Init /\ [][Next]_vars

-----------------------------------------------------------------------------
(* Store::events_after(after, max).  Under the store mutex, so always in    *)
(* phase "ready".                                                           *)

FirstOf(s, n) == SubSeq(s, 1, IF n < Len(s) THEN n ELSE Len(s))

\* Positions of the lines of the file that a reader takes for events, and
\* those events, in file order.
Loadable  == {i \in Reachable : Parses(Lines[i])}
ParsedLog == Filtered(Lines, Loadable)

\* Whether the window holds every event above after.
WindowReaches(after, front) == after + 2 >= front
WindowCovers(after, front)  == after + 1 >= front

Newer(s, after) == {i \in DOMAIN s : s[i].seq > after}

EventsAfter(after, max) ==
    LET recentFront == IF recent = <<>> THEN nextSeq ELSE Head(recent).seq
    IN  IF WindowCovers(after, recentFront)
          THEN FirstOf(Filtered(recent, Newer(recent, after)), max)
          \* The scan pushes before it tests whether it has max events.
          ELSE FirstOf(Filtered(ParsedLog, Newer(ParsedLog, after)),
                       IF max = 0 THEN 1 ELSE max)

-----------------------------------------------------------------------------
(* Properties *)

TypeOK ==
    /\ file \in Seq(Line) /\ tail \in Tail_ /\ ackFile \in Nat
    /\ phase \in {"down", "loading", "ready", "compacting"}
    /\ at \in Nat /\ (at = 0 <=> phase \in {"down", "ready"})
    /\ nextSeq \in Nat \ {0}
    /\ recent \in Seq(Line) /\ Len(recent) <= RecentCap
    /\ seen \subseteq Key \union {NoKey}
    /\ ackThrough \in Nat
    /\ tmp \in Seq(Line) /\ dropped \in Nat /\ log \in {"named", "removed"}
    /\ recorded \subseteq [seq : Nat \ {0}, key : Key]
    /\ acked \in Nat

\* Compaction may drop r: the client acked CompactMargin past it, or the log
\* has gone MaxRetained past it.
Expendable(r) ==
    \/ r.seq + CompactMargin <= acked
    \/ \E i \in DOMAIN Lines : r.seq + MaxRetained <= Lines[i].seq

\* An event whose append returned Ok stays readable in the log through every
\* crash, reload and compaction until it is acked or too old to be retained.
NotLost == \A r \in recorded : Readable(r) \/ Expendable(r)

\* The seq the store is about to assign is above every seq it ever assigned
\* or wrote: a reload of a compacted log does not restart the numbering.
SeqFresh ==
    phase \in {"ready", "compacting"} =>
        /\ \A r \in recorded : r.seq < nextSeq
        /\ \A i \in DOMAIN Lines : Lines[i].seq < nextSeq

\* A notification that is delivered again is not recorded again while its
\* event is one of the last few.  The window spans crashes and compactions:
\* it is the smallest of what memory holds and what compaction keeps.
DuplicateWindow ==
    CHOOSE w \in {RecentCap, CompactMargin, MaxRetained} :
        \A v \in {RecentCap, CompactMargin, MaxRetained} : w <= v

NoDuplicateInWindow ==
    \A r, s \in recorded :
        r.key = s.key /\ r.seq < s.seq => r.seq + DuplicateWindow < s.seq

\* A poll with any cursor the server ever gave returns, in ascending order,
\* newer events only, no more than asked, and leaves no retained event out.
PollNeverSkips ==
    phase = "ready" =>
        \A after \in 0..MaxSeqNow, max \in 1..3 :
            LET got == EventsAfter(after, max) IN
            /\ Len(got) <= max
            /\ \A i \in DOMAIN got : after < got[i].seq
            /\ \A i, j \in DOMAIN got : i < j => got[i].seq < got[j].seq
            /\ \A r \in recorded :
                 /\ after < r.seq
                 /\ ~Expendable(r)
                 /\ Len(got) = max => r.seq <= got[max].seq
                 => \E i \in DOMAIN got : got[i].seq = r.seq /\ got[i].key = r.key

\* A poll that asks for at most max events gets at most max.
PollWithinLimit ==
    phase = "ready" =>
        \A after \in 0..MaxSeqNow, max \in 0..2 : Len(EventsAfter(after, max)) <= max

\* What a torn write left at the end of the log is not loaded as an event.
TornLineSkipped == \A i \in DOMAIN recent : recent[i].kind # "cut"

\* Nothing is suppressed for longer than the window holds it, whatever the
\* disk does: a key that stayed in seen would silence a video for good.
SuppressedIsHeld == phase \in {"ready", "compacting"} => seen \subseteq KeysOf(recent)

\* A compaction removes exactly the readable events it is entitled to remove,
\* in a log with any damage, although events.log is read line by line.
CompactionExact ==
    [][phase = "compacting" /\ file' # file =>
        ParsedLog' = Filtered(ParsedLog, Newer(ParsedLog, KeepAbove))]_vars

\* A restart rebuilds the window from the end of what is readable, and a
\* seq above all of it, whatever damage the log has.
LoadExact ==
    [][phase = "loading" /\ phase' = "ready" =>
        /\ recent = SubSeq(ParsedLog, Minus(Len(ParsedLog), RecentCap) + 1, Len(ParsedLog))
        /\ \A i \in DOMAIN ParsedLog : ParsedLog[i].seq < nextSeq]_vars

=============================================================================
