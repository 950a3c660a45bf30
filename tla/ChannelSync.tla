---------------------------- MODULE ChannelSync -----------------------------
(***************************************************************************)
(* How channels.txt reaches the subscription registry: POST /api/channels  *)
(* (src/api.rs), write_atomic (src/util.rs), and the reconcile that the    *)
(* HTTP workers and the renewal thread run (src/renew.rs).                 *)
(*                                                                         *)
(* A worker writes the file without any lock, so two POSTs share the       *)
(* temporary name; the file is therefore an inode with two names that come *)
(* and go.  A reconcile holds reconcile_lock from its first step to its    *)
(* last, and network calls come between its steps.                         *)
(*                                                                         *)
(* Abstractions.  An entry of channels.txt stands for the channel it       *)
(* resolves to.  Entries have the same length, as UC ids have, so that the *)
(* length of the file is the number of its entries.  The registry is the   *)
(* set of its channels: what happens to one subscription is the business   *)
(* of Subscriptions.  Comment lines are left out.                          *)
(***************************************************************************)
EXTENDS Naturals, Sequences, SequencesExt

CONSTANTS
    Entry,      \* the lines channels.txt may hold
    Handle,     \* those that must be looked up on the network
    Content,    \* the lists of entries a client or the operator may ask for
    Worker,     \* HTTP workers that serve POST /api/channels
    Inode,      \* files on disk: channels.txt, the temporary, open ones
    None,
    MaxAsks,    \* bound: POSTs and edits
    MaxCrashes, \* bound: crashes
    Hazards     \* what may happen in this instance

\* "overlap": two POSTs write at the same time.  "sameSecond": two writes of
\* the file have the same mtime.  "bootWrite": the file is written while the
\* first reconcile runs.  "unresolved": the file or an entry of it cannot be read.
HazardKinds == {"overlap", "sameSecond", "bootWrite", "unresolved"}

ASSUME SyncAssumption ==
    /\ Handle \subseteq Entry
    /\ Content \subseteq Seq(Entry)
    /\ MaxAsks \in Nat /\ MaxCrashes \in Nat
    /\ Hazards \subseteq HazardKinds
    /\ None \notin Worker \union Inode /\ "timer" \notin Worker

\* The disk has a file to spare, whatever the other workers have open.
ASSUME EnoughFiles ==
    /\ Inode # {}
    /\ \A i \in Inode, open \in [Worker -> Inode \union {None}] :
         (\E w \in Worker : open[w] = None) =>
           \E free \in Inode : free # i /\ \A w \in Worker : open[w] # free

VARIABLES
    \* On disk.
    content,  \* the entries of each inode
    mtime,    \* the second it was last written in
    chan,     \* the inode named channels.txt
    tmp,      \* the inode named channels.tmp, or None
    saved,    \* the channels in subs.tsv
    \* In the process.
    subs,     \* the channels in the registry
    cached,   \* the handles in resolve_cache
    lock,     \* who holds reconcile_lock: "timer", a worker or None
    rec,      \* the reconcile that is running
    timer,    \* where the renewal thread is
    lastSig,  \* its last_sig
    wpc, fd, body,  \* each worker's step, its open file and its request
    \* The world.
    clock,    \* the second it is
    asks, crashes,
    asked     \* history: every content that was asked for

disk    == <<content, mtime, chan, tmp, saved>>
workers == <<wpc, fd, body>>
world   == <<asks, crashes, asked>>
vars    == <<disk, subs, cached, lock, rec, timer, lastSig, workers, clock, world>>

NoRec == [stage |-> "none", read |-> <<>>, complete |-> TRUE, adds |-> {}, removes |-> {}]

\* channels_sig: second of the last write, and length.
Sig == <<mtime[chan], Len(content[chan])>>

TypeOK ==
    /\ content \in [Inode -> Seq(Entry)] /\ mtime \in [Inode -> Nat]
    /\ chan \in Inode /\ tmp \in Inode \union {None}
    /\ saved \subseteq Entry /\ subs \subseteq Entry /\ cached \subseteq Handle
    /\ lock \in Worker \union {"timer", None}
    /\ rec.stage \in {"none", "read", "resolve", "change"}
    /\ rec.read \in Seq(Entry) /\ rec.complete \in BOOLEAN
    /\ rec.adds \subseteq Entry /\ rec.removes \subseteq Entry
    /\ timer \in {"down", "boot", "sig", "sleep", "wait"}
    /\ lastSig \in Nat \X Nat
    /\ wpc \in [Worker -> {"idle", "write", "rename", "try", "reconcile"}]
    /\ fd \in [Worker -> Inode \union {None}] /\ body \in [Worker -> Seq(Entry)]
    /\ clock \in Nat /\ asks \in 0..MaxAsks /\ crashes \in 0..MaxCrashes

Init ==
    /\ chan = CHOOSE i \in Inode : TRUE
    /\ \E s \in Content :
         /\ content = [[i \in Inode |-> <<>>] EXCEPT ![chan] = s]
         /\ asked = {s}
    /\ mtime = [i \in Inode |-> 0] /\ tmp = None /\ saved = {}
    /\ subs = {} /\ cached = {} /\ lock = None /\ rec = NoRec
    /\ timer = "down" /\ lastSig = <<0, 0>>
    /\ wpc = [w \in Worker |-> "idle"] /\ fd = [w \in Worker |-> None]
    /\ body = [w \in Worker |-> <<>>]
    /\ clock = 1 /\ asks = 0 /\ crashes = 0

-----------------------------------------------------------------------------
(* Writing channels.txt *)

\* After a write the clock moves on, unless two writes may share a second.
Stamp(i) ==
    /\ mtime' = [mtime EXCEPT ![i] = clock]
    /\ clock' \in {clock + 1} \union {c \in {clock} : "sameSecond" \in Hazards}

MayWrite ==
    /\ timer # "down"
    /\ timer = "boot" \/ timer = "sig" => "bootWrite" \in Hazards

\* An inode that has no name and that nobody has open.
FreeInode == CHOOSE i \in Inode : i # chan /\ \A w \in Worker : fd[w] # i

\* File::create on channels.tmp: the temporary is truncated if it exists,
\* whoever has it open.
InPlace   == chan
TempInode == IF tmp = None THEN FreeInode ELSE tmp

\* POST /api/channels, up to File::create in write_atomic.
PostCreate(w, s) ==
    /\ MayWrite /\ asks < MaxAsks
    /\ wpc[w] = "idle"
    /\ \A v \in Worker : wpc[v] \in {"write", "rename"} => "overlap" \in Hazards
    /\ LET i == TempInode IN
         /\ tmp' = i
         /\ fd' = [fd EXCEPT ![w] = i]
         /\ content' = [content EXCEPT ![i] = <<>>]
         /\ Stamp(i)
    /\ wpc' = [wpc EXCEPT ![w] = "write"]
    /\ body' = [body EXCEPT ![w] = s]
    /\ asks' = asks + 1 /\ asked' = asked \union {s}
    /\ UNCHANGED <<chan, saved, subs, cached, lock, rec, timer, lastSig, crashes>>

\* write_all through a descriptor at offset 0: what lies beyond stays.
PostWrite(w) ==
    /\ wpc[w] = "write"
    /\ LET i == fd[w]  s == body[w] IN
        content' = [content EXCEPT ![i] = s \o SubSeq(@, Len(s) + 1, Len(@))]
    /\ Stamp(fd[w])
    /\ wpc' = [wpc EXCEPT ![w] = "rename"]
    /\ UNCHANGED <<chan, tmp, saved, subs, cached, lock, rec, timer, lastSig,
                   fd, body, world>>

AlwaysThere == TRUE
TempThere   == tmp # None

\* rename(tmp, channels.txt).  The file that loses its name is gone.  The
\* temporary itself may be gone: then the POST fails.
PostRename(w) ==
    /\ wpc[w] = "rename"
    /\ \/ /\ TempThere
          /\ chan' = tmp /\ tmp' = None /\ wpc' = [wpc EXCEPT ![w] = "try"]
          /\ content' = [content EXCEPT ![chan] = <<>>]
          /\ mtime' = [mtime EXCEPT ![chan] = 0]
       \/ /\ ~TempThere
          /\ wpc' = [wpc EXCEPT ![w] = "idle"]
          /\ UNCHANGED <<content, mtime, chan, tmp>>
    /\ fd' = [fd EXCEPT ![w] = None]
    /\ body' = [body EXCEPT ![w] = <<>>]
    /\ UNCHANGED <<saved, subs, cached, lock, rec, timer, lastSig, clock, world>>

\* Creating, writing or syncing the temporary fails: 500, no reconcile.
PostFails(w) ==
    /\ wpc[w] \in {"write", "rename"}
    /\ wpc' = [wpc EXCEPT ![w] = "idle"]
    /\ fd' = [fd EXCEPT ![w] = None]
    /\ body' = [body EXCEPT ![w] = <<>>]
    /\ UNCHANGED <<disk, subs, cached, lock, rec, timer, lastSig, clock, world>>

\* The operator edits the file.
Edit(s) ==
    /\ MayWrite /\ asks < MaxAsks
    /\ content' = [content EXCEPT ![chan] = s]
    /\ Stamp(chan)
    /\ asks' = asks + 1 /\ asked' = asked \union {s}
    /\ UNCHANGED <<chan, tmp, saved, subs, cached, lock, rec, timer, lastSig,
                   workers, crashes>>

-----------------------------------------------------------------------------
(* reconcile_locked, run by the holder of the lock *)

Begin(who) ==
    /\ lock = None
    /\ lock' = who
    /\ rec' = [NoRec EXCEPT !.stage = "read"]

\* desired_set reads the file at once, then resolves its entries one by one.  A
\* file it cannot read is an empty list that is not complete; read still says
\* what is in the file then.
ReadFile ==
    /\ rec.stage = "read"
    /\ \E readable \in {TRUE} \union {b \in {FALSE} : "unresolved" \in Hazards} :
        rec' = [rec EXCEPT !.stage = "resolve", !.read = content[chan],
                           !.complete = readable]
    /\ UNCHANGED <<disk, subs, cached, lock, timer, lastSig, workers, clock, world>>

\* The channels of the entries that could be resolved.
Desired(failed) == IF rec.complete THEN ToSet(rec.read) \ failed ELSE {}

\* Lookups of handles that are not in the cache may fail.
MayFail == IF "unresolved" \in Hazards THEN (ToSet(rec.read) \intersect Handle) \ cached
                                       ELSE {}

\* What is unsubscribed: nothing when an entry could not be read.
AllUndesired(desired, complete) == subs \ desired
Undesired(desired, complete)    == IF complete THEN subs \ desired ELSE {}

\* Merge the cache back, and compare with the registry under its lock.
Diff ==
    /\ rec.stage = "resolve"
    /\ \E failed \in SUBSET MayFail :
        LET desired  == Desired(failed)
            complete == rec.complete /\ failed = {}
        IN
        /\ rec' = [rec EXCEPT !.stage    = "change",
                              !.complete = complete,
                              !.adds     = desired \ subs,
                              !.removes  = Undesired(desired, complete)]
        /\ cached' = cached \union (desired \intersect Handle)
    /\ UNCHANGED <<disk, subs, lock, timer, lastSig, workers, clock, world>>

\* A new channel is registered; if the hub refuses it merge_attempt saves.
AddOne ==
    /\ rec.stage = "change"
    /\ \E c \in rec.adds :
         /\ subs' = subs \union {c}
         /\ saved' \in {saved, subs'}
         /\ rec' = [rec EXCEPT !.adds = @ \ {c}]
    /\ UNCHANGED <<content, mtime, chan, tmp, cached, lock, timer, lastSig,
                   workers, clock, world>>

RemoveOne ==
    /\ rec.stage = "change" /\ rec.adds = {}
    /\ \E c \in rec.removes :
         /\ subs' = subs \ {c}
         /\ rec' = [rec EXCEPT !.removes = @ \ {c}]
    /\ UNCHANGED <<disk, cached, lock, timer, lastSig, workers, clock, world>>

\* The registry is saved (a failure is ignored), the lock is released and the
\* worker answers 200.
Finish ==
    /\ rec.stage = "change" /\ rec.adds = {} /\ rec.removes = {}
    /\ saved' \in {saved, subs}
    /\ lock' = None
    /\ rec' = NoRec
    /\ \/ /\ lock = "timer"
          /\ timer' = IF timer = "boot" THEN "sig" ELSE "sleep"
          /\ UNCHANGED wpc
       \/ /\ lock \in Worker
          /\ wpc' = [wpc EXCEPT ![lock] = "idle"]
          /\ UNCHANGED timer
    /\ UNCHANGED <<content, mtime, chan, tmp, subs, cached, lastSig, fd, body,
                   clock, world>>

-----------------------------------------------------------------------------
(* Who starts a reconcile *)

\* try_reconcile: the worker answers 202 when another reconcile is running.
PostTry(w) ==
    /\ wpc[w] = "try"
    /\ \/ /\ Begin(w)
          /\ wpc' = [wpc EXCEPT ![w] = "reconcile"]
       \/ /\ lock # None
          /\ wpc' = [wpc EXCEPT ![w] = "idle"]
          /\ UNCHANGED <<lock, rec>>
    /\ UNCHANGED <<disk, subs, cached, timer, lastSig, fd, body, clock, world>>

\* main: the registry is read back and the threads are started.
Start ==
    /\ timer = "down"
    /\ timer' = "boot"
    /\ subs' = saved
    /\ UNCHANGED <<disk, cached, lock, rec, lastSig, workers, clock, world>>

TimerReconcile ==
    /\ timer \in {"boot", "wait"}
    /\ Begin("timer")
    /\ UNCHANGED <<disk, subs, cached, timer, lastSig, workers, clock, world>>

\* The signature is taken when the first reconcile has returned.
FirstSig ==
    /\ timer = "sig"
    /\ lastSig' = Sig
    /\ timer' = "sleep"
    /\ UNCHANGED <<disk, subs, cached, lock, rec, workers, clock, world>>

LengthChanged == Sig[2] # lastSig[2]
FileChanged   == Sig # lastSig

\* The thread wakes up and sees that the file has changed.
Tick ==
    /\ timer = "sleep" /\ FileChanged
    /\ lastSig' = Sig
    /\ timer' = "wait"
    /\ UNCHANGED <<disk, subs, cached, lock, rec, workers, clock, world>>

\* A verification GET saves the registry as it is.
VerifySaves ==
    /\ timer # "down" /\ saved # subs
    /\ saved' = subs
    /\ UNCHANGED <<content, mtime, chan, tmp, subs, cached, lock, rec, timer,
                   lastSig, workers, clock, world>>

\* The lookups already made are in resolve.cache, which main reads back; its
\* write is not atomic and may have failed.
Crash ==
    /\ timer # "down" /\ crashes < MaxCrashes
    /\ crashes' = crashes + 1
    /\ timer' = "down" /\ subs' = {} /\ lock' = None /\ rec' = NoRec
    /\ wpc' = [w \in Worker |-> "idle"] /\ fd' = [w \in Worker |-> None]
    /\ body' = [w \in Worker |-> <<>>] /\ lastSig' = <<0, 0>>
    /\ cached' \in SUBSET cached
    /\ UNCHANGED <<disk, clock, asks, asked>>

-----------------------------------------------------------------------------
Reconcile == ReadFile \/ Diff \/ AddOne \/ RemoveOne \/ Finish
PostStep(w) == PostWrite(w) \/ PostRename(w) \/ PostTry(w)
Timer == Start \/ TimerReconcile \/ FirstSig \/ Tick

Next ==
    \/ \E w \in Worker, s \in Content : PostCreate(w, s)
    \/ \E w \in Worker : PostStep(w) \/ PostFails(w)
    \/ \E s \in Content : Edit(s)
    \/ Reconcile \/ Timer \/ VerifySaves \/ Crash

Spec == Init /\ [][Next]_vars

\* Threads run on: the process is restarted, the thread wakes every minute,
\* network calls time out.  Nobody has to write the file, or crash.
FairSpec ==
    /\ Spec
    /\ WF_vars(Reconcile) /\ WF_vars(Timer)
    /\ \A w \in Worker : WF_vars(PostStep(w))

-----------------------------------------------------------------------------
(* Properties *)

\* channels.txt always holds, whole, a list somebody asked for: no reader ever
\* finds it empty or mixed (write_atomic).
FileIsWhole == content[chan] \in asked

\* A reconcile drops no channel that was listed when it read the file, even
\* when a lookup fails (the "complete" flag of desired_set).
RemovalWasRead ==
    [][timer' # "down" => \A c \in subs \ subs' : c \notin ToSet(rec.read)]_vars

\* A channel that every list ever asked for contains is never unsubscribed.
WantedIsKept ==
    [][timer' # "down" =>
         \A c \in subs \ subs' : \E s \in asked : c \notin ToSet(s)]_vars

\* Once nobody writes the file any more the registry ends up with its channels.
Applied == <>[](subs = ToSet(content[chan]))

\* Once nobody writes the file any more, what it does not list is unsubscribed.
RemovalsApplied == <>[](subs \subseteq ToSet(content[chan]))

=============================================================================
