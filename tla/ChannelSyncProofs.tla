------------------------- MODULE ChannelSyncProofs --------------------------
(***************************************************************************)
(* Proofs about ChannelSync, for any entries, workers, crashes and writes  *)
(* of channels.txt.                                                        *)
(*                                                                         *)
(* A removal was decided from what the reconcile read (Decided); a process *)
(* that is down has neither a registry nor a reconcile (Down), so that a   *)
(* restart takes nothing away.  When one POST writes at a time the open    *)
(* file is the temporary one, and holds the whole body when it is renamed  *)
(* (Writing).                                                              *)
(***************************************************************************)
EXTENDS ChannelSync, TLAPS

Down ==
    timer = "down" => /\ subs = {} /\ rec = NoRec
                      /\ \A w \in Worker : wpc[w] = "idle"

Decided ==
    /\ rec.stage # "change" => rec.removes = {}
    /\ rec.removes \intersect ToSet(rec.read) = {}

\* A reconcile is a record of the shape of NoRec.
Rec == [stage : {"none", "read", "resolve", "change"}, read : Seq(Entry),
          complete : BOOLEAN, adds : SUBSET Entry, removes : SUBSET Entry]

Typed ==
    /\ content \in [Inode -> Seq(Entry)]
    /\ chan \in Inode /\ tmp \in Inode \union {None}
    /\ subs \subseteq Entry /\ saved \subseteq Entry /\ rec \in Rec
    /\ wpc \in [Worker -> {"idle", "write", "rename", "try", "reconcile"}]
    /\ fd \in [Worker -> Inode \union {None}] /\ body \in [Worker -> Seq(Entry)]
    /\ asked \subseteq Seq(Entry)
    /\ \A w \in Worker : wpc[w] \in {"write", "rename"} <=> fd[w] # None
    /\ lock \in Worker => wpc[lock] = "reconcile"

RemovalInv == Typed /\ Down /\ Decided

\* The open file is the temporary one, not channels.txt, and nobody else's; it
\* is empty when it is to be written and holds the body when it is to be renamed.
Writing ==
    /\ tmp # chan
    /\ \A w \in Worker : wpc[w] \in {"write", "rename"} =>
         /\ fd[w] = tmp /\ body[w] \in asked
         /\ \A v \in Worker : wpc[v] \in {"write", "rename"} => v = w
         /\ content[fd[w]] = IF wpc[w] = "write" THEN <<>> ELSE body[w]

ReadIsAsked == rec.stage \in {"resolve", "change"} => rec.read \in asked

WholeInv == RemovalInv /\ Writing /\ FileIsWhole /\ ReadIsAsked

-----------------------------------------------------------------------------
(* Types *)

LEMMA OverwriteIsASeq ==
    ASSUME NEW S, NEW s \in Seq(S), NEW t \in Seq(S)
    PROVE  s \o SubSeq(t, Len(s) + 1, Len(t)) \in Seq(S)
<1>1. SubSeq(t, Len(s) + 1, Len(t)) \in Seq(S)
  OBVIOUS
<1> QED BY <1>1

\* A worker that has no file open finds one for the temporary.
LEMMA TempIsAFile ==
    ASSUME Typed, NEW w \in Worker, fd[w] = None
    PROVE  /\ TempInode \in Inode
           /\ tmp = None => TempInode # chan /\ \A v \in Worker : fd[v] # TempInode
<1>1. \E i \in Inode : i # chan /\ \A v \in Worker : fd[v] # i
  BY SyncAssumption, EnoughFiles DEF Typed
<1>2. FreeInode \in Inode /\ FreeInode # chan /\ \A v \in Worker : fd[v] # FreeInode
  BY <1>1 DEF FreeInode
<1> QED BY <1>2 DEF TempInode, Typed

\* The forms that a reconcile's record takes.
LEMMA RecForms ==
    /\ NoRec \in Rec /\ [NoRec EXCEPT !.stage = "read"] \in Rec
    /\ \A r \in Rec : \A c : /\ [r EXCEPT !.adds = @ \ {c}] \in Rec
                             /\ [r EXCEPT !.removes = @ \ {c}] \in Rec
<1>1. <<>> \in Seq(Entry)
  OBVIOUS
<1>2. NoRec \in Rec /\ [NoRec EXCEPT !.stage = "read"] \in Rec
  BY <1>1 DEF NoRec, Rec
<1>3. ASSUME NEW r \in Rec, NEW c
      PROVE  /\ [r EXCEPT !.adds = @ \ {c}] \in Rec
             /\ [r EXCEPT !.removes = @ \ {c}] \in Rec
  <2>1. r.adds \ {c} \in SUBSET Entry /\ r.removes \ {c} \in SUBSET Entry
    BY DEF Rec
  <2> QED BY <2>1 DEF Rec
<1> QED BY <1>2, <1>3

LEMMA TypedInit == Init => Typed
BY SyncAssumption, EnoughFiles DEF Init, Typed, Rec, NoRec

LEMMA TypedStep == Typed /\ [Next]_vars => Typed'
<1> SUFFICES ASSUME Typed, [Next]_vars PROVE Typed'
  OBVIOUS
<1> USE SyncAssumption DEF Typed
<1>1. ASSUME NEW w \in Worker, NEW s \in Content, PostCreate(w, s) PROVE Typed'
  <2>1. TempInode \in Inode
    BY <1>1, TempIsAFile DEF PostCreate
  <2>2. content' \in [Inode -> Seq(Entry)] /\ asked' \subseteq Seq(Entry)
    <3>1. <<>> \in Seq(Entry) /\ s \in Seq(Entry)
      OBVIOUS
    <3> QED BY <1>1, <3>1 DEF PostCreate
  <2>3. /\ wpc' \in [Worker -> {"idle", "write", "rename", "try", "reconcile"}]
        /\ fd' \in [Worker -> Inode \union {None}]
        /\ \A v \in Worker : wpc'[v] \in {"write", "rename"} <=> fd'[v] # None
        /\ lock' \in Worker => wpc'[lock'] = "reconcile"
    BY <1>1, <2>1 DEF PostCreate
  <2>4. body' \in [Worker -> Seq(Entry)] /\ tmp' \in Inode \union {None}
    BY <1>1, <2>1 DEF PostCreate
  <2> QED BY <1>1, <2>2, <2>3, <2>4 DEF PostCreate
<1>2. ASSUME NEW w \in Worker, PostWrite(w) PROVE Typed'
  <2>1. content' \in [Inode -> Seq(Entry)]
    BY <1>2, OverwriteIsASeq DEF PostWrite
  <2> QED BY <1>2, <2>1 DEF PostWrite, world
<1>3. ASSUME NEW w \in Worker, PostRename(w) PROVE Typed'
  <2>1. /\ content' \in [Inode -> Seq(Entry)]
        /\ chan' \in Inode /\ tmp' \in Inode \union {None}
    <3>1. <<>> \in Seq(Entry)
      OBVIOUS
    <3> QED BY <1>3, <3>1 DEF PostRename, TempThere
  <2>2. body' \in [Worker -> Seq(Entry)]
    BY <1>3 DEF PostRename
  <2>3. /\ wpc' \in [Worker -> {"idle", "write", "rename", "try", "reconcile"}]
        /\ fd' \in [Worker -> Inode \union {None}]
        /\ \A v \in Worker : wpc'[v] \in {"write", "rename"} <=> fd'[v] # None
        /\ lock' \in Worker => wpc'[lock'] = "reconcile"
    BY <1>3 DEF PostRename
  <2> QED BY <1>3, <2>1, <2>2, <2>3 DEF PostRename, world
<1>4. ASSUME NEW w \in Worker, PostFails(w) PROVE Typed'
  BY <1>4 DEF PostFails, disk, world
<1>5. ASSUME NEW s \in Content, Edit(s) PROVE Typed'
  BY <1>5 DEF Edit, workers
<1>6. ASSUME NEW w \in Worker, PostTry(w) PROVE Typed'
  BY <1>6, RecForms DEF PostTry, Begin, disk, world
<1>7. CASE ReadFile
  <2>1. rec' \in Rec
    <3> PICK readable \in BOOLEAN :
          rec' = [rec EXCEPT !.stage = "resolve", !.read = content[chan], !.complete = readable]
      BY <1>7 DEF ReadFile
    <3>1. content[chan] \in Seq(Entry)
      OBVIOUS
    <3> QED BY <3>1 DEF Rec
  <2> QED BY <1>7, <2>1 DEF ReadFile, disk, workers, world
<1>8. CASE Diff
  <2>1. rec' \in Rec
    <3> PICK failed \in SUBSET MayFail :
          LET desired  == Desired(failed)
              complete == rec.complete /\ failed = {}
          IN  rec' = [rec EXCEPT !.stage    = "change",
                                 !.complete = complete,
                                 !.adds     = desired \ subs,
                                 !.removes  = Undesired(desired, complete)]
      BY <1>8 DEF Diff
    <3>1. Desired(failed) \subseteq Entry
      BY DEF Desired, ToSet, Rec
    <3>2. Undesired(Desired(failed), rec.complete /\ failed = {}) \subseteq Entry
      BY DEF Undesired
    <3> QED BY <3>1, <3>2 DEF Rec
  <2> QED BY <1>8, <2>1 DEF Diff, disk, workers, world
<1>9. CASE AddOne
  <2> PICK c \in rec.adds : /\ subs' = subs \union {c}
                            /\ saved' \in {saved, subs'}
                            /\ rec' = [rec EXCEPT !.adds = @ \ {c}]
    BY <1>9 DEF AddOne
  <2>1. rec' \in Rec /\ c \in Entry
    BY RecForms DEF Rec
  <2> QED BY <1>9, <2>1 DEF AddOne, workers, world
<1>10. CASE RemoveOne
  <2>1. rec' \in Rec
    <3> PICK c \in rec.removes : rec' = [rec EXCEPT !.removes = @ \ {c}]
      BY <1>10 DEF RemoveOne
    <3> QED BY RecForms
  <2>2. subs' \subseteq Entry
    BY <1>10 DEF RemoveOne
  <2> QED BY <1>10, <2>1, <2>2 DEF RemoveOne, disk, workers, world
<1>11. CASE Finish
  <2>1. /\ wpc' \in [Worker -> {"idle", "write", "rename", "try", "reconcile"}]
        /\ \A v \in Worker : wpc'[v] \in {"write", "rename"} <=> fd'[v] # None
        /\ lock' \notin Worker
    BY <1>11 DEF Finish
  <2> QED BY <1>11, <2>1, RecForms DEF Finish, world
<1>12. CASE Start \/ FirstSig \/ Tick
  BY <1>12 DEF Start, FirstSig, Tick, disk, workers, world
<1>13. CASE TimerReconcile
  BY <1>13, RecForms DEF TimerReconcile, Begin, disk, workers, world
<1>14. CASE VerifySaves
  BY <1>14 DEF VerifySaves, workers, world
<1>15. CASE Crash
  BY <1>15, RecForms DEF Crash, disk
<1>16. CASE UNCHANGED vars
  BY <1>16 DEF vars, disk, workers, world
<1> QED BY <1>1, <1>2, <1>3, <1>4, <1>5, <1>6, <1>7, <1>8, <1>9, <1>10, <1>11, <1>12,
           <1>13, <1>14, <1>15, <1>16
        DEF Next, PostStep, Reconcile, Timer

-----------------------------------------------------------------------------
(* What a reconcile removes *)

LEMMA RemovalInit == Init => RemovalInv
<1>1. Init => Down /\ Decided
  BY DEF Init, Down, Decided, NoRec
<1> QED BY <1>1, TypedInit DEF RemovalInv

LEMMA RemovalStep == RemovalInv /\ [Next]_vars => RemovalInv'
<1> SUFFICES ASSUME RemovalInv, [Next]_vars PROVE RemovalInv'
  OBVIOUS
<1>0. Typed /\ Down /\ Decided /\ Typed'
  BY TypedStep DEF RemovalInv
<1> SUFFICES Down' /\ Decided'
  BY <1>0 DEF RemovalInv
<1>r. ASSUME UNCHANGED rec PROVE Decided'
  BY <1>0, <1>r DEF Decided
<1>1. ASSUME NEW w \in Worker, NEW s \in Content, PostCreate(w, s) PROVE Down' /\ Decided'
  BY <1>0, <1>1, <1>r DEF PostCreate, MayWrite, Down
<1>2. ASSUME NEW w \in Worker, PostWrite(w) \/ PostRename(w) \/ PostFails(w)
      PROVE  Down' /\ Decided'
  <2>1. timer # "down"
    BY <1>0, <1>2 DEF PostWrite, PostRename, PostFails, Down
  <2> QED BY <1>2, <1>r, <2>1 DEF PostWrite, PostRename, PostFails, Down
<1>3. ASSUME NEW s \in Content, Edit(s) PROVE Down' /\ Decided'
  BY <1>3, <1>r DEF Edit, MayWrite, Down
<1>4. ASSUME NEW w \in Worker, PostTry(w) PROVE Down' /\ Decided'
  <2>1. timer' # "down"
    BY <1>0, <1>4 DEF PostTry, Down
  <2>2. Decided'
    BY <1>0, <1>4 DEF PostTry, Begin, NoRec, Decided
  <2> QED BY <2>1, <2>2 DEF Down
<1>5. CASE Reconcile
  <2>1. timer # "down" /\ timer' # "down"
    <3>1. rec.stage # "none"
      BY <1>5 DEF Reconcile, ReadFile, Diff, AddOne, RemoveOne, Finish
    <3>2. timer # "down"
      BY <1>0, <3>1 DEF Down, NoRec
    <3>3. timer' = timer \/ timer' \in {"sig", "sleep"}
      BY <1>5 DEF Reconcile, ReadFile, Diff, AddOne, RemoveOne, Finish
    <3> QED BY <3>2, <3>3
  <2>2. CASE ReadFile
    <3>1. rec'.removes = rec.removes /\ rec.removes = {}
      BY <1>0, <2>2 DEF ReadFile, Decided, Typed, Rec
    <3> QED BY <2>1, <3>1 DEF Down, Decided
  <2>3. CASE Diff
    <3> PICK failed \in SUBSET MayFail :
          LET desired  == Desired(failed)
              complete == rec.complete /\ failed = {}
          IN  rec' = [rec EXCEPT !.stage    = "change",
                                 !.complete = complete,
                                 !.adds     = desired \ subs,
                                 !.removes  = Undesired(desired, complete)]
      BY <2>3 DEF Diff
    <3>1. /\ rec'.stage = "change" /\ rec'.read = rec.read
          /\ rec'.removes = Undesired(Desired(failed), rec.complete /\ failed = {})
      BY <1>0 DEF Typed, Rec
    <3>2. rec'.removes \intersect ToSet(rec.read) = {}
      BY <3>1 DEF Undesired, Desired
    <3> QED BY <2>1, <3>1, <3>2 DEF Down, Decided
  <2>4. CASE AddOne
    <3>1. UNCHANGED <<rec.stage, rec.read, rec.removes>>
      BY <1>0, <2>4 DEF AddOne, Typed, Rec
    <3> QED BY <1>0, <2>1, <3>1 DEF Down, Decided
  <2>5. CASE RemoveOne
    <3>1. rec'.stage = rec.stage /\ rec'.read = rec.read /\ rec'.removes \subseteq rec.removes
      BY <1>0, <2>5 DEF RemoveOne, Typed, Rec
    <3> QED BY <1>0, <2>1, <3>1 DEF Down, Decided
  <2>6. CASE Finish
    BY <2>1, <2>6 DEF Finish, NoRec, Down, Decided
  <2> QED BY <1>5, <2>2, <2>3, <2>4, <2>5, <2>6 DEF Reconcile
<1>6. CASE Start \/ FirstSig \/ Tick \/ VerifySaves
  BY <1>0, <1>6, <1>r DEF Start, FirstSig, Tick, VerifySaves, Down
<1>7. CASE TimerReconcile
  BY <1>7 DEF TimerReconcile, Begin, NoRec, Down, Decided
<1>8. CASE Crash
  BY <1>8 DEF Crash, NoRec, Down, Decided
<1>9. CASE UNCHANGED vars
  BY <1>0, <1>9, <1>r DEF vars, workers, Down
<1> QED BY <1>1, <1>2, <1>3, <1>4, <1>5, <1>6, <1>7, <1>8, <1>9 DEF Next, PostStep, Timer

\* A step that takes a channel from the registry of a running process is a
\* RemoveOne of the reconcile.
LEMMA OnlyRemoveOneRemoves ==
    ASSUME RemovalInv, [Next]_vars, timer' # "down", NEW c \in subs \ subs'
    PROVE  c \in rec.removes /\ rec.stage = "change"
<1> USE DEF RemovalInv
<1>1. CASE RemoveOne
  BY <1>1 DEF RemoveOne
<1>2. CASE Start
  BY <1>2 DEF Start, Down
<1>3. CASE AddOne
  BY <1>3 DEF AddOne
<1>4. CASE Crash
  BY <1>4 DEF Crash
<1>5. ASSUME NEW w \in Worker,
             PostWrite(w) \/ PostRename(w) \/ PostFails(w) \/ PostTry(w)
      PROVE  FALSE
  BY <1>5 DEF PostWrite, PostRename, PostFails, PostTry
<1>6. ASSUME NEW s \in Content, Edit(s) \/ \E w \in Worker : PostCreate(w, s) PROVE FALSE
  BY <1>6 DEF Edit, PostCreate
<1>7. CASE \/ ReadFile \/ Diff \/ Finish \/ TimerReconcile \/ FirstSig \/ Tick
           \/ VerifySaves \/ UNCHANGED vars
  BY <1>7 DEF ReadFile, Diff, Finish, TimerReconcile, FirstSig, Tick, VerifySaves, vars
<1> QED BY <1>1, <1>2, <1>3, <1>4, <1>5, <1>6, <1>7 DEF Next, PostStep, Reconcile, Timer

\* A reconcile drops no channel that was listed when it read the file: not
\* when lookups fail, when POSTs overlap, or when the process was restarted
\* (renew.rs, desired_set and reconcile_locked).
THEOREM RemovalWasReadAlways == Spec => RemovalWasRead
<1>1. RemovalInv /\ [Next]_vars =>
        [timer' # "down" => \A c \in subs \ subs' : c \notin ToSet(rec.read)]_vars
  BY OnlyRemoveOneRemoves DEF RemovalInv, Decided
<1> QED BY <1>1, RemovalInit, RemovalStep, PTL DEF Spec, RemovalWasRead

-----------------------------------------------------------------------------
(* The file is whole when POSTs take turns *)

LEMMA WholeInit == Init => WholeInv
<1>1. Init => Writing /\ FileIsWhole /\ ReadIsAsked
  <2> SUFFICES ASSUME Init PROVE Writing /\ FileIsWhole /\ ReadIsAsked
    OBVIOUS
  <2>1. chan \in Inode /\ tmp # chan
    BY SyncAssumption, EnoughFiles DEF Init
  <2>2. FileIsWhole
    BY <2>1 DEF Init, FileIsWhole
  <2> QED BY <2>1, <2>2 DEF Init, Writing, ReadIsAsked, NoRec
<1> QED BY <1>1, RemovalInit DEF WholeInv

LEMMA OverwriteOfNothing ==
    ASSUME NEW S, NEW s \in Seq(S) PROVE s \o SubSeq(<<>>, Len(s) + 1, Len(<<>>)) = s
<1>1. SubSeq(<<>>, Len(s) + 1, Len(<<>>)) = <<>>
  OBVIOUS
<1> QED BY <1>1

LEMMA WholeStep ==
    ASSUME "overlap" \notin Hazards, WholeInv, [Next]_vars PROVE WholeInv'
<1>0. RemovalInv' /\ Typed /\ Typed'
  BY RemovalStep DEF WholeInv, RemovalInv
<1>u. Writing /\ FileIsWhole /\ ReadIsAsked
  BY DEF WholeInv
<1> DEFINE Rest == Writing /\ FileIsWhole /\ ReadIsAsked
<1> SUFFICES Rest'
  BY <1>0 DEF WholeInv
<1>f. ASSUME UNCHANGED <<content, tmp, chan, wpc, fd, body, asked>>
      PROVE  Writing' /\ FileIsWhole'
  BY <1>u, <1>f DEF Writing, FileIsWhole
<1>1. ASSUME NEW w \in Worker, NEW s \in Content, PostCreate(w, s) PROVE Rest'
  <2>1. /\ \A v \in Worker : wpc[v] \notin {"write", "rename"} /\ fd[v] = None
        /\ tmp' = TempInode /\ chan' = chan /\ rec' = rec
        /\ content' = [content EXCEPT ![TempInode] = <<>>]
        /\ fd' = [fd EXCEPT ![w] = TempInode]
        /\ wpc' = [wpc EXCEPT ![w] = "write"] /\ body' = [body EXCEPT ![w] = s]
        /\ asked' = asked \union {s}
    BY <1>0, <1>1 DEF PostCreate, Typed
  <2>2. TempInode \in Inode /\ TempInode # chan
    BY <1>0, <1>u, <2>1, TempIsAFile DEF Writing, TempInode
  <2>3. Writing'
    BY <1>0, <2>1, <2>2 DEF Writing, Typed
  <2>4. FileIsWhole'
    BY <1>0, <1>u, <2>1, <2>2 DEF FileIsWhole, Typed
  <2> QED BY <1>u, <2>1, <2>3, <2>4 DEF ReadIsAsked
<1>2. ASSUME NEW w \in Worker, PostWrite(w) PROVE Rest'
  <2>1. /\ fd[w] = tmp /\ tmp # chan /\ content[tmp] = <<>> /\ body[w] \in asked
        /\ \A v \in Worker : v # w => wpc[v] \notin {"write", "rename"}
        /\ tmp \in Inode /\ body[w] \in Seq(Entry)
    BY <1>0, <1>u, <1>2, SyncAssumption DEF PostWrite, Writing, Typed
  <2>2. /\ content' = [content EXCEPT ![tmp] = body[w]]
        /\ wpc' = [wpc EXCEPT ![w] = "rename"]
        /\ UNCHANGED <<tmp, chan, fd, body, asked, rec>>
    <3>1. body[w] \o SubSeq(content[tmp], Len(body[w]) + 1, Len(content[tmp])) = body[w]
      BY <2>1, OverwriteOfNothing
    <3> QED BY <1>2, <2>1, <3>1 DEF PostWrite, world
  <2>3. Writing'
    BY <1>0, <2>1, <2>2 DEF Writing, Typed
  <2>4. FileIsWhole'
    BY <1>0, <1>u, <2>1, <2>2 DEF FileIsWhole, Typed
  <2> QED BY <1>u, <2>2, <2>3, <2>4 DEF ReadIsAsked
<1>3. ASSUME NEW w \in Worker, PostRename(w) PROVE Rest'
  <2>1. /\ fd[w] = tmp /\ tmp # chan /\ content[tmp] = body[w] /\ body[w] \in asked
        /\ \A v \in Worker : v # w => wpc[v] \notin {"write", "rename"}
        /\ tmp \in Inode /\ tmp # None
    BY <1>0, <1>u, <1>3, SyncAssumption DEF PostRename, Writing, Typed
  <2>2. /\ chan' = tmp /\ tmp' = None /\ wpc' = [wpc EXCEPT ![w] = "try"]
        /\ content' = [content EXCEPT ![chan] = <<>>]
        /\ UNCHANGED <<asked, rec>>
    BY <1>3, <2>1 DEF PostRename, TempThere, world
  <2>3. Writing'
    BY <1>0, <2>1, <2>2, SyncAssumption DEF Writing, Typed
  <2>4. FileIsWhole'
    BY <1>0, <2>1, <2>2 DEF FileIsWhole, Typed
  <2> QED BY <1>u, <2>2, <2>3, <2>4 DEF ReadIsAsked
<1>4. ASSUME NEW w \in Worker, PostFails(w) PROVE Rest'
  <2>1. /\ wpc' = [wpc EXCEPT ![w] = "idle"]
        /\ UNCHANGED <<content, tmp, chan, asked, rec>>
        /\ \A v \in Worker : v # w => fd'[v] = fd[v] /\ body'[v] = body[v]
    BY <1>0, <1>4 DEF PostFails, disk, world, Typed
  <2> QED BY <1>0, <1>u, <2>1 DEF Writing, FileIsWhole, ReadIsAsked, Typed
<1>5. ASSUME NEW s \in Content, Edit(s) PROVE Rest'
  <2>1. /\ content' = [content EXCEPT ![chan] = s] /\ asked' = asked \union {s}
        /\ UNCHANGED <<tmp, chan, wpc, fd, body, rec>>
    BY <1>5 DEF Edit, workers
  <2>2. FileIsWhole'
    BY <1>0, <2>1 DEF FileIsWhole, Typed
  <2>3. Writing'
    BY <1>0, <1>u, <2>1 DEF Writing, Typed
  <2> QED BY <1>u, <2>1, <2>2, <2>3 DEF ReadIsAsked
<1>6. ASSUME NEW w \in Worker, PostTry(w) PROVE Rest'
  <2>1. wpc[w] = "try" /\ \A v \in Worker : v # w => wpc'[v] = wpc[v]
    BY <1>0, <1>6 DEF PostTry, Typed
  <2>2. wpc'[w] \in {"idle", "reconcile"}
    BY <1>0, <1>6 DEF PostTry, Typed
  <2>3. UNCHANGED <<content, tmp, chan, fd, body, asked>>
    BY <1>6 DEF PostTry, disk, world
  <2>4. Writing' /\ FileIsWhole'
    BY <1>u, <2>1, <2>2, <2>3 DEF Writing, FileIsWhole
  <2>5. ReadIsAsked'
    BY <1>u, <1>6, <2>3 DEF PostTry, Begin, NoRec, ReadIsAsked
  <2> QED BY <2>4, <2>5
<1>7. CASE ReadFile
  <2>1. rec'.read = content[chan] /\ UNCHANGED <<content, tmp, chan, wpc, fd, body, asked>>
    BY <1>0, <1>7 DEF ReadFile, disk, workers, world, Typed, Rec
  <2> QED BY <1>f, <1>u, <2>1 DEF FileIsWhole, ReadIsAsked
<1>8. CASE Diff \/ AddOne \/ RemoveOne
  <2>1. rec.stage \in {"resolve", "change"} /\ rec'.read = rec.read
    BY <1>0, <1>8 DEF Diff, AddOne, RemoveOne, Typed, Rec
  <2>2. UNCHANGED <<content, tmp, chan, wpc, fd, body, asked>>
    BY <1>8 DEF Diff, AddOne, RemoveOne, disk, workers, world
  <2> QED BY <1>f, <1>u, <2>1, <2>2 DEF ReadIsAsked
<1>9. CASE Finish
  <2>1. /\ rec' = NoRec /\ UNCHANGED <<content, tmp, chan, fd, body, asked>>
        /\ \A v \in Worker : wpc'[v] \in {"write", "rename"} => wpc'[v] = wpc[v]
    BY <1>0, <1>9 DEF Finish, world, Typed
  <2> QED BY <1>u, <2>1 DEF NoRec, Writing, FileIsWhole, ReadIsAsked
<1>10. CASE Start \/ FirstSig \/ Tick \/ VerifySaves \/ UNCHANGED vars
  <2>1. UNCHANGED <<content, tmp, chan, wpc, fd, body, asked, rec>>
    BY <1>10 DEF Start, FirstSig, Tick, VerifySaves, vars, disk, workers, world
  <2> QED BY <1>f, <1>u, <2>1 DEF ReadIsAsked
<1>11. CASE TimerReconcile
  <2>1. rec'.stage = "read" /\ UNCHANGED <<content, tmp, chan, wpc, fd, body, asked>>
    BY <1>11 DEF TimerReconcile, Begin, NoRec, disk, workers, world
  <2> QED BY <1>f, <2>1 DEF ReadIsAsked
<1>12. CASE Crash
  BY <1>u, <1>12 DEF Crash, NoRec, disk, Writing, FileIsWhole, ReadIsAsked
<1> QED BY <1>1, <1>2, <1>3, <1>4, <1>5, <1>6, <1>7, <1>8, <1>9, <1>10, <1>11, <1>12
        DEF Next, PostStep, Reconcile, Timer

\* channels.txt always holds, whole, a list somebody asked for, whatever fails
\* or crashes, as long as no two POSTs write at the same time (util.rs,
\* write_atomic).
THEOREM FileIsWholeAlways == ASSUME "overlap" \notin Hazards PROVE Spec => []FileIsWhole
<1>1. WholeInv /\ [Next]_vars => WholeInv'
  BY WholeStep
<1>2. WholeInv => FileIsWhole
  BY DEF WholeInv
<1> QED BY <1>1, <1>2, WholeInit, PTL DEF Spec

\* A channel that every list ever asked for contains is never unsubscribed,
\* under the same condition: whatever cannot be read or looked up, and whenever
\* the file changes under a reconcile (renew.rs, reconcile_locked).
THEOREM WantedIsKeptAlways == ASSUME "overlap" \notin Hazards PROVE Spec => WantedIsKept
<1>1. WholeInv /\ [Next]_vars => WholeInv'
  BY WholeStep
<1>2. WholeInv /\ [Next]_vars =>
        [timer' # "down" => \A c \in subs \ subs' : \E s \in asked : c \notin ToSet(s)]_vars
  BY OnlyRemoveOneRemoves DEF WholeInv, RemovalInv, Decided, ReadIsAsked
<1> QED BY <1>1, <1>2, WholeInit, PTL DEF Spec, WantedIsKept


-----------------------------------------------------------------------------
(* What is left of TypeOK *)

Clocked == mtime \in [Inode -> Nat] /\ clock \in Nat /\ lastSig \in Nat \X Nat
Placed  == /\ lock \in Worker \union {"timer", None} /\ cached \subseteq Handle
           /\ timer \in {"down", "boot", "sig", "sleep", "wait"}
Counted == asks \in 0..MaxAsks /\ crashes \in 0..MaxCrashes

LEMMA ClockedStep == Typed /\ Clocked /\ [Next]_vars => Clocked'
<1> SUFFICES ASSUME Typed, Clocked, [Next]_vars PROVE Clocked'
  OBVIOUS
<1>1. ASSUME NEW i \in Inode, Stamp(i), UNCHANGED lastSig PROVE Clocked'
  <2>1. clock' \in Nat
    BY <1>1 DEF Stamp, Clocked
  <2> QED BY <1>1, <2>1 DEF Stamp, Clocked
<1>2. ASSUME NEW w \in Worker, NEW s \in Content, PostCreate(w, s) PROVE Clocked'
  <2>1. fd[w] = None
    BY <1>2 DEF PostCreate, Typed
  <2> QED BY <1>1, <1>2, <2>1, TempIsAFile DEF PostCreate
<1>3. ASSUME NEW w \in Worker, PostWrite(w) PROVE Clocked'
  <2>1. fd[w] \in Inode
    BY <1>3 DEF PostWrite, Typed
  <2> QED BY <1>1, <1>3, <2>1 DEF PostWrite
<1>4. ASSUME NEW s \in Content, Edit(s) PROVE Clocked'
  BY <1>1, <1>4 DEF Edit, Typed
<1>5. ASSUME NEW w \in Worker, PostRename(w) PROVE Clocked'
  <2>1. mtime' = mtime \/ mtime' = [mtime EXCEPT ![chan] = 0]
    BY <1>5 DEF PostRename
  <2> QED BY <1>5, <2>1 DEF PostRename, Clocked
<1>6. CASE FirstSig \/ Tick
  <2>1. Len(content[chan]) \in Nat
    BY DEF Typed
  <2>2. mtime[chan] \in Nat
    BY DEF Typed, Clocked
  <2> QED BY <1>6, <2>1, <2>2 DEF FirstSig, Tick, Sig, Clocked, disk
<1>7. CASE Crash
  BY <1>7 DEF Crash, Clocked, disk
<1>8. CASE Reconcile \/ Start \/ TimerReconcile \/ VerifySaves \/ UNCHANGED vars
  BY <1>8 DEF Reconcile, ReadFile, Diff, AddOne, RemoveOne, Finish, Start, TimerReconcile,
              VerifySaves, Clocked, vars, disk
<1>9. ASSUME NEW w \in Worker, PostTry(w) \/ PostFails(w) PROVE Clocked'
  BY <1>9 DEF PostTry, PostFails, Clocked, disk
<1> QED BY <1>2, <1>3, <1>4, <1>5, <1>6, <1>7, <1>8, <1>9 DEF Next, PostStep, Timer

LEMMA PlacedStep == Placed /\ [Next]_vars => Placed'
<1> SUFFICES ASSUME Placed, [Next]_vars PROVE Placed'
  OBVIOUS
<1>1. CASE Finish
  BY <1>1 DEF Finish, Placed
<1>2. CASE Diff
  <2>1. PICK some : cached' = cached \union (some \intersect Handle)
    BY <1>2 DEF Diff
  <2> QED BY <1>2, <2>1 DEF Diff, Placed
<1>3. CASE Crash
  BY <1>3 DEF Crash, Placed
<1>4. CASE Start \/ FirstSig \/ Tick \/ TimerReconcile
  BY <1>4 DEF Start, FirstSig, Tick, TimerReconcile, Begin, Placed
<1>5. ASSUME NEW w \in Worker, PostTry(w) PROVE Placed'
  BY <1>5 DEF PostTry, Begin, Placed
<1>6. ASSUME NEW w \in Worker, PostWrite(w) \/ PostRename(w) \/ PostFails(w) PROVE Placed'
  BY <1>6 DEF PostWrite, PostRename, PostFails, Placed
<1>7. ASSUME NEW w \in Worker, NEW s \in Content, PostCreate(w, s) PROVE Placed'
  BY <1>7 DEF PostCreate, Placed
<1>8. ASSUME NEW s \in Content, Edit(s) PROVE Placed'
  BY <1>8 DEF Edit, Placed
<1>9. CASE ReadFile \/ AddOne \/ RemoveOne \/ VerifySaves \/ UNCHANGED vars
  BY <1>9 DEF ReadFile, AddOne, RemoveOne, VerifySaves, vars, Placed
<1> QED BY <1>1, <1>2, <1>3, <1>4, <1>5, <1>6, <1>7, <1>8, <1>9
        DEF Next, PostStep, Timer, Reconcile

LEMMA CountedStep == Counted /\ [Next]_vars => Counted'
<1> SUFFICES ASSUME Counted, [Next]_vars PROVE Counted'
  OBVIOUS
<1> USE SyncAssumption DEF Counted
<1>1. ASSUME NEW w \in Worker, NEW s \in Content, PostCreate(w, s) PROVE Counted'
  BY <1>1 DEF PostCreate
<1>2. ASSUME NEW s \in Content, Edit(s) PROVE Counted'
  BY <1>2 DEF Edit
<1>3. CASE Crash
  BY <1>3 DEF Crash
<1>4. ASSUME NEW w \in Worker, PostStep(w) \/ PostFails(w) PROVE Counted'
  BY <1>4 DEF PostStep, PostWrite, PostRename, PostTry, PostFails, world
<1>5. CASE Reconcile \/ Timer \/ VerifySaves \/ UNCHANGED vars
  BY <1>5 DEF Reconcile, ReadFile, Diff, AddOne, RemoveOne, Finish, Timer, Start, FirstSig, Tick,
              TimerReconcile, VerifySaves, vars, world
<1> QED BY <1>1, <1>2, <1>3, <1>4, <1>5 DEF Next

\* Every variable has its type, in whatever order the POSTs, edits, reconciles
\* and crashes come.
THEOREM TypeCorrect == Spec => []TypeOK
<1>1. Init => Clocked /\ Placed /\ Counted
  BY SyncAssumption DEF Init, Clocked, Placed, Counted
<1>2. Typed /\ Clocked /\ Placed /\ Counted => TypeOK
  BY DEF Typed, Rec, Clocked, Placed, Counted, TypeOK
<1> QED BY <1>1, <1>2, TypedInit, TypedStep, ClockedStep, PlacedStep, CountedStep, PTL DEF Spec
=============================================================================
