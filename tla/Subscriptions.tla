--------------------------- MODULE Subscriptions ----------------------------
(***************************************************************************)
(* The life of a subscription: the registry (src/subs.rs), the renewal     *)
(* thread and the reconciles (src/renew.rs), the verification GETs         *)
(* (src/callback.rs) and the hub they talk to (external, as src/hub.rs and *)
(* the callback see it).                                                   *)
(*                                                                         *)
(* The registry is behind a mutex that is never held across a network      *)
(* call.  So each step here is what happens in one hold of the mutex, and  *)
(* what a thread read in one step may be stale in its next: the renewal    *)
(* thread keeps copies of subscriptions, a GET keeps the one it looked up. *)
(*                                                                         *)
(* Abstractions.  A token stands for itself, its callback and its secret,  *)
(* and is never minted twice.  The topic is the channel.  fail_count and   *)
(* last_error are left out: a backoff is any element of Backoffs.  The     *)
(* desired set is complete (ChannelSync has the lookups that fail), and a  *)
(* reconcile may start whenever no other one runs.                         *)
(***************************************************************************)
EXTENDS Naturals, FiniteSets

CONSTANTS
    Channel,
    Get,            \* HTTP workers that serve verification GETs
    Lease,          \* cfg.lease_seconds
    Grants,         \* the leases the hub may grant
    Lead,           \* RENEW_LEAD
    PendingTimeout, \* PENDING_TIMEOUT
    Cooldown,       \* RENEW_COOLDOWN
    Backoffs,       \* what backoff() may return
    Grace,          \* UNSUB_GRACE
    MaxToken,       \* bound: subscriptions created
    MaxTime,        \* bound: the clock
    MaxChanges,     \* bound: changes of channels.txt
    MaxCrashes,     \* bound: crashes
    MaxFailures     \* bound: saves that fail

ASSUME SubsAssumption ==
    /\ Lease \in Nat \ {0} /\ Grants \subseteq Nat \ {0}
    /\ Lead \in Nat /\ PendingTimeout \in Nat /\ Cooldown \in Nat /\ Grace \in Nat
    /\ Backoffs \subseteq Nat \ {0}
    /\ MaxToken \in Nat /\ MaxTime \in Nat \ {0} /\ MaxChanges \in Nat /\ MaxCrashes \in Nat
    /\ MaxFailures \in Nat
    /\ "none" \notin Channel

VARIABLES
    now,
    wanted,    \* the channels in channels.txt
    \* Registry.
    reg,       \* subs: the subscription of each channel, or NoSub
    byToken,   \* by_token: the channel of each token, or NoChannel
    unsub,     \* unsub_pending: the deadline of each token, 0 when absent
    disk,      \* subs.tsv
    \* Threads.
    rc,        \* the reconcile that is running
    rn,        \* renew_due, on the renewal thread
    get,       \* the GET each worker is serving
    \* The hub.
    hub,       \* until when it delivers to each token
    pend,      \* verifications it has still to send
    \* Bounds and history.
    minted,    \* the last token created
    asked,     \* history: tokens we asked the hub to drop
    graceEnd,  \* history: until when this process should answer for them
    behind,    \* history: a save failed, and none has succeeded since
    changes, crashes, failures

registry == <<reg, byToken, unsub>>
stored   == <<disk, behind, failures>>
hubVars  == <<hub, pend>>
history  == <<asked, graceEnd>>
vars     == <<now, wanted, registry, stored, rc, rn, get, hubVars, minted, history,
              changes, crashes>>

Token     == 1..MaxToken
NoChannel == "none"
NoSub     == [token |-> 0, state |-> "none", expires |-> 0, next |-> 0, sent |-> 0]
Has(c)    == reg[c].token # 0

LesserOf(a, b) == IF a <= b THEN a ELSE b

NoReconcile == [stage |-> "none", adds |-> {}, removes |-> {}, chan |-> NoChannel,
                sub |-> NoSub]
NoRenewal   == [stage |-> "none", at |-> 0, todo |-> {}, chan |-> NoChannel,
                sub |-> NoSub, verdict |-> "none"]
NoGet       == [stage |-> "idle", token |-> 0, mode |-> "none", chan |-> NoChannel,
                lease |-> 0]

Init ==
    /\ now = 1 /\ wanted = Channel
    /\ reg = [c \in Channel |-> NoSub] /\ disk = reg
    /\ byToken = [t \in Token |-> NoChannel]
    /\ unsub = [t \in Token |-> 0]
    /\ rc = NoReconcile /\ rn = NoRenewal /\ get = [g \in Get |-> NoGet]
    /\ hub = [t \in Token |-> 0] /\ pend = {}
    /\ minted = 0 /\ asked = {} /\ graceEnd = [t \in Token |-> 0]
    /\ behind = FALSE /\ changes = 0 /\ crashes = 0 /\ failures = 0

-----------------------------------------------------------------------------
(* The registry *)

\* Registry::save, in the step whose registry is r.  It replaces subs.tsv as a
\* whole or not at all; no caller looks at its result.
NotSaved(r) == UNCHANGED stored
Save(r) ==
    \/ disk' = r /\ behind' = FALSE /\ UNCHANGED failures
    \/ /\ failures < MaxFailures
       /\ failures' = failures + 1 /\ behind' = TRUE
       /\ UNCHANGED disk

\* Registry::by_token, and Registry::insert for its index.
Live(t)       == byToken[t] # NoChannel
Indexed(c, t) == [byToken EXCEPT ![t] = c]

\* Registry::unsub_topic: a removed token is answered for until its deadline.
Answerable(t) == now < unsub[t]

\* Deadlines that have passed are forgotten.
Swept(u) == [t \in Token |-> IF now < u[t] THEN u[t] ELSE 0]

\* Registry::forget_unsub
Forgotten(t) == Swept([unsub EXCEPT ![t] = 0])

MergedBlind(c, s) == IF reg[c].token # s.token THEN reg ELSE [reg EXCEPT ![c] = s]

\* merge_attempt: the outcome s of a send is written back unless the channel
\* has gone or has another token, and an activation that came first is kept.
Merged(c, s) ==
    IF reg[c].token # s.token
      THEN reg
      ELSE [reg EXCEPT ![c] =
              IF @.state = "active"
                THEN [s EXCEPT !.state = "active", !.expires = reg[c].expires]
                ELSE s]

MergeAttempt(c, s) ==
    /\ reg' = Merged(c, s)
    /\ IF reg[c].token = s.token THEN Save(reg') ELSE UNCHANGED stored
    /\ UNCHANGED <<byToken, unsub>>

-----------------------------------------------------------------------------
(* hub::send.  The hub takes the request and will verify it, or refuses; a  *)
(* transport error may hide that it took it.                                *)

Request(t, mode) == [token |-> t, mode |-> mode]

Accepts(t, mode) == pend' = pend \union {Request(t, mode)}
Refuses(t, mode) == pend' \in {pend, pend \union {Request(t, mode)}}

-----------------------------------------------------------------------------
(* reconcile_locked *)

ChangeList ==
    /\ changes < MaxChanges
    /\ changes' = changes + 1
    /\ wanted' \in (SUBSET Channel) \ {wanted}
    /\ UNCHANGED <<now, registry, stored, rc, rn, get, hubVars, minted, history, crashes>>

\* The diff.  A reconcile that finds nothing to do only saves what is saved.
ReconcileStart ==
    /\ rc.stage = "none"
    /\ LET adds    == {c \in wanted : ~Has(c)}
           removes == {c \in Channel \ wanted : Has(c)} IN
        /\ adds \union removes # {}
        /\ rc' = [rc EXCEPT !.stage = "change", !.adds = adds, !.removes = removes]
    /\ UNCHANGED <<now, wanted, registry, stored, rn, get, hubVars, minted, history,
                   changes, crashes>>

\* Sub::new and Registry::insert, before the hub hears of the token.
ReconcileInsert(c) ==
    /\ rc.stage = "change" /\ c \in rc.adds
    /\ minted < MaxToken
    /\ minted' = minted + 1
    /\ LET s == [NoSub EXCEPT !.token = minted', !.state = "pending", !.sent = now] IN
        /\ reg' = [reg EXCEPT ![c] = s]
        /\ rc' = [rc EXCEPT !.stage = "subscribe", !.adds = @ \ {c}, !.chan = c, !.sub = s]
    /\ byToken' = Indexed(c, minted')
    /\ UNCHANGED <<now, wanted, unsub, stored, rn, get, hubVars, history, changes, crashes>>

ReconcileSubscribe ==
    /\ rc.stage = "subscribe"
    /\ \/ /\ Accepts(rc.sub.token, "subscribe")
          /\ rc' = [rc EXCEPT !.stage = "change", !.sub = NoSub]
       \/ /\ Refuses(rc.sub.token, "subscribe")
          /\ rc' = [rc EXCEPT !.stage = "refused"]
    /\ UNCHANGED <<now, wanted, registry, stored, rn, get, hub, minted, history,
                   changes, crashes>>

\* The refused copy: what was inserted, failed and put off.
ReconcileRefused ==
    /\ rc.stage = "refused"
    /\ \E b \in Backoffs :
         MergeAttempt(rc.chan, [rc.sub EXCEPT !.state = "failed", !.next = now + b])
    /\ rc' = [rc EXCEPT !.stage = "change", !.sub = NoSub]
    /\ UNCHANGED <<now, wanted, rn, get, hubVars, minted, history, changes, crashes>>

\* The result of the unsubscribe is ignored.
ReconcileUnsubscribe(c) ==
    /\ rc.stage = "change" /\ rc.adds = {} /\ c \in rc.removes
    /\ Refuses(reg[c].token, "unsubscribe")
    /\ rc' = [rc EXCEPT !.stage = "remove", !.chan = c]
    /\ asked' = asked \union {reg[c].token}
    /\ graceEnd' = [graceEnd EXCEPT ![reg[c].token] = now + Grace]
    /\ UNCHANGED <<now, wanted, registry, stored, rn, get, hub, minted, changes, crashes>>

\* Registry::remove: what happens to the index, and to unsub_pending.
StillIndexed(t) == byToken
Unindexed(t)    == [byToken EXCEPT ![t] = NoChannel]
Unanswered(t)   == unsub
Retired(t)      == Swept([unsub EXCEPT ![t] = now + Grace])

\* Registry::remove leaves the token answerable for Grace.
ReconcileRemove ==
    /\ rc.stage = "remove"
    /\ reg' = [reg EXCEPT ![rc.chan] = NoSub]
    /\ byToken' = Unindexed(reg[rc.chan].token)
    /\ unsub' = Retired(reg[rc.chan].token)
    /\ rc' = [rc EXCEPT !.stage = "change", !.removes = @ \ {rc.chan}]
    /\ UNCHANGED <<now, wanted, stored, rn, get, hubVars, minted, history, changes, crashes>>

ReconcileFinish ==
    /\ rc.stage = "change" /\ rc.adds = {} /\ rc.removes = {}
    /\ Save(reg)
    /\ rc' = NoReconcile
    /\ UNCHANGED <<now, wanted, registry, rn, get, hubVars, minted, history, changes,
                   crashes>>

-----------------------------------------------------------------------------
(* renew_due *)

\* Sub::lease_expired
LeaseExpired(s) == s.expires > 0 /\ now >= s.expires

\* What /api/health and live_count count s as.
Health(s) ==
    CASE s.state = "active" /\ ~LeaseExpired(s) -> "active"
      [] s.state = "expired" \/ (s.state = "active" /\ LeaseExpired(s)) -> "expired"
      [] OTHER -> s.state

\* expire_lapsed
Demoted(s) == IF s.state = "active" /\ LeaseExpired(s) THEN [s EXCEPT !.state = "expired"]
                                                       ELSE s

\* Whether renew_due would send for s at time n.
Due(s, n) ==
    /\ n >= s.next
    /\ \/ s.state = "active" /\ s.expires > 0 /\ n + Lead >= s.expires
       \/ s.state = "pending" /\ n > s.sent + PendingTimeout
       \/ s.state \in {"failed", "expired"}

\* expire_lapsed, then the choice of what is due: two holds of the mutex, one
\* reading of the clock.
RenewExpire ==
    /\ rn.stage = "none"
    /\ reg' = [c \in Channel |-> Demoted(reg[c])]
    /\ IF reg' # reg THEN Save(reg') ELSE UNCHANGED stored
    /\ rn' = [rn EXCEPT !.stage = "collect", !.at = now]
    /\ UNCHANGED <<now, wanted, byToken, unsub, rc, get, hubVars, minted, history,
                   changes, crashes>>

\* From here on the thread works on copies.
RenewCollect ==
    /\ rn.stage = "collect"
    /\ LET due == {c \in Channel : Due(reg[c], rn.at)} IN
        rn' = [rn EXCEPT !.stage = IF due = {} THEN "none" ELSE "send", !.at = 0,
                         !.todo  = {<<c, reg[c]>> : c \in due}]
    /\ UNCHANGED <<now, wanted, registry, stored, rc, get, hubVars, minted, history,
                   changes, crashes>>

RenewSend ==
    /\ rn.stage = "send"
    /\ \E d \in rn.todo, verdict \in {"accepted", "refused"} :
         /\ IF verdict = "accepted" THEN Accepts(d[2].token, "subscribe")
                                    ELSE Refuses(d[2].token, "subscribe")
         /\ rn' = [stage |-> "merge", at |-> 0, todo |-> rn.todo \ {d}, chan |-> d[1],
                   sub |-> [d[2] EXCEPT !.sent = now], verdict |-> verdict]
    /\ UNCHANGED <<now, wanted, registry, stored, rc, get, hub, minted, history,
                   changes, crashes>>

\* An active subscription stays active whatever the hub said.
RenewMerge ==
    /\ rn.stage = "merge"
    /\ \E b \in Backoffs :
         LET ok == rn.verdict = "accepted"
             s  == [rn.sub EXCEPT !.state = IF @ = "active" THEN @
                                            ELSE IF ok THEN "pending" ELSE "failed",
                                  !.next  = now + (IF ok THEN Cooldown ELSE b)]
         IN  MergeAttempt(rn.chan, s)
    /\ rn' = [NoRenewal EXCEPT !.stage = IF rn.todo = {} THEN "none" ELSE "send",
                               !.todo = rn.todo]
    /\ UNCHANGED <<now, wanted, rc, get, hubVars, minted, history, changes, crashes>>

-----------------------------------------------------------------------------
(* Verification GETs.  The hub asks, callback::handle looks the token up.   *)

Asks(g, v) ==
    /\ get[g].stage = "idle"
    /\ v \in pend
    /\ pend' = pend \ {v}

\* The worker has a copy of the live subscription: its channel is what counts.
GetLive(g, v, lease) ==
    /\ Asks(g, v)
    /\ Live(v.token)
    /\ get' = [get EXCEPT ![g] =
                [stage |-> IF v.mode = "subscribe" THEN "activate" ELSE "answer",
                 token |-> v.token, mode |-> v.mode, chan |-> byToken[v.token],
                 lease |-> IF v.mode = "subscribe" THEN lease ELSE 0]]
    /\ UNCHANGED <<now, wanted, registry, stored, rc, rn, hub, minted, history,
                   changes, crashes>>

\* finish_unsubscribe: a token that was removed is answered for once.
GetRemoved(g, v) ==
    /\ Asks(g, v)
    /\ ~Live(v.token)
    /\ v.mode = "unsubscribe" /\ Answerable(v.token)
    /\ unsub' = Forgotten(v.token)
    /\ get' = [get EXCEPT ![g] = [stage |-> "answer", token |-> v.token, mode |-> v.mode,
                                  chan |-> NoChannel, lease |-> 0]]
    /\ UNCHANGED <<now, wanted, reg, byToken, stored, rc, rn, hub, minted, history,
                   changes, crashes>>

\* 404: the hub gives the request up.
GetUnknown(g, v) ==
    /\ Asks(g, v)
    /\ ~Live(v.token)
    /\ ~(v.mode = "unsubscribe" /\ Answerable(v.token))
    /\ UNCHANGED <<now, wanted, registry, stored, rc, rn, get, hub, minted, history,
                   changes, crashes>>

Activated(c, until) ==
    [reg EXCEPT ![c].state = "active", ![c].expires = until, ![c].next = 0]

\* When a lease the hub granted runs out for us: it is clamped to our own.
UntilGranted(lease) == now + lease
UntilAsked(lease)   == now + Lease
Until(lease)        == now + LesserOf(lease, Lease)

\* handle_verify updates whatever subscription the channel has by now.
Activate(g) ==
    /\ get[g].stage = "activate"
    /\ LET c == get[g].chan IN
        IF Has(c)
          THEN reg' = Activated(c, Until(get[g].lease)) /\ Save(reg')
          ELSE UNCHANGED <<reg, stored>>
    /\ get' = [get EXCEPT ![g].stage = "answer"]
    /\ UNCHANGED <<now, wanted, byToken, unsub, rc, rn, hubVars, minted, history,
                   changes, crashes>>

\* The hub has its challenge back.
Answer(g) ==
    /\ get[g].stage = "answer"
    /\ hub' = [hub EXCEPT ![get[g].token] =
                 IF get[g].mode = "subscribe" THEN now + get[g].lease ELSE 0]
    /\ get' = [get EXCEPT ![g] = NoGet]
    /\ UNCHANGED <<now, wanted, registry, stored, rc, rn, pend, minted, history,
                   changes, crashes>>

\* The hub, or the network, loses a verification.
HubForgets ==
    /\ \E v \in pend : pend' = pend \ {v}
    /\ UNCHANGED <<now, wanted, registry, stored, rc, rn, get, hub, minted, history,
                   changes, crashes>>

-----------------------------------------------------------------------------
Tick ==
    /\ now < MaxTime
    /\ now' = now + 1
    /\ UNCHANGED <<wanted, registry, stored, rc, rn, get, hubVars, minted, history,
                   changes, crashes>>

\* A crash and the restart: Registry::load.
Restart ==
    /\ crashes < MaxCrashes
    /\ crashes' = crashes + 1
    /\ reg' = disk
    /\ byToken' = [t \in Token |->
                     IF \E c \in Channel : disk[c].token = t
                       THEN CHOOSE c \in Channel : disk[c].token = t ELSE NoChannel]
    /\ unsub' = [t \in Token |-> 0]
    /\ rc' = NoReconcile /\ rn' = NoRenewal /\ get' = [g \in Get |-> NoGet]
    /\ graceEnd' = [t \in Token |-> 0]
    /\ behind' = FALSE
    /\ UNCHANGED <<now, wanted, disk, failures, hubVars, minted, asked, changes>>

Next ==
    \/ ChangeList \/ ReconcileStart \/ ReconcileSubscribe \/ ReconcileRefused
    \/ \E c \in Channel : ReconcileInsert(c) \/ ReconcileUnsubscribe(c)
    \/ ReconcileRemove \/ ReconcileFinish
    \/ RenewExpire \/ RenewCollect \/ RenewSend \/ RenewMerge
    \/ \E g \in Get, v \in pend :
         \/ \E lease \in Grants : GetLive(g, v, lease)
         \/ GetRemoved(g, v) \/ GetUnknown(g, v)
    \/ \E g \in Get : Activate(g) \/ Answer(g)
    \/ HubForgets \/ Tick \/ Restart

Spec == Init /\ [][Next]_vars

-----------------------------------------------------------------------------
(* Properties *)

Sub == [token : 0..MaxToken, state : {"none", "pending", "active", "expired", "failed"},
        expires : 0..(MaxTime + Lease), next : Nat, sent : 0..MaxTime]

\* Every variable has its type; no expiry is beyond a lease of ours from now.
TypeOK ==
    /\ now \in 1..MaxTime /\ wanted \subseteq Channel
    /\ reg \in [Channel -> Sub] /\ disk \in [Channel -> Sub]
    /\ byToken \in [Token -> Channel \union {NoChannel}]
    /\ unsub \in [Token -> 0..(MaxTime + Grace)]
    /\ rc.stage \in {"none", "change", "subscribe", "refused", "remove"}
    /\ rc.adds \subseteq Channel /\ rc.removes \subseteq Channel
    /\ rc.chan \in Channel \union {NoChannel} /\ rc.sub \in Sub
    /\ rn.stage \in {"none", "collect", "send", "merge"} /\ rn.at \in 0..MaxTime
    /\ rn.todo \subseteq Channel \X Sub
    /\ rn.chan \in Channel \union {NoChannel} /\ rn.sub \in Sub
    /\ rn.verdict \in {"none", "accepted", "refused"}
    /\ get \in [Get -> [stage : {"idle", "activate", "answer"}, token : 0..MaxToken,
                        mode : {"none", "subscribe", "unsubscribe"},
                        chan : Channel \union {NoChannel}, lease : Grants \union {0}]]
    /\ hub \in [Token -> Nat]
    /\ pend \subseteq [token : Token, mode : {"subscribe", "unsubscribe"}]
    /\ minted \in 0..MaxToken /\ asked \subseteq Token
    /\ graceEnd \in [Token -> 0..(MaxTime + Grace)]
    /\ behind \in BOOLEAN /\ changes \in 0..MaxChanges /\ crashes \in 0..MaxCrashes
    /\ failures \in 0..MaxFailures

\* by_token is exactly the inverse of subs, and a token whose channel was
\* removed is no longer live (subs.rs:200-237): a notification is checked with
\* the secret of the subscription it was sent for, or not accepted at all.
IndexConsistent ==
    \A t \in Token :
      /\ \A c \in Channel : byToken[t] = c <=> reg[c].token = t
      /\ unsub[t] > 0 => ~Live(t)

\* What a GET activated survives a crash, with the expiry the hub was told of
\* (callback.rs:107-108, renew.rs:141-157); a save that fails is made good by
\* the next one, whoever makes it (subs.rs:182-198).
ActiveIsOnDisk ==
    \A c \in Channel :
      reg[c].state = "active" /\ ~behind =>
        disk[c].token = reg[c].token /\ disk[c].state = "active"
        /\ disk[c].expires = reg[c].expires

\* No race of the renewal thread, a reconcile and a GET, and no restart, takes
\* "active" from a subscription before its lease has run out: merge_attempt
\* never reverts an activation to the snapshot it sent (renew.rs:137-157).
ActiveUntilLapsed ==
    [][\A c \in Channel :
         reg[c].state = "active" /\ reg'[c].token = reg[c].token
         /\ reg'[c].state # "active" => LeaseExpired(reg[c])]_vars

\* However it failed, a subscription is due for renewal again within the longest
\* wait there is (callback.rs:95-99, renew.rs:297-319).
Waits == {Lease, Cooldown, PendingTimeout + 1} \union Backoffs

NeverParked ==
    \A c \in Channel : Has(c) =>
      \E n \in now..(now + (CHOOSE w \in Waits : \A x \in Waits : x <= w)) :
        Due([reg[c] EXCEPT !.state =
               IF @ = "active" /\ reg[c].expires > 0 /\ n >= reg[c].expires
                 THEN "expired" ELSE @], n)

\* Unless a save failed, a token the hub delivers to is in subs.tsv, or we asked
\* the hub to drop it: a crash never leaves the hub sending to a callback nobody
\* knows (callback.rs:107-115; the insert of renew.rs:194 is saved at 229).
KnownToRelay ==
    \A t \in Token :
      failures = 0 /\ hub[t] > now => t \in asked \/ \E c \in Channel : disk[c].token = t

\* While its grace lasts, the verification of an unsubscribe finds its token
\* (subs.rs:94-97, renew.rs:217-223).
UnsubscribeAnswerable ==
    \A t \in Token :
      Request(t, "unsubscribe") \in pend /\ now < graceEnd[t] =>
        Live(t) \/ Answerable(t)

\* A subscription that counts as active (live_count, renew.rs:247-258, and
\* /api/health) is one the hub delivers to, or whose challenge is on its way.
LiveIsDelivering ==
    \A c \in Channel :
      Health(reg[c]) = "active" /\ c \notin rc.removes =>
        \/ hub[reg[c].token] > now
        \/ \E g \in Get : get[g].stage = "answer" /\ get[g].token = reg[c].token
                         /\ get[g].mode = "subscribe"

\* A worker that finds its subscription gone does not confirm it
\* (callback.rs:49-52).
ChallengeOnlyForHeld ==
    [][\A g \in Get :
         get[g].stage = "activate" /\ get'[g].stage = "answer" =>
           Live(get[g].token)]_vars

=============================================================================
