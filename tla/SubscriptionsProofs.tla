------------------------- MODULE SubscriptionsProofs ------------------------
(***************************************************************************)
(* Proofs about Subscriptions, for any channels, workers, leases, delays,  *)
(* crashes and failing saves.                                              *)
(*                                                                         *)
(* IndexConsistent rests on tokens being new (Index), and every proof on   *)
(* what a reconcile has still to do fitting the registry (Fits).           *)
(* UnsubscribeAnswerable needs who answers for a token between the request *)
(* and the removal (GraceKept); KnownToRelay, in what order a token is     *)
(* saved, confirmed and dropped (Dropped, Confirmed); NeverParked and the  *)
(* types, bounds on all copies of a subscription and not only on the       *)
(* registry's (AllFine, Timed); LiveIsDelivering, that an activation is on *)
(* record for no longer than what the hub has, or is about to have, agreed *)
(* to (Backed).                                                            *)
(***************************************************************************)
EXTENDS Subscriptions, Integers, TLAPS

LiveSub == [token : Token, state : {"pending", "active", "expired", "failed"},
            expires : Nat, next : Nat, sent : Nat]
AnySub  == {NoSub} \union LiveSub

RegTyped ==
    /\ reg \in [Channel -> AnySub] /\ disk \in [Channel -> AnySub]
    /\ byToken \in [Token -> Channel \union {NoChannel}]
    /\ unsub \in [Token -> Nat]
    /\ failures \in Nat

RcTyped ==
    /\ rc \in [stage : {"none", "change", "subscribe", "refused", "remove"},
               adds : SUBSET Channel, removes : SUBSET Channel,
               chan : Channel \union {NoChannel}, sub : AnySub]
    /\ rc.stage \in {"subscribe", "refused"} => rc.chan \in Channel /\ rc.sub \in LiveSub
    /\ rc.stage = "remove" => rc.chan \in Channel

RnTyped ==
    /\ rn \in [stage : {"none", "collect", "send", "merge"}, at : Nat,
               todo : SUBSET (Channel \X LiveSub),
               chan : Channel \union {NoChannel}, sub : AnySub,
               verdict : {"none", "accepted", "refused"}]
    /\ rn.stage = "merge" => rn.chan \in Channel /\ rn.sub \in LiveSub

GetTyped ==
    /\ get \in [Get -> [stage : {"idle", "activate", "answer"}, token : 0..MaxToken,
                        mode : {"none", "subscribe", "unsubscribe"},
                        chan : Channel \union {NoChannel}, lease : Nat]]
    /\ \A g \in Get :
         /\ get[g].stage # "idle" => get[g].token \in Token
         /\ get[g].stage = "activate" =>
              /\ get[g].chan \in Channel /\ get[g].mode = "subscribe"
              /\ get[g].lease \in Nat \ {0}

HubTyped ==
    /\ hub \in [Token -> Nat]
    /\ pend \subseteq [token : Token, mode : {"subscribe", "unsubscribe"}]

RestTyped ==
    /\ now \in Nat \ {0} /\ wanted \subseteq Channel
    /\ minted \in 0..MaxToken /\ asked \subseteq Token
    /\ graceEnd \in [Token -> Nat]

Typed == RegTyped /\ RcTyped /\ RnTyped /\ GetTyped /\ HubTyped /\ RestTyped

-----------------------------------------------------------------------------
(* Types *)

LEMMA TypedInit == Init => Typed
<1> SUFFICES ASSUME Init PROVE Typed
  OBVIOUS
<1> USE SubsAssumption
<1>1. RegTyped
  BY DEF Init, RegTyped, AnySub
<1>2. RcTyped
  BY DEF Init, RcTyped, NoReconcile, AnySub
<1>3. RnTyped
  BY DEF Init, RnTyped, NoRenewal, AnySub
<1>4. GetTyped
  BY DEF Init, GetTyped, NoGet
<1>5. HubTyped /\ RestTyped
  BY DEF Init, HubTyped, RestTyped
<1> QED BY <1>1, <1>2, <1>3, <1>4, <1>5 DEF Typed

\* What the transitions of a subscription yield.
LEMMA SubForms ==
    ASSUME NEW s \in LiveSub, NEW st \in {"pending", "active", "expired", "failed"},
           NEW n \in Nat, NEW e \in Nat
    PROVE  /\ [s EXCEPT !.state = st] \in LiveSub
           /\ [s EXCEPT !.sent = n] \in LiveSub
           /\ [s EXCEPT !.state = st, !.next = n] \in LiveSub
           /\ [s EXCEPT !.state = st, !.expires = e] \in LiveSub
           /\ [s EXCEPT !.state = st, !.expires = e, !.next = n] \in LiveSub
BY DEF LiveSub

LEMMA LiveHasToken == ASSUME NEW s \in AnySub PROVE s \in LiveSub <=> s.token # 0
BY SubsAssumption DEF AnySub, LiveSub, NoSub, Token

LEMMA SaveTyped ==
    ASSUME RegTyped, NEW r \in [Channel -> AnySub], Save(r)
    PROVE  disk' \in [Channel -> AnySub] /\ failures' \in Nat
<1>1. disk' = r \/ disk' = disk
  BY DEF Save
<1>2. failures' = failures \/ failures' = failures + 1
  BY DEF Save
<1> QED BY <1>1, <1>2 DEF RegTyped

\* merge_attempt writes back nothing, or s with an activation kept.
LEMMA MergeForms ==
    ASSUME RegTyped, NEW c \in Channel, NEW s \in LiveSub, MergeAttempt(c, s)
    PROVE  /\ RegTyped'
           /\ UNCHANGED <<byToken, unsub>>
           /\ \A d \in Channel : d # c => reg'[d] = reg[d]
           /\ \/ reg[c].token # s.token /\ reg' = reg /\ UNCHANGED stored
              \/ /\ reg[c].token = s.token /\ Save(reg')
                 /\ reg'[c] = IF reg[c].state = "active"
                                THEN [s EXCEPT !.state = "active", !.expires = reg[c].expires]
                                ELSE s
<1>1. CASE reg[c].token # s.token
  BY <1>1 DEF MergeAttempt, Merged, stored, RegTyped
<1>2. CASE reg[c].token = s.token
  <2> DEFINE m == IF reg[c].state = "active"
                    THEN [s EXCEPT !.state = "active", !.expires = reg[c].expires] ELSE s
  <2>1. reg' = [reg EXCEPT ![c] = m] /\ Save(reg') /\ UNCHANGED <<byToken, unsub>>
    BY <1>2 DEF MergeAttempt, Merged, RegTyped
  <2>2. reg[c] \in LiveSub
    BY <1>2, LiveHasToken DEF RegTyped, AnySub
  <2>3. m \in LiveSub
    BY <2>2, SubForms DEF LiveSub
  <2>4. reg' \in [Channel -> AnySub]
    BY <2>1, <2>3 DEF RegTyped, AnySub
  <2> QED BY <1>2, <2>1, <2>4, SaveTyped DEF RegTyped
<1> QED BY <1>1, <1>2

\* What a refused reconcile and a renewal merge is a subscription.
LEMMA MergeSteps ==
    ASSUME RcTyped, RnTyped, RestTyped, ReconcileRefused \/ RenewMerge
    PROVE  \E c \in Channel, s \in LiveSub : MergeAttempt(c, s)
<1> USE SubsAssumption
<1>1. CASE ReconcileRefused
  <2> PICK b \in Backoffs :
        MergeAttempt(rc.chan, [rc.sub EXCEPT !.state = "failed", !.next = now + b])
    BY <1>1 DEF ReconcileRefused
  <2>1. rc.chan \in Channel /\ rc.sub \in LiveSub
    BY <1>1 DEF ReconcileRefused, RcTyped
  <2>2. now + b \in Nat
    BY DEF RestTyped
  <2>3. [rc.sub EXCEPT !.state = "failed", !.next = now + b] \in LiveSub
    BY <2>1, <2>2, SubForms
  <2> QED BY <2>1, <2>3
<1>2. CASE RenewMerge
  <2>1. rn.chan \in Channel /\ rn.sub \in LiveSub
    BY <1>2 DEF RenewMerge, RnTyped
  <2> PICK st \in {"active", "pending", "failed"}, n \in Nat :
         MergeAttempt(rn.chan, [rn.sub EXCEPT !.state = st, !.next = n])
    <3> PICK b \in Backoffs :
         MergeAttempt(rn.chan,
           [rn.sub EXCEPT !.state = IF @ = "active" THEN @
                                    ELSE IF rn.verdict = "accepted" THEN "pending" ELSE "failed",
                          !.next = now + (IF rn.verdict = "accepted" THEN Cooldown ELSE b)])
      BY <1>2 DEF RenewMerge
    <3>1. now + (IF rn.verdict = "accepted" THEN Cooldown ELSE b) \in Nat
      BY DEF RestTyped
    <3> QED BY <2>1, <3>1
  <2>2. [rn.sub EXCEPT !.state = st, !.next = n] \in LiveSub
    BY <2>1, SubForms
  <2> QED BY <2>1, <2>2
<1> QED BY <1>1, <1>2

\* Variables that a step leaves alone keep their types.
LEMMA TypedKept ==
    /\ RegTyped /\ UNCHANGED <<registry, stored>> => RegTyped'
    /\ RcTyped /\ UNCHANGED rc => RcTyped'
    /\ RnTyped /\ UNCHANGED rn => RnTyped'
    /\ GetTyped /\ UNCHANGED get => GetTyped'
    /\ HubTyped /\ UNCHANGED hubVars => HubTyped'
    /\ RestTyped /\ UNCHANGED <<now, wanted, minted, history>> => RestTyped'
BY DEF RegTyped, RcTyped, RnTyped, GetTyped, HubTyped, RestTyped, registry, stored, hubVars,
       history

\* The registry keeps its channels and their tokens.
TokensKept == \A c \in Channel : reg'[c].token = reg[c].token

\* What the reconcile is about to do still fits the registry.
Fits ==
    /\ \A c \in rc.adds : ~Has(c)
    /\ \A c \in rc.removes : Has(c)
    /\ rc.stage = "remove" => rc.chan \in rc.removes

LEMMA ReconcileTyped ==
    ASSUME Typed, Fits,
           \/ ReconcileStart \/ ReconcileSubscribe \/ ReconcileRefused
           \/ ReconcileRemove \/ ReconcileFinish
           \/ \E c \in Channel : ReconcileInsert(c) \/ ReconcileUnsubscribe(c)
    PROVE  Typed'
<1> USE SubsAssumption, TypedKept
<1>u. RegTyped /\ RcTyped /\ RnTyped /\ GetTyped /\ HubTyped /\ RestTyped
  BY DEF Typed
<1>1. CASE ReconcileStart
  <2>1. rc' = [rc EXCEPT !.stage = "change", !.adds = {c \in wanted : ~Has(c)},
                         !.removes = {c \in Channel \ wanted : Has(c)}]
    BY <1>1 DEF ReconcileStart
  <2>2. RcTyped'
    BY <2>1, <1>u DEF RcTyped, RestTyped
  <2> QED BY <1>1, <1>u, <2>2 DEF ReconcileStart, Typed
<1>2. CASE ReconcileSubscribe
  <2>1. RcTyped'
    BY <1>2, <1>u DEF ReconcileSubscribe, RcTyped, AnySub
  <2>2. Request(rc.sub.token, "subscribe")
          \in [token : Token, mode : {"subscribe", "unsubscribe"}]
    BY <1>2, <1>u DEF ReconcileSubscribe, RcTyped, LiveSub, Request
  <2>3. HubTyped'
    BY <1>2, <1>u, <2>2 DEF ReconcileSubscribe, Accepts, Refuses, HubTyped
  <2> QED BY <1>2, <1>u, <2>1, <2>3 DEF ReconcileSubscribe, Typed
<1>3. CASE ReconcileRefused
  <2>1. RcTyped'
    BY <1>3, <1>u DEF ReconcileRefused, RcTyped, AnySub
  <2>2. RegTyped'
    BY <1>3, <1>u, MergeSteps, MergeForms
  <2> QED BY <1>3, <1>u, <2>1, <2>2 DEF ReconcileRefused, Typed
<1>4. CASE ReconcileRemove
  <2>1. RcTyped'
    BY <1>4, <1>u DEF ReconcileRemove, RcTyped
  <2>2. rc.chan \in Channel
    BY <1>4, <1>u DEF ReconcileRemove, RcTyped
  <2>3. reg' \in [Channel -> AnySub]
    BY <1>4, <1>u, <2>2 DEF ReconcileRemove, RegTyped, AnySub
  <2>4. byToken' \in [Token -> Channel \union {NoChannel}]
    BY <1>4, <1>u DEF ReconcileRemove, Unindexed, RegTyped
  <2>5. unsub' \in [Token -> Nat]
    BY <1>4, <1>u DEF ReconcileRemove, Retired, Swept, RegTyped, RestTyped
  <2> QED BY <1>4, <1>u, <2>1, <2>3, <2>4, <2>5 DEF ReconcileRemove, RegTyped, stored, Typed
<1>5. CASE ReconcileFinish
  <2>1. RcTyped'
    BY <1>5 DEF ReconcileFinish, RcTyped, NoReconcile, AnySub
  <2>2. RegTyped'
    BY <1>5, <1>u, SaveTyped DEF ReconcileFinish, RegTyped, registry
  <2> QED BY <1>5, <1>u, <2>1, <2>2 DEF ReconcileFinish, Typed
<1>6. ASSUME NEW c \in Channel, ReconcileInsert(c) PROVE Typed'
  <2>1. minted' = minted + 1 /\ minted < MaxToken
    BY <1>6 DEF ReconcileInsert
  <2>2. minted' \in Token /\ minted' \in 0..MaxToken
    BY <1>u, <2>1 DEF RestTyped, Token
  <2> PICK s : s = [NoSub EXCEPT !.token = minted', !.state = "pending", !.sent = now]
    OBVIOUS
  <2>3. s \in LiveSub
    BY <2>2, <1>u DEF NoSub, LiveSub, RestTyped
  <2>4. /\ reg' = [reg EXCEPT ![c] = s]
        /\ rc' = [rc EXCEPT !.stage = "subscribe", !.adds = @ \ {c}, !.chan = c, !.sub = s]
        /\ byToken' = [byToken EXCEPT ![minted'] = c]
        /\ UNCHANGED <<now, wanted, unsub, stored, rn, get, hubVars, history>>
    BY <1>6 DEF ReconcileInsert, Indexed
  <2>5. RegTyped'
    BY <1>u, <2>3, <2>4 DEF RegTyped, AnySub, stored
  <2>6. RcTyped'
    BY <1>u, <2>3, <2>4 DEF RcTyped, AnySub
  <2>7. RestTyped'
    BY <1>u, <2>2, <2>4 DEF RestTyped, history
  <2> QED BY <1>u, <2>4, <2>5, <2>6, <2>7 DEF Typed
<1>7. ASSUME NEW c \in Channel, ReconcileUnsubscribe(c) PROVE Typed'
  <2>1. RcTyped'
    BY <1>7, <1>u DEF ReconcileUnsubscribe, RcTyped
  <2>2. reg[c].token \in Token
    <3>1. reg[c] \in AnySub /\ reg[c].token # 0
      BY <1>7, <1>u DEF ReconcileUnsubscribe, Fits, Has, RegTyped
    <3> QED BY <3>1, LiveHasToken DEF LiveSub
  <2>3. Request(reg[c].token, "unsubscribe")
          \in [token : Token, mode : {"subscribe", "unsubscribe"}]
    BY <2>2 DEF Request
  <2>4. HubTyped'
    BY <1>7, <1>u, <2>3 DEF ReconcileUnsubscribe, Refuses, HubTyped
  <2>5. RestTyped'
    <3>1. now + Grace \in Nat
      BY <1>u DEF RestTyped
    <3>2. asked' = asked \union {reg[c].token}
          /\ graceEnd' = [graceEnd EXCEPT ![reg[c].token] = now + Grace]
          /\ UNCHANGED <<now, wanted, minted>>
      BY <1>7 DEF ReconcileUnsubscribe
    <3> QED BY <1>u, <2>2, <3>1, <3>2 DEF RestTyped
  <2> QED BY <1>7, <1>u, <2>1, <2>4, <2>5 DEF ReconcileUnsubscribe, Typed
<1> QED BY <1>1, <1>2, <1>3, <1>4, <1>5, <1>6, <1>7

LEMMA RenewTyped ==
    ASSUME Typed, RenewExpire \/ RenewCollect \/ RenewSend \/ RenewMerge
    PROVE  Typed'
<1> USE SubsAssumption, TypedKept
<1>u. RegTyped /\ RcTyped /\ RnTyped /\ GetTyped /\ HubTyped /\ RestTyped
  BY DEF Typed
<1>1. CASE RenewExpire
  <2>1. reg' \in [Channel -> AnySub]
    <3>1. \A c \in Channel : Demoted(reg[c]) \in AnySub
      <4> TAKE c \in Channel
      <4>1. CASE reg[c] \in LiveSub
        <5>1. [reg[c] EXCEPT !.state = "expired"] \in LiveSub
          BY <4>1, SubForms
        <5> QED BY <4>1, <5>1 DEF Demoted, AnySub
      <4>2. CASE reg[c] = NoSub
        BY <4>2 DEF Demoted, AnySub, NoSub
      <4> QED BY <1>u, <4>1, <4>2 DEF RegTyped, AnySub
    <3> QED BY <1>1, <3>1 DEF RenewExpire
  <2>2. disk' \in [Channel -> AnySub] /\ failures' \in Nat
    BY <1>1, <1>u, <2>1, SaveTyped DEF RenewExpire, stored, RegTyped
  <2>3. RegTyped'
    BY <1>1, <1>u, <2>1, <2>2 DEF RenewExpire, RegTyped
  <2>4. RnTyped'
    BY <1>1, <1>u DEF RenewExpire, RnTyped, RestTyped
  <2> QED BY <1>1, <1>u, <2>3, <2>4 DEF RenewExpire, Typed
<1>2. CASE RenewCollect
  <2> PICK due : /\ due = {c \in Channel : Due(reg[c], rn.at)}
                 /\ rn' = [rn EXCEPT !.stage = IF due = {} THEN "none" ELSE "send", !.at = 0,
                                     !.todo  = {<<c, reg[c]>> : c \in due}]
    BY <1>2 DEF RenewCollect
  <2>1. \A c \in due : reg[c] \in LiveSub
    BY <1>u DEF Due, RegTyped, AnySub, NoSub
  <2>2. {<<c, reg[c]>> : c \in due} \subseteq Channel \X LiveSub
    BY <2>1
  <2>3. RnTyped'
    BY <1>u, <2>2 DEF RnTyped
  <2> QED BY <1>2, <1>u, <2>3 DEF RenewCollect, Typed
<1>3. CASE RenewSend
  <2> PICK d \in rn.todo, verdict \in {"accepted", "refused"} :
         /\ IF verdict = "accepted" THEN Accepts(d[2].token, "subscribe")
                                    ELSE Refuses(d[2].token, "subscribe")
         /\ rn' = [stage |-> "merge", at |-> 0, todo |-> rn.todo \ {d}, chan |-> d[1],
                   sub |-> [d[2] EXCEPT !.sent = now], verdict |-> verdict]
    BY <1>3 DEF RenewSend
  <2>1. d[1] \in Channel /\ d[2] \in LiveSub
    BY <1>u DEF RnTyped
  <2>2. [d[2] EXCEPT !.sent = now] \in LiveSub
    BY <1>u, <2>1, SubForms DEF RestTyped
  <2>3. RnTyped'
    BY <1>u, <2>1, <2>2 DEF RnTyped, AnySub
  <2>4. Request(d[2].token, "subscribe")
          \in [token : Token, mode : {"subscribe", "unsubscribe"}]
    BY <2>1 DEF LiveSub, Request
  <2>5. HubTyped'
    BY <1>3, <1>u, <2>4 DEF RenewSend, Accepts, Refuses, HubTyped
  <2> QED BY <1>3, <1>u, <2>3, <2>5 DEF RenewSend, Typed
<1>4. CASE RenewMerge
  <2>3. RegTyped'
    BY <1>4, <1>u, MergeSteps, MergeForms
  <2>4. RnTyped'
    BY <1>4, <1>u DEF RenewMerge, RnTyped, NoRenewal, AnySub
  <2> QED BY <1>4, <1>u, <2>3, <2>4 DEF RenewMerge, Typed
<1> QED BY <1>1, <1>2, <1>3, <1>4

LEMMA GetsTyped ==
    ASSUME Typed, NEW g \in Get,
           \/ Activate(g) \/ Answer(g)
           \/ \E v \in pend : \/ \E lease \in Grants : GetLive(g, v, lease)
                              \/ GetRemoved(g, v) \/ GetUnknown(g, v)
    PROVE  Typed'
<1> USE SubsAssumption, TypedKept
<1>u. RegTyped /\ RcTyped /\ RnTyped /\ GetTyped /\ HubTyped /\ RestTyped
  BY DEF Typed
<1>v. ASSUME NEW v \in pend
      PROVE  v.token \in Token /\ v.token \in 0..MaxToken /\ v.mode \in {"subscribe", "unsubscribe"}
  BY <1>u DEF HubTyped, Token
<1>p. ASSUME NEW v \in pend, Asks(g, v), UNCHANGED hub PROVE HubTyped'
  BY <1>u, <1>p DEF Asks, HubTyped
<1>1. ASSUME NEW v \in pend, NEW lease \in Grants, GetLive(g, v, lease) PROVE Typed'
  <2>1. byToken[v.token] \in Channel
    BY <1>1, <1>u, <1>v DEF GetLive, Live, RegTyped
  <2>2. GetTyped'
    BY <1>1, <1>u, <1>v, <2>1 DEF GetLive, GetTyped
  <2> QED BY <1>1, <1>u, <1>p, <2>2 DEF GetLive, Typed
<1>2. ASSUME NEW v \in pend, GetRemoved(g, v) PROVE Typed'
  <2>1. GetTyped'
    BY <1>2, <1>u, <1>v DEF GetRemoved, GetTyped
  <2>2. unsub' \in [Token -> Nat]
    BY <1>2, <1>u DEF GetRemoved, Forgotten, Swept, RegTyped
  <2>3. RegTyped'
    BY <1>2, <1>u, <2>2 DEF GetRemoved, RegTyped, stored
  <2> QED BY <1>2, <1>u, <1>p, <2>1, <2>3 DEF GetRemoved, Typed
<1>3. ASSUME NEW v \in pend, GetUnknown(g, v) PROVE Typed'
  BY <1>3, <1>u, <1>p DEF GetUnknown, Typed
<1>4. CASE Activate(g)
  <2> PICK c \in Channel : c = get[g].chan
    BY <1>4, <1>u DEF Activate, GetTyped
  <2>1. get[g].lease \in Nat
    BY <1>u DEF GetTyped
  <2>2. Until(get[g].lease) \in Nat
    BY <1>u, <2>1 DEF Until, LesserOf, RestTyped
  <2>3. RegTyped'
    <3>1. CASE Has(c)
      <4>1. reg[c] \in LiveSub
        BY <1>u, <3>1, LiveHasToken DEF Has, RegTyped
      <4>2. reg' = Activated(c, Until(get[g].lease)) /\ Save(reg') /\ UNCHANGED <<byToken, unsub>>
        BY <1>4, <3>1 DEF Activate
      <4>3. [reg[c] EXCEPT !.state = "active", !.expires = Until(get[g].lease), !.next = 0]
              \in LiveSub
        BY <2>2, <4>1, SubForms
      <4>4. reg' = [reg EXCEPT ![c] = [reg[c] EXCEPT !.state = "active",
                                         !.expires = Until(get[g].lease), !.next = 0]]
        BY <1>u, <4>1, <4>2 DEF Activated, RegTyped, LiveSub
      <4>5. reg' \in [Channel -> AnySub]
        BY <1>u, <4>3, <4>4 DEF RegTyped, AnySub
      <4> QED BY <1>u, <4>2, <4>5, SaveTyped DEF RegTyped
    <3>2. CASE ~Has(c)
      BY <1>4, <1>u, <3>2 DEF Activate, RegTyped, stored
    <3> QED BY <3>1, <3>2
  <2>4. GetTyped'
    BY <1>4, <1>u DEF Activate, GetTyped
  <2> QED BY <1>4, <1>u, <2>3, <2>4 DEF Activate, Typed
<1>5. CASE Answer(g)
  <2>1. GetTyped'
    BY <1>5, <1>u DEF Answer, GetTyped, NoGet
  <2>2. now + get[g].lease \in Nat
    BY <1>u DEF GetTyped, RestTyped
  <2>3. HubTyped'
    BY <1>5, <1>u, <2>2 DEF Answer, HubTyped
  <2> QED BY <1>5, <1>u, <2>1, <2>3 DEF Answer, Typed
<1> QED BY <1>1, <1>2, <1>3, <1>4, <1>5

LEMMA TypedStep == Typed /\ Fits /\ [Next]_vars => Typed'
<1> SUFFICES ASSUME Typed, Fits, [Next]_vars PROVE Typed'
  OBVIOUS
<1> USE SubsAssumption
<1>u. RegTyped /\ RcTyped /\ RnTyped /\ GetTyped /\ HubTyped /\ RestTyped
  BY DEF Typed
<1>1. CASE ChangeList
  <2>1. RestTyped'
    BY <1>1, <1>u DEF ChangeList, RestTyped, history
  <2> QED BY <1>1, <1>u, <2>1, TypedKept DEF ChangeList, Typed
<1>2. CASE HubForgets
  <2>1. HubTyped'
    BY <1>2, <1>u DEF HubForgets, HubTyped
  <2> QED BY <1>2, <1>u, <2>1, TypedKept DEF HubForgets, Typed
<1>3. CASE Tick
  <2>1. RestTyped'
    BY <1>3, <1>u DEF Tick, RestTyped, history
  <2> QED BY <1>3, <1>u, <2>1, TypedKept DEF Tick, Typed
<1>4. CASE Restart
  <2>1. RegTyped'
    <3>1. byToken' \in [Token -> Channel \union {NoChannel}]
      <4>1. ASSUME NEW t \in Token
            PROVE  (IF \E c \in Channel : disk[c].token = t
                      THEN CHOOSE c \in Channel : disk[c].token = t ELSE NoChannel)
                     \in Channel \union {NoChannel}
        OBVIOUS
      <4> QED BY <1>4, <4>1 DEF Restart
    <3>2. unsub' \in [Token -> Nat]
      BY <1>4 DEF Restart
    <3> QED BY <1>4, <1>u, <3>1, <3>2 DEF Restart, RegTyped
  <2>2. RcTyped'
    BY <1>4 DEF Restart, RcTyped, NoReconcile, AnySub
  <2>3. RnTyped'
    BY <1>4 DEF Restart, RnTyped, NoRenewal, AnySub
  <2>4. GetTyped'
    BY <1>4 DEF Restart, GetTyped, NoGet
  <2>5. RestTyped'
    BY <1>4, <1>u DEF Restart, RestTyped
  <2> QED BY <1>4, <1>u, <2>1, <2>2, <2>3, <2>4, <2>5, TypedKept DEF Restart, Typed
<1>5. CASE UNCHANGED vars
  BY <1>5, <1>u, TypedKept DEF vars, Typed
<1> QED BY <1>1, <1>2, <1>3, <1>4, <1>5, ReconcileTyped, RenewTyped, GetsTyped DEF Next

-----------------------------------------------------------------------------
(* Tokens *)

\* Most steps leave the tokens alone, and save the registry as a whole if at all.
Quiet ==
    /\ TokensKept /\ byToken' = byToken /\ minted' = minted
    /\ disk' = disk \/ disk' = reg'
    /\ \A t \in Token : unsub'[t] = unsub[t] \/ unsub'[t] = 0

LEMMA MergeIsQuiet ==
    ASSUME RegTyped, NEW c \in Channel, NEW s \in LiveSub, MergeAttempt(c, s), minted' = minted
    PROVE  Quiet
<1>1. /\ byToken' = byToken /\ unsub' = unsub /\ \A d \in Channel : d # c => reg'[d] = reg[d]
      /\ \/ reg[c].token # s.token /\ reg' = reg /\ UNCHANGED stored
         \/ /\ reg[c].token = s.token /\ Save(reg')
            /\ reg'[c] = IF reg[c].state = "active"
                           THEN [s EXCEPT !.state = "active", !.expires = reg[c].expires]
                           ELSE s
  BY MergeForms
<1>2. reg'[c].token = reg[c].token
  BY <1>1 DEF LiveSub
<1>3. disk' = disk \/ disk' = reg'
  BY <1>1 DEF Save, stored
<1> QED BY <1>1, <1>2, <1>3 DEF Quiet, TokensKept

LEMMA MergesAreQuiet == ASSUME Typed, ReconcileRefused \/ RenewMerge PROVE Quiet
<1>1. PICK c \in Channel, s \in LiveSub : MergeAttempt(c, s)
  BY MergeSteps DEF Typed
<1>2. minted' = minted
  BY DEF ReconcileRefused, RenewMerge
<1> QED BY <1>1, <1>2, MergeIsQuiet DEF Typed

\* What the renewal thread expires keeps its token.
LEMMA ExpireIsQuiet == ASSUME Typed, RenewExpire PROVE Quiet
<1>1. \A c \in Channel : Demoted(reg[c]).token = reg[c].token
  BY DEF Typed, Demoted, RegTyped, AnySub, LiveSub, NoSub
<1>2. TokensKept
  BY <1>1 DEF RenewExpire, TokensKept
<1> QED BY <1>2 DEF RenewExpire, Quiet, Save, stored

LEMMA ActivateIsQuiet == ASSUME Typed, NEW g \in Get, Activate(g) PROVE Quiet
<1>u. RegTyped /\ GetTyped
  BY DEF Typed
<1> PICK c \in Channel : c = get[g].chan
  BY <1>u DEF Activate, GetTyped
<1>1. TokensKept
  BY <1>u DEF Activate, Activated, TokensKept, RegTyped, AnySub, LiveSub, NoSub
<1>2. disk' = disk \/ disk' = reg'
  BY DEF Activate, Save, stored
<1> QED BY <1>1, <1>2 DEF Activate, Quiet

LEMMA QuietSteps ==
    ASSUME Typed, [Next]_vars
    PROVE  \/ Quiet
           \/ \E c \in Channel : ReconcileInsert(c)
           \/ ReconcileRemove
           \/ Restart
<1> USE SubsAssumption
<1>u. RegTyped /\ RcTyped /\ RnTyped /\ GetTyped /\ HubTyped /\ RestTyped
  BY DEF Typed
<1>0. ASSUME UNCHANGED <<reg, byToken, minted>>, disk' = disk \/ disk' = reg',
             \A t \in Token : unsub'[t] = unsub[t] \/ unsub'[t] = 0
      PROVE  Quiet
  BY <1>0 DEF Quiet, TokensKept
<1>1. CASE \/ ReconcileStart \/ ReconcileSubscribe \/ RenewCollect \/ RenewSend
           \/ ChangeList \/ HubForgets \/ Tick \/ UNCHANGED vars
  <2>1. UNCHANGED <<registry, disk, minted>>
    BY <1>1 DEF ReconcileStart, ReconcileSubscribe, RenewCollect, RenewSend, ChangeList,
                HubForgets, Tick, vars, stored
  <2> QED BY <1>0, <2>1 DEF registry
<1>2. ASSUME NEW c \in Channel, ReconcileUnsubscribe(c) PROVE Quiet
  BY <1>0, <1>2 DEF ReconcileUnsubscribe, registry, stored
<1>3. CASE ReconcileRefused
  BY <1>3, MergesAreQuiet
<1>4. CASE ReconcileFinish
  BY <1>0, <1>4 DEF ReconcileFinish, registry, Save
<1>5. CASE RenewExpire \/ RenewMerge
  BY <1>5, ExpireIsQuiet, MergesAreQuiet
<1>7. ASSUME NEW g \in Get, NEW v \in pend, NEW lease \in Grants, GetLive(g, v, lease)
      PROVE  Quiet
  BY <1>0, <1>7 DEF GetLive, registry, stored
<1>8. ASSUME NEW g \in Get, NEW v \in pend, GetRemoved(g, v) PROVE Quiet
  <2>1. \A t \in Token : unsub'[t] = unsub[t] \/ unsub'[t] = 0
    BY <1>8, <1>u DEF GetRemoved, Forgotten, Swept, RegTyped
  <2> QED BY <1>0, <1>8, <2>1 DEF GetRemoved, stored
<1>9. ASSUME NEW g \in Get, NEW v \in pend, GetUnknown(g, v) PROVE Quiet
  BY <1>0, <1>9 DEF GetUnknown, registry, stored
<1>10. ASSUME NEW g \in Get, Activate(g) PROVE Quiet
  BY <1>10, ActivateIsQuiet
<1>11. ASSUME NEW g \in Get, Answer(g) PROVE Quiet
  BY <1>0, <1>11 DEF Answer, registry, stored
<1> QED BY <1>1, <1>2, <1>3, <1>4, <1>5, <1>7, <1>8, <1>9, <1>10, <1>11 DEF Next

LEMMA FitsStep == Typed /\ Fits /\ [Next]_vars => Fits'
<1> SUFFICES ASSUME Typed, Fits, [Next]_vars PROVE Fits'
  OBVIOUS
<1>u. RegTyped /\ RcTyped
  BY DEF Typed
<1>1. ASSUME TokensKept, UNCHANGED rc PROVE Fits'
  BY <1>u, <1>1 DEF Fits, TokensKept, Has, RcTyped
<1>2. ASSUME NEW c \in Channel, ReconcileInsert(c) PROVE Fits'
  <2>1. /\ minted' \in Nat \ {0} /\ reg'[c].token = minted'
        /\ \A d \in Channel : d # c => reg'[d] = reg[d]
    BY <1>2, <1>u DEF ReconcileInsert, Typed, RestTyped, RegTyped, NoSub
  <2>2. rc'.adds = rc.adds \ {c} /\ rc'.removes = rc.removes /\ rc'.stage = "subscribe"
    BY <1>2, <1>u DEF ReconcileInsert, RcTyped
  <2> QED BY <1>u, <2>1, <2>2 DEF Fits, Has, RcTyped
<1>3. CASE ReconcileRemove
  <2>1. /\ reg'[rc.chan] = NoSub /\ \A d \in Channel : d # rc.chan => reg'[d] = reg[d]
    BY <1>3, <1>u DEF ReconcileRemove, RcTyped, RegTyped
  <2>2. rc'.adds = rc.adds /\ rc'.removes = rc.removes \ {rc.chan} /\ rc'.stage = "change"
    BY <1>3, <1>u DEF ReconcileRemove, RcTyped
  <2> QED BY <1>u, <2>1, <2>2 DEF Fits, Has, RcTyped, NoSub
<1>4. CASE Restart \/ ReconcileFinish
  BY <1>4 DEF Restart, ReconcileFinish, NoReconcile, Fits
<1>5. CASE ReconcileStart
  <2>1. rc' = [rc EXCEPT !.stage = "change", !.adds = {c \in wanted : ~Has(c)},
                         !.removes = {c \in Channel \ wanted : Has(c)}] /\ reg' = reg
    BY <1>5 DEF ReconcileStart, registry
  <2> QED BY <1>u, <2>1 DEF Fits, Has, RcTyped
<1>6. ASSUME NEW c \in Channel, ReconcileUnsubscribe(c) PROVE Fits'
  <2>1. reg' = reg /\ rc' = [rc EXCEPT !.stage = "remove", !.chan = c] /\ c \in rc.removes
    BY <1>6 DEF ReconcileUnsubscribe, registry
  <2> QED BY <1>u, <2>1 DEF Fits, Has, RcTyped
<1>7. CASE ReconcileSubscribe \/ ReconcileRefused
  <2>1. /\ rc'.adds = rc.adds /\ rc'.removes = rc.removes /\ rc'.stage # "remove"
    BY <1>7, <1>u DEF ReconcileSubscribe, ReconcileRefused, RcTyped
  <2>2. TokensKept
    <3>1. CASE ReconcileSubscribe
      BY <3>1 DEF ReconcileSubscribe, registry, TokensKept
    <3>2. CASE ReconcileRefused
      BY <3>2, MergesAreQuiet DEF Quiet
    <3> QED BY <1>7, <3>1, <3>2
  <2> QED BY <1>u, <2>1, <2>2 DEF Fits, TokensKept, Has, RcTyped
<1>8. CASE \/ RenewExpire \/ RenewCollect \/ RenewSend \/ RenewMerge
           \/ \E g \in Get, v \in pend :
                \/ \E lease \in Grants : GetLive(g, v, lease)
                \/ GetRemoved(g, v) \/ GetUnknown(g, v)
           \/ \E g \in Get : Activate(g) \/ Answer(g)
           \/ ChangeList \/ HubForgets \/ Tick \/ UNCHANGED vars
  <2>1. UNCHANGED rc
    BY <1>8 DEF RenewExpire, RenewCollect, RenewSend, RenewMerge, GetLive, GetRemoved,
                GetUnknown, Activate, Answer, ChangeList, HubForgets, Tick, vars
  <2> QED BY <1>1, <1>2, <1>3, <1>4, <2>1, QuietSteps DEF Quiet
<1> QED BY <1>2, <1>3, <1>4, <1>5, <1>6, <1>7, <1>8 DEF Next

\* Why by_token is the inverse of subs, and stays so: tokens are new, a disk has
\* each of them once, and a retired one never comes back.
Index ==
    /\ IndexConsistent
    /\ \A c \in Channel : reg[c].token <= minted /\ disk[c].token <= minted
    /\ \A c, d \in Channel : disk[c].token = disk[d].token /\ disk[c].token # 0 => c = d
    /\ \A t \in Token : unsub[t] > 0 => t <= minted

LEMMA IndexInit == Init => Index /\ Fits
<1> SUFFICES ASSUME Init PROVE Index /\ Fits
  OBVIOUS
<1>1. /\ reg = [c \in Channel |-> NoSub] /\ disk = reg /\ minted = 0 /\ rc = NoReconcile
      /\ byToken = [t \in Token |-> NoChannel] /\ unsub = [t \in Token |-> 0]
  BY DEF Init
<1>2. NoChannel \notin Channel
  BY SubsAssumption DEF NoChannel
<1>3. Index
  BY <1>1, <1>2, SubsAssumption DEF Index, IndexConsistent, NoSub, Token
<1> QED BY <1>1, <1>3 DEF Fits, NoReconcile

LEMMA IndexStep == Typed /\ Fits /\ Index /\ [Next]_vars => Index'
<1> SUFFICES ASSUME Typed, Fits, Index, [Next]_vars PROVE Index'
  OBVIOUS
<1> USE SubsAssumption
<1>u. RegTyped /\ RcTyped /\ RestTyped
  BY DEF Typed
<1>n. NoChannel \notin Channel
  BY DEF NoChannel
<1>d. ASSUME NEW c \in Channel, NEW d \in Channel, reg[c].token = reg[d].token,
             reg[c].token # 0
      PROVE  c = d
  <2>1. reg[c].token \in Token
    BY <1>u, <1>d, LiveHasToken DEF RegTyped, LiveSub
  <2> QED BY <1>d, <2>1 DEF Index, IndexConsistent
<1>1. CASE Quiet
  <2>1. IndexConsistent'
    BY <1>1, <1>u DEF Quiet, TokensKept, Index, IndexConsistent, Live, RegTyped
  <2>2. \A c \in Channel : reg'[c].token <= minted' /\ disk'[c].token <= minted'
    BY <1>1 DEF Quiet, TokensKept, Index
  <2>3. \A c, d \in Channel : disk'[c].token = disk'[d].token /\ disk'[c].token # 0 => c = d
    BY <1>1, <1>d DEF Quiet, TokensKept, Index
  <2>4. \A t \in Token : unsub'[t] > 0 => t <= minted'
    BY <1>1, <1>u DEF Quiet, Index, RegTyped
  <2> QED BY <2>1, <2>2, <2>3, <2>4 DEF Index
<1>2. ASSUME NEW c \in Channel, ReconcileInsert(c) PROVE Index'
  <2>1. /\ minted' = minted + 1 /\ minted < MaxToken /\ minted' \in Token /\ ~Has(c)
        /\ reg'[c].token = minted' /\ \A d \in Channel : d # c => reg'[d] = reg[d]
        /\ byToken' = [byToken EXCEPT ![minted'] = c] /\ UNCHANGED <<unsub, disk>>
    <3>1. minted' = minted + 1 /\ minted < MaxToken
      BY <1>2 DEF ReconcileInsert
    <3>2. minted' \in Token
      BY <1>u, <3>1 DEF RestTyped, Token
    <3>3. reg'[c].token = minted' /\ \A d \in Channel : d # c => reg'[d] = reg[d]
      BY <1>2, <1>u DEF ReconcileInsert, RegTyped, NoSub
    <3>4. ~Has(c)
      BY <1>2 DEF ReconcileInsert, Fits
    <3> QED BY <1>2, <3>1, <3>2, <3>3, <3>4 DEF ReconcileInsert, Indexed, stored
  <2>2. minted \in Nat /\ \A d \in Channel : reg[d].token \in Nat
    BY <1>u DEF RestTyped, RegTyped, AnySub, LiveSub, NoSub, Token
  <2>3. ASSUME NEW t \in Token, NEW d \in Channel PROVE byToken'[t] = d <=> reg'[d].token = t
    <3>1. CASE t = minted'
      <4>1. byToken'[t] = c
        BY <1>u, <2>1, <3>1 DEF RegTyped
      <4>2. d # c => reg'[d].token # minted'
        BY <2>1, <2>2 DEF Index
      <4> QED BY <2>1, <3>1, <4>1, <4>2
    <3>2. CASE t # minted'
      <4>1. byToken'[t] = byToken[t]
        BY <1>u, <2>1, <3>2 DEF RegTyped
      <4>2. byToken[t] = d <=> reg[d].token = t
        BY DEF Index, IndexConsistent
      <4>3. CASE d = c
        <5>1. t # 0
          BY DEF Token
        <5> QED BY <2>1, <3>2, <4>1, <4>2, <4>3, <5>1 DEF Has
      <4>4. CASE d # c
        BY <2>1, <4>1, <4>2, <4>4
      <4> QED BY <4>3, <4>4
    <3> QED BY <3>1, <3>2
  <2>4. ASSUME NEW t \in Token, unsub'[t] > 0 PROVE byToken'[t] = NoChannel /\ t <= minted'
    <3>1. t <= minted /\ byToken[t] = NoChannel
      BY <2>1, <2>4 DEF Index, IndexConsistent, Live
    <3>2. t # minted'
      BY <2>1, <2>2, <3>1 DEF Token
    <3> QED BY <1>u, <2>1, <2>2, <3>1, <3>2 DEF RegTyped, Token
  <2>5. \A d \in Channel : reg'[d].token <= minted' /\ disk'[d].token <= minted'
    <3>1. \A d \in Channel : disk[d].token \in Nat
      BY <1>u DEF RegTyped, AnySub, LiveSub, NoSub, Token
    <3> QED BY <2>1, <2>2, <3>1 DEF Index
  <2>6. IndexConsistent'
    BY <2>3, <2>4 DEF IndexConsistent, Live
  <2> QED BY <2>1, <2>4, <2>5, <2>6 DEF Index
<1>3. CASE ReconcileRemove
  <2> PICK c \in Channel : c = rc.chan
    BY <1>3, <1>u DEF ReconcileRemove, RcTyped
  <2>1. reg[c].token \in Token
    <3>1. Has(c)
      BY <1>3 DEF ReconcileRemove, Fits
    <3> QED BY <1>u, <3>1, LiveHasToken DEF Has, RegTyped, LiveSub
  <2>2. /\ reg'[c] = NoSub /\ \A d \in Channel : d # c => reg'[d] = reg[d]
        /\ byToken' = [byToken EXCEPT ![reg[c].token] = NoChannel]
        /\ unsub' = Retired(reg[c].token) /\ UNCHANGED <<minted, disk>>
    BY <1>3, <1>u DEF ReconcileRemove, Unindexed, RegTyped, stored
  <2>3. ASSUME NEW t \in Token, NEW d \in Channel PROVE byToken'[t] = d <=> reg'[d].token = t
    <3>0. t # 0 /\ (byToken[t] = d <=> reg[d].token = t)
      BY DEF Token, Index, IndexConsistent
    <3>1. CASE t = reg[c].token
      <4>1. byToken'[t] = NoChannel
        BY <1>u, <2>2, <3>1 DEF RegTyped
      <4>2. d # c => reg[d].token # t
        BY <1>d, <3>0, <3>1
      <4> QED BY <1>n, <2>2, <3>0, <4>1, <4>2 DEF NoSub
    <3>2. CASE t # reg[c].token
      <4>1. byToken'[t] = byToken[t]
        BY <1>u, <2>2, <3>2 DEF RegTyped
      <4> QED BY <2>2, <3>0, <3>2, <4>1 DEF NoSub
    <3> QED BY <3>1, <3>2
  <2>4. ASSUME NEW t \in Token, unsub'[t] > 0 PROVE byToken'[t] = NoChannel /\ t <= minted'
    <3>1. CASE t = reg[c].token
      BY <1>u, <2>2, <3>1 DEF RegTyped, Index
    <3>2. CASE t # reg[c].token
      <4>1. unsub[t] > 0
        BY <1>u, <2>2, <2>4, <3>2 DEF Retired, Swept, RegTyped
      <4> QED BY <1>u, <2>2, <3>2, <4>1 DEF Index, IndexConsistent, Live, RegTyped
    <3> QED BY <3>1, <3>2
  <2>5. \A d \in Channel : reg'[d].token <= minted' /\ disk'[d].token <= minted'
    BY <1>u, <2>2 DEF Index, NoSub, RestTyped
  <2>6. IndexConsistent'
    BY <2>3, <2>4 DEF IndexConsistent, Live
  <2> QED BY <2>2, <2>4, <2>5, <2>6 DEF Index
<1>4. CASE Restart
  <2>1. reg' = disk /\ UNCHANGED <<disk, minted>> /\ \A t \in Token : unsub'[t] = 0
    BY <1>4 DEF Restart
  <2>2. ASSUME NEW t \in Token, NEW d \in Channel PROVE byToken'[t] = d <=> disk[d].token = t
    <3>1. t # 0
      BY DEF Token
    <3>2. CASE \E c \in Channel : disk[c].token = t
      <4> PICK c \in Channel : c = CHOOSE x \in Channel : disk[x].token = t
        BY <3>2
      <4>1. disk[c].token = t /\ byToken'[t] = c
        BY <1>4, <3>2 DEF Restart
      <4> QED BY <3>1, <4>1 DEF Index
    <3>3. CASE ~\E c \in Channel : disk[c].token = t
      BY <1>4, <1>n, <3>3 DEF Restart
    <3> QED BY <3>2, <3>3
  <2> QED BY <2>1, <2>2 DEF Index, IndexConsistent
<1> QED BY <1>1, <1>2, <1>3, <1>4, QuietSteps

\* by_token is the inverse of subs, and a retired token is not live, whatever is
\* lost, refused, crashed or restarted (subs.rs:200-237).
THEOREM IndexConsistentAlways == Spec => []IndexConsistent
<1> DEFINE Inv == Typed /\ Fits /\ Index
<1>1. Init => Inv
  BY TypedInit, IndexInit
<1>2. Inv /\ [Next]_vars => Inv'
  BY TypedStep, FitsStep, IndexStep
<1>3. Inv => IndexConsistent
  BY DEF Index
<1> QED BY <1>1, <1>2, <1>3, PTL DEF Spec

-----------------------------------------------------------------------------
(* What is on disk *)

\* A step that changes a subscription other than by inserting or removing one
\* saves the registry it leaves, or is behind.
Kept == disk' = reg' \/ behind' = TRUE \/ UNCHANGED <<reg, disk, behind>>

LEMMA SaveKeeps == Save(reg') => Kept
BY DEF Save, Kept

LEMMA MergeKeeps == ASSUME NEW c, NEW s, MergeAttempt(c, s) PROVE Kept
<1>1. CASE reg[c].token = s.token
  BY <1>1, SaveKeeps DEF MergeAttempt
<1>2. CASE reg[c].token # s.token
  BY <1>2 DEF MergeAttempt, Merged, stored, Kept
<1> QED BY <1>1, <1>2

LEMMA KeptSteps ==
    ASSUME [Next]_vars
    PROVE  \/ Kept
           \/ \E c \in Channel : ReconcileInsert(c)
           \/ ReconcileRemove
<1>0. UNCHANGED <<reg, stored>> => Kept
  BY DEF stored, Kept
<1>1. CASE \/ ReconcileStart \/ ReconcileSubscribe \/ RenewCollect \/ RenewSend
           \/ ChangeList \/ HubForgets \/ Tick \/ UNCHANGED vars
  <2>1. UNCHANGED <<registry, stored>>
    BY <1>1 DEF ReconcileStart, ReconcileSubscribe, RenewCollect, RenewSend, ChangeList,
                HubForgets, Tick, vars
  <2> QED BY <1>0, <2>1 DEF registry
<1>2. ASSUME NEW c \in Channel, ReconcileUnsubscribe(c) PROVE Kept
  BY <1>0, <1>2 DEF ReconcileUnsubscribe, registry
<1>3. CASE ReconcileRefused \/ RenewMerge
  BY <1>3, MergeKeeps DEF ReconcileRefused, RenewMerge
<1>4. CASE ReconcileFinish
  BY <1>4, SaveKeeps DEF ReconcileFinish, registry, Save, Kept
<1>5. CASE RenewExpire
  BY <1>0, <1>5, SaveKeeps DEF RenewExpire
<1>6. ASSUME NEW g \in Get, NEW v \in pend,
             \/ \E lease \in Grants : GetLive(g, v, lease)
             \/ GetRemoved(g, v) \/ GetUnknown(g, v)
      PROVE  Kept
  BY <1>0, <1>6 DEF GetLive, GetRemoved, GetUnknown, registry
<1>7. ASSUME NEW g \in Get, Activate(g) \/ Answer(g) PROVE Kept
  BY <1>0, <1>7, SaveKeeps DEF Activate, Answer, registry
<1>8. CASE Restart
  BY <1>8 DEF Restart, Kept
<1> QED BY <1>1, <1>2, <1>3, <1>4, <1>5, <1>6, <1>7, <1>8 DEF Next

LEMMA OnDiskStep == Typed /\ ActiveIsOnDisk /\ [Next]_vars => ActiveIsOnDisk'
<1> SUFFICES ASSUME Typed, ActiveIsOnDisk, [Next]_vars PROVE ActiveIsOnDisk'
  OBVIOUS
<1>u. RegTyped /\ RcTyped
  BY DEF Typed
<1>1. CASE Kept
  BY <1>1 DEF Kept, ActiveIsOnDisk
<1>2. ASSUME NEW c \in Channel, ReconcileInsert(c) PROVE ActiveIsOnDisk'
  <2>1. /\ reg'[c].state = "pending" /\ UNCHANGED <<disk, behind>>
        /\ \A d \in Channel : d # c => reg'[d] = reg[d]
    BY <1>2, <1>u DEF ReconcileInsert, RegTyped, NoSub, stored
  <2> QED BY <2>1 DEF ActiveIsOnDisk
<1>3. CASE ReconcileRemove
  <2>1. /\ reg'[rc.chan].state = "none" /\ UNCHANGED <<disk, behind>>
        /\ \A d \in Channel : d # rc.chan => reg'[d] = reg[d]
    BY <1>3, <1>u DEF ReconcileRemove, RcTyped, RegTyped, NoSub, stored
  <2> QED BY <2>1 DEF ActiveIsOnDisk
<1> QED BY <1>1, <1>2, <1>3, KeptSteps

\* What a verification activated survives a crash, as soon as the last save
\* succeeded (callback.rs:107-108, subs.rs:182-198).
THEOREM ActiveIsOnDiskAlways == Spec => []ActiveIsOnDisk
<1> DEFINE Inv == Typed /\ Fits /\ ActiveIsOnDisk
<1>1. Init => Inv
  BY TypedInit, IndexInit DEF Init, ActiveIsOnDisk, NoSub
<1>2. Inv /\ [Next]_vars => Inv'
  BY TypedStep, FitsStep, OnDiskStep
<1> QED BY <1>1, <1>2, PTL DEF Spec

-----------------------------------------------------------------------------
(* Activations are not reverted *)

\* What is on disk changes by a save, and a restart catches up with it.
LEMMA StoredSteps == [Next]_vars => UNCHANGED stored \/ (\E r : Save(r)) \/ Restart
<1> SUFFICES ASSUME [Next]_vars PROVE UNCHANGED stored \/ (\E r : Save(r)) \/ Restart
  OBVIOUS
<1>1. CASE \/ ReconcileStart \/ ReconcileSubscribe \/ RenewCollect \/ RenewSend
           \/ ChangeList \/ HubForgets \/ Tick \/ UNCHANGED vars \/ ReconcileRemove
           \/ \E c \in Channel : ReconcileInsert(c) \/ ReconcileUnsubscribe(c)
  BY <1>1 DEF ReconcileStart, ReconcileSubscribe, RenewCollect, RenewSend, ChangeList,
              HubForgets, Tick, ReconcileInsert, ReconcileUnsubscribe, ReconcileRemove, vars
<1>2. CASE ReconcileRefused \/ RenewMerge
  <2>1. \A c, s : MergeAttempt(c, s) => UNCHANGED stored \/ \E r : Save(r)
    BY DEF MergeAttempt
  <2> QED BY <1>2, <2>1 DEF ReconcileRefused, RenewMerge
<1>3. CASE ReconcileFinish \/ RenewExpire
  BY <1>3 DEF ReconcileFinish, RenewExpire
<1>4. CASE \E g \in Get, v \in pend : \/ \E lease \in Grants : GetLive(g, v, lease)
                                      \/ GetRemoved(g, v) \/ GetUnknown(g, v)
  BY <1>4 DEF GetLive, GetRemoved, GetUnknown
<1>5. CASE \E g \in Get : Activate(g) \/ Answer(g)
  BY <1>5 DEF Activate, Answer
<1> QED BY <1>1, <1>2, <1>3, <1>4, <1>5 DEF Next

NeverBehind == failures = 0 /\ behind = FALSE

LEMMA NeverBehindStep ==
    ASSUME MaxFailures = 0, NeverBehind, [Next]_vars PROVE NeverBehind'
BY StoredSteps DEF NeverBehind, Save, stored, Restart

\* merge_attempt keeps an activation.
LEMMA MergeKeepsActive ==
    ASSUME RegTyped, NEW c \in Channel, NEW s \in LiveSub, MergeAttempt(c, s),
           NEW d \in Channel, reg[d].state = "active"
    PROVE  reg'[d].state = "active"
<1>1. CASE d # c
  BY <1>1, MergeForms
<1>2. CASE d = c
  <2>1. \/ reg' = reg
        \/ reg'[c] = [s EXCEPT !.state = "active", !.expires = reg[c].expires]
    BY <1>2, MergeForms
  <2> QED BY <1>2, <2>1 DEF LiveSub
<1> QED BY <1>1, <1>2

LEMMA MergesKeepActive ==
    ASSUME Typed, ReconcileRefused \/ RenewMerge, NEW d \in Channel, reg[d].state = "active"
    PROVE  reg'[d].state = "active"
<1>1. PICK c \in Channel, s \in LiveSub : MergeAttempt(c, s)
  BY MergeSteps DEF Typed
<1> QED BY <1>1, MergeKeepsActive DEF Typed

\* Only the renewal thread and a restart may take "active" away.
LEMMA StaysActive ==
    ASSUME Typed, Index, [Next]_vars,
           NEW c \in Channel, reg[c].state = "active", reg'[c].token = reg[c].token,
           reg'[c].state # "active"
    PROVE  RenewExpire \/ Restart
<1>u. RegTyped /\ RcTyped /\ RestTyped
  BY DEF Typed
<1>a. reg[c].token \in Token
  BY <1>u DEF RegTyped, AnySub, LiveSub, NoSub
<1>1. CASE \/ ReconcileStart \/ ReconcileSubscribe \/ RenewCollect \/ RenewSend
           \/ ChangeList \/ HubForgets \/ Tick \/ UNCHANGED vars \/ ReconcileFinish
           \/ \E d \in Channel : ReconcileUnsubscribe(d)
  <2>1. UNCHANGED registry
    BY <1>1 DEF ReconcileStart, ReconcileSubscribe, RenewCollect, RenewSend, ChangeList,
                HubForgets, Tick, ReconcileUnsubscribe, ReconcileFinish, vars
  <2> QED BY <2>1 DEF registry
<1>2. ASSUME NEW d \in Channel, ReconcileInsert(d) PROVE FALSE
  <2>1. /\ minted' = minted + 1 /\ reg'[d].token = minted'
        /\ \A e \in Channel : e # d => reg'[e] = reg[e]
    BY <1>2, <1>u DEF ReconcileInsert, RegTyped, NoSub
  <2>2. reg[c].token <= minted /\ minted \in Nat
    BY <1>u DEF Index, RestTyped
  <2> QED BY <1>a, <2>1, <2>2 DEF Token
<1>3. CASE ReconcileRefused \/ RenewMerge
  BY <1>3, MergesKeepActive
<1>4. CASE ReconcileRemove
  <2>1. reg'[rc.chan].token = 0 /\ \A d \in Channel : d # rc.chan => reg'[d] = reg[d]
    BY <1>4, <1>u DEF ReconcileRemove, RcTyped, RegTyped, NoSub
  <2> QED BY <1>a, <2>1 DEF Token
<1>6. ASSUME NEW g \in Get, NEW v \in pend,
             \/ \E lease \in Grants : GetLive(g, v, lease)
             \/ GetRemoved(g, v) \/ GetUnknown(g, v)
      PROVE  FALSE
  BY <1>6 DEF GetLive, GetRemoved, GetUnknown, registry
<1>7. ASSUME NEW g \in Get, Activate(g) \/ Answer(g) PROVE FALSE
  <2>1. reg' = reg \/ reg' = Activated(get[g].chan, Until(get[g].lease))
    BY <1>7 DEF Activate, Answer, registry
  <2>2. reg[c] \in LiveSub
    BY <1>a, <1>u, LiveHasToken DEF RegTyped, Token
  <2> QED BY <1>u, <2>1, <2>2 DEF Activated, RegTyped, LiveSub
<1> QED BY <1>1, <1>2, <1>3, <1>4, <1>6, <1>7 DEF Next

LEMMA ActiveStep ==
    ASSUME Typed, Index, ActiveIsOnDisk, NeverBehind, [Next]_vars,
           NEW c \in Channel, reg[c].state = "active", reg'[c].token = reg[c].token,
           reg'[c].state # "active"
    PROVE  LeaseExpired(reg[c])
<1>1. CASE RenewExpire
  <2>1. reg'[c] = Demoted(reg[c])
    BY <1>1 DEF RenewExpire
  <2> QED BY <2>1 DEF Demoted
<1>2. CASE Restart
  BY <1>2 DEF Restart, ActiveIsOnDisk, NeverBehind
<1> QED BY <1>1, <1>2, StaysActive

\* When saves do not fail, nothing the renewal thread, a reconcile, a GET or a
\* restart does takes "active" from a subscription before its lease is over
\* (renew.rs:137-157).
THEOREM ActiveUntilLapsedAlways ==
    ASSUME MaxFailures = 0 PROVE Spec => ActiveUntilLapsed
<1> DEFINE Inv == Typed /\ Fits /\ Index /\ ActiveIsOnDisk /\ NeverBehind
<1>1. Init => Inv
  BY TypedInit, IndexInit DEF Init, ActiveIsOnDisk, NoSub, NeverBehind
<1>2. Inv /\ [Next]_vars => Inv'
  BY TypedStep, FitsStep, IndexStep, OnDiskStep, NeverBehindStep
<1>3. Inv /\ [Next]_vars =>
        [\A c \in Channel :
           reg[c].state = "active" /\ reg'[c].token = reg[c].token
           /\ reg'[c].state # "active" => LeaseExpired(reg[c])]_vars
  BY ActiveStep
<1> QED BY <1>1, <1>2, <1>3, PTL DEF Spec, ActiveUntilLapsed

-----------------------------------------------------------------------------
(* The end of a subscription *)

\* Until the reconcile that asked the hub to drop a token removes its channel,
\* the token is live; from then on unsub_pending holds it.
GraceKept ==
    /\ \A t \in Token : graceEnd[t] <= now + Grace
    /\ \A t \in Token :
         Request(t, "unsubscribe") \in pend /\ now < graceEnd[t] =>
           \/ rc.stage = "remove" /\ reg[rc.chan].token = t
           \/ unsub[t] >= graceEnd[t]

LEMMA GraceStep == Typed /\ Fits /\ GraceKept /\ [Next]_vars => GraceKept'
<1> SUFFICES ASSUME Typed, Fits, GraceKept, [Next]_vars PROVE GraceKept'
  OBVIOUS
<1> USE SubsAssumption
<1>u. RegTyped /\ RcTyped /\ HubTyped /\ RestTyped
  BY DEF Typed
\* Steps that ask nobody to drop a token, and neither remove a channel nor
\* forget a deadline.
<1>0. ASSUME \A t \in Token : Request(t, "unsubscribe") \in pend' =>
                              Request(t, "unsubscribe") \in pend,
             TokensKept, UNCHANGED <<rc, unsub, graceEnd>>, now' \in {now, now + 1}
      PROVE  GraceKept'
  <2>1. \A t \in Token : graceEnd'[t] <= now' + Grace
    BY <1>0, <1>u DEF GraceKept, RestTyped
  <2>2. \A t \in Token : now' < graceEnd'[t] => now < graceEnd[t]
    BY <1>0, <1>u DEF RestTyped
  <2>3. rc.stage = "remove" => rc.chan \in Channel
    BY <1>u DEF RcTyped
  <2> QED BY <1>0, <2>1, <2>2, <2>3 DEF GraceKept, TokensKept
<1>r. \A t, x : Request(t, "unsubscribe") # Request(x, "subscribe")
  BY DEF Request
<1>1. CASE \/ RenewCollect \/ RenewSend \/ ChangeList \/ HubForgets \/ Tick
           \/ UNCHANGED vars
  <2>1. UNCHANGED <<registry, rc, graceEnd>> /\ now' \in {now, now + 1}
    BY <1>1 DEF RenewCollect, RenewSend, ChangeList, HubForgets, Tick, vars, history
  <2>2. \A t \in Token : Request(t, "unsubscribe") \in pend' =>
                        Request(t, "unsubscribe") \in pend
    BY <1>1, <1>r DEF RenewCollect, RenewSend, ChangeList, HubForgets, Tick, vars, hubVars,
                      Accepts, Refuses
  <2> QED BY <1>0, <2>1, <2>2 DEF registry, TokensKept
<1>2. CASE RenewExpire \/ RenewMerge
  <2>1. UNCHANGED <<rc, unsub, graceEnd, now, pend>>
    BY <1>2 DEF RenewExpire, RenewMerge, MergeAttempt, history, hubVars
  <2>2. TokensKept
    BY <1>2, ExpireIsQuiet, MergesAreQuiet DEF Quiet
  <2> QED BY <1>0, <2>1, <2>2
<1>3. ASSUME NEW g \in Get, NEW v \in pend, NEW lease \in Grants, GetLive(g, v, lease)
      PROVE  GraceKept'
  BY <1>0, <1>3 DEF GetLive, Asks, registry, history, TokensKept
<1>4. ASSUME NEW g \in Get, NEW v \in pend, GetUnknown(g, v) PROVE GraceKept'
  BY <1>0, <1>4 DEF GetUnknown, Asks, registry, history, TokensKept
<1>5. ASSUME NEW g \in Get, Activate(g) \/ Answer(g) PROVE GraceKept'
  <2>1. UNCHANGED <<rc, unsub, graceEnd, now, pend>>
    BY <1>5 DEF Activate, Answer, registry, history, hubVars
  <2>2. TokensKept
    <3>1. reg' = reg \/ reg' = Activated(get[g].chan, Until(get[g].lease))
      BY <1>5 DEF Activate, Answer, registry
    <3>2. \A c \in Channel : reg[c] \in LiveSub \/ reg[c] = NoSub
      BY <1>u DEF RegTyped, AnySub
    <3> QED BY <1>u, <3>1, <3>2 DEF Activated, TokensKept, RegTyped, LiveSub, NoSub
  <2> QED BY <1>0, <2>1, <2>2
<1>6. ASSUME NEW g \in Get, NEW v \in pend, GetRemoved(g, v) PROVE GraceKept'
  <2>1. /\ UNCHANGED <<reg, rc, now, graceEnd>> /\ pend' = pend \ {v}
        /\ unsub' = Forgotten(v.token) /\ v.mode = "unsubscribe"
    BY <1>6 DEF GetRemoved, Asks, history
  <2>2. v = Request(v.token, "unsubscribe") /\ v.token \in Token
    BY <1>u, <2>1 DEF HubTyped, Request
  <2>3. ASSUME NEW t \in Token, Request(t, "unsubscribe") \in pend', now < graceEnd[t],
               unsub[t] >= graceEnd[t]
        PROVE  unsub'[t] >= graceEnd[t]
    <3>1. t # v.token
      BY <2>1, <2>2, <2>3
    <3>2. unsub[t] \in Nat /\ graceEnd[t] \in Nat /\ now \in Nat
      BY <1>u DEF RegTyped, RestTyped
    <3>3. now < unsub[t]
      BY <2>3, <3>2
    <3> QED BY <1>u, <2>1, <2>3, <3>1, <3>3 DEF Forgotten, Swept, RegTyped
  <2> QED BY <2>1, <2>3 DEF GraceKept
<1>7. CASE ReconcileStart \/ ReconcileFinish
  BY <1>7, <1>u DEF ReconcileStart, ReconcileFinish, registry, history, hubVars, GraceKept
<1>8. CASE ReconcileSubscribe
  <2>1. \A t \in Token : Request(t, "unsubscribe") \in pend' =>
                        Request(t, "unsubscribe") \in pend
    BY <1>8, <1>r DEF ReconcileSubscribe, Accepts, Refuses
  <2> QED BY <1>8, <2>1 DEF ReconcileSubscribe, registry, history, GraceKept
<1>9. CASE ReconcileRefused
  BY <1>9 DEF ReconcileRefused, MergeAttempt, history, hubVars, GraceKept
<1>10. ASSUME NEW c \in Channel, ReconcileInsert(c) PROVE GraceKept'
  BY <1>10 DEF ReconcileInsert, history, hubVars, GraceKept
<1>11. ASSUME NEW c \in Channel, ReconcileUnsubscribe(c) PROVE GraceKept'
  <2>1. reg[c].token \in Token
    <3>1. Has(c)
      BY <1>11 DEF ReconcileUnsubscribe, Fits
    <3> QED BY <1>u, <3>1, LiveHasToken DEF Has, RegTyped, LiveSub
  <2>2. /\ UNCHANGED <<registry, now>> /\ rc.stage = "change"
        /\ rc'.stage = "remove" /\ rc'.chan = c
        /\ graceEnd' = [graceEnd EXCEPT ![reg[c].token] = now + Grace]
        /\ \/ pend' = pend
           \/ pend' = pend \union {Request(reg[c].token, "unsubscribe")}
    BY <1>11, <1>u DEF ReconcileUnsubscribe, Refuses, RcTyped
  <2>3. now + Grace <= now + Grace /\ now + Grace \in Nat
    BY <1>u DEF RestTyped
  <2>4. \A t \in Token : graceEnd'[t] <= now' + Grace
    BY <1>u, <2>1, <2>2, <2>3 DEF RestTyped, GraceKept
  <2>5. ASSUME NEW t \in Token, Request(t, "unsubscribe") \in pend', now' < graceEnd'[t]
        PROVE  \/ rc'.stage = "remove" /\ reg'[rc'.chan].token = t
               \/ unsub'[t] >= graceEnd'[t]
    <3>1. CASE t = reg[c].token
      BY <2>2, <3>1 DEF registry
    <3>2. CASE t # reg[c].token
      <4>1. Request(t, "unsubscribe") \in pend /\ graceEnd'[t] = graceEnd[t]
        BY <1>u, <2>2, <2>5, <3>2 DEF Request, RestTyped
      <4> QED BY <2>2, <2>5, <4>1 DEF GraceKept, registry
    <3> QED BY <3>1, <3>2
  <2> QED BY <2>4, <2>5 DEF GraceKept
<1>12. CASE ReconcileRemove
  <2>1. /\ unsub' = Retired(reg[rc.chan].token)
        /\ UNCHANGED <<now, pend, graceEnd>>
    BY <1>12 DEF ReconcileRemove, history, hubVars
  <2>2. ASSUME NEW t \in Token, Request(t, "unsubscribe") \in pend, now < graceEnd[t]
        PROVE  unsub'[t] >= graceEnd[t]
    <3>1. unsub[t] \in Nat /\ graceEnd[t] \in Nat /\ now \in Nat /\ graceEnd[t] <= now + Grace
      BY <1>u DEF RegTyped, RestTyped, GraceKept
    <3>2. CASE t = reg[rc.chan].token
      <4>1. unsub'[t] = IF now < now + Grace THEN now + Grace ELSE 0
        BY <1>u, <2>1, <3>2 DEF Retired, Swept, RegTyped
      <4> QED BY <2>2, <3>1, <4>1
    <3>3. CASE t # reg[rc.chan].token
      <4>1. unsub'[t] = IF now < unsub[t] THEN unsub[t] ELSE 0
        BY <1>u, <2>1, <3>3 DEF Retired, Swept, RegTyped
      <4>2. unsub[t] >= graceEnd[t]
        BY <2>2, <3>3 DEF GraceKept
      <4> QED BY <2>2, <3>1, <4>1, <4>2
    <3> QED BY <3>2, <3>3
  <2> QED BY <2>1, <2>2 DEF GraceKept
<1>13. CASE Restart
  BY <1>13, <1>u DEF Restart, GraceKept, RestTyped
<1> QED BY <1>1, <1>2, <1>3, <1>4, <1>5, <1>6, <1>7, <1>8, <1>9, <1>10, <1>11, <1>12, <1>13
        DEF Next

\* The hub's verification of an unsubscribe finds its token as long as the
\* grace of the removal lasts (subs.rs:94-97, renew.rs:217-223).
THEOREM UnsubscribeAnswerableAlways == Spec => []UnsubscribeAnswerable
<1> DEFINE Inv == Typed /\ Fits /\ Index /\ GraceKept
<1>1. Init => Inv
  <2>1. Init => GraceKept
    BY SubsAssumption DEF Init, GraceKept
  <2> QED BY <2>1, TypedInit, IndexInit
<1>2. Inv /\ [Next]_vars => Inv'
  BY TypedStep, FitsStep, IndexStep, GraceStep
<1>3. Inv => UnsubscribeAnswerable
  <2> SUFFICES ASSUME Inv, NEW t \in Token, Request(t, "unsubscribe") \in pend,
                      now < graceEnd[t]
               PROVE  Live(t) \/ Answerable(t)
    BY DEF UnsubscribeAnswerable
  <2>1. CASE rc.stage = "remove" /\ reg[rc.chan].token = t
    <3>1. rc.chan \in Channel
      BY <2>1 DEF Typed, RcTyped
    <3> QED BY <2>1, <3>1, SubsAssumption DEF Index, IndexConsistent, Live, NoChannel
  <2>2. CASE unsub[t] >= graceEnd[t]
    BY <2>2 DEF Answerable, Typed, RegTyped, RestTyped
  <2> QED BY <2>1, <2>2 DEF GraceKept
<1> QED BY <1>1, <1>2, <1>3, PTL DEF Spec

-----------------------------------------------------------------------------
(* What the hub delivers to *)

\* We asked the hub to drop t, or a restart will find it.
Known(t) == t \in asked \/ \E c \in Channel : disk[c].token = t

\* A token leaves the registry only after the hub was asked to drop it, and a
\* GET confirms one only after it was saved.
Dropped ==
    /\ rc.stage = "remove" => reg[rc.chan].token \in asked
    /\ \A c \in Channel :
         disk[c].token # 0 =>
           disk[c].token \in asked \/ \E d \in Channel : reg[d].token = disk[c].token
    /\ \A g \in Get : get[g].stage = "activate" =>
         get[g].token \in asked \/ reg[get[g].chan].token = get[g].token

Confirmed ==
    /\ \A g \in Get : get[g].stage = "answer" /\ get[g].mode = "subscribe" => Known(get[g].token)
    /\ \A t \in Token : hub[t] > 0 => Known(t)

LEMMA AskedGrows == [Next]_vars => asked \subseteq asked'
BY DEF Next, vars, history, ChangeList, ReconcileStart, ReconcileSubscribe, ReconcileRefused,
       ReconcileInsert, ReconcileUnsubscribe, ReconcileRemove, ReconcileFinish, RenewExpire,
       RenewCollect, RenewSend, RenewMerge, GetLive, GetRemoved, GetUnknown, Activate, Answer,
       HubForgets, Tick, Restart

LEMMA KnownKept ==
    ASSUME Typed, Dropped, [Next]_vars, NEW t \in Token, Known(t) PROVE Known(t)'
<1>1. CASE Quiet
  BY <1>1, AskedGrows DEF Quiet, TokensKept, Known, Dropped, Token
<1>2. ASSUME NEW c \in Channel, ReconcileInsert(c) PROVE Known(t)'
  BY <1>2, AskedGrows DEF ReconcileInsert, stored, Known
<1>3. CASE ReconcileRemove \/ Restart
  BY <1>3, AskedGrows DEF ReconcileRemove, Restart, stored, Known
<1> QED BY <1>1, <1>2, <1>3, QuietSteps

\* The second conjunct of Dropped.
LEMMA DiskStep ==
    ASSUME Typed, Fits, Dropped, [Next]_vars, NEW c \in Channel, disk'[c].token # 0
    PROVE  disk'[c].token \in asked' \/ \E d \in Channel : reg'[d].token = disk'[c].token
<1>1. CASE Quiet
  BY <1>1, AskedGrows DEF Quiet, TokensKept, Dropped
<1>2. ASSUME NEW e \in Channel, ReconcileInsert(e)
      PROVE  disk'[c].token \in asked' \/ \E d \in Channel : reg'[d].token = disk'[c].token
  <2>1. disk' = disk /\ asked' = asked /\ ~Has(e) /\ \A d \in Channel : d # e => reg'[d] = reg[d]
    BY <1>2 DEF ReconcileInsert, stored, history, Typed, RegTyped, Fits
  <2> QED BY <2>1 DEF Dropped, Has
<1>3. CASE ReconcileRemove
  <2>1. /\ disk' = disk /\ asked' = asked /\ rc.stage = "remove"
        /\ \A d \in Channel : d # rc.chan => reg'[d] = reg[d]
    BY <1>3 DEF ReconcileRemove, stored, history, Typed, RegTyped
  <2> QED BY <2>1 DEF Dropped
<1>4. CASE Restart
  BY <1>4 DEF Restart
<1> QED BY <1>1, <1>2, <1>3, <1>4, QuietSteps

LEMMA DroppedStep == Typed /\ Fits /\ Index /\ Dropped /\ [Next]_vars => Dropped'
<1> SUFFICES ASSUME Typed, Fits, Index, Dropped, [Next]_vars PROVE Dropped'
  OBVIOUS
<1> USE SubsAssumption
<1>u. RegTyped /\ RcTyped /\ GetTyped /\ HubTyped
  BY DEF Typed
<1>0. ASSUME rc'.stage = "remove" => reg'[rc'.chan].token \in asked',
             \A g \in Get : get'[g].stage = "activate" =>
               get'[g].token \in asked' \/ reg'[get'[g].chan].token = get'[g].token
      PROVE  Dropped'
  BY <1>0, DiskStep DEF Dropped
<1>a. asked \subseteq asked'
  BY AskedGrows
<1>b. /\ rc.stage = "remove" => rc.chan \in Channel
      /\ \A g \in Get : get[g].stage = "activate" => get[g].chan \in Channel
  BY <1>u DEF RcTyped, GetTyped
<1>g. ASSUME TokensKept, UNCHANGED get, rc'.stage = "remove" => reg'[rc'.chan].token \in asked'
      PROVE  Dropped'
  BY <1>0, <1>a, <1>b, <1>g DEF Dropped, TokensKept
<1>r. ASSUME TokensKept, UNCHANGED rc PROVE rc'.stage = "remove" => reg'[rc'.chan].token \in asked'
  BY <1>a, <1>b, <1>r DEF Dropped, TokensKept
<1>1. CASE \/ ReconcileStart \/ ReconcileSubscribe \/ ReconcileRefused \/ ReconcileFinish
  <2>1. rc'.stage # "remove"
    <3>1. rc'.stage \in {"change", "refused"} \/ rc' = NoReconcile
      BY <1>1, <1>u DEF ReconcileStart, ReconcileSubscribe, ReconcileRefused, ReconcileFinish,
                        RcTyped
    <3> QED BY <3>1 DEF NoReconcile
  <2>3. UNCHANGED get
    BY <1>1 DEF ReconcileStart, ReconcileSubscribe, ReconcileRefused, ReconcileFinish
  <2>2. TokensKept
    <3>1. CASE ReconcileRefused
      BY <3>1, MergesAreQuiet DEF Quiet
    <3>2. CASE ReconcileStart \/ ReconcileSubscribe \/ ReconcileFinish
      BY <3>2 DEF ReconcileStart, ReconcileSubscribe, ReconcileFinish, registry, TokensKept
    <3> QED BY <1>1, <3>1, <3>2
  <2> QED BY <1>g, <2>1, <2>2, <2>3
<1>2. ASSUME NEW c \in Channel, ReconcileUnsubscribe(c) PROVE Dropped'
  <2>1. /\ UNCHANGED <<reg, get>> /\ rc'.chan = c
        /\ asked' = asked \union {reg[c].token}
    BY <1>2, <1>u DEF ReconcileUnsubscribe, registry, RcTyped
  <2> QED BY <1>g, <2>1 DEF TokensKept
<1>3. ASSUME NEW c \in Channel, ReconcileInsert(c) PROVE Dropped'
  <2>1. /\ rc'.stage = "subscribe" /\ UNCHANGED get /\ ~Has(c)
        /\ \A d \in Channel : d # c => reg'[d] = reg[d]
    BY <1>3, <1>u DEF ReconcileInsert, RegTyped, RcTyped, Fits
  <2>2. \A g \in Get : get[g].stage = "activate" => get[g].token # 0
    BY <1>u DEF GetTyped, Token
  <2> QED BY <1>0, <1>a, <1>b, <2>1, <2>2 DEF Dropped, Has
<1>4. CASE ReconcileRemove
  <2>1. /\ rc'.stage = "change" /\ UNCHANGED get /\ rc.stage = "remove"
        /\ \A d \in Channel : d # rc.chan => reg'[d] = reg[d]
    BY <1>4, <1>u DEF ReconcileRemove, RegTyped, RcTyped
  <2> QED BY <1>0, <1>a, <1>b, <2>1 DEF Dropped
<1>5. CASE \/ RenewExpire \/ RenewCollect \/ RenewSend \/ RenewMerge
           \/ ChangeList \/ HubForgets \/ Tick \/ UNCHANGED vars
  <2>1. UNCHANGED <<rc, get>>
    BY <1>5 DEF RenewExpire, RenewCollect, RenewSend, RenewMerge, ChangeList, HubForgets, Tick,
                vars
  <2>2. TokensKept
    <3>1. CASE RenewExpire \/ RenewMerge
      BY <3>1, ExpireIsQuiet, MergesAreQuiet DEF Quiet
    <3>2. CASE RenewCollect \/ RenewSend \/ ChangeList \/ HubForgets \/ Tick \/ UNCHANGED vars
      BY <3>2 DEF RenewCollect, RenewSend, ChangeList, HubForgets, Tick, vars, registry,
                  TokensKept
    <3> QED BY <1>5, <3>1, <3>2
  <2> QED BY <1>g, <1>r, <2>1, <2>2
<1>6. ASSUME NEW g \in Get, NEW v \in pend, NEW lease \in Grants, GetLive(g, v, lease)
      PROVE  Dropped'
  <2>1. /\ UNCHANGED <<reg, rc, asked>> /\ byToken[v.token] # NoChannel
        /\ get'[g].token = v.token /\ get'[g].chan = byToken[v.token]
        /\ \A h \in Get : h # g => get'[h] = get[h]
    BY <1>6, <1>u DEF GetLive, Live, registry, history, GetTyped
  <2>2. v.token \in Token /\ byToken[v.token] \in Channel
    BY <1>u, <2>1 DEF HubTyped, RegTyped
  <2>3. reg[byToken[v.token]].token = v.token
    BY <2>2 DEF Index, IndexConsistent
  <2> QED BY <1>0, <2>1, <2>3 DEF Dropped
<1>7. ASSUME NEW g \in Get, NEW v \in pend, GetRemoved(g, v) \/ GetUnknown(g, v) PROVE Dropped'
  <2>1. /\ UNCHANGED <<reg, rc, asked>>
        /\ \A h \in Get : get'[h] = get[h] \/ get'[h].stage # "activate"
    BY <1>7, <1>u DEF GetRemoved, GetUnknown, registry, history, GetTyped
  <2> QED BY <1>0, <2>1 DEF Dropped
<1>8. ASSUME NEW g \in Get, Activate(g) \/ Answer(g) PROVE Dropped'
  <2>1. /\ UNCHANGED rc
        /\ \A h \in Get : get'[h] = get[h] \/ get'[h].stage # "activate"
    BY <1>8, <1>u DEF Activate, Answer, NoGet, GetTyped
  <2>2. TokensKept
    <3>1. reg' = reg \/ reg' = Activated(get[g].chan, Until(get[g].lease))
      BY <1>8 DEF Activate, Answer, registry
    <3>2. \A c \in Channel : reg[c] \in LiveSub \/ reg[c] = NoSub
      BY <1>u DEF RegTyped, AnySub
    <3> QED BY <1>u, <3>1, <3>2 DEF Activated, TokensKept, RegTyped, LiveSub, NoSub
  <2> QED BY <1>0, <1>a, <1>b, <1>r, <2>1, <2>2 DEF Dropped, TokensKept
<1>9. CASE Restart
  BY <1>0, <1>9 DEF Restart, NoReconcile, NoGet
<1> QED BY <1>1, <1>2, <1>3, <1>4, <1>5, <1>6, <1>7, <1>8, <1>9 DEF Next

\* Only Activate and Answer have something to confirm.
LEMMA ConfirmedStep ==
    ASSUME Typed, Dropped, Confirmed, failures' = 0, failures = 0, [Next]_vars
    PROVE  Confirmed'
<1> USE SubsAssumption
<1>u. RegTyped /\ GetTyped /\ HubTyped
  BY DEF Typed
<1>k. \A t \in Token : Known(t) => Known(t)'
  BY KnownKept
<1>t. \A g \in Get : get[g].stage # "idle" => get[g].token \in Token
  BY <1>u DEF GetTyped
<1>0. ASSUME UNCHANGED hub,
             \A g \in Get : get'[g] = get[g] \/ get'[g].stage # "answer"
                          \/ get'[g].mode # "subscribe"
      PROVE  Confirmed'
  BY <1>0, <1>k, <1>t DEF Confirmed
<1>1. CASE \/ ReconcileStart \/ ReconcileSubscribe \/ ReconcileRefused \/ ReconcileFinish
           \/ ReconcileRemove
           \/ \E c \in Channel : ReconcileInsert(c) \/ ReconcileUnsubscribe(c)
           \/ RenewExpire \/ RenewCollect \/ RenewSend \/ RenewMerge
           \/ ChangeList \/ HubForgets \/ Tick \/ UNCHANGED vars
  <2>1. UNCHANGED <<hub, get>>
    BY <1>1 DEF ReconcileStart, ReconcileSubscribe, ReconcileRefused, ReconcileFinish,
                ReconcileRemove, ReconcileInsert, ReconcileUnsubscribe, RenewExpire,
                RenewCollect, RenewSend, RenewMerge, ChangeList, HubForgets, Tick, vars, hubVars
  <2> QED BY <1>0, <2>1
<1>2. ASSUME NEW g \in Get, NEW v \in pend,
             \/ \E lease \in Grants : GetLive(g, v, lease)
             \/ GetRemoved(g, v) \/ GetUnknown(g, v)
      PROVE  Confirmed'
  <2>1. UNCHANGED hub
    BY <1>2 DEF GetLive, GetRemoved, GetUnknown
  <2>2. \A h \in Get : get'[h] = get[h] \/ get'[h].stage # "answer"
                      \/ get'[h].mode # "subscribe"
    BY <1>2, <1>u DEF GetLive, GetRemoved, GetUnknown, GetTyped
  <2> QED BY <1>0, <2>1, <2>2
<1>3. ASSUME NEW g \in Get, Activate(g) PROVE Confirmed'
  <2>1. /\ UNCHANGED hub /\ get'[g].token = get[g].token /\ get[g].stage = "activate"
        /\ \A h \in Get : h # g => get'[h] = get[h]
    BY <1>3, <1>u DEF Activate, GetTyped, hubVars
  <2>2. Known(get[g].token)'
    <3>1. CASE get[g].token \in asked
      BY <2>1, <3>1, AskedGrows DEF Known
    <3>2. CASE reg[get[g].chan].token = get[g].token
      <4> PICK c \in Channel : c = get[g].chan
        BY <1>u, <2>1 DEF GetTyped
      <4>1. get[g].token # 0 /\ reg[c].token = get[g].token
        BY <1>t, <2>1, <3>2 DEF Token
      <4>2. reg' = Activated(c, Until(get[g].lease)) /\ Save(reg')
        BY <1>3, <4>1 DEF Activate, Has
      <4>3. disk' = reg'
        BY <1>u, <4>2 DEF Save
      <4>4. reg[c] \in LiveSub
        BY <1>u, <4>1, LiveHasToken DEF RegTyped
      <4>5. reg'[c].token = reg[c].token
        BY <1>u, <4>2, <4>4 DEF Activated, RegTyped, LiveSub
      <4> QED BY <2>1, <4>1, <4>3, <4>5 DEF Known
    <3> QED BY <2>1, <3>1, <3>2 DEF Dropped
  <2> QED BY <1>k, <1>t, <2>1, <2>2 DEF Confirmed
<1>4. ASSUME NEW g \in Get, Answer(g) PROVE Confirmed'
  <2>1. /\ get[g].stage = "answer" /\ get' = [get EXCEPT ![g] = NoGet]
        /\ hub' = [hub EXCEPT ![get[g].token] =
                     IF get[g].mode = "subscribe" THEN now + get[g].lease ELSE 0]
    BY <1>4 DEF Answer
  <2>2. get'[g].stage = "idle" /\ \A h \in Get : h # g => get'[h] = get[h]
    BY <1>u, <2>1 DEF GetTyped, NoGet
  <2>3. ASSUME NEW t \in Token, hub'[t] > 0 PROVE Known(t)'
    <3>1. CASE t = get[g].token
      <4>1. get[g].mode = "subscribe"
        BY <1>u, <2>1, <2>3, <3>1 DEF HubTyped
      <4> QED BY <1>k, <2>1, <3>1, <4>1 DEF Confirmed
    <3>2. CASE t # get[g].token
      BY <1>k, <1>u, <2>1, <2>3, <3>2 DEF Confirmed, HubTyped
    <3> QED BY <3>1, <3>2
  <2> QED BY <1>k, <1>t, <2>2, <2>3 DEF Confirmed
<1>5. CASE Restart
  BY <1>0, <1>5 DEF Restart, NoGet, hubVars
<1> QED BY <1>1, <1>2, <1>3, <1>4, <1>5 DEF Next

\* A save that failed is never forgotten.
LEMMA FailuresGrow == Typed /\ [Next]_vars /\ failures' = 0 => failures = 0
BY StoredSteps DEF Typed, RegTyped, stored, Save, Restart

\* Unless a save failed, the hub delivers to no callback that a restart would
\* not find again, except those it was asked to drop (callback.rs:107-115,
\* renew.rs:194-229).
THEOREM KnownToRelayAlways == Spec => []KnownToRelay
<1> DEFINE Inv == Typed /\ Fits /\ Index /\ Dropped /\ (failures = 0 => Confirmed)
<1>1. Init => Inv
  <2>1. Init => Dropped /\ Confirmed
    BY SubsAssumption DEF Init, Dropped, Confirmed, NoReconcile, NoGet, NoSub
  <2> QED BY <2>1, TypedInit, IndexInit
<1>2. Inv /\ [Next]_vars => Inv'
  BY TypedStep, FitsStep, IndexStep, DroppedStep, ConfirmedStep, FailuresGrow
<1>3. Inv => KnownToRelay
  <2> SUFFICES ASSUME Inv, NEW t \in Token, failures = 0, hub[t] > now PROVE Known(t)
    BY DEF KnownToRelay, Known
  <2>1. hub[t] > 0
    BY DEF Typed, HubTyped, RestTyped
  <2> QED BY <2>1 DEF Confirmed
<1> QED BY <1>1, <1>2, <1>3, PTL DEF Spec

-----------------------------------------------------------------------------
(* Nothing is put off for longer than the longest wait *)

LongestWait(W) == W \in Waits /\ \A x \in Waits : x <= W

\* The same where there need not be a longest: -1 bounds nothing.
Longest(W) == W = -1 \/ LongestWait(W)

\* What bounds a subscription, or a copy of one, at time n.
Fine(s, n, W) ==
    /\ W \in Nat => s.next <= n + W
    /\ s.sent <= n /\ s.expires <= n + Lease
    /\ s.state = "active" => s.expires > 0

AllFine(W) ==
    /\ \A c \in Channel : Fine(reg[c], now, W) /\ Fine(disk[c], now, W)
    /\ Fine(rc.sub, now, W) /\ Fine(rn.sub, now, W)
    /\ \A d \in rn.todo : Fine(d[2], now, W)

LEMMA WaitsAreNat ==
    ASSUME NEW W, LongestWait(W)
    PROVE  /\ W \in Nat /\ Lease <= W /\ Cooldown <= W /\ PendingTimeout + 1 <= W
           /\ \A b \in Backoffs : b <= W
           /\ \A w \in Waits : w \in Nat
BY SubsAssumption DEF LongestWait, Waits

LEMMA LongestIs ==
    ASSUME NEW W, Longest(W), W \in Nat
    PROVE  LongestWait(W) /\ Cooldown <= W /\ \A b \in Backoffs : b <= W
<1>1. LongestWait(W)
  BY DEF Longest
<1> QED BY <1>1, WaitsAreNat

LEMMA FineLater ==
    ASSUME NEW W, NEW s \in AnySub, NEW n \in Nat, NEW m \in Nat, n <= m, Fine(s, n, W)
    PROVE  Fine(s, m, W)
<1>1. s.next \in Nat /\ s.sent \in Nat /\ s.expires \in Nat /\ Lease \in Nat
  BY SubsAssumption DEF AnySub, LiveSub, NoSub
<1> QED BY <1>1 DEF Fine

LEMMA NoSubFine == ASSUME NEW W, NEW n \in Nat PROVE Fine(NoSub, n, W)
BY SubsAssumption DEF Fine, NoSub

LEMMA MergeFine ==
    ASSUME RegTyped, NEW c \in Channel, NEW s \in LiveSub, MergeAttempt(c, s), NEW W,
           \A d \in Channel : Fine(reg[d], now, W), Fine(s, now, W)
    PROVE  \A d \in Channel : Fine(reg'[d], now, W)
<1>1. reg'[c] \in {reg[c], s} \/
      (reg[c].state = "active" /\
       reg'[c] = [s EXCEPT !.state = "active", !.expires = reg[c].expires])
  BY MergeForms
<1>2. Fine(reg'[c], now, W)
  <2>1. CASE reg'[c] \in {reg[c], s}
    BY <2>1
  <2>2. CASE /\ reg[c].state = "active"
             /\ reg'[c] = [s EXCEPT !.state = "active", !.expires = reg[c].expires]
    <3>1. /\ reg'[c].next = s.next /\ reg'[c].sent = s.sent
          /\ reg'[c].expires = reg[c].expires
      BY <2>2 DEF LiveSub
    <3> QED BY <2>2, <3>1 DEF Fine
  <2> QED BY <1>1, <2>1, <2>2
<1>3. \A d \in Channel : d # c => reg'[d] = reg[d]
  BY MergeForms
<1> QED BY <1>2, <1>3

LEMMA MergesAreFine ==
    ASSUME Typed, NEW W, Longest(W), AllFine(W), ReconcileRefused \/ RenewMerge
    PROVE  \A c \in Channel : Fine(reg'[c], now, W)
<1> USE SubsAssumption
<1>u. RegTyped /\ RcTyped /\ RnTyped /\ RestTyped
  BY DEF Typed
<1>w. W \in Nat => Cooldown <= W /\ \A b \in Backoffs : b <= W
  BY LongestIs
<1>1. ASSUME NEW s \in LiveSub, NEW st \in {"active", "pending", "failed"}, NEW n \in Nat,
             Fine(s, now, W), st = "active" => s.state = "active", W \in Nat => n <= now + W
      PROVE  Fine([s EXCEPT !.state = st, !.next = n], now, W)
  <2>1. /\ [s EXCEPT !.state = st, !.next = n].next = n
        /\ [s EXCEPT !.state = st, !.next = n].state = st
        /\ [s EXCEPT !.state = st, !.next = n].sent = s.sent
        /\ [s EXCEPT !.state = st, !.next = n].expires = s.expires
    BY DEF LiveSub
  <2> QED BY <1>1, <2>1 DEF Fine
<1>2. CASE ReconcileRefused
  <2> PICK b \in Backoffs :
        MergeAttempt(rc.chan, [rc.sub EXCEPT !.state = "failed", !.next = now + b])
    BY <1>2 DEF ReconcileRefused
  <2>1. rc.chan \in Channel /\ rc.sub \in LiveSub /\ Fine(rc.sub, now, W)
    BY <1>2, <1>u DEF ReconcileRefused, RcTyped, AllFine
  <2>2. now + b \in Nat /\ (W \in Nat => now + b <= now + W)
    BY <1>u, <1>w DEF RestTyped
  <2>3. [rc.sub EXCEPT !.state = "failed", !.next = now + b] \in LiveSub
    BY <2>1, <2>2, SubForms
  <2>4. Fine([rc.sub EXCEPT !.state = "failed", !.next = now + b], now, W)
    BY <1>1, <2>1, <2>2
  <2> QED BY <1>u, <2>1, <2>3, <2>4, MergeFine DEF AllFine
<1>3. CASE RenewMerge
  <2>1. rn.chan \in Channel /\ rn.sub \in LiveSub /\ Fine(rn.sub, now, W)
    BY <1>3, <1>u DEF RenewMerge, RnTyped, AllFine
  <2> PICK st \in {"active", "pending", "failed"}, n \in Nat :
         /\ MergeAttempt(rn.chan, [rn.sub EXCEPT !.state = st, !.next = n])
         /\ (W \in Nat => n <= now + W) /\ (st = "active" => rn.sub.state = "active")
    <3> PICK b \in Backoffs :
         MergeAttempt(rn.chan,
           [rn.sub EXCEPT !.state = IF @ = "active" THEN @
                                    ELSE IF rn.verdict = "accepted" THEN "pending" ELSE "failed",
                          !.next = now + (IF rn.verdict = "accepted" THEN Cooldown ELSE b)])
      BY <1>3 DEF RenewMerge
    <3>1. /\ now + (IF rn.verdict = "accepted" THEN Cooldown ELSE b) \in Nat
          /\ W \in Nat => now + (IF rn.verdict = "accepted" THEN Cooldown ELSE b) <= now + W
      BY <1>u, <1>w DEF RestTyped
    <3> QED BY <2>1, <3>1
  <2>2. [rn.sub EXCEPT !.state = st, !.next = n] \in LiveSub
    BY <2>1, SubForms
  <2>3. Fine([rn.sub EXCEPT !.state = st, !.next = n], now, W)
    BY <1>1, <2>1
  <2> QED BY <1>u, <2>1, <2>2, <2>3, MergeFine DEF AllFine
<1> QED BY <1>2, <1>3

LEMMA RegFineStep ==
    ASSUME Typed, NEW W, Longest(W), AllFine(W), [Next]_vars
    PROVE  \A c \in Channel : Fine(reg'[c], now, W)
<1> USE SubsAssumption
<1>u. RegTyped /\ RcTyped /\ GetTyped /\ RestTyped
  BY DEF Typed
<1>w. now \in Nat
  BY <1>u DEF RestTyped
<1>0. UNCHANGED reg => \A c \in Channel : Fine(reg'[c], now, W)
  BY DEF AllFine
<1>1. CASE \/ ReconcileStart \/ ReconcileSubscribe \/ RenewCollect \/ RenewSend
           \/ ChangeList \/ HubForgets \/ Tick \/ UNCHANGED vars \/ ReconcileFinish
           \/ \E d \in Channel : ReconcileUnsubscribe(d)
  <2>1. UNCHANGED registry
    BY <1>1 DEF ReconcileStart, ReconcileSubscribe, RenewCollect, RenewSend, ChangeList,
                HubForgets, Tick, ReconcileUnsubscribe, ReconcileFinish, vars
  <2> QED BY <1>0, <2>1 DEF registry
<1>2. ASSUME NEW d \in Channel, ReconcileInsert(d)
      PROVE  \A c \in Channel : Fine(reg'[c], now, W)
  <2>1. /\ reg'[d].next = 0 /\ reg'[d].sent = now /\ reg'[d].expires = 0
        /\ reg'[d].state = "pending" /\ \A e \in Channel : e # d => reg'[e] = reg[e]
    BY <1>2, <1>u DEF ReconcileInsert, RegTyped, NoSub
  <2>2. Fine(reg'[d], now, W)
    BY <1>w, <2>1 DEF Fine
  <2> QED BY <2>1, <2>2 DEF AllFine
<1>3. CASE ReconcileRefused \/ RenewMerge
  BY <1>3, MergesAreFine
<1>4. CASE ReconcileRemove
  <2>1. reg'[rc.chan] = NoSub /\ \A d \in Channel : d # rc.chan => reg'[d] = reg[d]
    BY <1>4, <1>u DEF ReconcileRemove, RcTyped, RegTyped
  <2> QED BY <1>w, <2>1, NoSubFine DEF AllFine
<1>5. CASE RenewExpire
  <2>1. \A c \in Channel : reg'[c] = Demoted(reg[c])
    BY <1>5 DEF RenewExpire
  <2>2. \A c \in Channel : Fine(Demoted(reg[c]), now, W)
    BY <1>u DEF Demoted, Fine, AllFine, RegTyped, AnySub, LiveSub, NoSub
  <2> QED BY <2>1, <2>2
<1>6. ASSUME NEW g \in Get, NEW v \in pend,
             \/ \E lease \in Grants : GetLive(g, v, lease)
             \/ GetRemoved(g, v) \/ GetUnknown(g, v)
      PROVE  \A c \in Channel : Fine(reg'[c], now, W)
  BY <1>0, <1>6 DEF GetLive, GetRemoved, GetUnknown, registry
<1>7. ASSUME NEW g \in Get, Answer(g) PROVE \A c \in Channel : Fine(reg'[c], now, W)
  BY <1>0, <1>7 DEF Answer, registry
<1>8. ASSUME NEW g \in Get, Activate(g) PROVE \A c \in Channel : Fine(reg'[c], now, W)
  <2> PICK c \in Channel, lease \in Nat \ {0} : c = get[g].chan /\ lease = get[g].lease
    BY <1>8, <1>u DEF Activate, GetTyped
  <2>1. CASE ~Has(c)
    BY <1>0, <1>8, <2>1 DEF Activate
  <2>2. CASE Has(c)
    <3>1. reg' = Activated(c, Until(lease))
      BY <1>8, <2>2 DEF Activate
    <3>2. reg[c] \in LiveSub
      BY <1>u, <2>2, LiveHasToken DEF RegTyped, Has
    <3>3. /\ reg'[c].next = 0 /\ reg'[c].sent = reg[c].sent /\ reg'[c].expires = Until(lease)
          /\ \A d \in Channel : d # c => reg'[d] = reg[d]
      BY <1>u, <3>1, <3>2 DEF Activated, RegTyped, LiveSub
    <3>4. Until(lease) <= now + Lease /\ Until(lease) > 0
      BY <1>w DEF Until, LesserOf
    <3>5. Fine(reg'[c], now, W)
      BY <1>w, <3>3, <3>4 DEF Fine, AllFine
    <3> QED BY <3>3, <3>5 DEF AllFine
  <2> QED BY <2>1, <2>2
<1>9. CASE Restart
  BY <1>9 DEF Restart, AllFine
<1> QED BY <1>1, <1>2, <1>3, <1>4, <1>5, <1>6, <1>7, <1>8, <1>9 DEF Next

\* The copies the threads hold.
LEMMA CopiesFineStep ==
    ASSUME Typed, NEW W, Longest(W), AllFine(W), [Next]_vars
    PROVE  /\ Fine(rc'.sub, now, W) /\ Fine(rn'.sub, now, W)
           /\ \A d \in rn'.todo : Fine(d[2], now, W)
<1> USE SubsAssumption
<1>u. RegTyped /\ RcTyped /\ RnTyped /\ RestTyped
  BY DEF Typed
<1>w. now \in Nat
  BY <1>u DEF RestTyped
<1>n. Fine(NoSub, now, W)
  BY <1>w, NoSubFine
<1>c. ASSUME rc'.sub = rc.sub \/ Fine(rc'.sub, now, W), UNCHANGED rn
      PROVE  /\ Fine(rc'.sub, now, W) /\ Fine(rn'.sub, now, W)
             /\ \A d \in rn'.todo : Fine(d[2], now, W)
  BY <1>c DEF AllFine
<1>r. ASSUME UNCHANGED rc, rn'.sub = rn.sub \/ Fine(rn'.sub, now, W),
             \A d \in rn'.todo : d \in rn.todo \/ Fine(d[2], now, W)
      PROVE  /\ Fine(rc'.sub, now, W) /\ Fine(rn'.sub, now, W)
             /\ \A d \in rn'.todo : Fine(d[2], now, W)
  BY <1>r DEF AllFine
<1>1. CASE \/ ReconcileStart \/ ReconcileSubscribe \/ ReconcileRefused \/ ReconcileFinish
           \/ ReconcileRemove \/ \E c \in Channel : ReconcileUnsubscribe(c)
  <2>1. UNCHANGED rn
    BY <1>1 DEF ReconcileStart, ReconcileSubscribe, ReconcileRefused, ReconcileFinish,
                ReconcileRemove, ReconcileUnsubscribe
  <2>2. rc'.sub = rc.sub \/ rc'.sub = NoSub
    <3>1. CASE ReconcileFinish
      BY <3>1 DEF ReconcileFinish, NoReconcile
    <3>2. CASE ReconcileSubscribe \/ ReconcileRefused
      BY <3>2, <1>u DEF ReconcileSubscribe, ReconcileRefused, RcTyped
    <3>3. CASE ReconcileStart
      <4>1. rc' = [rc EXCEPT !.stage = "change", !.adds = {c \in wanted : ~Has(c)},
                             !.removes = {c \in Channel \ wanted : Has(c)}]
        BY <3>3 DEF ReconcileStart
      <4> QED BY <4>1, <1>u DEF RcTyped
    <3>4. CASE ReconcileRemove \/ \E c \in Channel : ReconcileUnsubscribe(c)
      BY <3>4, <1>u DEF ReconcileRemove, ReconcileUnsubscribe, RcTyped
    <3> QED BY <1>1, <3>1, <3>2, <3>3, <3>4
  <2> QED BY <1>c, <1>n, <2>1, <2>2
<1>2. ASSUME NEW c \in Channel, ReconcileInsert(c)
      PROVE  /\ Fine(rc'.sub, now, W) /\ Fine(rn'.sub, now, W)
             /\ \A d \in rn'.todo : Fine(d[2], now, W)
  <2>1. /\ UNCHANGED rn
        /\ rc'.sub = [NoSub EXCEPT !.token = minted', !.state = "pending", !.sent = now]
    BY <1>2, <1>u DEF ReconcileInsert, RcTyped
  <2>2. Fine(rc'.sub, now, W)
    BY <1>w, <2>1 DEF Fine, NoSub
  <2> QED BY <1>c, <2>1, <2>2
<1>3. CASE RenewExpire
  BY <1>3, <1>r, <1>u DEF RenewExpire, RnTyped
<1>4. CASE RenewCollect
  <2>1. \A d \in rn'.todo : \E c \in Channel : d = <<c, reg[c]>>
    BY <1>4, <1>u DEF RenewCollect, RnTyped
  <2>2. rn'.sub = rn.sub /\ UNCHANGED rc
    BY <1>4, <1>u DEF RenewCollect, RnTyped
  <2> QED BY <1>r, <2>1, <2>2 DEF AllFine
<1>5. CASE RenewSend
  <2> PICK d \in rn.todo, verdict \in {"accepted", "refused"} :
         rn' = [stage |-> "merge", at |-> 0, todo |-> rn.todo \ {d}, chan |-> d[1],
                sub |-> [d[2] EXCEPT !.sent = now], verdict |-> verdict]
    BY <1>5 DEF RenewSend
  <2>0. rn'.todo = rn.todo \ {d} /\ rn'.sub = [d[2] EXCEPT !.sent = now]
    OBVIOUS
  <2>1. d[2] \in LiveSub /\ Fine(d[2], now, W)
    BY <1>u DEF RnTyped, AllFine
  <2>2. Fine(rn'.sub, now, W)
    BY <1>w, <2>0, <2>1 DEF Fine, LiveSub
  <2>3. UNCHANGED rc
    BY <1>5 DEF RenewSend
  <2> QED BY <1>r, <2>0, <2>2, <2>3
<1>6. CASE RenewMerge
  <2>1. rn'.sub = NoSub /\ rn'.todo = rn.todo /\ UNCHANGED rc
    BY <1>6 DEF RenewMerge, NoRenewal
  <2> QED BY <1>n, <1>r, <2>1
<1>7. CASE \/ \E g \in Get, v \in pend : \/ \E lease \in Grants : GetLive(g, v, lease)
                                        \/ GetRemoved(g, v) \/ GetUnknown(g, v)
           \/ \E g \in Get : Activate(g) \/ Answer(g)
           \/ ChangeList \/ HubForgets \/ Tick \/ UNCHANGED vars
  <2>1. UNCHANGED <<rc, rn>>
    BY <1>7 DEF GetLive, GetRemoved, GetUnknown, Activate, Answer, ChangeList, HubForgets, Tick,
                vars
  <2> QED BY <1>c, <2>1
<1>8. CASE Restart
  BY <1>8, <1>n DEF Restart, NoReconcile, NoRenewal
<1> QED BY <1>1, <1>2, <1>3, <1>4, <1>5, <1>6, <1>7, <1>8 DEF Next

LEMMA DiskForms == ASSUME Typed, [Next]_vars PROVE disk' = disk \/ disk' = reg'
BY QuietSteps DEF Quiet, ReconcileInsert, ReconcileRemove, Restart, stored

LEMMA ClockSteps == [Next]_vars => now' \in {now, now + 1}
BY DEF Next, vars, ChangeList, ReconcileStart, ReconcileSubscribe, ReconcileRefused,
       ReconcileInsert, ReconcileUnsubscribe, ReconcileRemove, ReconcileFinish, RenewExpire,
       RenewCollect, RenewSend, RenewMerge, GetLive, GetRemoved, GetUnknown, Activate, Answer,
       HubForgets, Tick, Restart

LEMMA FineStep ==
    ASSUME Typed, Typed', NEW W, Longest(W), AllFine(W), [Next]_vars
    PROVE  AllFine(W)'
<1>w. now \in Nat /\ now' \in Nat /\ now <= now'
  BY ClockSteps DEF Typed, RestTyped
<1>1. \A c \in Channel : Fine(reg'[c], now', W)
  <2>1. \A c \in Channel : reg'[c] \in AnySub
    BY DEF Typed, RegTyped
  <2> QED BY <1>w, <2>1, RegFineStep, FineLater
<1>2. \A c \in Channel : Fine(disk'[c], now', W)
  <2>1. \A c \in Channel : disk[c] \in AnySub /\ Fine(disk[c], now, W)
    BY DEF Typed, RegTyped, AllFine
  <2> QED BY <1>1, <1>w, <2>1, DiskForms, FineLater
<1>3. Fine(rc'.sub, now', W) /\ Fine(rn'.sub, now', W)
  <2>1. rc'.sub \in AnySub /\ rn'.sub \in AnySub
    BY DEF Typed, RcTyped, RnTyped
  <2> QED BY <1>w, <2>1, CopiesFineStep, FineLater
<1>4. \A d \in rn'.todo : Fine(d[2], now', W)
  <2>1. \A d \in rn'.todo : d[2] \in AnySub
    BY DEF Typed, RnTyped, AnySub
  <2> QED BY <1>w, <2>1, CopiesFineStep, FineLater
<1> QED BY <1>1, <1>2, <1>3, <1>4 DEF AllFine

\* A fine subscription is due once the longest wait is over.
LEMMA FineIsDue ==
    ASSUME Typed, NEW W, LongestWait(W), AllFine(W), NEW c \in Channel, Has(c)
    PROVE  Due([reg[c] EXCEPT !.state =
                  IF @ = "active" /\ reg[c].expires > 0 /\ now + W >= reg[c].expires
                    THEN "expired" ELSE @], now + W)
<1> PICK s \in LiveSub : s = reg[c]
  BY LiveHasToken DEF Typed, RegTyped, Has
<1>w. W \in Nat /\ now \in Nat /\ Lease <= W /\ PendingTimeout + 1 <= W
      /\ Lease \in Nat /\ PendingTimeout \in Nat
  BY WaitsAreNat, SubsAssumption DEF Typed, RestTyped
<1>1. /\ s.next \in Nat /\ s.sent \in Nat /\ s.expires \in Nat
      /\ s.state \in {"pending", "active", "expired", "failed"}
  BY DEF LiveSub
<1>2. s.next <= now + W /\ s.sent <= now /\ s.expires <= now + Lease
      /\ (s.state = "active" => s.expires > 0)
  BY <1>w DEF AllFine, Fine
<1>3. CASE s.state = "active"
  <2>1. s.expires > 0 /\ now + W >= s.expires
    BY <1>w, <1>1, <1>2, <1>3
  <2>2. [s EXCEPT !.state = "expired"].next = s.next
        /\ [s EXCEPT !.state = "expired"].state = "expired"
    BY DEF LiveSub
  <2>3. Due([s EXCEPT !.state = "expired"], now + W)
    BY <1>w, <1>1, <1>2, <2>2 DEF Due
  <2> QED BY <1>3, <2>1, <2>3
<1>4. CASE s.state # "active"
  <2>1. [s EXCEPT !.state = s.state] = s
    BY DEF LiveSub
  <2>2. Due(s, now + W)
    BY <1>w, <1>1, <1>2, <1>4 DEF Due
  <2> QED BY <1>4, <2>1, <2>2
<1> QED BY <1>3, <1>4

\* However a subscription failed, the renewal thread sends for it again within
\* the longest of the waits, if there is a longest (callback.rs:95-99,
\* renew.rs:297-319).
THEOREM NeverParkedAlways ==
    ASSUME NEW W, LongestWait(W) PROVE Spec => []NeverParked
<1> DEFINE Inv == Typed /\ Fits /\ AllFine(W)
<1>1. Init => Inv
  <2>2. Init => AllFine(W)
    <3> SUFFICES ASSUME Init PROVE AllFine(W)
      OBVIOUS
    <3>1. /\ now = 1 /\ reg = [c \in Channel |-> NoSub] /\ disk = reg
          /\ rc = NoReconcile /\ rn = NoRenewal
      BY DEF Init
    <3>2. Fine(NoSub, now, W)
      BY <3>1, NoSubFine
    <3> QED BY <3>1, <3>2 DEF AllFine, NoReconcile, NoRenewal
  <2> QED BY <2>2, TypedInit, IndexInit
<1>2. Inv /\ [Next]_vars => Inv'
  <2>1. Typed /\ Fits /\ [Next]_vars => Typed' /\ Fits'
    BY TypedStep, FitsStep
  <2> QED BY <2>1, FineStep DEF Longest
<1>3. Inv => NeverParked
  <2> SUFFICES ASSUME Inv, NEW c \in Channel, Has(c)
               PROVE  \E n \in now..(now + (CHOOSE w \in Waits : \A x \in Waits : x <= w)) :
                        Due([reg[c] EXCEPT !.state =
                               IF @ = "active" /\ reg[c].expires > 0 /\ n >= reg[c].expires
                                 THEN "expired" ELSE @], n)
    BY DEF NeverParked
  <2>1. W = CHOOSE w \in Waits : \A x \in Waits : x <= w
    <3> PICK w : w = CHOOSE x \in Waits : \A y \in Waits : y <= x
      OBVIOUS
    <3>1. w \in Waits /\ \A y \in Waits : y <= w
      BY DEF LongestWait
    <3>2. w <= W /\ W <= w
      BY <3>1 DEF LongestWait
    <3>3. w \in Nat /\ W \in Nat
      BY <3>1, WaitsAreNat
    <3>4. w = W
      BY <3>2, <3>3
    <3> QED BY <3>4
  <2>2. now + W \in now..(now + W)
    BY WaitsAreNat DEF Typed, RestTyped
  <2> QED BY <2>1, <2>2, FineIsDue
<1> QED BY <1>1, <1>2, <1>3, PTL DEF Spec


-----------------------------------------------------------------------------
(* Type correctness *)

\* The bounds of what Typed leaves open.
Counted ==
    /\ behind \in BOOLEAN
    /\ changes \in 0..MaxChanges /\ crashes \in 0..MaxCrashes /\ failures \in 0..MaxFailures

Timed ==
    /\ now <= MaxTime /\ rn.at <= now
    /\ \A t \in Token : unsub[t] <= now + Grace /\ graceEnd[t] <= now + Grace
    /\ \A g \in Get : get[g].lease \in Grants \union {0}

LEMMA CountedStep == Counted /\ [Next]_vars => Counted'
<1> SUFFICES ASSUME Counted, [Next]_vars PROVE Counted'
  OBVIOUS
<1> USE SubsAssumption
<1>1. behind' \in BOOLEAN /\ failures' \in 0..MaxFailures
  <2>1. CASE UNCHANGED stored
    BY <2>1 DEF Counted, stored
  <2>2. ASSUME NEW r, Save(r) PROVE behind' \in BOOLEAN /\ failures' \in 0..MaxFailures
    <3>1. failures' = failures \/ (failures < MaxFailures /\ failures' = failures + 1)
      BY <2>2 DEF Save
    <3>2. behind' \in BOOLEAN
      BY <2>2 DEF Save
    <3> QED BY <3>1, <3>2 DEF Counted
  <2>3. CASE Restart
    BY <2>3 DEF Counted, Restart
  <2> QED BY <2>1, <2>2, <2>3, StoredSteps
<1>2. /\ changes' = changes \/ (changes < MaxChanges /\ changes' = changes + 1)
      /\ crashes' = crashes \/ (crashes < MaxCrashes /\ crashes' = crashes + 1)
  BY DEF Next, vars, ChangeList, ReconcileStart, ReconcileSubscribe, ReconcileRefused,
         ReconcileInsert, ReconcileUnsubscribe, ReconcileRemove, ReconcileFinish, RenewExpire,
         RenewCollect, RenewSend, RenewMerge, GetLive, GetRemoved, GetUnknown, Activate, Answer,
         HubForgets, Tick, Restart
<1> QED BY <1>1, <1>2 DEF Counted

LEMMA TimedStep == Typed /\ Timed /\ [Next]_vars => Timed'
<1> SUFFICES ASSUME Typed, Timed, [Next]_vars PROVE Timed'
  OBVIOUS
<1> USE SubsAssumption
<1>u. RegTyped /\ RcTyped /\ RnTyped /\ GetTyped /\ RestTyped
  BY DEF Typed
<1>n. now \in Nat /\ Grace \in Nat /\ now <= now + Grace
  BY <1>u DEF RestTyped
<1>t. \A t \in Token : unsub[t] \in Nat /\ graceEnd[t] \in Nat
  BY <1>u DEF RegTyped, RestTyped
<1>1. CASE \/ ReconcileStart \/ ReconcileSubscribe \/ ReconcileRefused \/ ReconcileFinish
           \/ \E c \in Channel : ReconcileInsert(c)
           \/ ChangeList \/ HubForgets \/ UNCHANGED vars
  <2>1. UNCHANGED <<now, rn, unsub, graceEnd, get>>
    BY <1>1 DEF ReconcileStart, ReconcileSubscribe, ReconcileRefused, ReconcileFinish,
                ReconcileInsert, ChangeList, HubForgets, vars, history, registry, MergeAttempt
  <2> QED BY <2>1 DEF Timed
<1>2. ASSUME NEW c \in Channel, ReconcileUnsubscribe(c) PROVE Timed'
  <2>1. /\ UNCHANGED <<now, rn, unsub, get>>
        /\ \A t \in Token : graceEnd'[t] = graceEnd[t] \/ graceEnd'[t] = now + Grace
    BY <1>2, <1>u DEF ReconcileUnsubscribe, registry, RestTyped
  <2> QED BY <1>n, <2>1 DEF Timed
<1>3. CASE ReconcileRemove
  <2>1. /\ UNCHANGED <<now, rn, graceEnd, get>>
        /\ unsub' = Retired(reg[rc.chan].token)
    BY <1>3 DEF ReconcileRemove, history
  <2>2. \A t \in Token : unsub'[t] \in {unsub[t], now + Grace, 0}
    BY <1>u, <2>1 DEF Retired, Swept, RegTyped
  <2> QED BY <1>n, <2>1, <2>2 DEF Timed
<1>4. CASE RenewExpire \/ RenewCollect \/ RenewSend \/ RenewMerge
  <2>1. UNCHANGED <<now, unsub, graceEnd, get>>
    BY <1>4 DEF RenewExpire, RenewCollect, RenewSend, RenewMerge, history, registry, MergeAttempt
  <2>2. rn'.at \in {0, now}
    <3>1. CASE RenewExpire
      BY <3>1, <1>u DEF RenewExpire, RnTyped
    <3>2. CASE RenewCollect
      BY <3>2, <1>u DEF RenewCollect, RnTyped
    <3>3. CASE RenewSend
      BY <3>3 DEF RenewSend
    <3>4. CASE RenewMerge
      BY <3>4 DEF RenewMerge, NoRenewal
    <3> QED BY <1>4, <3>1, <3>2, <3>3, <3>4
  <2> QED BY <1>n, <2>1, <2>2 DEF Timed
<1>5. ASSUME NEW g \in Get, NEW v \in pend, NEW lease \in Grants, GetLive(g, v, lease)
      PROVE  Timed'
  <2>1. /\ UNCHANGED <<now, rn, unsub, graceEnd>>
        /\ \A h \in Get : get'[h].lease \in {get[h].lease, lease, 0}
    BY <1>5, <1>u DEF GetLive, registry, history, GetTyped
  <2> QED BY <2>1 DEF Timed
<1>6. ASSUME NEW g \in Get, NEW v \in pend, GetRemoved(g, v) \/ GetUnknown(g, v) PROVE Timed'
  <2>1. /\ UNCHANGED <<now, rn, graceEnd>>
        /\ \A h \in Get : get'[h].lease \in {get[h].lease, 0}
    BY <1>6, <1>u DEF GetRemoved, GetUnknown, history, GetTyped
  <2>2. \A t \in Token : unsub'[t] \in {unsub[t], 0}
    BY <1>6, <1>u DEF GetRemoved, GetUnknown, Forgotten, Swept, RegTyped, registry
  <2> QED BY <1>n, <2>1, <2>2 DEF Timed
<1>7. ASSUME NEW g \in Get, Activate(g) \/ Answer(g) PROVE Timed'
  <2>1. /\ UNCHANGED <<now, rn, unsub, graceEnd>>
        /\ \A h \in Get : get'[h].lease \in {get[h].lease, 0}
    BY <1>7, <1>u DEF Activate, Answer, NoGet, registry, history, GetTyped
  <2> QED BY <2>1 DEF Timed
<1>8. CASE Tick
  <2>1. /\ now < MaxTime /\ now' = now + 1 /\ UNCHANGED <<rn, unsub, graceEnd, get>>
    BY <1>8 DEF Tick, registry, history
  <2>2. rn.at \in Nat
    BY <1>u DEF RnTyped
  <2> QED BY <1>n, <1>t, <2>1, <2>2 DEF Timed
<1>9. CASE Restart
  <2>1. now' = now /\ rn'.at = 0 /\ \A g \in Get : get'[g].lease = 0
    BY <1>9 DEF Restart, NoRenewal, NoGet
  <2>2. \A t \in Token : unsub'[t] = 0 /\ graceEnd'[t] = 0
    BY <1>9 DEF Restart
  <2> QED BY <1>n, <2>1, <2>2 DEF Timed
<1> QED BY <1>1, <1>2, <1>3, <1>4, <1>5, <1>6, <1>7, <1>8, <1>9 DEF Next

LEMMA SubIs ==
    ASSUME NEW s \in AnySub, now \in 1..MaxTime, Fine(s, now, -1)
    PROVE  s \in Sub
<1>1. s.expires \in 0..(MaxTime + Lease) /\ s.sent \in 0..MaxTime
  BY SubsAssumption DEF Fine, AnySub, LiveSub, NoSub
<1> QED BY <1>1, SubsAssumption DEF AnySub, LiveSub, NoSub, Sub, Token

LEMMA BoundedInit == Init => AllFine(-1) /\ Counted /\ Timed
<1> USE SubsAssumption
<1> SUFFICES ASSUME Init PROVE AllFine(-1) /\ Counted /\ Timed
  OBVIOUS
<1>1. /\ now = 1 /\ reg = [c \in Channel |-> NoSub] /\ disk = reg
      /\ rc = NoReconcile /\ rn = NoRenewal /\ get = [g \in Get |-> NoGet]
  BY DEF Init
<1>2. Fine(NoSub, now, -1)
  BY <1>1, NoSubFine
<1>3. AllFine(-1)
  BY <1>1, <1>2 DEF AllFine, NoReconcile, NoRenewal
<1>4. Counted
  <2>1. behind = FALSE /\ changes = 0 /\ crashes = 0 /\ failures = 0
    BY DEF Init
  <2>2. behind \in BOOLEAN
    BY <2>1
  <2>3. changes \in 0..MaxChanges /\ crashes \in 0..MaxCrashes /\ failures \in 0..MaxFailures
    BY <2>1
  <2> QED BY <2>2, <2>3 DEF Counted
<1>5. /\ rn.at = 0 /\ \A g \in Get : get[g].lease = 0
      /\ \A t \in Token : unsub[t] = 0 /\ graceEnd[t] = 0
  BY <1>1 DEF Init, NoRenewal, NoGet
<1>6. Timed
  BY <1>1, <1>5 DEF Timed
<1> QED BY <1>3, <1>4, <1>6

\* Every variable has its type, and no lease on record, in a thread's copy or on
\* disk is longer from now than the one we ask for (callback.rs:95-99).
THEOREM TypeCorrect == Spec => []TypeOK
<1> USE SubsAssumption
<1> DEFINE Inv == Typed /\ Fits /\ AllFine(-1) /\ Counted /\ Timed
<1>1. Init => Inv
  BY TypedInit, IndexInit, BoundedInit
<1>2. Inv /\ [Next]_vars => Inv'
  <2>1. Typed /\ Fits /\ [Next]_vars => Typed' /\ Fits'
    BY TypedStep, FitsStep
  <2>2. Longest(-1)
    BY DEF Longest
  <2> QED BY <2>1, <2>2, FineStep, CountedStep, TimedStep
<1>3. Inv => TypeOK
  <2> SUFFICES ASSUME Inv PROVE TypeOK
    OBVIOUS
  <2>u. RegTyped /\ RcTyped /\ RnTyped /\ GetTyped /\ HubTyped /\ RestTyped
    BY DEF Typed
  <2>1. now \in 1..MaxTime /\ rn.at \in 0..MaxTime
    BY <2>u DEF Timed, RestTyped, RnTyped
  <2>2. reg \in [Channel -> Sub] /\ disk \in [Channel -> Sub]
    BY <2>u, <2>1, SubIs DEF RegTyped, AllFine
  <2>3. rc.sub \in Sub /\ rn.sub \in Sub
    BY <2>u, <2>1, SubIs DEF RcTyped, RnTyped, AllFine
  <2>4. rn.todo \subseteq Channel \X Sub
    <3> SUFFICES ASSUME NEW d \in rn.todo PROVE d \in Channel \X Sub
      OBVIOUS
    <3>1. d[1] \in Channel /\ d[2] \in AnySub /\ d = <<d[1], d[2]>>
      BY <2>u DEF RnTyped, AnySub
    <3>2. d[2] \in Sub
      BY <2>1, <3>1, SubIs DEF AllFine
    <3> QED BY <3>1, <3>2
  <2>5. unsub \in [Token -> 0..(MaxTime + Grace)] /\ graceEnd \in [Token -> 0..(MaxTime + Grace)]
    <3>1. \A t \in Token : unsub[t] \in 0..(MaxTime + Grace) /\ graceEnd[t] \in 0..(MaxTime + Grace)
      BY <2>u, <2>1 DEF Timed, RegTyped, RestTyped
    <3> QED BY <2>u, <3>1 DEF RegTyped, RestTyped
  <2>6. get \in [Get -> [stage : {"idle", "activate", "answer"}, token : 0..MaxToken,
                         mode : {"none", "subscribe", "unsubscribe"},
                         chan : Channel \union {NoChannel}, lease : Grants \union {0}]]
    BY <2>u DEF Timed, GetTyped
  <2>7. /\ byToken \in [Token -> Channel \union {NoChannel}]
        /\ wanted \subseteq Channel /\ minted \in 0..MaxToken /\ asked \subseteq Token
        /\ hub \in [Token -> Nat]
        /\ pend \subseteq [token : Token, mode : {"subscribe", "unsubscribe"}]
    BY <2>u DEF RegTyped, RestTyped, HubTyped
  <2>8. /\ rc.stage \in {"none", "change", "subscribe", "refused", "remove"}
        /\ rc.adds \subseteq Channel /\ rc.removes \subseteq Channel
        /\ rc.chan \in Channel \union {NoChannel}
        /\ rn.stage \in {"none", "collect", "send", "merge"}
        /\ rn.chan \in Channel \union {NoChannel}
        /\ rn.verdict \in {"none", "accepted", "refused"}
    BY <2>u DEF RcTyped, RnTyped
  <2> QED BY <2>1, <2>2, <2>3, <2>4, <2>5, <2>6, <2>7, <2>8 DEF TypeOK, Counted
<1> QED BY <1>1, <1>2, <1>3, PTL DEF Spec

-----------------------------------------------------------------------------
(* What counts as active is delivered to *)

\* A GET that has waited activates the subscription of its own token, if any.
OwnActivation ==
    \A g \in Get :
      get[g].stage = "activate" /\ get'[g].stage = "answer" =>
        Live(get[g].token) \/ ~Has(get[g].chan)

\* No lease the hub grants, clamped to our own, is longer than another.
SteadyGrants == \A l, m \in Grants : LesserOf(l, Lease) <= m
OneGet       == \A g, h \in Get : g = h

AnswersFor(g, t) == get[g].stage = "answer" /\ get[g].mode = "subscribe" /\ get[g].token = t

\* An active subscription ends no later than what the hub has, or is about to
\* have, agreed to.
Backed ==
    \A c \in Channel : reg[c].state = "active" =>
      /\ \/ c \in rc.removes
         \/ reg[c].expires <= hub[reg[c].token]
         \/ \E g \in Get : AnswersFor(g, reg[c].token)
      /\ \A g \in Get : AnswersFor(g, reg[c].token) => reg[c].expires <= now + get[g].lease

\* Only the channels being removed have a token the hub was asked to drop.
Leaving ==
    /\ \A c \in Channel : reg[c].token \in asked => c \in rc.removes
    /\ rc.stage = "none" => rc.removes = {}
    /\ \A v \in pend : v.mode = "unsubscribe" => v.token \in asked
    /\ \A g \in Get : get[g].stage # "idle" /\ get[g].mode = "unsubscribe" => get[g].token \in asked

\* Tokens in flight are not new.
Minted ==
    /\ \A t \in asked : t <= minted
    /\ \A v \in pend : v.token <= minted
    /\ rc.stage = "subscribe" => rc.sub.token <= minted
    /\ rn.stage = "merge" => rn.sub.token <= minted
    /\ \A d \in rn.todo : d[2].token <= minted
    /\ \A g \in Get : get[g].token <= minted

\* A GET keeps the channel of its token.
Placed ==
    \A g \in Get, c \in Channel :
      get[g].stage = "activate" /\ reg[c].token = get[g].token => c = get[g].chan

\* A GET that is served verifies something, for a lease the hub granted.
Granted ==
    \A g \in Get : get[g].stage # "idle" =>
      get[g].mode = "unsubscribe" \/ (get[g].mode = "subscribe" /\ get[g].lease \in Grants)

\* What the renewal thread took for active still is: only it demotes.
Current(c, s) == s.state = "active" /\ reg[c].token = s.token => reg[c].state = "active"

Copies ==
    /\ rn.stage \in {"none", "collect"} => rn.todo = {}
    /\ rn.stage = "merge" => Current(rn.chan, rn.sub)
    /\ \A d \in rn.todo : Current(d[1], d[2])

BackedInv == Backed /\ Leaving /\ Minted /\ Placed /\ Granted /\ Copies

LEMMA MintedStep == Typed /\ Index /\ Minted /\ [Next]_vars => Minted'
<1> SUFFICES ASSUME Typed, Index, Minted, [Next]_vars PROVE Minted'
  OBVIOUS
<1> USE SubsAssumption
<1>u. RegTyped /\ RcTyped /\ RnTyped /\ GetTyped /\ HubTyped /\ RestTyped
  BY DEF Typed
<1>r. \A c \in Channel : reg[c].token <= minted
  BY DEF Index
<1>1. CASE \/ ReconcileStart \/ ReconcileRefused \/ ReconcileFinish \/ ReconcileRemove
           \/ ChangeList \/ HubForgets \/ Tick \/ RenewExpire \/ UNCHANGED vars
  <2>1. /\ UNCHANGED <<get, minted, asked>> /\ pend' \subseteq pend
        /\ rn'.todo = rn.todo /\ rn'.sub = rn.sub
        /\ rn'.stage = "merge" => rn.stage = "merge"
    BY <1>1, <1>u DEF ReconcileStart, ReconcileRefused, ReconcileFinish, ReconcileRemove,
                ChangeList, HubForgets, Tick, RenewExpire, vars, hubVars, history, RnTyped
  <2>2. rc'.stage = "subscribe" => rc'.stage = rc.stage /\ rc'.sub = rc.sub
    <3>1. CASE ReconcileStart \/ ReconcileRefused \/ ReconcileRemove
      <4>1. rc'.stage = "change"
        BY <1>u, <3>1 DEF ReconcileStart, ReconcileRefused, ReconcileRemove, RcTyped
      <4> QED BY <4>1
    <3>2. CASE ReconcileFinish
      BY <3>2 DEF ReconcileFinish, NoReconcile
    <3>3. CASE ChangeList \/ HubForgets \/ Tick \/ RenewExpire \/ UNCHANGED vars
      BY <3>3 DEF ChangeList, HubForgets, Tick, RenewExpire, vars
    <3> QED BY <1>1, <3>1, <3>2, <3>3
  <2> QED BY <2>1, <2>2 DEF Minted
<1>2. CASE ReconcileSubscribe
  <2>1. UNCHANGED <<get, minted, asked, rn>> /\ rc.stage = "subscribe"
    BY <1>2 DEF ReconcileSubscribe, history
  <2>2. rc'.stage # "subscribe"
    BY <1>2, <1>u DEF ReconcileSubscribe, RcTyped
  <2>3. \A v \in pend' : v \in pend \/ v.token = rc.sub.token
    BY <1>2 DEF ReconcileSubscribe, Accepts, Refuses, Request
  <2> QED BY <2>1, <2>2, <2>3 DEF Minted
<1>3. ASSUME NEW c \in Channel, ReconcileInsert(c) PROVE Minted'
  <2>1. /\ UNCHANGED <<get, asked, pend, rn>> /\ rc'.sub.token = minted'
        /\ minted' = minted + 1
    BY <1>3, <1>u DEF ReconcileInsert, history, hubVars, RcTyped, NoSub
  <2>2. minted \in Nat /\ asked \subseteq Nat
    BY <1>u DEF RestTyped, Token
  <2>3. /\ \A v \in pend : v.token \in Nat
        /\ rn.stage = "merge" => rn.sub.token \in Nat
        /\ \A d \in rn.todo : d[2].token \in Nat
        /\ \A g \in Get : get[g].token \in Nat
    BY <1>u DEF HubTyped, RnTyped, GetTyped, LiveSub, Token
  <2> QED BY <2>1, <2>2, <2>3 DEF Minted
<1>4. ASSUME NEW c \in Channel, ReconcileUnsubscribe(c) PROVE Minted'
  <2>1. /\ UNCHANGED <<get, minted, rn>> /\ rc'.stage = "remove"
        /\ asked' = asked \union {reg[c].token}
        /\ \A v \in pend' : v \in pend \/ v.token = reg[c].token
    BY <1>4, <1>u DEF ReconcileUnsubscribe, RcTyped, Refuses, Request
  <2> QED BY <1>r, <2>1 DEF Minted
<1>5. CASE RenewCollect
  <2>1. /\ UNCHANGED <<get, minted, asked, pend, rc>> /\ rn'.stage # "merge"
        /\ \A d \in rn'.todo : \E c \in Channel : d = <<c, reg[c]>>
    BY <1>5, <1>u DEF RenewCollect, hubVars, history, RnTyped
  <2> QED BY <1>r, <2>1 DEF Minted
<1>6. CASE RenewSend
  <2> PICK d \in rn.todo, verdict \in {"accepted", "refused"} :
         /\ IF verdict = "accepted" THEN Accepts(d[2].token, "subscribe")
                                    ELSE Refuses(d[2].token, "subscribe")
         /\ rn' = [stage |-> "merge", at |-> 0, todo |-> rn.todo \ {d}, chan |-> d[1],
                   sub |-> [d[2] EXCEPT !.sent = now], verdict |-> verdict]
    BY <1>6 DEF RenewSend
  <2>1. d[2] \in LiveSub
    BY <1>u DEF RnTyped
  <2>2. rn'.sub.token = d[2].token /\ rn'.todo \subseteq rn.todo
    BY <2>1 DEF LiveSub
  <2>3. \A v \in pend' : v \in pend \/ v.token = d[2].token
    BY DEF Accepts, Refuses, Request
  <2>4. UNCHANGED <<get, minted, asked, rc>>
    BY <1>6 DEF RenewSend, history
  <2> QED BY <2>2, <2>3, <2>4 DEF Minted
<1>7. CASE RenewMerge
  <2>1. /\ UNCHANGED <<get, minted, asked, pend, rc>>
        /\ rn'.stage # "merge" /\ rn'.todo = rn.todo
    BY <1>7, <1>u DEF RenewMerge, hubVars, history, NoRenewal
  <2> QED BY <2>1 DEF Minted
<1>8. ASSUME NEW g \in Get, NEW v \in pend,
             \/ \E lease \in Grants : GetLive(g, v, lease)
             \/ GetRemoved(g, v) \/ GetUnknown(g, v)
      PROVE  Minted'
  <2>1. /\ UNCHANGED <<minted, asked, rc, rn>> /\ pend' \subseteq pend
        /\ \A h \in Get : get'[h].token \in {get[h].token, v.token}
    BY <1>8, <1>u DEF GetLive, GetRemoved, GetUnknown, Asks, history, GetTyped
  <2> QED BY <2>1 DEF Minted
<1>9. ASSUME NEW g \in Get, Activate(g) \/ Answer(g) PROVE Minted'
  <2>1. /\ UNCHANGED <<minted, asked, rc, rn, pend>>
        /\ \A h \in Get : get'[h].token \in {get[h].token, 0}
    BY <1>9, <1>u DEF Activate, Answer, NoGet, hubVars, history, GetTyped
  <2>2. 0 <= minted
    BY <1>u DEF RestTyped
  <2> QED BY <2>1, <2>2 DEF Minted
<1>10. CASE Restart
  <2>1. /\ UNCHANGED <<minted, asked, pend>> /\ rc' = NoReconcile /\ rn' = NoRenewal
        /\ \A g \in Get : get'[g].token = 0
    BY <1>10 DEF Restart, NoGet, hubVars
  <2>2. 0 <= minted
    BY <1>u DEF RestTyped
  <2> QED BY <2>1, <2>2 DEF Minted, NoReconcile, NoRenewal
<1> QED BY <1>1, <1>2, <1>3, <1>4, <1>5, <1>6, <1>7, <1>8, <1>9, <1>10 DEF Next

LEMMA GrantedStep == Typed /\ Granted /\ [Next]_vars => Granted'
<1> SUFFICES ASSUME Typed, Granted, [Next]_vars PROVE Granted'
  OBVIOUS
<1>u. GetTyped /\ HubTyped
  BY DEF Typed
<1>1. CASE UNCHANGED get
  BY <1>1 DEF Granted
<1>2. ASSUME NEW g \in Get, NEW v \in pend, NEW lease \in Grants, GetLive(g, v, lease)
      PROVE  Granted'
  <2>1. /\ get'[g].mode = v.mode /\ (v.mode = "subscribe" => get'[g].lease = lease)
        /\ v.mode \in {"subscribe", "unsubscribe"}
        /\ \A h \in Get : h # g => get'[h] = get[h]
    BY <1>2, <1>u DEF GetLive, GetTyped, HubTyped
  <2> QED BY <2>1 DEF Granted
<1>3. ASSUME NEW g \in Get, NEW v \in pend, GetRemoved(g, v) PROVE Granted'
  <2>1. get'[g].mode = "unsubscribe" /\ \A h \in Get : h # g => get'[h] = get[h]
    BY <1>3, <1>u DEF GetRemoved, GetTyped
  <2> QED BY <2>1 DEF Granted
<1>4. ASSUME NEW g \in Get, Activate(g) \/ Answer(g) PROVE Granted'
  <2>1. \A h \in Get : \/ get'[h].stage = "idle"
                       \/ /\ get'[h].mode = get[h].mode /\ get'[h].lease = get[h].lease
                          /\ get[h].stage # "idle"
                       \/ get'[h] = get[h]
    BY <1>4, <1>u DEF Activate, Answer, NoGet, GetTyped
  <2> QED BY <2>1 DEF Granted
<1>5. CASE Restart
  BY <1>5 DEF Restart, NoGet, Granted
<1> QED BY <1>1, <1>2, <1>3, <1>4, <1>5
        DEF Next, vars, ChangeList, ReconcileStart, ReconcileSubscribe, ReconcileRefused,
            ReconcileInsert, ReconcileUnsubscribe, ReconcileRemove, ReconcileFinish, RenewExpire,
            RenewCollect, RenewSend, RenewMerge, GetUnknown, HubForgets, Tick

LEMMA LeavingStep ==
    Typed /\ Fits /\ Index /\ Minted /\ Leaving /\ [Next]_vars /\ ~Restart => Leaving'
<1> SUFFICES ASSUME Typed, Fits, Index, Minted, Leaving, [Next]_vars, ~Restart PROVE Leaving'
  OBVIOUS
<1> USE SubsAssumption
<1>u. RegTyped /\ RcTyped /\ RnTyped /\ GetTyped /\ HubTyped /\ RestTyped
  BY DEF Typed
<1>k. \A t \in asked : t \in Nat \ {0} /\ t <= minted
  BY <1>u DEF RestTyped, Token, Minted
<1>0. ASSUME TokensKept, UNCHANGED rc, UNCHANGED asked,
             \A v \in pend' : v.mode = "unsubscribe" => v \in pend,
             \A g \in Get : get'[g].stage # "idle" /\ get'[g].mode = "unsubscribe" =>
               get'[g].token \in asked
      PROVE  Leaving'
  BY <1>0 DEF Leaving, TokensKept
<1>1. CASE ReconcileStart
  <2>1. /\ rc'.stage = "change" /\ UNCHANGED <<reg, pend, get, asked>> /\ rc.stage = "none"
    BY <1>1, <1>u DEF ReconcileStart, RcTyped, registry, hubVars, history
  <2> QED BY <2>1 DEF Leaving
<1>2. CASE ReconcileSubscribe
  <2>1. /\ UNCHANGED <<reg, get, asked>>
        /\ rc'.removes = rc.removes /\ rc'.stage # "none"
    BY <1>2, <1>u DEF ReconcileSubscribe, RcTyped, registry, history
  <2>2. \A v \in pend' : v.mode = "unsubscribe" => v \in pend
    BY <1>2 DEF ReconcileSubscribe, Accepts, Refuses, Request
  <2> QED BY <2>1, <2>2 DEF Leaving
<1>3. CASE ReconcileRefused
  <2>1. /\ UNCHANGED <<get, asked, pend>>
        /\ rc'.removes = rc.removes /\ rc'.stage # "none"
    BY <1>3, <1>u DEF ReconcileRefused, RcTyped, hubVars, history
  <2>2. TokensKept
    BY <1>3, MergesAreQuiet DEF Quiet
  <2> QED BY <2>1, <2>2 DEF Leaving, TokensKept
<1>4. ASSUME NEW c \in Channel, ReconcileInsert(c) PROVE Leaving'
  <2>1. /\ UNCHANGED <<get, asked, pend>> /\ rc'.removes = rc.removes /\ rc'.stage # "none"
    BY <1>4, <1>u DEF ReconcileInsert, RcTyped, hubVars, history
  <2>2. /\ reg'[c].token = minted + 1 /\ minted \in Nat
        /\ \A d \in Channel : d # c => reg'[d] = reg[d]
    BY <1>4, <1>u DEF ReconcileInsert, RegTyped, NoSub, RestTyped
  <2>3. reg'[c].token \notin asked
    BY <1>k, <2>2
  <2> QED BY <2>1, <2>2, <2>3 DEF Leaving
<1>5. ASSUME NEW c \in Channel, ReconcileUnsubscribe(c) PROVE Leaving'
  <2>1. /\ UNCHANGED <<reg, get>> /\ rc'.removes = rc.removes /\ rc'.stage # "none"
        /\ c \in rc.removes
        /\ asked' = asked \union {reg[c].token}
    BY <1>5, <1>u DEF ReconcileUnsubscribe, RcTyped, registry
  <2>2. \A v \in pend' : v \in pend \/ v.token = reg[c].token
    BY <1>5 DEF ReconcileUnsubscribe, Refuses, Request
  <2>3. \A d \in Channel : reg[d].token = reg[c].token => d = c
    <3>1. reg[c].token \in Token
      BY <1>u, <2>1, LiveHasToken DEF Fits, Has, RegTyped, LiveSub
    <3> QED BY <3>1 DEF Index, IndexConsistent
  <2> QED BY <2>1, <2>2, <2>3 DEF Leaving
<1>6. CASE ReconcileRemove
  <2>1. /\ UNCHANGED <<get, asked, pend>> /\ rc'.removes = rc.removes \ {rc.chan}
        /\ rc'.stage # "none"
    BY <1>6, <1>u DEF ReconcileRemove, RcTyped, hubVars, history
  <2>2. reg'[rc.chan].token = 0 /\ \A d \in Channel : d # rc.chan => reg'[d] = reg[d]
    BY <1>6, <1>u DEF ReconcileRemove, RcTyped, RegTyped, NoSub
  <2>3. \A d \in Channel : reg'[d].token \in asked => d # rc.chan
    BY <1>k, <2>2
  <2> QED BY <2>1, <2>2, <2>3 DEF Leaving
<1>7. CASE ReconcileFinish
  <2>1. UNCHANGED <<reg, get, asked, pend>> /\ rc.removes = {} /\ rc'.removes = {}
    BY <1>7 DEF ReconcileFinish, NoReconcile, registry, hubVars, history
  <2> QED BY <2>1 DEF Leaving
<1>8. CASE RenewExpire \/ RenewMerge
  <2>1. UNCHANGED <<rc, get, asked, pend>>
    BY <1>8 DEF RenewExpire, RenewMerge, hubVars, history
  <2>2. TokensKept
    BY <1>8, ExpireIsQuiet, MergesAreQuiet DEF Quiet
  <2> QED BY <1>0, <2>1, <2>2 DEF Leaving
<1>9. CASE RenewCollect \/ ChangeList \/ HubForgets \/ Tick \/ UNCHANGED vars
  <2>1. UNCHANGED <<reg, rc, get, asked>> /\ pend' \subseteq pend
    BY <1>9 DEF RenewCollect, ChangeList, HubForgets, Tick, vars, registry, hubVars, history
  <2> QED BY <1>0, <2>1 DEF Leaving, TokensKept
<1>10. CASE RenewSend
  <2>1. UNCHANGED <<reg, rc, get, asked>>
    BY <1>10 DEF RenewSend, registry, history
  <2>2. \A v \in pend' : v.mode = "unsubscribe" => v \in pend
    BY <1>10 DEF RenewSend, Accepts, Refuses, Request
  <2> QED BY <1>0, <2>1, <2>2 DEF Leaving, TokensKept
<1>11. ASSUME NEW g \in Get, NEW v \in pend,
              \/ \E lease \in Grants : GetLive(g, v, lease)
              \/ GetRemoved(g, v) \/ GetUnknown(g, v)
       PROVE  Leaving'
  <2>1. UNCHANGED <<reg, rc, asked>> /\ pend' \subseteq pend
    BY <1>11 DEF GetLive, GetRemoved, GetUnknown, Asks, registry, history
  <2>2. \A h \in Get : get'[h] = get[h] \/ (get'[h].mode = v.mode /\ get'[h].token = v.token)
    BY <1>11, <1>u DEF GetLive, GetRemoved, GetUnknown, GetTyped
  <2> QED BY <1>0, <2>1, <2>2 DEF Leaving, TokensKept
<1>12. ASSUME NEW g \in Get, Activate(g) \/ Answer(g) PROVE Leaving'
  <2>1. UNCHANGED <<rc, asked, pend>>
    BY <1>12 DEF Activate, Answer, hubVars, history
  <2>2. TokensKept
    <3>1. CASE Activate(g)
      BY <3>1, ActivateIsQuiet DEF Quiet
    <3>2. CASE Answer(g)
      BY <3>2 DEF Answer, registry, TokensKept
    <3> QED BY <1>12, <3>1, <3>2
  <2>3. \A h \in Get : \/ get'[h].stage = "idle"
                       \/ /\ get'[h].mode = get[h].mode /\ get'[h].token = get[h].token
                          /\ get[h].stage # "idle"
                       \/ get'[h] = get[h]
    BY <1>12, <1>u DEF Activate, Answer, NoGet, GetTyped
  <2> QED BY <1>0, <2>1, <2>2, <2>3 DEF Leaving
<1> QED BY <1>1, <1>2, <1>3, <1>4, <1>5, <1>6, <1>7, <1>8, <1>9, <1>10, <1>11, <1>12 DEF Next

LEMMA PlacedStep ==
    Typed /\ Index /\ Minted /\ Placed /\ [Next]_vars /\ ~Restart => Placed'
<1> SUFFICES ASSUME Typed, Index, Minted, Placed, [Next]_vars, ~Restart PROVE Placed'
  OBVIOUS
<1> USE SubsAssumption
<1>u. RegTyped /\ GetTyped /\ HubTyped /\ RestTyped
  BY DEF Typed
<1>t. \A g \in Get : get[g].stage # "idle" => get[g].token \in Nat \ {0} /\ get[g].token <= minted
  BY <1>u DEF GetTyped, Token, Minted
<1>1. ASSUME \A g \in Get : get'[g] = get[g] \/ get'[g].stage # "activate" PROVE Placed'
  <2>1. CASE Quiet
    BY <1>1, <2>1 DEF Quiet, TokensKept, Placed
  <2>2. ASSUME NEW c \in Channel, ReconcileInsert(c) PROVE Placed'
    <3>1. /\ reg'[c].token = minted + 1 /\ minted \in Nat
          /\ \A d \in Channel : d # c => reg'[d] = reg[d]
      BY <2>2, <1>u DEF ReconcileInsert, RegTyped, NoSub, RestTyped
    <3>2. \A g \in Get : get[g].stage = "activate" => get[g].token # reg'[c].token
      BY <1>t, <3>1
    <3> QED BY <1>1, <3>1, <3>2 DEF Placed
  <2>3. CASE ReconcileRemove
    <3>1. reg'[rc.chan].token = 0 /\ \A d \in Channel : d # rc.chan => reg'[d] = reg[d]
      BY <2>3, <1>u DEF ReconcileRemove, Typed, RcTyped, RegTyped, NoSub
    <3>2. \A g \in Get : get[g].stage = "activate" => get[g].token # 0
      BY <1>t
    <3> QED BY <1>1, <3>1, <3>2 DEF Placed
  <2> QED BY <2>1, <2>2, <2>3, QuietSteps
<1>2. ASSUME NEW g \in Get, NEW v \in pend, NEW lease \in Grants, GetLive(g, v, lease)
      PROVE  Placed'
  <2>1. /\ reg' = reg /\ get'[g].token = v.token /\ get'[g].chan = byToken[v.token]
        /\ \A h \in Get : h # g => get'[h] = get[h]
    BY <1>2, <1>u DEF GetLive, registry, GetTyped
  <2>2. v.token \in Token
    BY <1>u DEF HubTyped
  <2>3. \A c \in Channel : reg[c].token = v.token => byToken[v.token] = c
    BY <2>2 DEF Index, IndexConsistent
  <2> QED BY <2>1, <2>3 DEF Placed
<1>3. ASSUME NEW g \in Get, NEW v \in pend, GetRemoved(g, v) \/ GetUnknown(g, v) PROVE Placed'
  <2>1. \A h \in Get : get'[h] = get[h] \/ get'[h].stage # "activate"
    BY <1>3, <1>u DEF GetRemoved, GetUnknown, GetTyped
  <2> QED BY <1>1, <2>1
<1>4. ASSUME NEW g \in Get, Activate(g) \/ Answer(g) PROVE Placed'
  <2>1. \A h \in Get : get'[h] = get[h] \/ get'[h].stage # "activate"
    BY <1>4, <1>u DEF Activate, Answer, NoGet, GetTyped
  <2> QED BY <1>1, <2>1
<1>5. CASE UNCHANGED get
  BY <1>1, <1>5
<1> QED BY <1>2, <1>3, <1>4, <1>5
        DEF Next, vars, ChangeList, ReconcileStart, ReconcileSubscribe, ReconcileRefused,
            ReconcileInsert, ReconcileUnsubscribe, ReconcileRemove, ReconcileFinish, RenewExpire,
            RenewCollect, RenewSend, RenewMerge, HubForgets, Tick

\* What a thread took for active still is after every other step.
LEMMA CurrentKept ==
    ASSUME Typed, Index, [Next]_vars, ~Restart, ~RenewExpire,
           NEW c \in Channel, NEW s \in LiveSub, s.token <= minted, Current(c, s)
    PROVE  Current(c, s)'
<1> SUFFICES ASSUME s.state = "active", reg'[c].token = s.token
             PROVE  reg'[c].state = "active"
  BY DEF Current
<1>u. RegTyped /\ RcTyped /\ RestTyped
  BY DEF Typed
<1>t. s.token \in Nat \ {0}
  BY SubsAssumption DEF LiveSub, Token
<1>1. ASSUME reg[c].token = s.token PROVE reg'[c].state = "active"
  BY <1>1, StaysActive DEF Current
<1>2. CASE Quiet
  BY <1>1, <1>2 DEF Quiet, TokensKept
<1>3. ASSUME NEW d \in Channel, ReconcileInsert(d) PROVE reg'[c].state = "active"
  <2>1. /\ reg'[d].token = minted + 1 /\ minted \in Nat
        /\ \A e \in Channel : e # d => reg'[e] = reg[e]
    BY <1>3, <1>u DEF ReconcileInsert, RegTyped, NoSub, RestTyped
  <2>2. c # d
    BY <1>t, <2>1
  <2> QED BY <1>1, <2>1, <2>2
<1>4. CASE ReconcileRemove
  <2>1. reg'[rc.chan].token = 0 /\ \A d \in Channel : d # rc.chan => reg'[d] = reg[d]
    BY <1>4, <1>u DEF ReconcileRemove, RcTyped, RegTyped, NoSub
  <2> QED BY <1>1, <1>t, <2>1
<1> QED BY <1>2, <1>3, <1>4, QuietSteps

LEMMA CopiesStep ==
    Typed /\ Index /\ Minted /\ Copies /\ [Next]_vars /\ ~Restart => Copies'
<1> SUFFICES ASSUME Typed, Index, Minted, Copies, [Next]_vars, ~Restart PROVE Copies'
  OBVIOUS
<1>u. RegTyped /\ RnTyped
  BY DEF Typed
<1>d. \A d \in rn.todo : d[1] \in Channel /\ d[2] \in LiveSub /\ d[2].token <= minted
  BY <1>u DEF RnTyped, Minted
<1>1. CASE UNCHANGED rn /\ ~RenewExpire
  <2>1. rn.stage = "merge" => Current(rn.chan, rn.sub)'
    <3> SUFFICES ASSUME rn.stage = "merge" PROVE Current(rn.chan, rn.sub)'
      OBVIOUS
    <3>1. PICK c \in Channel, s \in LiveSub : c = rn.chan /\ s = rn.sub
      BY <1>u DEF RnTyped
    <3>2. s.token <= minted /\ Current(c, s)
      BY <3>1 DEF Minted, Copies
    <3>3. Current(c, s)'
      BY <1>1, <3>2, CurrentKept
    <3> QED BY <1>1, <3>1, <3>3
  <2>2. \A d \in rn.todo : Current(d[1], d[2])'
    BY <1>1, <1>d, CurrentKept DEF Copies
  <2> QED BY <1>1, <2>1, <2>2 DEF Copies, Current
<1>2. CASE RenewExpire
  <2>1. rn.todo = {} /\ rn'.todo = rn.todo /\ rn'.stage = "collect"
    BY <1>2, <1>u DEF RenewExpire, Copies, RnTyped
  <2> QED BY <2>1 DEF Copies
<1>3. CASE RenewCollect
  <2>1. /\ reg' = reg /\ rn'.stage \in {"none", "send"} /\ (rn'.stage = "none" => rn'.todo = {})
        /\ \A d \in rn'.todo : \E c \in Channel : d = <<c, reg[c]>>
    BY <1>3, <1>u DEF RenewCollect, registry, RnTyped
  <2> QED BY <2>1 DEF Copies, Current
<1>4. CASE RenewSend
  <2> PICK d \in rn.todo, verdict \in {"accepted", "refused"} :
         rn' = [stage |-> "merge", at |-> 0, todo |-> rn.todo \ {d}, chan |-> d[1],
                sub |-> [d[2] EXCEPT !.sent = now], verdict |-> verdict]
    BY <1>4 DEF RenewSend
  <2>1. /\ rn'.stage = "merge" /\ rn'.chan = d[1] /\ rn'.todo \subseteq rn.todo
        /\ rn'.sub.token = d[2].token /\ rn'.sub.state = d[2].state
    BY <1>d DEF LiveSub
  <2>2. reg' = reg
    BY <1>4 DEF RenewSend, registry
  <2> QED BY <2>1, <2>2 DEF Copies, Current
<1>5. CASE RenewMerge
  <2>1. /\ rn'.todo = rn.todo /\ rn'.stage \in {"none", "send"}
        /\ rn'.stage = "none" => rn.todo = {}
    BY <1>5 DEF RenewMerge, NoRenewal
  <2>2. ~RenewExpire
    BY <1>5 DEF RenewMerge, RenewExpire
  <2>3. \A d \in rn.todo : Current(d[1], d[2])'
    BY <1>d, <2>2, CurrentKept DEF Copies
  <2> QED BY <2>1, <2>3 DEF Copies, Current
<1>6. ~(RenewExpire \/ RenewCollect \/ RenewSend \/ RenewMerge) => UNCHANGED rn
  BY DEF Next, vars, ChangeList, ReconcileStart, ReconcileSubscribe, ReconcileRefused,
         ReconcileInsert, ReconcileUnsubscribe, ReconcileRemove, ReconcileFinish,
         GetLive, GetRemoved, GetUnknown, Activate, Answer, HubForgets, Tick
<1> QED BY <1>1, <1>2, <1>3, <1>4, <1>5, <1>6

\* A subscription is active because it was, or by a GET of its channel.
LEMMA ActiveComesFrom ==
    ASSUME Typed, Copies, [Next]_vars, ~Restart, NEW c \in Channel, reg'[c].state = "active"
    PROVE  \/ /\ reg[c].state = "active" /\ reg'[c].token = reg[c].token
              /\ reg'[c].expires = reg[c].expires
           \/ \E g \in Get : Activate(g) /\ get[g].chan = c /\ Has(c)
<1> USE SubsAssumption
<1>u. RegTyped /\ RcTyped /\ RnTyped /\ GetTyped /\ RestTyped
  BY DEF Typed
<1>m. ASSUME NEW d \in Channel, NEW s \in LiveSub, MergeAttempt(d, s), Current(d, s)
      PROVE  /\ reg[c].state = "active" /\ reg'[c].token = reg[c].token
             /\ reg'[c].expires = reg[c].expires
  <2>1. CASE d # c
    <3>1. reg'[c] = reg[c]
      BY <1>m, <1>u, <2>1, MergeForms
    <3> QED BY <3>1
  <2>2. CASE d = c
    <3>1. \/ reg' = reg
          \/ /\ reg[c].token = s.token
             /\ reg'[c] = IF reg[c].state = "active"
                            THEN [s EXCEPT !.state = "active", !.expires = reg[c].expires]
                            ELSE s
      BY <1>m, <1>u, <2>2, MergeForms
    <3>2. CASE reg' = reg
      BY <3>2
    <3>3. CASE reg' # reg
      <4>1. reg[c].state = "active"
        BY <1>m, <2>2, <3>1, <3>3 DEF Current
      <4>2. reg'[c] = [s EXCEPT !.state = "active", !.expires = reg[c].expires]
            /\ reg[c].token = s.token
        BY <3>1, <3>3, <4>1
      <4> QED BY <4>1, <4>2 DEF LiveSub
    <3> QED BY <3>2, <3>3
  <2> QED BY <2>1, <2>2
<1>1. CASE reg' = reg
  BY <1>1
<1>2. ASSUME NEW d \in Channel, ReconcileInsert(d)
      PROVE  reg[c].state = "active" /\ reg'[c] = reg[c]
  <2>1. reg'[d].state = "pending" /\ \A e \in Channel : e # d => reg'[e] = reg[e]
    BY <1>2, <1>u DEF ReconcileInsert, RegTyped, NoSub
  <2> QED BY <2>1
<1>3. CASE ReconcileRefused
  <2> PICK b \in Backoffs :
        MergeAttempt(rc.chan, [rc.sub EXCEPT !.state = "failed", !.next = now + b])
    BY <1>3 DEF ReconcileRefused
  <2>1. rc.chan \in Channel /\ rc.sub \in LiveSub
    BY <1>3, <1>u DEF ReconcileRefused, RcTyped
  <2>2. now + b \in Nat
    BY <1>u DEF RestTyped
  <2> PICK s : s = [rc.sub EXCEPT !.state = "failed", !.next = now + b]
    OBVIOUS
  <2>3. s \in LiveSub /\ s.state = "failed"
    <3>1. [rc.sub EXCEPT !.state = "failed", !.next = now + b] \in LiveSub
      BY <2>1, <2>2, SubForms
    <3> QED BY <2>1, <3>1 DEF LiveSub
  <2>4. Current(rc.chan, s)
    BY <2>3 DEF Current
  <2> QED BY <1>m, <2>1, <2>3, <2>4
<1>4. CASE RenewMerge
  <2>1. rn.chan \in Channel /\ rn.sub \in LiveSub /\ Current(rn.chan, rn.sub)
    BY <1>4, <1>u DEF RenewMerge, RnTyped, Copies
  <2>2. PICK s \in LiveSub : /\ MergeAttempt(rn.chan, s) /\ s.token = rn.sub.token
                             /\ s.state = "active" => rn.sub.state = "active"
    <3> PICK b \in Backoffs :
         MergeAttempt(rn.chan,
           [rn.sub EXCEPT !.state = IF @ = "active" THEN @
                                    ELSE IF rn.verdict = "accepted" THEN "pending" ELSE "failed",
                          !.next = now + (IF rn.verdict = "accepted" THEN Cooldown ELSE b)])
      BY <1>4 DEF RenewMerge
    <3> PICK st \in {"active", "pending", "failed"}, n \in Nat :
         /\ st = (IF rn.sub.state = "active" THEN rn.sub.state
                  ELSE IF rn.verdict = "accepted" THEN "pending" ELSE "failed")
         /\ n = now + (IF rn.verdict = "accepted" THEN Cooldown ELSE b)
      BY <1>u DEF RestTyped
    <3>1. MergeAttempt(rn.chan, [rn.sub EXCEPT !.state = st, !.next = n])
      BY <2>1
    <3>2. [rn.sub EXCEPT !.state = st, !.next = n] \in LiveSub
      BY <2>1, SubForms
    <3>3. /\ [rn.sub EXCEPT !.state = st, !.next = n].token = rn.sub.token
          /\ [rn.sub EXCEPT !.state = st, !.next = n].state = st
      BY <2>1 DEF LiveSub
    <3> QED BY <3>1, <3>2, <3>3
  <2>3. Current(rn.chan, s)
    BY <2>1, <2>2 DEF Current
  <2> QED BY <1>m, <2>1, <2>2, <2>3
<1>5. CASE ReconcileRemove
  <2>1. reg'[rc.chan].state = "none" /\ \A d \in Channel : d # rc.chan => reg'[d] = reg[d]
    BY <1>5, <1>u DEF ReconcileRemove, RcTyped, RegTyped, NoSub
  <2> QED BY <2>1
<1>6. CASE RenewExpire
  <2>1. reg'[c] = Demoted(reg[c])
    BY <1>6 DEF RenewExpire
  <2>2. reg[c] \in LiveSub \/ reg[c] = NoSub
    BY <1>u DEF RegTyped, AnySub
  <2>3. Demoted(reg[c]) = reg[c]
    <3> SUFFICES ASSUME reg[c].state = "active" /\ LeaseExpired(reg[c]) PROVE FALSE
      BY DEF Demoted
    <3>1. reg'[c] = [reg[c] EXCEPT !.state = "expired"]
      BY <2>1 DEF Demoted
    <3> QED BY <2>2, <3>1 DEF LiveSub, NoSub
  <2> QED BY <2>1, <2>3
<1>7. ASSUME NEW g \in Get, Activate(g)
      PROVE  (reg[c].state = "active" /\ reg'[c] = reg[c]) \/ (get[g].chan = c /\ Has(c))
  <2> PICK d \in Channel : d = get[g].chan
    BY <1>7, <1>u DEF Activate, GetTyped
  <2>1. CASE d = c
    <3>1. ~Has(c) => reg' = reg
      BY <1>7, <2>1 DEF Activate
    <3> QED BY <2>1, <3>1
  <2>2. CASE d # c
    <3>1. reg' = reg \/ reg' = Activated(d, Until(get[g].lease))
      BY <1>7 DEF Activate
    <3>2. reg'[c] = reg[c]
      BY <1>u, <2>2, <3>1 DEF Activated, RegTyped
    <3> QED BY <3>2
  <2> QED BY <2>1, <2>2
<1> QED BY <1>1, <1>2, <1>3, <1>4, <1>5, <1>6, <1>7
        DEF Next, vars, registry, ChangeList, ReconcileStart, ReconcileSubscribe,
            ReconcileUnsubscribe, ReconcileFinish, RenewCollect, RenewSend, GetLive, GetRemoved,
            GetUnknown, Answer, HubForgets, Tick

LEMMA HubSteps == [Next]_vars => hub' = hub \/ \E g \in Get : Answer(g)
<1> SUFFICES ASSUME [Next]_vars PROVE hub' = hub \/ \E g \in Get : Answer(g)
  OBVIOUS
<1>1. CASE \/ ChangeList \/ ReconcileStart \/ ReconcileSubscribe \/ ReconcileRefused
           \/ \E c \in Channel : ReconcileInsert(c) \/ ReconcileUnsubscribe(c)
           \/ ReconcileRemove \/ ReconcileFinish
           \/ RenewExpire \/ RenewCollect \/ RenewSend \/ RenewMerge
           \/ HubForgets \/ Tick \/ Restart \/ UNCHANGED vars
  BY <1>1 DEF vars, hubVars, ChangeList, ReconcileStart, ReconcileSubscribe, ReconcileRefused,
              ReconcileInsert, ReconcileUnsubscribe, ReconcileRemove, ReconcileFinish,
              RenewExpire, RenewCollect, RenewSend, RenewMerge, HubForgets, Tick, Restart
<1>2. CASE \E g \in Get, v \in pend : \/ \E lease \in Grants : GetLive(g, v, lease)
                                      \/ GetRemoved(g, v) \/ GetUnknown(g, v)
  BY <1>2 DEF GetLive, GetRemoved, GetUnknown
<1>3. ASSUME NEW g \in Get, Activate(g) PROVE hub' = hub
  BY <1>3 DEF Activate, hubVars
<1> QED BY <1>1, <1>2, <1>3 DEF Next

\* Only Answer ends what a GET has agreed to, and only Activate begins it.
LEMMA AnswersSteps ==
    ASSUME Typed, [Next]_vars, ~Restart, NEW g \in Get, NEW t \in Token
    PROVE  /\ AnswersFor(g, t) => (AnswersFor(g, t)' /\ get'[g].lease = get[g].lease) \/ Answer(g)
           /\ AnswersFor(g, t)' =>
                \/ AnswersFor(g, t) /\ get'[g].lease = get[g].lease
                \/ /\ Activate(g) /\ get[g].token = t /\ get'[g].lease = get[g].lease
<1>u. GetTyped
  BY DEF Typed
<1>1. CASE UNCHANGED get
  BY <1>1 DEF AnswersFor
<1>2. ASSUME NEW h \in Get, NEW v \in pend,
             \/ \E lease \in Grants : GetLive(h, v, lease)
             \/ GetRemoved(h, v) \/ GetUnknown(h, v)
      PROVE  /\ AnswersFor(g, t) => get'[g] = get[g]
             /\ AnswersFor(g, t)' => get'[g] = get[g]
  <2>1. \/ get' = get
        \/ /\ get[h].stage = "idle" /\ \A k \in Get : k # h => get'[k] = get[k]
           /\ get'[h].stage # "answer" \/ get'[h].mode # "subscribe"
    <3>1. ASSUME NEW lease \in Grants, GetLive(h, v, lease)
          PROVE  /\ get[h].stage = "idle" /\ \A k \in Get : k # h => get'[k] = get[k]
                 /\ get'[h].stage # "answer" \/ get'[h].mode # "subscribe"
      BY <1>u, <3>1 DEF GetLive, Asks, GetTyped
    <3>2. CASE GetRemoved(h, v)
      BY <1>u, <3>2 DEF GetRemoved, Asks, GetTyped
    <3>3. CASE GetUnknown(h, v)
      BY <3>3 DEF GetUnknown
    <3> QED BY <1>2, <3>1, <3>2, <3>3
  <2> QED BY <2>1 DEF AnswersFor
<1>3. ASSUME NEW h \in Get, Activate(h)
      PROVE  /\ AnswersFor(g, t) => get'[g] = get[g]
             /\ AnswersFor(g, t)' =>
                  get'[g] = get[g] \/ (h = g /\ get[g].token = t /\ get'[g].lease = get[g].lease)
  <2>1. /\ get[h].stage = "activate"
        /\ \A k \in Get : k # h => get'[k] = get[k]
        /\ get'[h].token = get[h].token /\ get'[h].lease = get[h].lease
    BY <1>3, <1>u DEF Activate, GetTyped
  <2> QED BY <2>1 DEF AnswersFor
<1>4. ASSUME NEW h \in Get, Answer(h)
      PROVE  /\ AnswersFor(g, t) => get'[g] = get[g] \/ h = g
             /\ AnswersFor(g, t)' => get'[g] = get[g]
  <2>1. get'[h].stage = "idle" /\ \A k \in Get : k # h => get'[k] = get[k]
    BY <1>4, <1>u DEF Answer, NoGet, GetTyped
  <2> QED BY <2>1 DEF AnswersFor
<1>5. \/ UNCHANGED get
      \/ \E h \in Get, v \in pend : \/ \E lease \in Grants : GetLive(h, v, lease)
                                  \/ GetRemoved(h, v) \/ GetUnknown(h, v)
      \/ \E h \in Get : Activate(h) \/ Answer(h)
  <2>1. CASE \/ ChangeList \/ ReconcileStart \/ ReconcileSubscribe \/ ReconcileRefused
             \/ \E c \in Channel : ReconcileInsert(c) \/ ReconcileUnsubscribe(c)
             \/ ReconcileRemove \/ ReconcileFinish
             \/ RenewExpire \/ RenewCollect \/ RenewSend \/ RenewMerge
             \/ HubForgets \/ Tick \/ UNCHANGED vars
    BY <2>1 DEF vars, ChangeList, ReconcileStart, ReconcileSubscribe, ReconcileRefused,
                ReconcileInsert, ReconcileUnsubscribe, ReconcileRemove, ReconcileFinish,
                RenewExpire, RenewCollect, RenewSend, RenewMerge, HubForgets, Tick
  <2>2. CASE \E h \in Get, v \in pend : \/ \E lease \in Grants : GetLive(h, v, lease)
                                        \/ GetRemoved(h, v) \/ GetUnknown(h, v)
    BY <2>2
  <2>3. CASE \E h \in Get : Activate(h) \/ Answer(h)
    BY <2>3
  <2> QED BY <2>1, <2>2, <2>3 DEF Next
<1> QED BY <1>1, <1>2, <1>3, <1>4, <1>5 DEF AnswersFor

\* A removal that has begun goes on until the channel is gone.
LEMMA RemovesSteps ==
    ASSUME Typed, Leaving, [Next]_vars, ~Restart, NEW c \in Channel, c \in rc.removes
    PROVE  c \in rc'.removes \/ reg'[c] = NoSub
<1>u. RegTyped /\ RcTyped
  BY DEF Typed
<1>1. CASE ReconcileStart \/ ReconcileFinish
  BY <1>1 DEF ReconcileStart, ReconcileFinish, Leaving
<1>2. CASE ReconcileRemove
  BY <1>2, <1>u DEF ReconcileRemove, RcTyped, RegTyped
<1>3. CASE ReconcileSubscribe \/ ReconcileRefused
  BY <1>3, <1>u DEF ReconcileSubscribe, ReconcileRefused, RcTyped
<1>4. ASSUME NEW d \in Channel, ReconcileInsert(d) \/ ReconcileUnsubscribe(d)
      PROVE  rc'.removes = rc.removes
  BY <1>4, <1>u DEF ReconcileInsert, ReconcileUnsubscribe, RcTyped
<1> QED BY <1>1, <1>2, <1>3, <1>4
        DEF Next, vars, ChangeList, RenewExpire, RenewCollect, RenewSend, RenewMerge, GetLive,
            GetRemoved, GetUnknown, Activate, Answer, HubForgets, Tick

\* Another GET for the token agrees to no less, or there is none.
LEMMA OtherGets ==
    ASSUME Typed, Granted, OneGet \/ SteadyGrants, NEW g \in Get, NEW h \in Get,
           get[g].stage = "activate",
           h = g \/ (get[h].stage = "answer" /\ get[h].mode = "subscribe")
    PROVE  Until(get[g].lease) <= now + get[h].lease
<1>u. GetTyped /\ RestTyped
  BY DEF Typed
<1> PICK l \in Nat, m \in Nat, n \in Nat : l = get[g].lease /\ m = get[h].lease /\ n = now
  BY <1>u DEF GetTyped, RestTyped
<1>l. Lease \in Nat
  BY SubsAssumption
<1>1. LesserOf(l, Lease) <= m
  <2>1. CASE h = g
    BY <1>l, <2>1 DEF LesserOf
  <2>2. CASE h # g
    <3>1. l \in Grants /\ m \in Grants
      BY <1>u, <2>2 DEF Granted, GetTyped
    <3> QED BY <2>2, <3>1 DEF OneGet, SteadyGrants
  <2> QED BY <2>1, <2>2
<1>2. LesserOf(l, Lease) \in Nat
  BY <1>l DEF LesserOf
<1>3. n + LesserOf(l, Lease) <= n + m
  BY <1>1, <1>2
<1> QED BY <1>3 DEF Until

LEMMA ActiveHasToken ==
    ASSUME RegTyped, NEW c \in Channel, reg[c].state = "active"
    PROVE  reg[c] \in LiveSub /\ reg[c].token \in Token /\ reg[c].expires \in Nat
BY DEF RegTyped, AnySub, LiveSub, NoSub

\* The subscription a GET has just activated.
LEMMA ActivatedIsBacked ==
    ASSUME Typed, Index, Granted, Placed, OneGet \/ SteadyGrants, [Next]_vars, ~Restart,
           OwnActivation, NEW c \in Channel, NEW g \in Get,
           Activate(g), get[g].chan = c, Has(c)
    PROVE  /\ AnswersFor(g, reg[c].token)'
           /\ \A h \in Get : AnswersFor(h, reg[c].token)' => reg'[c].expires <= now' + get'[h].lease
<1>u. RegTyped /\ GetTyped /\ RestTyped
  BY DEF Typed
<1>1. /\ reg' = Activated(c, Until(get[g].lease)) /\ now' = now
      /\ get[g].stage = "activate" /\ get' = [get EXCEPT ![g].stage = "answer"]
  BY DEF Activate
<1>2. /\ get'[g].stage = "answer" /\ get'[g].mode = "subscribe" /\ get'[g].token = get[g].token
      /\ get'[g].lease = get[g].lease /\ \A h \in Get : h # g => get'[h] = get[h]
  BY <1>1, <1>u DEF GetTyped
<1>3. get[g].token \in Token
  BY <1>1, <1>u DEF GetTyped
<1>4. reg[c].token = get[g].token
  <2>1. Live(get[g].token)
    BY <1>1, <1>2 DEF OwnActivation
  <2> PICK d \in Channel : d = byToken[get[g].token]
    BY <1>3, <1>u, <2>1 DEF Live, RegTyped
  <2>2. reg[d].token = get[g].token
    BY <1>3 DEF Index, IndexConsistent
  <2>3. d = c
    BY <1>1, <2>2 DEF Placed
  <2> QED BY <2>2, <2>3
<1>5. reg'[c].token = get[g].token /\ reg'[c].expires = Until(get[g].lease)
  <2>1. reg[c] \in LiveSub
    BY <1>u, LiveHasToken DEF Has, RegTyped
  <2> QED BY <1>1, <1>4, <1>u, <2>1 DEF Activated, RegTyped, LiveSub
<1>6. ASSUME NEW h \in Get, AnswersFor(h, reg[c].token)'
      PROVE  reg'[c].expires <= now' + get'[h].lease
  <2>1. h = g \/ (get[h].stage = "answer" /\ get[h].mode = "subscribe")
    BY <1>2, <1>6 DEF AnswersFor
  <2>2. Until(get[g].lease) <= now + get[h].lease
    BY <1>1, <2>1, OtherGets
  <2> QED BY <1>1, <1>2, <1>5, <2>2
<1> QED BY <1>2, <1>5, <1>6 DEF AnswersFor

LEMMA BackedStep ==
    ASSUME Typed, Index, BackedInv, OneGet \/ SteadyGrants, [Next]_vars, ~Restart, OwnActivation
    PROVE  Backed'
<1> USE SubsAssumption
<1>u. RegTyped /\ GetTyped /\ HubTyped /\ RestTyped
  BY DEF Typed
<1>i. Backed /\ Leaving /\ Minted /\ Placed /\ Granted /\ Copies
  BY DEF BackedInv
<1>n. now \in Nat /\ now' \in Nat /\ now <= now'
  BY <1>u, ClockSteps DEF RestTyped
<1> SUFFICES ASSUME NEW c \in Channel, reg'[c].state = "active"
             PROVE  /\ \/ c \in rc'.removes
                       \/ reg'[c].expires <= hub'[reg'[c].token]
                       \/ \E g \in Get : AnswersFor(g, reg[c].token)'
                    /\ \A g \in Get : AnswersFor(g, reg[c].token)' =>
                                        reg'[c].expires <= now' + get'[g].lease
  BY DEF Backed, AnswersFor
<1>1. CASE \E g \in Get : Activate(g) /\ get[g].chan = c /\ Has(c)
  BY <1>1, <1>i, ActivatedIsBacked
<1>2. CASE ~\E g \in Get : Activate(g) /\ get[g].chan = c /\ Has(c)
  <2>1. /\ reg[c].state = "active" /\ reg'[c].token = reg[c].token
        /\ reg'[c].expires = reg[c].expires
    BY <1>2, <1>i, ActiveComesFrom
  <2> PICK t \in Token, e \in Nat : t = reg[c].token /\ e = reg[c].expires
    BY <1>u, <2>1, ActiveHasToken
  <2>2. /\ \/ c \in rc.removes
           \/ e <= hub[t]
           \/ \E g \in Get : AnswersFor(g, t)
        /\ \A g \in Get : AnswersFor(g, t) => e <= now + get[g].lease
    BY <1>i, <2>1 DEF Backed
  <2>3. ASSUME c \in rc.removes PROVE c \in rc'.removes
    BY <1>i, <2>1, <2>3, RemovesSteps, ActiveHasToken DEF NoSub
  <2>4. ASSUME NEW g \in Get, Answer(g), get[g].token = t
        PROVE  c \in rc'.removes \/ e <= hub'[t]
    <3>1. hub'[t] = IF get[g].mode = "subscribe" THEN now + get[g].lease ELSE 0
      BY <1>u, <2>4 DEF Answer, HubTyped
    <3>2. CASE get[g].mode = "subscribe"
      BY <2>2, <2>4, <3>1, <3>2 DEF Answer, AnswersFor
    <3>3. CASE get[g].mode = "unsubscribe"
      <4>1. t \in asked
        BY <1>i, <2>4, <3>3 DEF Leaving, Answer
      <4> QED BY <1>i, <2>3, <4>1 DEF Leaving
    <3>4. get[g].mode \in {"subscribe", "unsubscribe"}
      BY <1>u, <1>i, <2>4 DEF Granted, Answer
    <3> QED BY <3>2, <3>3, <3>4
  <2>5. ASSUME NEW g \in Get, Answer(g), get[g].token # t PROVE hub'[t] = hub[t]
    BY <1>u, <2>5 DEF Answer, HubTyped, GetTyped
  <2>6. c \in rc'.removes \/ e <= hub'[t] \/ \E g \in Get : AnswersFor(g, t)'
    <3>1. CASE c \in rc.removes
      BY <2>3, <3>1
    <3>2. CASE e <= hub[t]
      BY <2>4, <2>5, <3>2, HubSteps
    <3>3. ASSUME NEW g \in Get, AnswersFor(g, t)
          PROVE  c \in rc'.removes \/ e <= hub'[t] \/ AnswersFor(g, t)'
      <4>1. AnswersFor(g, t)' \/ Answer(g)
        BY <3>3, AnswersSteps
      <4> QED BY <2>4, <3>3, <4>1 DEF AnswersFor
    <3> QED BY <2>2, <3>1, <3>2, <3>3
  <2>7. ASSUME NEW g \in Get, AnswersFor(g, t)' PROVE e <= now' + get'[g].lease
    <3>1. get[g].lease \in Nat
      BY <1>u DEF GetTyped
    <3>2. AnswersFor(g, t) /\ get'[g].lease = get[g].lease
      <4>1. CASE Activate(g) /\ get[g].token = t
        <5>1. get[g].chan = c /\ Has(c)
          BY <1>i, <4>1 DEF Placed, Activate, Has, Token
        <5> QED BY <1>2, <4>1, <5>1
      <4> QED BY <2>7, <4>1, AnswersSteps
    <3>3. e <= now + get[g].lease
      BY <2>2, <3>2
    <3> QED BY <1>n, <3>1, <3>2, <3>3
  <2> QED BY <2>1, <2>6, <2>7
<1> QED BY <1>1, <1>2

DeliveringInv == Typed /\ Fits /\ Index /\ AllFine(-1) /\ Counted /\ BackedInv

LEMMA DeliveringInit == Init => DeliveringInv
<1> SUFFICES ASSUME Init PROVE AllFine(-1) /\ Counted /\ BackedInv
  BY TypedInit, IndexInit DEF DeliveringInv
<1>1. AllFine(-1) /\ Counted
  BY BoundedInit
<1>2. /\ reg = [c \in Channel |-> NoSub] /\ asked = {} /\ pend = {} /\ minted = 0
      /\ rc = NoReconcile /\ rn = NoRenewal /\ get = [g \in Get |-> NoGet]
  BY DEF Init
<1>3. \A c \in Channel : reg[c].state = "none" /\ reg[c].token = 0
  BY <1>2 DEF NoSub
<1>4. \A g \in Get : get[g].stage = "idle" /\ get[g].token = 0
  BY <1>2 DEF NoGet
<1>5. Backed /\ Leaving /\ Placed /\ Granted
  BY <1>2, <1>3, <1>4 DEF Backed, Leaving, Placed, Granted, NoReconcile
<1>6. Minted /\ Copies
  BY <1>2, <1>4 DEF Minted, Copies, NoReconcile, NoRenewal
<1> QED BY <1>1, <1>5, <1>6 DEF BackedInv

LEMMA DeliveringStep ==
    ASSUME MaxCrashes = 0, OneGet \/ SteadyGrants, DeliveringInv, [Next]_vars,
           [OwnActivation]_vars
    PROVE  DeliveringInv'
<1> USE DEF DeliveringInv
<1>1. Typed' /\ Fits' /\ Index' /\ Counted'
  BY TypedStep, FitsStep, IndexStep, CountedStep
<1>2. Longest(-1)
  BY DEF Longest
<1>3. AllFine(-1)'
  BY <1>1, <1>2, FineStep
<1>4. ~Restart
  BY DEF Restart, Counted
<1>5. OwnActivation
  BY DEF OwnActivation, vars
<1>6. Leaving' /\ Minted' /\ Placed' /\ Granted' /\ Copies'
  BY <1>4, LeavingStep, MintedStep, PlacedStep, GrantedStep, CopiesStep DEF BackedInv
<1>7. Backed'
  BY <1>4, <1>5, BackedStep
<1> QED BY <1>1, <1>3, <1>6, <1>7 DEF BackedInv

LEMMA DeliveringHolds == DeliveringInv => LiveIsDelivering
<1> SUFFICES ASSUME DeliveringInv, NEW c \in Channel, Health(reg[c]) = "active", c \notin rc.removes
             PROVE  \/ hub[reg[c].token] > now
                    \/ \E g \in Get : /\ get[g].stage = "answer" /\ get[g].token = reg[c].token
                                      /\ get[g].mode = "subscribe"
  BY DEF LiveIsDelivering
<1>1. reg[c].state = "active" /\ ~LeaseExpired(reg[c])
  BY DEF Health
<1>2. reg[c].token \in Token /\ reg[c].expires \in Nat
  BY <1>1, ActiveHasToken DEF DeliveringInv, Typed
<1>3. hub[reg[c].token] \in Nat /\ now \in Nat
  BY <1>2 DEF DeliveringInv, Typed, HubTyped, RestTyped
<1>4. reg[c].expires > 0
  BY <1>1 DEF DeliveringInv, AllFine, Fine
<1>5. now < reg[c].expires
  BY <1>1, <1>2, <1>3, <1>4 DEF LeaseExpired
<1>6. \/ reg[c].expires <= hub[reg[c].token]
      \/ \E g \in Get : AnswersFor(g, reg[c].token)
  BY <1>1 DEF DeliveringInv, BackedInv, Backed
<1> QED BY <1>2, <1>3, <1>5, <1>6 DEF AnswersFor

\* A subscription that counts as active is one the hub delivers to, or is about
\* to: as long as the process does not crash between saving an activation and
\* answering the hub, no GET activates the successor of its subscription, and
\* two GETs at once do not end with a shorter lease than the one on record
\* (renew.rs:247-258, callback.rs:95-115).
THEOREM LiveIsDeliveringAlways ==
    ASSUME MaxCrashes = 0, OneGet \/ SteadyGrants
    PROVE  Spec /\ [][OwnActivation]_vars => []LiveIsDelivering
<1>1. DeliveringInv /\ [Next]_vars /\ [OwnActivation]_vars => DeliveringInv'
  BY DeliveringStep
<1> QED BY <1>1, DeliveringInit, DeliveringHolds, PTL DEF Spec
=============================================================================
