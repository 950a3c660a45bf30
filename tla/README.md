# yt-websub, in TLA+

A verification development of yt-websub, the relay between YouTube's WebSub hub
and streamarchiver. Paths below are those of the repository (`src/store.rs` and
so on). `PROJECT.json` names, for every definition that models code, the lines it
stands for.

## The system

One process. A pool of HTTP workers (`main.rs:89-100`) takes requests from a
vendored `tiny_http`, and one renewal thread (`renew.rs:356`) wakes every minute.
They share an `App` of four mutexes: the event store, the subscription registry,
the resolve cache, and `reconcile_lock`. The rule of the code is that no network
call is made under the first three; `reconcile_lock` is held across a whole
reconcile, network calls included. `panic = "abort"`: a panic is a crash, and
systemd restarts the process.

| component | state | operations | correct when |
|---|---|---|---|
| event store (`store.rs`) | `events.log`, `ack.txt`; next seq, window of recent events, seen keys, ack | open, append, poll, ack, compact | what append returned Ok for is kept until acked or too old; a seq is never reused; a poll skips nothing; nothing is suppressed that is not in the window |
| channel list (`api.rs`, `util.rs`, `renew.rs`) | `channels.txt`, its temporary, `resolve.cache`, last signature | POST, edit, reconcile, tick | the file is always a whole list; a failed lookup removes nothing; the registry ends up with the listed channels |
| subscription registry (`subs.rs`) | subs by channel, channels by token, removed tokens, `subs.tsv` | insert, update, remove, save, load, sweep | the two maps agree; what is active is on disk |
| renewal (`renew.rs`) | copies of subscriptions | expire, collect, send, merge | no activation is reverted; nothing leaves the retry loop |
| verification callback (`callback.rs`) | the looked-up copy | activate, confirm an unsubscribe | active means the hub delivers; an unsubscribe can be verified |
| notification callback (`callback.rs`) | none of its own | verify, parse, append a batch | 2xx only for what is stored |
| hub client (`hub.rs`) | none | send | - |
| control API (`api.rs`), dispatch (`http.rs`) | none of their own | health, lists, events, ack | the JSON scanners read what clients write |
| feed parser, resolver, codecs, signature (`atom.rs`, `resolve.rs`, `util.rs`, `sig.rs`) | `resolve.cache` | functions | what was written reads back; a list means its own channels |
| configuration, start (`config.rs`, `main.rs`) | fixed at start | load | - |
| HTTP server (`vendor/tiny_http`, with local patches) | worker pool, queue, per-connection completion wait | spawn, expire, give up, respond | no connection is lost or starved; a stuck request costs one connection |

How they meet. A notification POST appends to the store under its mutex and the
consumer polls and acks the store. A change of `channels.txt` starts a reconcile,
from a worker (`try_reconcile`) or the renewal thread; the reconcile inserts and
removes subscriptions and sends requests to the hub; the hub answers each
request later with a GET that a worker serves, against the registry as it is
by then; the renewal thread sends again what is lapsing or was refused, from
copies, and merges the outcome back.

What is hard, and where each of them bites, is the list `hazards` of
`PROJECT.json`. In short: crashes between any two writes; writes that fail
half-way or after the fact; two sets of duplicate state (window and seen keys,
subs and tokens) that must move together; copies that are stale by the time they
are written back; a file that two workers write through one temporary; a change
detector with one-second resolution; a hub that answers early, late or never.

## Modules

`EventStore` models `src/store.rs`. Every operation of the store runs under one
mutex, so an operation is one action, except where a crash or a fault can tell
its parts apart: the load and the compaction take one step per line, and an
append has an action for each way it can end (`AppendOk`, `AppendUnsynced`,
`AppendTorn`, `CrashAfterWrite`, `CrashInWrite`). An append that finds a
duplicate changes nothing and has no action. The text of a line is abstracted
to how `parse_line` and `lines()` treat it: an event, an event with a short
title (`cut`), a line that is skipped (`junk`), a line that ends every reader
(`bad`), and an unterminated tail that the next append continues. Polls change
nothing: `EventsAfter` is an operator, and the properties quantify over every
cursor. `recorded` and `acked` are history. `Faults` says what the environment
of an instance does beyond crashing: tear a write, fail a sync, fail to reopen
the log, ack what was never served.

`EventFeed` is what a consumer may rely on: a sequence of numbered events that
grows at the end, has no hole, and loses only what was acked or is too old.
`EventStoreFeed` holds the refinement mapping from `EventStore` to it.

`Scan` is what a loop or a filter keeps of a sequence, by the positions kept and
with the result after every prefix. `EventStore` uses it for the scan of a poll
and for what a compaction has copied so far, `ListText` for the parts of
`channels.txt`: `SelectSeq` would say the same, but could not be reasoned about (see
Proofs).

`ChannelSync` models the way from a POST or an edit to the registry. The file is
an inode; `channels.txt` and `channels.tmp` are names that move, and a worker
writes through the descriptor it opened. A reconcile is a step for the read, one
for the lookups and the diff, one per change, and one for the save; `timer` is
where the renewal thread is in `renew::run`. `Hazards` says which of four
things may happen: overlapping POSTs, two writes in a second, a write during the
first reconcile, a file or an entry that cannot be read.

`Subscriptions` models the registry, the reconcile, the renewal thread, the GETs
and the hub. Each action is one hold of the registry's mutex or one call of
`hub::send`; between two of them everything else may happen. `rc`, `rn` and
`get` hold the copies the threads work on. The hub is external: it takes or
refuses a request (a refusal of ours may be a transport error after it took it),
asks once for each request it took, in any order and at any time, forgets some,
and grants a lease of its own. A save may fail, and no caller looks at its
result; `behind` remembers that one did until the next succeeds. `Answer` is the moment
the hub has its challenge back and begins to deliver. `asked`, `graceEnd` and `behind`
are history.

`Delivery` models the way of a notification: `handle_notify` on several workers,
the hub and the client. The store is `EventFeed`, by `INSTANCE`, which
`EventStore` is proved to implement; so a poll and an ack here are the promises
of the store and not its code. A worker takes the store's mutex, appends its
entries one by one, releases it and answers; a crash ends all requests between
any two of these steps. Whether an append is suppressed as a duplicate is left
open where memory may or may not still hold the key (a restart after a
compaction). The hub sends what was not answered 2xx again, and may give up on an
answer that is under way; the client saves its cursor after it has processed a
page and restarts from the saved one. `published` and `taken` are history.

`RequestPool` models the vendored server under load: `TaskPool::spawn` and the
loop of its threads, one step per hold of the pool's mutex; the closure that
serves a TLS connection and waits for the answer to each request for at most
300 s; the message queue and the threads of `main.rs` that answer. `active_tasks`
and `waiting_tasks` are not variables but counts of the threads that are
registered, which is what the counters hold between the steps. A request has its
body in a buffer or holds the socket's reader, which decides whether dropping the
connection returns. `Hazards` says whether bodies are held and whether an answer
may come after the wait for it is over.

`TextCodec`, `FeedText` and `ListText` are about text, at three levels.
`TextCodec` has the hand-written formats byte by byte (percent escapes, the rows
of `events.log` and `subs.tsv`, query strings, the JSON array of a POST);
its state machine only spells a text, so that each property is evaluated on
all of them. `Strings` has the searches, slices and splits of a text that both parsers
are built from. `FeedText` has the Atom scanner over tokens, beside a writer that
remembers what it meant. `ListText` has the lines of `channels.txt` and what they
resolve to, over POSTs, edits, changed pages, a damaged cache and restarts. The
state machines of the first two are the outside world; the code is in their
operators.

`MCEventStore`, `MCChannelSync`, `MCSubscriptions`, `MCDelivery` and
`MCRequestPool` give the instances their model values and symmetries. `MCText`
puts the three text machines in one instance: a behaviour picks one of them, and
the variables of the others rest.

An operator placed before a definition as a variant of it (`KeepAboveNoMargin`
before `KeepAbove`, `NotifyNobody` before `NotifyOne`) is a mutant: the same
definition with one plausible mistake. No specification uses it. `mutants` in
`PROJECT.json` says which property finds which mistake.

## Runs

Runs that pass:

| run | asks | bounds |
|---|---|---|
| `store` | `NotLost`, `SeqFresh`, `NoDuplicateInWindow`, `PollNeverSkips`, and the refinement of `EventFeed` with two of its invariants, under any number of crashes | 3 keys, window of 2, logs of up to 6 lines and 6 seqs, margin 2, retention 3 |
| `store_damaged` | `TypeOK`, `SuppressedIsHeld`, `CompactionExact`, `LoadExact` with torn writes, failed syncs, a lost log | 2 keys, window of 1, 3 lines |
| `channels` | `FileIsWhole`, `WantedIsKept`, `Applied` (liveness) without hazards | 2 channels, 2 workers, 3 inodes, 2 POSTs or edits, 1 crash |
| `channels_all` | `TypeOK`, `RemovalWasRead` with all four hazards | the same |
| `subs` | `IndexConsistent`, `UnsubscribeAnswerable`, `ActiveIsOnDisk`, `KnownToRelay` | 1 channel, 1 GET worker, 2 tokens, 2 changes of the list, 1 crash, 1 save that fails, clock from 1 to 3 |
| `subs_renew` | `TypeOK`, `ActiveUntilLapsed`, `NeverParked`, `LiveIsDelivering` | 1 channel, 1 GET worker, 1 change, no crash, a hub lease shorter and one longer than ours, two backoffs, clock from 1 to 4 |
| `delivery` | `TypeOK`, `AnsweredIsStored`, `OnlySignedIsStored`, `CursorNeverSkips`, `EveryNoticeArrives` (liveness) | 2 notifications of two entries that share one, a forged one, 2 workers, pages of 2, window of 2, margin 1, retention 4, 2 mishaps (crash, client restart, lost answer) |
| `pool` | `TypeOK`, `NoLostWakeup`, `OnePlace`, `NeverAborts`, `WorkerReclaimed` and `QueuedIsServed` (liveness) | 3 threads, a pool from 1 to 2, 2 handlers of which 1 may never return, 3 connections, 2 requests |
| `text` | `RowsReadBack`, `RequestReadsBack`, `ParsedAsWritten`, `FileIsAsListed`, `DesiredIsOwn` | texts of 4 bytes over 11, cut in two everywhere; feeds of 3 elements and 4 fields; 2 POSTs of up to 2 entries, 1 edit, 1 changed page, any number of reconciles and restarts |

Why the bounds are enough. The store's window holds fewer events than the log,
and the log grows past the compaction threshold more than once, so that events
are evicted from the window, read back from the file, compacted away by the ack
and by the retention floor, and read by a restart, in every order. Channels do not interact but
through the list and the lock, so the channel runs need two (one dropped, one
kept) and the subscription runs one, which may be created anew once. The subscription
clock runs to the end of a lease (2), of the grace (2), of a backoff (2) and of the pending timeout (1), for what is made at its start, and in
`subs_renew` one step beyond. Two notifications and two workers are enough for
one to be half-way when the other starts on the shared entry; the second mishap
comes when the first has been repaired. Three connections are one more than the
pool has threads at its limit, and the third thread is the one that was exiting
when it was counted. Four bytes hold an escape and the byte behind it, which is
all the context that the decoders look at; two texts side by side show whether
one reaches into the other. Three elements put an entry between two others. What
the bounds leave out: two channels in one renewal pass (the copies are then taken longer
before they are sent, which the ticks between send and merge stand for), and
more than one change after a crash.

`CHECK_DEADLOCK FALSE` is set where a bounded clock or a bounded number of
requests lets the modelled world come to rest.

Fairness, and why the code justifies it:

- `ChannelSync` (`Applied`): the process is restarted by systemd, the renewal
  thread's loop has no exit and wakes every 60 s, network calls have timeouts, and
  a worker finishes its POST. Writes, edits and crashes are not fair; `Applied`
  says what holds once they stop.
- `Delivery` (`EveryNoticeArrives`): a worker goes on with its request, the hub
  sends what it is owed again, the client polls on a timer. All weak: the mutex
  is passed on because its holder's steps are fair. Giving up, crashing and
  compacting are not fair, and mishaps are bounded: with crashes for ever nothing
  is ever answered.
- `RequestPool` (`WorkerReclaimed`, `QueuedIsServed`): a thread that can run runs,
  the sockets have read timeouts (so a client that says nothing is hung up on),
  and handlers return, but for those that are stuck. Nobody has to connect or to
  send, and the timed wait of an idle thread need not end.

Runs that find a disagreement between the code and what the repository says of
it; the counterexample is the shortest TLC finds:

| run | what happens |
|---|---|
| `channels_overlap` | one POST renames the shared temporary after the other truncated it |
| `delivery_unstored` | an append fails, and the hub is answered 204 for an event no log holds |
| `pool_late` | the completion wait gives up on a slow handler, whose answer then finds no receiver and aborts the process |

More are kept as instances beside the runs, to be run by hand
(`tlc -config MCStoreTorn.cfg MCEventStore`); TLC refutes the property of each:

| instance | module | property | what happens |
|---|---|---|---|
| `MCStoreTorn.cfg` | `MCEventStore` | `NotLost` | a half-written line is joined to the next event, which append answers Ok for and no restart reads |
| `MCStoreUnsynced.cfg` | `MCEventStore` | `PollNeverSkips` | after a failed sync two lines have the same seq |
| `MCStoreOverack.cfg` | `MCEventStore` | `SeqFresh` | ack beyond the newest seq, compaction, restart: numbering starts at 1 |
| `MCStoreCut.cfg` | `MCEventStore` | `TornLineSkipped` | a last line cut inside its title is loaded, not skipped as `README.md:32` says |
| `MCStoreReopen.cfg` | `MCEventStore` | `NotLost` | after a compaction that could not reopen the log, appends go to the removed file |
| `MCStoreLimit.cfg` | `MCEventStore` | `PollWithinLimit` | a poll with `max=0` that falls back to the file returns one event |
| `MCSyncBoot.cfg` | `MCChannelSync` | `Applied` | a POST answered 202 during the first reconcile is never reconciled, although `api.rs:181` says the loop will pick it up |
| `MCSyncSameSecond.cfg` | `MCChannelSync` | `Applied` | a list of the same length in the same second is not reconciled |
| `MCSyncLookup.cfg` | `MCChannelSync` | `RemovalsApplied` | removals that were skipped for a failed lookup are not tried again |
| `MCSubsStaleGet.cfg` | `MCSubscriptions` | `LiveIsDelivering` | a GET for the old token activates the subscription that replaced it, which the hub has never verified |
| `MCSubsCrashed.cfg` | `MCSubscriptions` | `LiveIsDelivering` | saved active, crashed before the challenge was answered |
| `MCSubsChallenge.cfg` | `MCSubscriptions` | `ChallengeOnlyForHeld` | the challenge of a subscription that was removed after the lookup is echoed |
| `MCPoolEaten.cfg` | `MCRequestPool` | `NoneEaten` | a request with a large body that is never answered keeps its worker, which waits for the socket's reader |
| `MCPoolQueued.cfg` | `MCRequestPool` | `NoneQueuedBelowCeiling` | a woken thread still counts as waiting, so a burst queues below the ceiling |
| `MCPoolStranded.cfg` | `MCRequestPool` | `NeverStranded` | a connection is queued for threads that are all leaving |
| `MCTextRemark.cfg` | `MCText` | `FileIsAsListed` | a posted entry that starts with `#` stays in `channels.txt` as a comment for good |
| `MCTextUnreadable.cfg` | `MCText` | `FileIsAsListed` | the comments are dropped when the old file cannot be read |
| `MCTextLinks.cfg` | `MCText` | `DesiredIsOwn` | a page with no marker of its own yields a channel it links to |

## Proofs

The types of every state machine but those of text are proved (`TypeCorrect`, with
the bounds of the clocks, counters and windows and not only the sorts), and every
safety property of a passing run is a theorem, some of them under an assumption that is
named below.

`ScanProofs` has what the other proofs need to know of a loop. The prover cannot
instantiate an induction theorem with an operator, but it can with a set:
`NatSetInduction` says that a set that has 0 and is closed under successor has
every number, and follows from the well-foundedness of `<`. With it
`ScanDef` shows that the recursive function of `Scan` satisfies its own equations
(an unfolded recursive function is only a `CHOOSE`), and from there what `Scan`
and `Filtered` return, in which order, and how they grow with the sequence.

`EventStoreProofs` has three parts. The first, for every set of keys, every capacity
and every bound, is under `Faults = {}` (the process may crash at any point, the
disk does not damage the log and the client acks what it was served):

- `Invariance`: `Spec => []IInv`;
- `EventsAreKept`: `Spec => []NotLost`;
- `SeqIsFresh`: `Spec => []SeqFresh`.

`NotLost` and `SeqFresh` are not inductive. A restart numbers on from what it
reads, so `SeqFresh` needs the newest event to be in the log at all times, also
right after a compaction that dropped the rest: `TopLogged`. The compaction
keeps it because the client has acked nothing above it (`AckLogged`), because
the margin is at least 1, and because the retention floor is below it. `NotLost`
needs to know what the two loops have done so far (`Loaded`, `Kept`), and that
the log is undamaged (`Clean`), for then a reader gets to every line.
`StillLogged` is `NotLost` in the terms of the log alone. `IInv` is the
conjunction; TLC agreed with it before it was proved. The step case has one
step per action and cites the lemmas about the log (`CleanLines`, `LogFacts`,
`LogUnchanged`) and the window (`PushedType`).

Why the assumption: with any one of the faults a property is false,
which is what `MCStoreTorn.cfg`, `MCStoreReopen.cfg` and `MCStoreOverack.cfg` show
for three of them; `MCStoreUnsynced.cfg` shows the fourth through the poll.

The second part has no assumption on the faults: torn lines, failed syncs, a lost
log and acks from nowhere are all allowed.

- `TypeCorrect`: `Spec => []TypeOK`. The window never outgrows its cap.
- `SuppressedAreHeld`: `Spec => []SuppressedIsHeld`. Inductive by itself, once a
  push is known to drop no key but the head's (`PushedKeys`).
- `LoadsAreExact`: `Spec => LoadExact`, and `CompactionsAreExact`:
  `Spec => CompactionExact`. Both are about the last step of a loop and rest on
  what the loop has done before (`LoopInv`): the copy is what `Scan` keeps of the
  lines read, and the window is the end of what was parsed (`Newest`), with every number
  below the next one.

The rest of `EventStoreProofs` shows, under `Faults = {}` again, that the store is the
feed its consumer sees:

- `StoreImplementsFeed`: `Spec => Feed!Spec` under the mapping of `EventStoreFeed`.
  An append publishes, an ack acks, the rename of a compaction trims, and every
  other step, crashes and loads included, is a stutter.
- `NoDuplicates`, `FeedHasNoHoleAlways`, `FeedIsDistinctAlways`, `PollsAreComplete`:
  the properties of the run, for every value of the constants.

The difficulty is that a duplicate is judged by the window and the feed speaks of
the log. It would do to know that the window is the end of the log, but that is
false: a compaction drops from the log what the window still holds, and a load that is
half-way has fewer. `Windowed` says what does hold in every phase: the window is
the newest events with consecutive numbers and distinct keys, it agrees with the log
where both have a number, and it is full or reaches at least as far back as the log.
`CopyIsSuffix` says of a compaction that it has left out a prefix, which is so
because the log is consecutive (`Consecutive`); so the rename drops the oldest and
nothing else. `KeysApart` is the promise of the feed in terms of the log. A poll
from the file is complete because what is filtered from consecutive lines has the same
first elements (`Filtered` and its lemmas), and from memory because the window
reaches back to the cursor when the code decides to use it.

`EventFeedProofs` proves `FeedIsSound`: a feed has no hole, has its newest event,
and has no key twice within the window. `NoHole` and `NewestKept` rest on each
other and on nobody acking what is not there.

`DeliveryProofs`, for any notifications, workers, page sizes and mishaps:

- `AnsweredIsStoredAlways`: `Spec => [](Faults = {} => AnsweredIsStored)`. The
  assumption is that no append fails, and `delivery_unstored` shows why. What a
  worker has still to append is all that its notification lacks (`Underway`).
- `OnlySignedIsStoredAlways`: `Spec => []OnlySignedIsStored`.
- `CursorNeverSkipsAlways`: `Spec => []CursorNeverSkips`. A page covers every
  number between the cursor it was asked with and its last event (`PageCovers`),
  and the store drops only what was acked or is too old (`Dropped`).
- `KeepsToTheFeed`: `Spec => Feed!Spec`, the refinement step by step.
- `TypeCorrect`: at most one worker holds the store (`Locked`), so one append is under
  way; cursor, position and page stay within what was published (`Sized`).

`ChannelSyncProofs`:

- `RemovalWasReadAlways`: `Spec => RemovalWasRead`, with all hazards.
- `FileIsWholeAlways` and `WantedIsKeptAlways`, when `"overlap" \notin Hazards`:
  the open file is then the temporary one (`Writing`). `channels_overlap` is
  the counterexample otherwise. `EnoughFiles` says that the disk always has a free
  file; the instances' three inodes satisfy it for their two workers.
- `TypeCorrect`, with all hazards: the clock and the files' times (`Clocked`), what
  POSTs, edits and crashes may still come (`Counted`).

`RequestPoolProofs`, for any number of threads, handlers and connections:

- `NoLostWakeupAlways`: inductive with the types.
- `OnePlaceAlways`: from `Placed`, which says it without cardinalities.
- `NeverAbortsAlways`, when `"late" \notin Hazards`, which is what `pool_late`
  is about: a request nobody waits for is never answered (`Asked`).
- `TypeCorrect`, with the numbers of connections and requests (`Bounded`).

`SubscriptionsProofs`, for any channels, workers, leases, delays and crashes:

- `IndexConsistentAlways`: tokens are new, the disk has each once, and a retired
  one does not come back (`Index`); what a reconcile has still to do fits the
  registry although the lock was released (`Fits`).
- `ActiveIsOnDiskAlways`: a step that changes an active subscription saves the
  registry, or is behind (`KeptSteps`).
- `ActiveUntilLapsedAlways`, when `MaxFailures = 0`: a restart after a failed save
  does revert an activation.
- `UnsubscribeAnswerableAlways`: between the request and the removal the token is
  live, afterwards `unsub_pending` has it for at least as long (`GraceKept`).
- `KnownToRelayAlways`: a token leaves the registry only after the hub was asked
  to drop it (`Dropped`), and is confirmed only after it was saved (`Confirmed`).
- `NeverParkedAlways`, for waits that have a longest one: the bounds hold for
  every copy of a subscription (`AllFine`), those the threads write back included.
- `TypeCorrect`: no expiry, on record, on disk or in a copy, is later than a lease of
  ours from now.
- `LiveIsDeliveringAlways`: what is active is what the hub delivers to, or is about
  to. `Backed` adds the time: an active subscription ends no later than what the hub
  has granted, or will have granted when it has the answer that a GET is still
  holding; the rest of `BackedInv` that only tokens the hub was
  asked to drop are being dropped, that nothing under way is about a token to come, and
  that the renewal thread's copies of what is active are not behind. The property is
  false in general, and each hypothesis excludes one way. `MaxCrashes = 0`: a crash
  between the save and the answer leaves an activation the hub has not heard of
  (`MCSubsCrashed.cfg`).
  `OwnActivation`: a GET activates whatever subscription the channel has by then, also
  one that replaced the one it looked up (`MCSubsStaleGet.cfg`).
  `OneGet \/ SteadyGrants`: two GETs for one token may be answered in the other order,
  and then the hub is left with the shorter of two leases that differ.
  A channel may be removed and subscribed again any number of times: what is excluded is
  a GET whose subscription is replaced between its lookup and its activation.

`TextProofs` is about the three text modules, which share its lemmas on sequences.

About `ListText`, for any entries, edits and pages:

- `FileIsAsListedAlways`, when no entry of one line is a remark (`PlainEntries`) and the
  old file can be read; `MCTextRemark.cfg` and `MCTextUnreadable.cfg` are the
  counterexamples. A rewrite keeps the remarks and puts a list without any behind them,
  so both parts of the file can be read off again (`PartsOfTwo`, from `FilteredConcat`).
- `DesiredIsOwnAlways`, when the marker that decides on a page is its owner's
  (`OwnPages`; `MCTextLinks.cfg` has a page where it is not) and entries are plain, in
  whatever state a crash leaves the cache and also when the old file cannot be read:
  what the cache has for a name is an id the name's page has had, or no id
  (`CacheIsOwn`), and the code does not trust the latter.

About `TextCodec`, for any alphabet of ASCII characters and texts of any length:

- `RowsReadBackAlways`: `CodecSpec => []RowsReadBack`.
- `LogReadsBack`, which no run could enumerate: a log of any number of rows of `n`
  fields has exactly its rows as lines, and each reads back as its fields, for every
  `n > 1`. (A row of one empty field would be an empty line, which the reader skips.)
- `RequestReadsBackAlways`: `CodecSpec => []RequestReadsBack`.

An encoder writes each character as a short code, and the codes one after the other
(`Coded`). No code has the characters that join the fields (`Column`), so what is split
again are the fields (`SplitFirst`); and at the start of each code the decoder reads that
code's character whatever follows it, so a field decodes to what was encoded. The decoders read from the end of a text, so the induction is over
sequences that grow at the front (`FrontInduction`); the scanner of JSON literals is
an automaton, and its induction is over sequences that grow at the back
(`BackInduction`). Both are sets of sequences put through `NatSetInduction`.

About `FeedText`, for any ids, titles and times and for documents of any length:

- `TitleReadsBack`: six replacements of entities, `&amp;` last, take an escaped title
  back to what it was before.
- `EntryRead`: an entry's block is read as what was meant by it, whichever of its five
  fields are there, and in each of the forms a video or channel id may have.
- `ParsedAsWrittenAlways`: `FeedSpec => []ParsedAsWritten`.

`ParsedAsWritten` is not inductive: it says nothing of what an open entry's tags mean.
`FeedInv` says it of the document cut up: there are blocks that the deletions' and the
entries' cuts of the document have closed, their parsing, one after the other, is
`deleted` and `regular`; and while an entry is open, its block so far is five segments,
one for each field, each of them a form of what `current` says the field means
(`FieldsAre`). A segment has none of the tags that another field is searched by, so the
first match of a search is in the field's own segment (`SegmentsAlone`), and it has
none of the tags of entries and deletions, so it cuts nothing (`InnerWritten`). TLC
checks `ParsedAsWritten` itself and not `FeedInv`, whose witnesses are sequences of
tokens without a bound.

The named assumptions on constants (`StoreAssumption`, `SubsAssumption` and so on)
are in the modules that declare the constants, and TLC evaluates them in every run.
They ask that a capacity is a number, that a bound which must leave room is not 0
(`MaxTime`, `RecentCap`), and that a value which stands for "nothing" (`NoKey`,
`NoChannel`, `None`, `Junk`) is none of the things it is beside. For text, the alphabet
is ASCII, a malformed id is not also a well-formed one, and titles are made of strings.

Only model-checked:

- liveness (`Applied`, `EveryNoticeArrives`, `WorkerReclaimed`, `QueuedIsServed`),
  which needs fairness and `ENABLED`, out of this prover's reach.

## Not modelled

- A power loss that loses a rename: the code does not fsync directories, and the
  models keep what was renamed.
- `GET /api/channels` and the layout of answers: they read and format.
- The signature: HMAC and a constant-time comparison are functions with no state.
  `Delivery` has the verdict, and `OnlySignedIsStored` what depends on it. The
  bearer check is the same.
- In the text modules: `from_utf8_lossy`, hex, blanks around values, numeric
  columns, the parsing of URLs and hosts (a refused host is a kind of entry), the
  shape of ids (membership in a set).
- Configuration: read once at start, its checks end the process and leave nothing.
- HTTP dispatch and the rest of the vendored server: parsing and printing of HTTP,
  TLS, plain connections (the relay listens on TLS only), shutdown.
- In `Delivery`, a failed append beside those that succeed is the run
  `delivery_unstored` only: the run that passes has none, since the property then is
  false.

## Plan

Built, in this order: `EventStore`, `EventFeed`, `ChannelSync`, `Subscriptions`,
`EventStoreProofs`, because the log is what the program exists for, and the other
two are where its threads meet; then `Delivery`, `RequestPool` and the text
modules, and the other modules of proofs, the refinement of `EventFeed` and
`TextProofs` last.

Left, models: the retry loop of `Subscriptions` as liveness (a wanted channel the
hub keeps accepting becomes active), which needs a clock without a bound; two
channels in one renewal pass; plain HTTP connections of the pool.

Left, proofs: what the decoders make of a text that no encoder here has written (a row
cut off by a crash, a `%` that begins no escape).
