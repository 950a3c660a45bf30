--------------------------- MODULE EventStoreFeed ----------------------------
(***************************************************************************)
(* EventStore implements EventFeed: the feed is the events of the log, the *)
(* newest number is the last one written, whether or not the process that  *)
(* wrote it lived to say so.                                               *)
(***************************************************************************)
EXTENDS EventStore

LoggedEvents == {[seq |-> Lines[i].seq, key |-> Lines[i].key] : i \in DOMAIN Lines}

Highest == IF Lines = <<>> THEN 0 ELSE Lines[Len(Lines)].seq

Feed == INSTANCE EventFeed WITH
            Window  <- RecentCap,
            Margin  <- CompactMargin,
            MaxHigh <- MaxSeq,
            feed    <- LoggedEvents,
            high    <- Highest

\* The store implements the feed: appends publish, whether they survive to
\* return or not, compactions trim, and restarts, reloads and failed
\* compactions are steps that no client can see.
ImplementsFeed == Feed!Spec

\* The promises of the feed, read off the log.
FeedHasNoHole  == Feed!NoHole
FeedIsDistinct == Feed!Distinct

=============================================================================
