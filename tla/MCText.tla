------------------------------- MODULE MCText -------------------------------
(***************************************************************************)
(* The three text machines in one instance.  A behaviour picks one of them *)
(* and the variables of the others keep their initial values.              *)
(***************************************************************************)
EXTENDS TextCodec, FeedText, ListText

VARIABLE part

MCTitles == {<<"&", "lt;">>, <<"<", "entry">>}

Entry1 == <<Line("id", "c1")>>
Entry2 == <<Line("name", "@a")>>
Broken == <<Line("url", "c2"), Line("remark", "#")>>
MCEntries == {Entry1, Entry2, <<Line("url", "c2")>>, Broken}
MCEdits == {Line("remark", "# mine"), Line("name", "@b"), Line("refused", "http://internal")}
RemarkEntries == MCEntries \union {<<Line("remark", "# posted")>>}

Page(c, items) == [owner |-> c, items |-> items]
MCPages ==
  {Page("c1", <<<<"/channel/", "c2">>, <<"externalId", "cut">>, <<"og:url", "c1">>>>),
   Page("c3", <<<<"channelId", "c1">>, <<"externalId", "c3">>, <<"/channel/", "c2">>>>),
   Page("c1", <<>>)}
LinkPages == {Page("c1", <<<<"/channel/", "c2">>>>)}

TextInit ==
  /\ CodecInit /\ FeedInit /\ ListInit
  /\ part \in {"codec", "feed", "list"}
  /\ part = "list" \/ web = [n \in Names |-> Page("c1", <<>>)]
TextNext ==
  \/ part = "codec" /\ CodecNext /\ UNCHANGED <<feedVars, listVars, part>>
  \/ part = "feed" /\ FeedNext /\ UNCHANGED <<text, listVars, part>>
  \/ part = "list" /\ ListNext /\ UNCHANGED <<text, feedVars, part>>
TextSpec == TextInit /\ [][TextNext]_<<text, feedVars, listVars, part>>
=============================================================================
