------------------------------ MODULE FeedText ------------------------------
(***************************************************************************)
(* The Atom scanner of notifications (src/src/atom.rs): substring search   *)
(* for the few elements it knows, checked against a writer that puts       *)
(* entries, deletions and the feed's own fields into a document and        *)
(* remembers what it meant by them.                                        *)
(*                                                                         *)
(* A document is a sequence of tokens: a start or end tag, or a piece of   *)
(* text.  No token is a part of another, so a search for a substring is a  *)
(* search for a token.  A video or channel id is one text, well-formed     *)
(* exactly when it is in Videos or Channels.  Blanks around values, which  *)
(* every field is trimmed of, are left out.                                *)
(***************************************************************************)
EXTENDS Integers, Sequences, FiniteSetsExt, SequencesExt, Strings

CONSTANTS
  Videos, Channels,   \* the well-formed ids
  Malformed,          \* texts that stand where an id should be
  Titles,             \* titles, before escaping: sequences of texts
  Times,              \* timestamps
  MaxElements,        \* bound: entries, deletions and feed fields in a document
  MaxFields           \* bound: fields written into all entries together

\* Of two ids in an entry, the writer means the well-formed one.
ASSUME FeedAssumption ==
  /\ Malformed \intersect Channels = {}
  /\ Titles \subseteq Seq(STRING)

VARIABLES
  doc,       \* the document so far
  current,   \* what the fields of the entry being written mean
  written,   \* the elements and the fields written
  deleted,   \* the deletions written, as Parse should return them
  regular    \* the entries closed, as Parse should return them

feedVars == <<doc, current, written, deleted, regular>>

Bare == ""   \* no namespace
Start(prefix, name) == <<"<", prefix, name>>
End(prefix, name) == <<"</", prefix, name>>
Text(t) == <<"text", Bare, t>>
Texts(s) == [i \in DOMAIN s |-> Text(s[i])]

(***************************************************************************)
(* Searching.  A result that may be missing is a set of at most one value. *)
(***************************************************************************)
Between(s, start, end) ==
  LET i == FirstAt(s, start)
      rest == After(s, i)
      j == FirstAt(rest, end)
  IN  IF i = 0 \/ j = 0 THEN {} ELSE {Before(rest, j)}

OrElse(a, b) == IF a # {} THEN a ELSE b

Tag(s, name) ==
  OrElse(Between(s, Start("yt:", name), End("yt:", name)),
         Between(s, Start(Bare, name), End(Bare, name)))

(* The contents of the elements of a name, one after the other; one that   *)
(* is not closed reaches to the end of the document.                       *)

CutAtToken(a, token, start, end) ==
  CASE ~a.open /\ token = start -> [a EXCEPT !.open = TRUE]
    [] a.open /\ token = end ->
         [open |-> FALSE, block |-> <<>>, blocks |-> Append(a.blocks, a.block)]
    [] a.open /\ token # end -> [a EXCEPT !.block = Append(@, token)]
    [] OTHER -> a

Uncut == [open |-> FALSE, block |-> <<>>, blocks |-> <<>>]
CutUp(s, start, end) ==
  LET cut[n \in 0 .. Len(s)] ==
        IF n = 0 THEN Uncut ELSE CutAtToken(cut[n - 1], s[n], start, end)
  IN  cut[Len(s)]

Blocks(s, prefix, name) ==
  LET cut == CutUp(s, Start(prefix, name), End(prefix, name))
  IN  IF cut.open THEN Append(cut.blocks, cut.block) ELSE cut.blocks

(***************************************************************************)
(* Fields.                                                                 *)
(***************************************************************************)
Replaced(s, entity, char) ==
  LET replaced[n \in 0 .. Len(s)] ==
        IF n = 0 THEN <<>>
        ELSE IF n > 1 /\ s[n - 1] = Text("&") /\ s[n] = Text(entity)
             THEN Append(replaced[n - 2], Text(char))
             ELSE Append(replaced[n - 1], s[n])
  IN  replaced[Len(s)]

DecodeEntitiesAmpFirst(s) ==
  Replaced(Replaced(Replaced(s, "amp;", "&"), "lt;", "<"), "gt;", ">")
DecodeEntities(s) ==
  LET angles == Replaced(Replaced(s, "lt;", "<"), "gt;", ">")
      quotes == Replaced(Replaced(Replaced(angles, "quot;", "\""), "#39;", "'"), "apos;", "'")
  IN  Replaced(quotes, "amp;", "&")

WellFormed(found, ids) == {id \in ids : <<Text(id)>> \in found}

(* The channel id after the first of the markers that is followed by one:  *)
(* each marker ends in "UC", as malformed channel ids do here too, and     *)
(* only its first place is looked at.                                      *)
Marked(s, marker) ==
  LET places == {i \in 1 .. Len(s) - 1 :
                  s[i] = marker /\ s[i + 1] \in {Text(c) : c \in Channels \union Malformed}}
  IN  IF places = {} THEN {} ELSE WellFormed({<<s[Min(places) + 1]>>}, Channels)

FindChannelId(s) ==
  OrElse(Marked(s, Start("yt:", "channelId")),
         OrElse(Marked(s, Start(Bare, "/channel/")), Marked(s, Start(Bare, "channel_id="))))

(***************************************************************************)
(* parse: the deletions first, then the entries.                           *)
(***************************************************************************)
Deletion(block) ==
  LET video == WellFormed(Between(block, Start(Bare, "ref"), End(Bare, "ref")), Videos)
  IN  IF video = {} THEN <<>>
      ELSE <<[kind |-> "deleted", channel |-> FindChannelId(block), video |-> video,
              title |-> <<>>, ts |-> {}]>>

Kind(published, updated) ==
  IF published # {} /\ updated # {} /\ published # updated THEN "updated" ELSE "new"

Entry(block) ==
  LET video == WellFormed(Tag(block, "videoId"), Videos)
      channel == OrElse(WellFormed(Tag(block, "channelId"), Channels), FindChannelId(block))
      published == Tag(block, "published")
      updated == Tag(block, "updated")
  IN  IF video = {} \/ channel = {} THEN <<>>
      ELSE <<[kind |-> Kind(published, updated), channel |-> channel, video |-> video,
              title |-> IF Tag(block, "title") = {} THEN <<>>
                        ELSE DecodeEntities(CHOOSE t \in Tag(block, "title") : TRUE),
              ts |-> OrElse(updated, published)]>>

Parse(s) ==
  LET deletions == Blocks(s, "at:", "deleted-entry")
      entries == Blocks(s, Bare, "entry")
  IN  FlattenSeq([k \in DOMAIN deletions |-> Deletion(deletions[k])])
      \o FlattenSeq([k \in DOMAIN entries |-> Entry(entries[k])])

-----------------------------------------------------------------------------
(***************************************************************************)
(* The writer: the hub, who knows each field's element and the order of an *)
(* entry's fields, and may leave out any of them.                          *)
(***************************************************************************)
Missing == [video |-> {}, channel |-> {}, title |-> {}, published |-> {}, updated |-> {}]
FieldRank == [video |-> 1, channel |-> 2, title |-> 3, published |-> 4, updated |-> 5]

Element(prefix, name, content) == <<Start(prefix, name)>> \o content \o <<End(prefix, name)>>
Escaped(title) ==
  FlattenSeq([i \in DOMAIN title |->
    CASE title[i] = "<" -> Texts(<<"&", "lt;">>)
      [] title[i] = "&" -> Texts(<<"&", "amp;">>)
      [] OTHER -> <<Text(title[i])>>])

FeedInit ==
  /\ doc = <<>>
  /\ current = {}
  /\ written = [elements |-> 0, fields |-> 0]
  /\ deleted = <<>>
  /\ regular = <<>>

NewElement == current = {} /\ written.elements < MaxElements

(* The feed's own title and time, which are no entry's.                    *)
FeedField ==
  /\ NewElement
  /\ written' = [written EXCEPT !.elements = @ + 1]
  /\ \E t \in Times : doc' = doc \o Element(Bare, "title", <<Text(t)>>)
                                 \o Element(Bare, "updated", <<Text(t)>>)
  /\ UNCHANGED <<current, deleted, regular>>

WriteDeletion(v, c) ==
  /\ NewElement
  /\ written' = [written EXCEPT !.elements = @ + 1]
  /\ doc' = doc \o Element("at:", "deleted-entry",
                     Element(Bare, "ref", <<Text(v)>>) \o <<Start(Bare, "/channel/"), Text(c)>>)
  /\ deleted' = deleted \o
       (IF v \notin Videos THEN <<>>
        ELSE <<[kind |-> "deleted", channel |-> {c} \intersect Channels, video |-> {v},
                title |-> <<>>, ts |-> {}]>>)
  /\ UNCHANGED <<current, regular>>

OpenEntry ==
  /\ NewElement
  /\ written' = [written EXCEPT !.elements = @ + 1]
  /\ doc' = Append(doc, Start(Bare, "entry"))
  /\ current' = {Missing}
  /\ UNCHANGED <<deleted, regular>>

WriteField(e, name, content, meant) ==
  /\ written.fields < MaxFields
  /\ \A later \in DOMAIN FieldRank : FieldRank[later] >= FieldRank[name] => e[later] = {}
  /\ written' = [written EXCEPT !.fields = @ + 1]
  /\ doc' = doc \o content
  /\ current' = {[e EXCEPT ![name] = meant]}
  /\ UNCHANGED <<deleted, regular>>

WriteId(e) ==
  \/ \E v \in Videos \union Malformed, prefix \in {"yt:", Bare} :
       WriteField(e, "video", Element(prefix, "videoId", <<Text(v)>>), {v})
  \/ \E c \in Channels \union Malformed :
       WriteField(e, "channel", Element("yt:", "channelId", <<Text(c)>>), {c})
  \/ \E c \in Channels, id \in {<<>>} \union {Element("yt:", "channelId", <<Text(m)>>) : m \in Malformed} :
       WriteField(e, "channel", id \o <<Start(Bare, "/channel/"), Text(c)>>, {c})

WriteText(e) ==
  \/ \E t \in Titles : WriteField(e, "title", Element(Bare, "title", Escaped(t)), {Texts(t)})
  \/ \E n \in {"published", "updated"}, t \in Times :
       WriteField(e, n, Element(Bare, n, <<Text(t)>>), {<<Text(t)>>})

CloseEntry(e) ==
  /\ doc' = Append(doc, End(Bare, "entry"))
  /\ current' = {}
  /\ regular' = regular \o
       (IF e.video \intersect Videos = {} \/ e.channel \intersect Channels = {} THEN <<>>
        ELSE <<[kind |-> Kind(e.published, e.updated), channel |-> e.channel, video |-> e.video,
                title |-> IF e.title = {} THEN <<>> ELSE CHOOSE t \in e.title : TRUE,
                ts |-> OrElse(e.updated, e.published)]>>)
  /\ UNCHANGED <<written, deleted>>

FeedNext ==
  \/ FeedField
  \/ \E v \in Videos \union Malformed, c \in Channels : WriteDeletion(v, c)
  \/ OpenEntry
  \/ \E e \in current : WriteId(e) \/ WriteText(e) \/ CloseEntry(e)

FeedSpec == FeedInit /\ [][FeedNext]_feedVars

(***************************************************************************)
(* The parser returns what the writer meant: every deletion and every      *)
(* well-formed entry once, in the order of the document, each with its own *)
(* fields, whether they have a neighbour's or the feed's beside them or    *)
(* are missing, and with the title as it was before escaping.  A document  *)
(* that stops inside an entry changes nothing about the closed ones        *)
(* (atom.rs:62-142).                                                       *)
(***************************************************************************)
ParsedAsWritten ==
  LET parsed == Parse(doc)
  IN  /\ IsPrefix(deleted \o regular, parsed)
      /\ current = {} => parsed = deleted \o regular
=============================================================================
