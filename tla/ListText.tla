------------------------------ MODULE ListText ------------------------------
(***************************************************************************)
(* What channels.txt says and which channels it means: the rewrite of the  *)
(* file by POST /api/channels (src/src/api.rs), the reading of its lines   *)
(* by desired_set and the cache of lookups (renew.rs, main.rs), and the    *)
(* resolution of one entry (resolve.rs).  How the file's replacement and a *)
(* reconcile interleave is ChannelSync; here each is one step.             *)
(*                                                                         *)
(* A line is a pair of its kind and its text: a channel id, a URL that     *)
(* holds one, a name whose page has to be fetched, a URL of a host that is *)
(* refused, or a remark (a comment or a blank line).  A posted entry is    *)
(* the sequence of lines it would make, one unless a control character is  *)
(* in it.  Blanks around a line, which are trimmed, are left out.          *)
(***************************************************************************)
EXTENDS Integers, Sequences, FiniteSetsExt, SequencesExt, Scan

CONSTANTS
  Ids,          \* well-formed channel ids
  Junk,         \* what is not one, such as a piece of an id
  Entries,      \* the entries a client may post
  Edits,        \* the lines the operator may add
  Pages,        \* [owner |-> id, items |-> <<marker, id or Junk>>...]: what a name may show
  MaxPosts, MaxEdits, MaxMoves,   \* bounds: POSTs, edits, changes of a page
  MaxLines,     \* bound: entries of one POST
  Faults        \* {"cut", "unreadable"}: what goes wrong with the files

LineKinds == {"id", "url", "name", "refused", "remark"}

ASSUME ListAssumption ==
  /\ Junk \notin Ids
  /\ Entries \subseteq Seq(LineKinds \X STRING)
  /\ Edits \subseteq LineKinds \X STRING

VARIABLES
  file,      \* the lines of channels.txt
  cache,     \* resolve_cache: name -> id
  disk,      \* resolve.cache
  web,       \* what the page of each name shows now
  asked,     \* the last desired_set: its result, and the entries listed then
  listed,    \* history: the entries that were asked for
  remarks,   \* history: the remarks the operator wrote
  shown,     \* history: the ids each name's page has belonged to
  used       \* the bounded counters

listVars == <<file, cache, disk, web, asked, listed, remarks, shown, used>>

Line(kind, t) == <<kind, t>>
IsRemark(line) == line[1] = "remark"
IsChannelId(v) == v \in Ids

Lines_ == (UNION {Range(e) : e \in Entries}) \union Edits
Names == {l \in Lines_ : l[1] = "name"}

(***************************************************************************)
(* extract_uc on a page: the marker that is authoritative for the page's   *)
(* own channel first, and of each marker only its first place.  The links  *)
(* of "canonical" and "og:url" also hold the generic "/channel/UC".        *)
(***************************************************************************)
Markers == <<"canonical", "og:url", "externalId", "channelId", "/channel/", "channel_id=">>

ExtractUc(items) ==
  LET Holds(item, m) ==
        item[1] = m \/ (m = "/channel/" /\ item[1] \in {"canonical", "og:url"})
      FirstOf(m) == LET i == SelectInSeq(items, LAMBDA item : Holds(item, m))
                    IN  {items[k][2] : k \in {i} \ {0}} \intersect Ids
  IN  FoldLeft(LAMBDA found, m : IF found # {} THEN found ELSE FirstOf(m), {}, Markers)

(***************************************************************************)
(* resolve: {} or the id.  Only a name gets as far as a fetch; a page that *)
(* cannot be fetched is one that shows nothing.                            *)
(***************************************************************************)
TrustsAll(v) == TRUE
Trusted(v) == IsChannelId(v)

Resolve(line, known) ==
  IF line[1] \in {"id", "url"} THEN {line[2]}
  ELSE IF line \in DOMAIN known /\ Trusted(known[line]) THEN {known[line]}
  ELSE IF line[1] = "name" THEN ExtractUc(web[line].items)
  ELSE {}

(***************************************************************************)
(* POST /api/channels: the filter and render_channels_file.                *)
(***************************************************************************)
AnyEntry(e) == TRUE
IsOneLine(e) == Len(e) = 1

Active(lines) == Filtered(lines, {k \in DOMAIN lines : ~IsRemark(lines[k])})
Remarks(lines) == Filtered(lines, {k \in DOMAIN lines : IsRemark(lines[k])})
Rendered(existing, posted) == Remarks(existing) \o FlattenSeq(posted)

ListInit ==
  /\ file = <<>>
  /\ cache = [n \in {} |-> Junk]
  /\ disk = cache
  /\ web \in [Names -> Pages]
  /\ asked = [desired |-> {}, complete |-> FALSE, listed |-> {}]
  /\ listed = <<>>
  /\ remarks = <<>>
  /\ shown = [n \in Names |-> {web[n].owner}]
  /\ used = [posts |-> 0, edits |-> 0, moves |-> 0]

Post(posted) ==
  /\ used.posts < MaxPosts
  /\ used' = [used EXCEPT !.posts = @ + 1]
  /\ LET channels == Filtered(posted, {k \in DOMAIN posted : IsOneLine(posted[k])})
     IN  /\ \E existing \in {file} \union {<<>> : fault \in Faults \intersect {"unreadable"}} :
              file' = Rendered(existing, channels)
         /\ listed' = FlattenSeq(Filtered(posted, {k \in DOMAIN posted : Len(posted[k]) = 1}))
  /\ UNCHANGED <<cache, disk, web, asked, remarks, shown>>

Edit(line) ==
  /\ used.edits < MaxEdits
  /\ used' = [used EXCEPT !.edits = @ + 1]
  /\ file' = Append(file, line)
  /\ IF IsRemark(line) THEN remarks' = Append(remarks, line) /\ UNCHANGED listed
                       ELSE listed' = Append(listed, line) /\ UNCHANGED remarks
  /\ UNCHANGED <<cache, disk, web, asked, shown>>

(* The page of a name changes: it is down, shows something else, or the    *)
(* name has passed to another channel.                                     *)
Move(n, page) ==
  /\ used.moves < MaxMoves
  /\ used' = [used EXCEPT !.moves = @ + 1]
  /\ web' = [web EXCEPT ![n] = page]
  /\ shown' = [shown EXCEPT ![n] = @ \union {page.owner}]
  /\ UNCHANGED <<file, cache, disk, asked, listed, remarks>>

(***************************************************************************)
(* desired_set under the reconcile lock: every line is resolved, lookups   *)
(* are put into the cache, and the cache is written over its old file in   *)
(* place, so that a crash or a full disk leaves some rows and a piece of   *)
(* another.                                                                *)
(***************************************************************************)
Cut(rows) ==
  {[n \in kept \union torn |-> IF n \in torn THEN Junk ELSE rows[n]] :
     kept \in SUBSET DOMAIN rows, torn \in {{}} \union {{n} : n \in DOMAIN rows}}

DesiredSet ==
  LET lines == Active(file)
      found == [k \in DOMAIN lines |-> Resolve(lines[k], cache)]
      fresh == {k \in DOMAIN lines : lines[k] \in Names /\ found[k] # {}
                                     /\ ~(lines[k] \in DOMAIN cache)}
      merged == [n \in DOMAIN cache \union {lines[k] : k \in fresh} |->
                   IF n \in DOMAIN cache THEN cache[n]
                   ELSE CHOOSE v \in Resolve(n, cache) : TRUE]
  IN  /\ asked' = [desired |-> UNION Range(found), listed |-> Range(listed),
                   complete |-> {} \notin Range(found)]
      /\ cache' = merged
      /\ disk' \in {merged} \union UNION {Cut(merged) : fault \in Faults \intersect {"cut"}}
  /\ UNCHANGED <<file, web, listed, remarks, shown, used>>

Restart ==
  /\ cache' = disk
  /\ asked' = [desired |-> {}, complete |-> FALSE, listed |-> {}]
  /\ UNCHANGED <<file, disk, web, listed, remarks, shown, used>>

ListNext ==
  \/ \E n \in 0 .. MaxLines : \E posted \in TupleOf(Entries, n) : Post(posted)
  \/ \E line \in Edits : Edit(line)
  \/ \E n \in Names, page \in Pages : Move(n, page)
  \/ DesiredSet
  \/ Restart

ListSpec == ListInit /\ [][ListNext]_listVars

(***************************************************************************)
(* After any POSTs and edits the file holds, in order, the operator's      *)
(* remarks and the entries of the last list, with nothing left of earlier  *)
(* lists and nothing an entry brought along (api.rs:156-158, 211-213).     *)
(***************************************************************************)
FileIsAsListed ==
  /\ Remarks(file) = remarks
  /\ Active(file) = listed

(***************************************************************************)
(* A desired set that counts as complete has a channel for every entry,    *)
(* and any desired set only has channels that are an entry's own: the id   *)
(* the entry holds, or one its page has belonged to, never one the page    *)
(* links to or a piece of a damaged cache (renew.rs:71-74, resolve.rs:     *)
(* 47-50, 97-101).                                                         *)
(***************************************************************************)
Own(line) == IF line[1] \in {"id", "url"} THEN {line[2]}
             ELSE IF line \in Names THEN shown[line] ELSE {}

DesiredIsOwn ==
  /\ asked.desired \subseteq UNION {Own(l) : l \in asked.listed}
  /\ asked.complete => \A l \in asked.listed : Own(l) \intersect asked.desired # {}
=============================================================================
