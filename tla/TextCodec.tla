------------------------------ MODULE TextCodec ------------------------------
(***************************************************************************)
(* The hand-written text formats of yt-websub: percent-encoded rows        *)
(* (src/src/util.rs, the row formats of store.rs and subs.rs), query       *)
(* strings (util.rs) and the JSON array of POST /api/channels (api.rs).    *)
(* A text is a sequence of byte values.  The state machine only writes a   *)
(* text byte by byte, so that the properties are evaluated on every text   *)
(* of at most MaxText bytes over Alphabet, cut in two at every place.      *)
(*                                                                         *)
(* Left out: from_utf8_lossy.  The alphabets are ASCII and spell no escape *)
(* of a byte above 127, so every decoded text is UTF-8 already.            *)
(***************************************************************************)
EXTENDS Integers, Sequences, FiniteSetsExt, SequencesExt, Scan, Strings

CONSTANTS
  Alphabet,   \* the bytes a text is made of
  MaxText     \* bound: bytes in a text

ASSUME AlphabetAssumption == Alphabet \subseteq 0 .. 127
ASSUME MaxTextAssumption == MaxText \in Nat

VARIABLE text

TAB == 9
LF == 10
CR == 13
SPACE == 32
QUOTE == 34
PERCENT == 37
AMPERSAND == 38
PLUS == 43
EQUALS == 61
OPEN == 91
BACKSLASH == 92
CLOSE == 93
DEL == 127

\* str::trim
Trim(s) ==
  LET kept == {i \in DOMAIN s : s[i] \notin {TAB, LF, CR, SPACE}}
  IN  IF kept = {} THEN <<>> ELSE SubSeq(s, Min(kept), Max(kept))

NonEmpty(parts) == Filtered(parts, {k \in DOMAIN parts : parts[k] # <<>>})

(***************************************************************************)
(* Percent escapes.                                                        *)
(***************************************************************************)
HexVal(c) ==
  IF c \in 48 .. 57 THEN {c - 48}
  ELSE {c - k : k \in {k \in {55, 87} : c - k \in 10 .. 15}}

Hex(b, ten) ==
  LET Digit(d) == IF d < 10 THEN 48 + d ELSE ten + d - 10
  IN  <<Digit(b \div 16), Digit(b % 16)>>
Escape(b) == <<PERCENT>> \o Hex(b, 65)

StructuralButPercent(b) == b < 32 \/ b = DEL
Structural(b) == b < 32 \/ b = PERCENT \/ b = DEL

PctEncode(s) ==
  FlattenSeq([i \in DOMAIN s |-> IF Structural(s[i]) THEN Escape(s[i]) ELSE <<s[i]>>])

(* An escape is read only when both digits are there and are digits; any   *)
(* other % is a plain byte.                                                *)
HasMoreThanDigits(s, i) == i + 2 < Len(s)
HasDigits(s, i) == i + 2 <= Len(s)
EscapedAt(s, i) ==
  IF s[i] = PERCENT /\ HasDigits(s, i)
  THEN {16 * h + l : h \in HexVal(s[i + 1]), l \in HexVal(s[i + 2])}
  ELSE {}

(* The loop that pct_decode and url_decode share: what the last n bytes    *)
(* decode to.  A plain byte of blanks is read as a space.                  *)
Unescaped(s, blanks) ==
  LET decoded[n \in 0 .. Len(s)] ==
        LET i == Len(s) - n + 1
            values == EscapedAt(s, i)
        IN  IF n = 0 THEN <<>>
            ELSE IF values # {} THEN <<CHOOSE v \in values : TRUE>> \o decoded[n - 3]
            ELSE <<IF s[i] \in blanks THEN SPACE ELSE s[i]>> \o decoded[n - 1]
  IN  decoded[Len(s)]

PctDecode(s) == Unescaped(s, {})
UrlDecode(s) == Unescaped(s, {PLUS})

(***************************************************************************)
(* Rows of events.log and subs.tsv: columns joined by TAB, one line each.  *)
(* The numeric columns are left out (they are digits), and so are columns  *)
(* that differ in nothing but their name.  A log row must have exactly its *)
(* columns; a registry row has raw columns and then an optional encoded    *)
(* one, and whatever an even newer build would add is ignored.             *)
(***************************************************************************)
Lines(s) == NonEmpty(Split(s, LF))
FormatRow(columns) ==
  FlattenSeq([k \in DOMAIN columns |->
    columns[k] \o <<IF k = Len(columns) THEN LF ELSE TAB>>])

LogRow(fields) == FormatRow([k \in DOMAIN fields |-> PctEncode(fields[k])])
ParseLogRow(line, n) ==
  LET p == Split(line, TAB)
  IN  IF Len(p) # n THEN {} ELSE {[k \in 1 .. n |-> PctDecode(p[k])]}

SubRow(raw, lastError) == FormatRow(Append(raw, PctEncode(lastError)))
ParseSubRow(line, n) ==
  LET p == Split(line, TAB)
  IN  IF Len(p) < n THEN {}
      ELSE {[raw |-> SubSeq(p, 1, n),
             lastError |-> IF Len(p) > n THEN PctDecode(p[n + 1]) ELSE <<>>]}

(***************************************************************************)
(* query_get: the first value given to a key, both decoded.                *)
(***************************************************************************)
QueryGet(query, key) ==
  LET pairs == NonEmpty(Split(query, AMPERSAND))
      Cut(p) == IF FirstAt(p, EQUALS) = 0 THEN Len(p) + 1 ELSE FirstAt(p, EQUALS)
      hits == {k \in DOMAIN pairs : UrlDecode(Before(pairs[k], Cut(pairs[k]))) = key}
      hit == pairs[Min(hits)]
  IN  IF hits = {} THEN {} ELSE {UrlDecode(After(hit, Cut(hit)))}

(***************************************************************************)
(* json_string, and extract_string_array: the literals of the first array. *)
(* The array ends at the first closing bracket, inside a literal or not,   *)
(* and a literal that is cut off counts with what there is of it.          *)
(***************************************************************************)
JsonEscapes ==
  [b \in {QUOTE, BACKSLASH, LF, CR, TAB} |->
     CASE b = LF -> 110 [] b = CR -> 114 [] b = TAB -> 116 [] OTHER -> b]

JsonChar(b) ==
  IF b \in DOMAIN JsonEscapes THEN <<BACKSLASH, JsonEscapes[b]>>
  ELSE IF b < 32 THEN <<BACKSLASH, 117, 48, 48>> \o Hex(b, 97)
  ELSE <<b>>
JsonString(s) == <<QUOTE>> \o FlattenSeq([i \in DOMAIN s |-> JsonChar(s[i])]) \o <<QUOTE>>

JsonUnescape(b) == IF b = 110 THEN LF ELSE IF b = 116 THEN TAB ELSE IF b = 114 THEN CR ELSE b

ReadByte(a, b) ==
  CASE a.mode = "outside" -> IF b = QUOTE THEN [a EXCEPT !.mode = "inside"] ELSE a
    [] a.mode = "escape" -> [a EXCEPT !.mode = "inside", !.literal = Append(@, JsonUnescape(b))]
    [] a.mode = "inside" /\ b = BACKSLASH -> [a EXCEPT !.mode = "escape"]
    [] a.mode = "inside" /\ b = QUOTE ->
         [mode |-> "outside", literal |-> <<>>, found |-> Append(a.found, Trim(a.literal))]
    [] OTHER -> [a EXCEPT !.literal = Append(@, b)]

Outside == [mode |-> "outside", literal |-> <<>>, found |-> <<>>]
Reading(s) ==
  LET read[n \in 0 .. Len(s)] == IF n = 0 THEN Outside ELSE ReadByte(read[n - 1], s[n])
  IN  read[Len(s)]

StringArray(body) ==
  LET rest == After(body, FirstAt(body, OPEN))
      end == FirstAt(rest, CLOSE)
      last == Reading(IF end = 0 THEN rest ELSE Before(rest, end))
  IN  IF FirstAt(body, OPEN) = 0 THEN <<>>
      ELSE NonEmpty(Append(last.found, Trim(last.literal)))

IsSafeChannelEntry(s) == s # <<>> /\ \A i \in DOMAIN s : s[i] >= 32 /\ s[i] # DEL

-----------------------------------------------------------------------------
(* The writer of the texts: it stands for whoever fills a field.           *)
CodecInit == text = <<>>
CodecNext == \E b \in Alphabet : Len(text) < MaxText /\ text' = Append(text, b)
CodecSpec == CodecInit /\ [][CodecNext]_text

Cuts == {<<SubSeq(text, 1, i), After(text, i)>> : i \in 0 .. Len(text)}
Swap(p) == <<p[2], p[1]>>

(* An encoding of names and values by the sender, who escapes what is      *)
(* structural in a query: it is what the hub or a client sends us.         *)
UrlChar(b) ==
  IF b < 32 \/ b \in {PERCENT, AMPERSAND, PLUS, EQUALS} THEN Escape(b)
  ELSE IF b = SPACE THEN <<PLUS>> ELSE <<b>>
UrlEncode(s) == FlattenSeq([i \in DOMAIN s |-> UrlChar(s[i])])

(***************************************************************************)
(* Whatever bytes a signed feed or a hub's error puts into the fields,     *)
(* each row is one line and reads back as the fields that were written, no *)
(* field reaching into the next column or the next row (store.rs:48-53);   *)
(* and a registry row of the older build, which lacks the last column,     *)
(* still loads (subs.rs:135-141).                                          *)
(***************************************************************************)
RowsReadBack ==
  \A p \in Cuts :
    /\ LET log == Lines(LogRow(p) \o LogRow(Swap(p)))
       IN  [k \in DOMAIN log |-> ParseLogRow(log[k], 2)] = <<{p}, {Swap(p)}>>
    /\ LET raw == <<<<90>>, <<89>>>>
           rows == Lines(SubRow(raw, p[1]) \o FormatRow(raw) \o SubRow(raw, p[2]))
       IN  [k \in DOMAIN rows |-> ParseSubRow(rows[k], 2)] =
             <<{[raw |-> raw, lastError |-> p[1]]}, {[raw |-> raw, lastError |-> <<>>]},
               {[raw |-> raw, lastError |-> p[2]]}>>

(***************************************************************************)
(* What the other side of an HTTP request meant is what a handler reads: a *)
(* query parameter is the first one of its name, whatever its name and its *)
(* value contain (the topic is itself a URL with a query); and an entry of *)
(* a posted array is read as it was written, but for blanks around it, as  *)
(* long as it has no closing bracket.                                      *)
(***************************************************************************)
RequestReadsBack ==
  \A p \in Cuts :
    LET other == p[1] \o p[2] \o <<90>>
        Pair(k, v) == UrlEncode(k) \o <<EQUALS>> \o UrlEncode(v)
        query == Pair(other, <<>>) \o <<AMPERSAND>> \o Pair(p[1], p[2]) \o <<AMPERSAND>>
                 \o Pair(p[1], other)
        Readable(s) == IsSafeChannelEntry(s) /\ CLOSE \notin Range(s)
        body == JsonString(<<90>>) \o <<58, OPEN>> \o JsonString(p[1]) \o <<44, SPACE>>
                \o JsonString(p[2]) \o <<CLOSE>> \o JsonString(other)
    IN  /\ QueryGet(query, p[1]) = {p[2]}
        /\ Readable(p[1]) /\ Readable(p[2]) =>
             StringArray(body) = NonEmpty(<<Trim(p[1]), Trim(p[2])>>)
==============================================================================
