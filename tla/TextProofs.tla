----------------------------- MODULE TextProofs -----------------------------
(***************************************************************************)
(* Proofs about the text the daemon reads and writes.                      *)
(*                                                                         *)
(* ListText, for any entries, edits and pages.  The file is rewritten as   *)
(* the remarks it had and the entries of a list, so what it means does not *)
(* depend on how often that has been done: the lemmas on Filtered say what *)
(* is left of two parts in a row.  From there on a desired set is about    *)
(* the listed entries, and what may have gone wrong is the cache:          *)
(* CacheIsOwn says that an id in it, on disk or in memory, is one the      *)
(* name's page has belonged to, and anything else there is not taken for   *)
(* an id.                                                                  *)
(*                                                                         *)
(* TextCodec, for any alphabet of ASCII characters.  Each encoding is a    *)
(* code: a text is written as its characters' codes, one after the other   *)
(* (Coded).  No code holds a character that ends a field, so a field is    *)
(* cut where it was joined, and each code decodes to its character         *)
(* whatever follows it, so a field decodes to what was encoded.            *)
(*                                                                         *)
(* FeedText, for any ids, titles and times.  FeedInv says that the         *)
(* document, cut up at the tags of entries, is the blocks that were        *)
(* closed and the segments of the fields written since, and that the       *)
(* blocks are read as what was meant.  A segment holds none of the tags    *)
(* another field is searched by, so each field is found in its own.        *)
(***************************************************************************)
EXTENDS TextCodec, FeedText, ListText, ScanProofs, SequenceTheorems

\* An entry of one line is not a remark.
PlainEntries == \A e \in Entries : Len(e) = 1 => ~IsRemark(e[1])

\* Of a page's markers, the one that decides is its owner's.
OwnPages == \A p \in Pages : ExtractUc(p.items) \subseteq {p.owner}

Remark == {l \in Lines_ : IsRemark(l)}
Plain  == {l \in Lines_ : ~IsRemark(l)}

-----------------------------------------------------------------------------
(* Lines *)

LEMMA Retyped ==
    ASSUME NEW S, NEW T, NEW s \in Seq(S), \A i \in 1..Len(s) : s[i] \in T
    PROVE  s \in Seq(T)
OBVIOUS

LEMMA LinesSplit ==
    /\ Entries \subseteq Seq(Lines_) /\ Edits \subseteq Lines_
    /\ Remark \subseteq Lines_ /\ Plain \subseteq Lines_
<1>1. ASSUME NEW e \in Entries PROVE e \in Seq(Lines_)
  <2>1. e \in Seq(LineKinds \X STRING)
    BY ListAssumption
  <2>2. \A i \in 1..Len(e) : e[i] \in Lines_
    BY <2>1 DEF Lines_, Range
  <2> QED BY <2>1, <2>2
<1>2. Edits \subseteq Lines_
  BY DEF Lines_
<1> QED BY <1>1, <1>2 DEF Remark, Plain

\* Active and Remarks in the terms of the lemmas.
LEMMA Parts ==
    ASSUME NEW s \in Seq(Lines_)
    PROVE  /\ Active(s) = Filtered(s, Positions(s, Plain))
           /\ Remarks(s) = Filtered(s, Positions(s, Remark))
<1>1. DOMAIN s = 1..Len(s) /\ \A i \in DOMAIN s : s[i] \in Lines_
  OBVIOUS
<1>2. {k \in DOMAIN s : ~IsRemark(s[k])} = Positions(s, Plain)
  BY <1>1 DEF Positions, Plain
<1>3. {k \in DOMAIN s : IsRemark(s[k])} = Positions(s, Remark)
  BY <1>1 DEF Positions, Remark
<1> QED BY <1>2, <1>3 DEF Active, Remarks

LEMMA PartsType ==
    ASSUME NEW s \in Seq(Lines_)
    PROVE  Active(s) \in Seq(Plain) /\ Remarks(s) \in Seq(Remark)
<1>1. Lines_ \intersect Plain = Plain /\ Lines_ \intersect Remark = Remark
  BY DEF Plain, Remark
<1>2. Filtered(s, Positions(s, Plain)) \in Seq(Lines_ \intersect Plain)
  BY FilteredType
<1>3. Filtered(s, Positions(s, Remark)) \in Seq(Lines_ \intersect Remark)
  BY FilteredType
<1> QED BY <1>1, <1>2, <1>3, Parts

LEMMA PartsOfPlain ==
    ASSUME NEW s \in Seq(Plain)
    PROVE  s \in Seq(Lines_) /\ Active(s) = s /\ Remarks(s) = <<>>
<1>1. s \in Seq(Lines_)
  BY LinesSplit
<1>2. \A i \in 1..Len(s) : s[i] \in Plain /\ s[i] \notin Remark
  BY DEF Plain, Remark
<1>3. \A i \in 1..Len(s) : i \in Positions(s, Plain)
  BY <1>2 DEF Positions
<1>4. Filtered(s, Positions(s, Plain)) = s
  BY <1>1, <1>3, FilteredAll
<1>5. Filtered(s, Positions(s, Remark)) = <<>>
  BY <1>1, <1>2, FilteredNone
<1> QED BY <1>1, <1>4, <1>5, Parts

LEMMA PartsOfRemarks ==
    ASSUME NEW s \in Seq(Remark)
    PROVE  s \in Seq(Lines_) /\ Active(s) = <<>> /\ Remarks(s) = s
<1>1. s \in Seq(Lines_)
  BY LinesSplit
<1>2. \A i \in 1..Len(s) : s[i] \in Remark /\ s[i] \notin Plain
  BY DEF Plain, Remark
<1>3. \A i \in 1..Len(s) : i \in Positions(s, Remark)
  BY <1>2 DEF Positions
<1>4. Filtered(s, Positions(s, Remark)) = s
  BY <1>1, <1>3, FilteredAll
<1>5. Filtered(s, Positions(s, Plain)) = <<>>
  BY <1>1, <1>2, FilteredNone
<1> QED BY <1>1, <1>4, <1>5, Parts

LEMMA PartsOfTwo ==
    ASSUME NEW s \in Seq(Lines_), NEW t \in Seq(Lines_)
    PROVE  /\ s \o t \in Seq(Lines_)
           /\ Active(s \o t) = Active(s) \o Active(t)
           /\ Remarks(s \o t) = Remarks(s) \o Remarks(t)
<1> DEFINE u == s \o t
<1>1. u \in Seq(Lines_)
  OBVIOUS
<1>2. \A V : Filtered(u, Positions(u, V))
              = Filtered(s, Positions(s, V)) \o Filtered(t, Positions(t, V))
  BY FilteredConcat
<1> HIDE DEF u
<1>3. /\ Active(u) = Filtered(u, Positions(u, Plain))
      /\ Remarks(u) = Filtered(u, Positions(u, Remark))
  BY <1>1, Parts
<1>4. /\ Active(s) = Filtered(s, Positions(s, Plain))
      /\ Active(t) = Filtered(t, Positions(t, Plain))
      /\ Remarks(s) = Filtered(s, Positions(s, Remark))
      /\ Remarks(t) = Filtered(t, Positions(t, Remark))
  BY Parts
<1>5. Active(u) = Active(s) \o Active(t) /\ Remarks(u) = Remarks(s) \o Remarks(t)
  BY <1>2, <1>3, <1>4
<1> QED BY <1>1, <1>5 DEF u

LEMMA PartsOfLonger ==
    ASSUME NEW s \in Seq(Lines_), NEW l \in Lines_
    PROVE  /\ Append(s, l) \in Seq(Lines_)
           /\ Active(Append(s, l)) = IF IsRemark(l) THEN Active(s) ELSE Append(Active(s), l)
           /\ Remarks(Append(s, l)) = IF IsRemark(l) THEN Append(Remarks(s), l) ELSE Remarks(s)
<1> DEFINE u == Append(s, l)
<1>1. u \in Seq(Lines_)
  OBVIOUS
<1>2. (l \in Plain <=> ~IsRemark(l)) /\ (l \in Remark <=> IsRemark(l))
  BY DEF Plain, Remark
<1>3. \A V : Filtered(u, Positions(u, V))
              = IF l \in V THEN Append(Filtered(s, Positions(s, V)), l)
                           ELSE Filtered(s, Positions(s, V))
  BY FilteredAppend
<1> HIDE DEF u
<1>4. /\ Active(u) = Filtered(u, Positions(u, Plain))
      /\ Remarks(u) = Filtered(u, Positions(u, Remark))
  BY <1>1, Parts
<1>5. /\ Active(s) = Filtered(s, Positions(s, Plain))
      /\ Remarks(s) = Filtered(s, Positions(s, Remark))
  BY Parts
<1>6. /\ Active(u) = IF IsRemark(l) THEN Active(s) ELSE Append(Active(s), l)
      /\ Remarks(u) = IF IsRemark(l) THEN Append(Remarks(s), l) ELSE Remarks(s)
  BY <1>2, <1>3, <1>4, <1>5
<1> QED BY <1>1, <1>6 DEF u

-----------------------------------------------------------------------------
(* FlattenSeq *)

Flattened(F, m, ss) ==
    F = [i \in 1..m |-> IF i = 1 THEN ss[i] ELSE F[i - 1] \o ss[i]]

\* FlattenSeq puts the sequences of ss one behind the other.
LEMMA FlattenDef ==
    ASSUME NEW ss, Len(ss) \in Nat \ {0}
    PROVE  \E F : Flattened(F, Len(ss), ss) /\ FlattenSeq(ss) = F[Len(ss)]
<1> DEFINE T == {m \in Nat : \E F : Flattened(F, m + 1, ss)}
<1>1. 0 \in T
  <2> DEFINE F == [i \in 1..(0 + 1) |-> ss[i]]
             G == [i \in 1..(0 + 1) |-> IF i = 1 THEN ss[i] ELSE F[i - 1] \o ss[i]]
  <2>1. \A i \in 1..(0 + 1) : F[i] = G[i]
    OBVIOUS
  <2>2. F = G
    BY <2>1
  <2>3. Flattened(F, 0 + 1, ss)
    BY <2>2 DEF Flattened
  <2> QED BY <2>3
<1>2. \A m \in Nat : m \in T => m + 1 \in T
  <2> SUFFICES ASSUME NEW m \in Nat, NEW F, Flattened(F, m + 1, ss)
               PROVE  \E G : Flattened(G, (m + 1) + 1, ss)
    OBVIOUS
  <2> DEFINE k == m + 1
             G == [i \in 1..(k + 1) |-> IF i = k + 1 THEN F[k] \o ss[k + 1] ELSE F[i]]
             H == [i \in 1..(k + 1) |-> IF i = 1 THEN ss[i] ELSE G[i - 1] \o ss[i]]
  <2>1. \A i \in 1..k : F[i] = IF i = 1 THEN ss[i] ELSE F[i - 1] \o ss[i]
    BY DEF Flattened
  <2>2. \A i \in 1..(k + 1) : i # 1 => i - 1 \in 1..(k + 1) /\ i - 1 # k + 1
    OBVIOUS
  <2>3. \A i \in 1..(k + 1) : i # 1 => G[i - 1] = F[i - 1]
    BY <2>2
  <2>4. \A i \in 1..(k + 1) : (i = k + 1 /\ i # 1) \/ (i \in 1..k /\ i # k + 1)
    OBVIOUS
  <2>5. \A i \in 1..(k + 1) : G[i] = H[i]
    <3> TAKE i \in 1..(k + 1)
    <3>1. CASE i = k + 1 /\ i # 1
      <4>1. G[i] = F[k] \o ss[i] /\ H[i] = G[i - 1] \o ss[i]
        BY <3>1
      <4>2. G[i - 1] = F[i - 1] /\ i - 1 = k
        BY <3>1, <2>3
      <4> HIDE DEF G, H
      <4> QED BY <4>1, <4>2
    <3>2. CASE i \in 1..k /\ i # k + 1
      BY <3>2, <2>1, <2>3
    <3> QED BY <3>1, <3>2, <2>4
  <2>6. G = H
    BY <2>5
  <2>7. Flattened(G, k + 1, ss)
    BY <2>6 DEF Flattened
  <2> QED BY <2>7
<1> HIDE DEF T
<1>3. Len(ss) - 1 \in Nat /\ (Len(ss) - 1) + 1 = Len(ss) /\ Len(ss) # 0
  OBVIOUS
<1>4. Len(ss) - 1 \in T
  BY <1>1, <1>2, <1>3, NatSetInduction
<1>5. \E F : Flattened(F, Len(ss), ss)
  BY <1>3, <1>4 DEF T
<1> DEFINE C == CHOOSE F : Flattened(F, Len(ss), ss)
<1>6. Flattened(C, Len(ss), ss)
  BY <1>5
<1>7. FlattenSeq(ss) = C[Len(ss)]
  BY <1>3 DEF FlattenSeq, Flattened
<1> HIDE DEF C
<1> QED BY <1>6, <1>7

LEMMA FlattenType ==
    ASSUME NEW S, NEW ss \in Seq(Seq(S))
    PROVE  FlattenSeq(ss) \in Seq(S)
<1>1. CASE Len(ss) = 0
  <2>1. ss = <<>> /\ FlattenSeq(ss) = ss
    BY <1>1 DEF FlattenSeq
  <2>2. <<>> \in Seq(S)
    OBVIOUS
  <2> QED BY <2>1, <2>2
<1>2. CASE Len(ss) # 0
  <2>1. Len(ss) \in Nat \ {0}
    BY <1>2
  <2>2. PICK F : Flattened(F, Len(ss), ss) /\ FlattenSeq(ss) = F[Len(ss)]
    BY <2>1, FlattenDef
  <2> DEFINE T == {m \in Nat : m + 1 \in 1..Len(ss) => F[m + 1] \in Seq(S)}
  <2>3. \A i \in 1..Len(ss) : /\ ss[i] \in Seq(S)
                              /\ F[i] = IF i = 1 THEN ss[i] ELSE F[i - 1] \o ss[i]
    <3>1. \A i \in 1..Len(ss) : ss[i] \in Seq(S)
      OBVIOUS
    <3>2. F = [i \in 1..Len(ss) |-> IF i = 1 THEN ss[i] ELSE F[i - 1] \o ss[i]]
      BY <2>2 DEF Flattened
    <3>3. \A i \in 1..Len(ss) : F[i] = IF i = 1 THEN ss[i] ELSE F[i - 1] \o ss[i]
      BY <3>2
    <3> QED BY <3>1, <3>3
  <2>4. 0 \in T
    BY <2>1, <2>3
  <2>5. \A m \in Nat : m \in T => m + 1 \in T
    <3> SUFFICES ASSUME NEW m \in Nat, m \in T, (m + 1) + 1 \in 1..Len(ss)
                 PROVE  F[(m + 1) + 1] \in Seq(S)
      OBVIOUS
    <3>1. m + 1 \in 1..Len(ss) /\ (m + 1) + 1 # 1 /\ ((m + 1) + 1) - 1 = m + 1
      BY <2>1
    <3>2. F[m + 1] \in Seq(S)
      BY <3>1
    <3>3. F[(m + 1) + 1] = F[m + 1] \o ss[(m + 1) + 1] /\ ss[(m + 1) + 1] \in Seq(S)
      BY <2>3, <3>1
    <3> QED BY <3>2, <3>3
  <2> HIDE DEF T
  <2>6. /\ Len(ss) - 1 \in Nat /\ Len(ss) - 1 \in T
        /\ (Len(ss) - 1) + 1 \in 1..Len(ss) /\ (Len(ss) - 1) + 1 = Len(ss)
    <3>1. \A m \in Nat : m \in T
      BY <2>4, <2>5, NatSetInduction
    <3>2. \A N \in Nat \ {0} : N - 1 \in Nat /\ (N - 1) + 1 \in 1..N /\ (N - 1) + 1 = N
      OBVIOUS
    <3> HIDE DEF T
    <3> QED BY <2>1, <3>1, <3>2
  <2>7. F[(Len(ss) - 1) + 1] \in Seq(S)
    BY <2>6 DEF T
  <2> QED BY <2>2, <2>6, <2>7
<1> QED BY <1>1, <1>2

-----------------------------------------------------------------------------
(* The file *)

Listing == file \in Seq(Lines_) /\ Active(file) = listed

\* What a POST puts into the file.
Accepted(posted) == Filtered(posted, {k \in DOMAIN posted : IsOneLine(posted[k])})

LEMMA AcceptedLines ==
    ASSUME ListAssumption, PlainEntries, NEW n \in Nat, NEW posted \in TupleOf(Entries, n)
    PROVE  FlattenSeq(Accepted(posted)) \in Seq(Plain)
<1> DEFINE V == {e \in Entries : IsOneLine(e)}
<1>1. posted \in Seq(Entries)
  BY DEF TupleOf
<1>2. {k \in DOMAIN posted : IsOneLine(posted[k])} = Positions(posted, V)
  <2>1. \A k \in DOMAIN posted : posted[k] \in Entries
    BY <1>1
  <2> QED BY <2>1 DEF Positions
<1>3. Entries \intersect V = V
  OBVIOUS
<1>4. \A e \in V : e \in Seq(Plain)
  <2> TAKE e \in V
  <2>1. e \in Seq(Lines_) /\ Len(e) = 1 /\ ~IsRemark(e[1])
    BY LinesSplit DEF IsOneLine, PlainEntries
  <2>2. \A i \in 1..Len(e) : e[i] \in Plain
    BY <2>1 DEF Plain
  <2> HIDE DEF V
  <2> QED BY <2>1, <2>2, Retyped
<1> HIDE DEF V
<1>5. Accepted(posted) \in Seq(V)
  BY <1>1, <1>2, <1>3, FilteredType DEF Accepted
<1>6. Accepted(posted) \in Seq(Seq(Plain))
  BY <1>4, <1>5
<1> QED BY <1>6, FlattenType

LEMMA PostLists ==
    ASSUME ListAssumption, PlainEntries, Listing, NEW n \in Nat,
           NEW posted \in TupleOf(Entries, n), Post(posted)
    PROVE  /\ Listing'
           /\ "unreadable" \notin Faults => Remarks(file') = Remarks(file)
<1> DEFINE f == FlattenSeq(Accepted(posted))
<1>1. listed' = f
  <2>1. {k \in DOMAIN posted : Len(posted[k]) = 1}
          = {k \in DOMAIN posted : IsOneLine(posted[k])}
    BY DEF IsOneLine
  <2> QED BY <2>1 DEF Post, Accepted
<1>2. PICK e \in {file} \union {<<>> : fault \in Faults \intersect {"unreadable"}} :
        file' = Remarks(e) \o f
  BY DEF Post, Rendered, Accepted
<1>3. f \in Seq(Plain)
  BY AcceptedLines
<1> HIDE DEF f
<1>4. e \in Seq(Lines_) /\ ("unreadable" \notin Faults => e = file)
  <2>1. e = file \/ (e = <<>> /\ "unreadable" \in Faults)
    BY <1>2
  <2>2. <<>> \in Seq(Lines_)
    OBVIOUS
  <2> QED BY <2>1, <2>2 DEF Listing
<1>5. Remarks(e) \in Seq(Remark)
  BY <1>4, PartsType
<1>6. /\ f \in Seq(Lines_) /\ Active(f) = f /\ Remarks(f) = <<>>
      /\ Remarks(e) \in Seq(Lines_) /\ Active(Remarks(e)) = <<>>
      /\ Remarks(Remarks(e)) = Remarks(e)
  BY <1>3, <1>5, PartsOfPlain, PartsOfRemarks
<1>7. /\ file' \in Seq(Lines_) /\ Active(file') = <<>> \o f
      /\ Remarks(file') = Remarks(e) \o <<>>
  BY <1>2, <1>6, PartsOfTwo
<1>8. <<>> \o f = f /\ Remarks(e) \o <<>> = Remarks(e)
  BY <1>3, <1>5
<1>9. Active(file') = listed'
  BY <1>1, <1>7, <1>8
<1>10. Listing'
  BY <1>7, <1>9 DEF Listing, Active
<1> QED BY <1>4, <1>7, <1>8, <1>10

LEMMA EditLists ==
    ASSUME Listing, NEW line \in Edits, Edit(line)
    PROVE  Listing' /\ (Remarks(file) = remarks => Remarks(file') = remarks')
<1>1. line \in Lines_ /\ file \in Seq(Lines_) /\ file' = Append(file, line)
  BY LinesSplit DEF Listing, Edit
<1>2. /\ file' \in Seq(Lines_)
      /\ Active(file') = IF IsRemark(line) THEN Active(file) ELSE Append(Active(file), line)
      /\ Remarks(file') = IF IsRemark(line) THEN Append(Remarks(file), line) ELSE Remarks(file)
  BY <1>1, PartsOfLonger
<1>3. IF IsRemark(line) THEN remarks' = Append(remarks, line) /\ listed' = listed
                        ELSE listed' = Append(listed, line) /\ remarks' = remarks
  BY DEF Edit
<1>4. Active(file') = listed'
  BY <1>2, <1>3 DEF Listing
<1>5. Listing'
  BY <1>2, <1>4 DEF Listing, Active
<1> QED BY <1>2, <1>3, <1>5

LEMMA ListingInit == ListInit => Listing /\ Remarks(file) = remarks
<1> SUFFICES ASSUME ListInit PROVE Listing /\ Remarks(file) = remarks
  OBVIOUS
<1>1. file = <<>> /\ listed = <<>> /\ remarks = <<>> /\ <<>> \in Seq(Plain)
  BY DEF ListInit
<1> QED BY <1>1, PartsOfPlain DEF Listing

LEMMA ListingStep ==
    ASSUME ListAssumption, PlainEntries, Listing, [ListNext]_listVars
    PROVE  /\ Listing'
           /\ "unreadable" \notin Faults /\ Remarks(file) = remarks
                => Remarks(file') = remarks'
<1>1. ASSUME NEW n \in 0 .. MaxLines, NEW posted \in TupleOf(Entries, n), Post(posted)
      PROVE  Listing' /\ ("unreadable" \notin Faults => Remarks(file') = Remarks(file))
                      /\ remarks' = remarks
  <2>1. n \in Nat
    OBVIOUS
  <2> QED BY <1>1, <2>1, PostLists DEF Post
<1>2. ASSUME NEW line \in Edits, Edit(line)
      PROVE  Listing' /\ (Remarks(file) = remarks => Remarks(file') = remarks')
  BY <1>2, EditLists
<1>3. ASSUME UNCHANGED <<file, listed, remarks>>
      PROVE  Listing' /\ (Remarks(file) = remarks => Remarks(file') = remarks')
  BY <1>3 DEF Listing, Active
<1>4. CASE \/ \E n \in Names, page \in Pages : Move(n, page)
           \/ DesiredSet \/ Restart \/ UNCHANGED listVars
  <2>1. UNCHANGED <<file, listed, remarks>>
    BY <1>4 DEF Move, DesiredSet, Restart, listVars
  <2> QED BY <1>3, <2>1
<1> QED BY <1>1, <1>2, <1>4 DEF ListNext

\* After any POSTs and edits the file is the operator's remarks and the
\* last list's entries, as long as no entry is a remark itself and the old file
\* can be read.
THEOREM FileIsAsListedAlways ==
    ASSUME PlainEntries, "unreadable" \notin Faults
    PROVE  ListSpec => []FileIsAsListed
<1> DEFINE Inv == Listing /\ Remarks(file) = remarks
<1>1. ListInit => Inv
  BY ListingInit
<1>2. Inv /\ [ListNext]_listVars => Inv'
  <2> SUFFICES ASSUME Inv, [ListNext]_listVars PROVE Inv'
    OBVIOUS
  <2>1. Listing' /\ Remarks(file') = remarks'
    BY ListAssumption, ListingStep
  <2> QED BY <2>1 DEF Remarks
<1>3. Inv => FileIsAsListed
  BY DEF Listing, FileIsAsListed
<1> HIDE DEF Inv
<1> QED BY <1>1, <1>2, <1>3, PTL DEF ListSpec

-----------------------------------------------------------------------------
(* The desired set *)

Shown ==
    /\ web \in [Names -> Pages] /\ DOMAIN shown = Names
    /\ \A n \in Names : web[n].owner \in shown[n]

\* What a name has in c is an id of its page, or no id.
CacheOwn(c) ==
    /\ DOMAIN c \subseteq Names
    /\ \A n \in DOMAIN c : c[n] \in Ids => c[n] \in shown[n]

CacheIsOwn == Shown /\ CacheOwn(cache) /\ CacheOwn(disk)

DesiredInv == Listing /\ CacheIsOwn /\ DesiredIsOwn

LEMMA ResolveIsOwn ==
    ASSUME OwnPages, CacheIsOwn, NEW l \in Lines_
    PROVE  Resolve(l, cache) \subseteq Own(l)
<1>1. CASE l[1] \in {"id", "url"}
  BY <1>1 DEF Resolve, Own
<1>2. CASE l[1] \notin {"id", "url"} /\ l \in DOMAIN cache /\ Trusted(cache[l])
  <2>1. l \in Names /\ cache[l] \in shown[l]
    BY <1>2 DEF CacheIsOwn, CacheOwn, Trusted, IsChannelId
  <2>2. Resolve(l, cache) = {cache[l]} /\ Own(l) = shown[l]
    BY <1>2, <2>1 DEF Resolve, Own
  <2> QED BY <2>1, <2>2
<1>3. CASE l[1] = "name" /\ ~(l \in DOMAIN cache /\ Trusted(cache[l]))
  <2>1. l \in Names /\ l[1] \notin {"id", "url"}
    BY <1>3 DEF Names
  <2>2. Resolve(l, cache) = ExtractUc(web[l].items) /\ Own(l) = shown[l]
    BY <1>3, <2>1 DEF Resolve, Own
  <2>3. web[l] \in Pages /\ web[l].owner \in shown[l]
    BY <2>1 DEF CacheIsOwn, Shown
  <2>4. ExtractUc(web[l].items) \subseteq {web[l].owner}
    BY <2>3 DEF OwnPages
  <2> QED BY <2>2, <2>3, <2>4
<1>4. CASE /\ l[1] \notin {"id", "url", "name"}
           /\ ~(l \in DOMAIN cache /\ Trusted(cache[l]))
  BY <1>4 DEF Resolve
<1> QED BY <1>1, <1>2, <1>3, <1>4

LEMMA CutIsOwn ==
    ASSUME ListAssumption, NEW c, CacheOwn(c), NEW d \in Cut(c)
    PROVE  CacheOwn(d)
<1> DEFINE C(kept, torn) == [n \in kept \union torn |-> IF n \in torn THEN Junk ELSE c[n]]
           K == SUBSET DOMAIN c  U == {{}} \union {{n} : n \in DOMAIN c}
<1>0. Cut(c) = {C(kept, torn) : kept \in K, torn \in U}
  BY DEF Cut
<1> HIDE DEF C, K, U
<1>1. PICK kept \in K, torn \in U : d = C(kept, torn)
  BY <1>0
<1> USE DEF C, K, U
<1>2. kept \union torn \subseteq DOMAIN c
  BY <1>1
<1>3. \A n \in DOMAIN d : n \in DOMAIN c /\ (d[n] = Junk \/ d[n] = c[n])
  BY <1>1, <1>2
<1>4. Junk \notin Ids
  BY DEF ListAssumption
<1> QED BY <1>3, <1>4 DEF CacheOwn

\* A reconcile's lookups: what it desires and what it caches is the entries' own.
LEMMA DesiredStep ==
    ASSUME ListAssumption, OwnPages, DesiredInv, DesiredSet
    PROVE  DesiredInv'
<1> DEFINE lines == Active(file)
           found == [k \in DOMAIN lines |-> Resolve(lines[k], cache)]
           fresh == {k \in DOMAIN lines : lines[k] \in Names /\ found[k] # {}
                                          /\ ~(lines[k] \in DOMAIN cache)}
           added == [n \in {lines[k] : k \in fresh} |-> CHOOSE v \in Resolve(n, cache) : TRUE]
           merged == [n \in DOMAIN cache \union {lines[k] : k \in fresh} |->
                        IF n \in DOMAIN cache THEN cache[n]
                        ELSE CHOOSE v \in Resolve(n, cache) : TRUE]
<1>1. /\ asked' = [desired |-> UNION Range(found), listed |-> Range(listed),
                   complete |-> {} \notin Range(found)]
      /\ cache' = merged
      /\ disk' \in {merged} \union UNION {Cut(merged) : fault \in Faults \intersect {"cut"}}
      /\ UNCHANGED <<file, web, listed, remarks, shown, used>>
  BY DEF DesiredSet
<1>2. lines = listed /\ lines \in Seq(Plain)
  BY PartsType DEF DesiredInv, Listing
<1>3. \A k \in DOMAIN lines : lines[k] \in Lines_
  BY <1>2, LinesSplit
<1>4. \A k \in DOMAIN lines : found[k] = Resolve(lines[k], cache) /\ found[k] \subseteq Own(lines[k])
  BY <1>3, ResolveIsOwn DEF DesiredInv
<1>5. \A n \in DOMAIN added : n \in Names /\ added[n] \in shown[n]
  <2> SUFFICES ASSUME NEW k \in fresh PROVE lines[k] \in Names /\ added[lines[k]] \in shown[lines[k]]
    OBVIOUS
  <2>1. /\ lines[k] \in Names /\ found[k] # {} /\ k \in DOMAIN lines
        /\ added[lines[k]] = CHOOSE v \in Resolve(lines[k], cache) : TRUE
    OBVIOUS
  <2> HIDE DEF found, added, fresh
  <2>2. added[lines[k]] \in Own(lines[k])
    BY <1>4, <2>1
  <2>3. Own(lines[k]) = shown[lines[k]]
    BY <2>1 DEF Own, Names
  <2> QED BY <2>1, <2>2, <2>3
<1>6. /\ DOMAIN merged = DOMAIN cache \union DOMAIN added
      /\ \A n \in DOMAIN merged : merged[n] = IF n \in DOMAIN cache THEN cache[n] ELSE added[n]
  OBVIOUS
<1> HIDE DEF found, fresh, added, merged
<1>7. CacheOwn(merged)
  BY <1>5, <1>6 DEF DesiredInv, CacheIsOwn, CacheOwn
<1>8. disk' = merged \/ disk' \in Cut(merged)
  BY <1>1
<1>9. CacheOwn(cache') /\ CacheOwn(disk')
  BY <1>1, <1>7, <1>8, CutIsOwn
<1>10. CacheIsOwn'
  BY <1>1, <1>9 DEF DesiredInv, CacheIsOwn, CacheOwn, Shown
<1>11. Listing'
  BY <1>1 DEF DesiredInv, Listing, Active
<1>12. \A l : Own(l)' = Own(l)
  BY <1>1 DEF Own
<1>13. \A k \in DOMAIN lines : lines[k] \in asked'.listed /\ found[k] \subseteq asked'.desired
  <2>1. DOMAIN found = DOMAIN lines
    BY DEF found
  <2> QED BY <1>1, <1>2, <2>1 DEF Range
<1>14. \A v \in asked'.desired : \E k \in DOMAIN lines : v \in found[k]
  <2>1. DOMAIN found = DOMAIN lines
    BY DEF found
  <2> QED BY <1>1, <2>1 DEF Range
<1>15. asked'.desired \subseteq UNION {Own(l) : l \in asked'.listed}
  BY <1>4, <1>13, <1>14
<1>16. asked'.complete => \A l \in asked'.listed : Own(l) \intersect asked'.desired # {}
  <2> SUFFICES ASSUME asked'.complete, NEW l \in asked'.listed
               PROVE  Own(l) \intersect asked'.desired # {}
    OBVIOUS
  <2>1. PICK k \in DOMAIN lines : l = lines[k]
    BY <1>1, <1>2 DEF Range
  <2>2. found[k] # {}
    <3>1. DOMAIN found = DOMAIN lines
      BY DEF found
    <3> QED BY <1>1, <3>1 DEF Range
  <2> QED BY <1>4, <1>13, <2>1, <2>2
<1>17. DesiredIsOwn'
  BY <1>12, <1>15, <1>16 DEF DesiredIsOwn
<1> QED BY <1>10, <1>11, <1>17 DEF DesiredInv

\* A page that moves to another channel adds to what is the name's own.
LEMMA MoveKeepsOwn ==
    ASSUME CacheIsOwn, DesiredIsOwn, NEW n \in Names, NEW page \in Pages, Move(n, page)
    PROVE  CacheIsOwn' /\ DesiredIsOwn'
<1>1. /\ web' = [web EXCEPT ![n] = page]
      /\ shown' = [shown EXCEPT ![n] = @ \union {page.owner}]
      /\ UNCHANGED <<cache, disk, asked>>
  BY DEF Move
<1>2. Shown
  BY DEF CacheIsOwn
<1>3. DOMAIN shown' = Names /\ \A m \in Names : shown[m] \subseteq shown'[m]
  BY <1>1, <1>2 DEF Shown
<1>4. Shown'
  <2>1. web' \in [Names -> Pages]
    BY <1>1, <1>2 DEF Shown
  <2>2. \A m \in Names : web'[m].owner \in shown'[m]
    <3> TAKE m \in Names
    <3>1. CASE m = n
      BY <1>1, <1>2, <3>1 DEF Shown
    <3>2. CASE m # n
      BY <1>1, <1>2, <3>2 DEF Shown
    <3> QED BY <3>1, <3>2
  <2> QED BY <1>3, <2>1, <2>2 DEF Shown
<1>5. CacheIsOwn'
  BY <1>1, <1>3, <1>4 DEF CacheIsOwn, CacheOwn
<1>6. \A l : Own(l) \subseteq Own(l)'
  BY <1>3 DEF Own
<1>7. DesiredIsOwn'
  <2>1. asked'.desired \subseteq UNION {Own(l)' : l \in asked'.listed}
    BY <1>1, <1>6 DEF DesiredIsOwn
  <2>2. asked'.complete => \A l \in asked'.listed : Own(l)' \intersect asked'.desired # {}
    BY <1>1, <1>6 DEF DesiredIsOwn
  <2> QED BY <2>1, <2>2 DEF DesiredIsOwn
<1> QED BY <1>5, <1>7

LEMMA DesiredInvInit == ListInit => DesiredInv
<1> SUFFICES ASSUME ListInit PROVE CacheIsOwn /\ DesiredIsOwn
  BY ListingInit DEF DesiredInv
<1>1. DOMAIN cache = {} /\ disk = cache
  BY DEF ListInit
<1>2. Shown
  BY DEF ListInit, Shown
<1>3. CacheIsOwn
  BY <1>1, <1>2 DEF CacheIsOwn, CacheOwn
<1>4. asked.desired = {} /\ asked.listed = {}
  BY DEF ListInit
<1> QED BY <1>3, <1>4 DEF DesiredIsOwn

LEMMA DesiredInvStep ==
    ASSUME ListAssumption, PlainEntries, OwnPages, DesiredInv, [ListNext]_listVars
    PROVE  DesiredInv'
<1>1. Listing'
  BY ListingStep DEF DesiredInv
<1>2. CASE DesiredSet
  BY <1>2, DesiredStep
<1>3. CASE Restart
  <2>1. /\ UNCHANGED <<disk, web, shown>> /\ cache' = disk
        /\ asked'.desired = {} /\ asked'.listed = {}
    BY <1>3 DEF Restart
  <2>2. CacheIsOwn'
    BY <2>1 DEF DesiredInv, CacheIsOwn, CacheOwn, Shown
  <2>3. DesiredIsOwn'
    BY <2>1 DEF DesiredIsOwn
  <2> QED BY <1>1, <2>2, <2>3 DEF DesiredInv
<1>4. ASSUME NEW n \in Names, NEW page \in Pages, Move(n, page) PROVE DesiredInv'
  BY <1>1, <1>4, MoveKeepsOwn DEF DesiredInv
<1>5. CASE \/ \E n \in 0 .. MaxLines : \E posted \in TupleOf(Entries, n) : Post(posted)
           \/ \E line \in Edits : Edit(line)
           \/ UNCHANGED listVars
  <2>1. UNCHANGED <<cache, disk, web, shown, asked>>
    BY <1>5 DEF Post, Edit, listVars
  <2>2. CacheIsOwn' /\ DesiredIsOwn'
    BY <2>1 DEF DesiredInv, CacheIsOwn, CacheOwn, Shown, DesiredIsOwn, Own
  <2> QED BY <1>1, <2>2 DEF DesiredInv
<1> QED BY <1>2, <1>3, <1>4, <1>5 DEF ListNext

\* A complete desired set has a channel for every entry of the list, and no
\* desired set has one that is not an entry's own, whatever a crash left of the
\* cache, as long as the marker that decides on a page is its owner's.
THEOREM DesiredIsOwnAlways ==
    ASSUME PlainEntries, OwnPages
    PROVE  ListSpec => []DesiredIsOwn
<1>1. DesiredInv /\ [ListNext]_listVars => DesiredInv'
  BY ListAssumption, DesiredInvStep
<1>2. DesiredInv => DesiredIsOwn
  BY DEF DesiredInv
<1> QED BY <1>1, <1>2, DesiredInvInit, PTL DEF ListSpec

-----------------------------------------------------------------------------
(* Sequences *)

\* A set of sequences that has the empty one and, with each, those that are one
\* element longer at the front.
LEMMA FrontInduction ==
    ASSUME NEW S, NEW P, <<>> \in P,
           \A c \in S : \A t \in Seq(S) : t \in P => Cons(c, t) \in P
    PROVE  \A s \in Seq(S) : s \in P
<1> DEFINE T == {n \in Nat : \A s \in Seq(S) : Len(s) = n => s \in P}
<1>1. 0 \in T
  <2>1. \A s \in Seq(S) : Len(s) = 0 => s = <<>>
    BY EmptySeq
  <2> QED BY <2>1
<1>2. \A n \in Nat : n \in T => n + 1 \in T
  <2> SUFFICES ASSUME NEW n \in Nat, n \in T, NEW s \in Seq(S), Len(s) = n + 1
               PROVE  s \in P
    OBVIOUS
  <2> DEFINE c == Head(s)  t == Tail(s)
  <2>1. s # <<>>
    OBVIOUS
  <2>2. c \in S /\ t \in Seq(S) /\ Len(t) = n
    BY <2>1, HeadTailProperties
  <2>3. s = Cons(c, t)
    <3>1. 1 \in 1..Len(s) /\ Len(s) \in 1..Len(s)
      OBVIOUS
    <3>2. SubSeq(s, 1, Len(s)) = <<s[1]>> \o SubSeq(s, 1 + 1, Len(s))
      BY <3>1, SubSeqRecursiveFirst
    <3>3. SubSeq(s, 1, Len(s)) = s
      BY SubSeqFull
    <3>4. Tail(s) = SubSeq(s, 2, Len(s))
      BY <2>1, TailIsSubSeq
    <3>5. c = s[1]
      OBVIOUS
    <3> QED BY <3>2, <3>3, <3>4, <3>5 DEF Cons
  <2>4. t \in P
    BY <2>2
  <2> HIDE DEF c, t
  <2> QED BY <2>2, <2>3, <2>4
<1> HIDE DEF T
<1>3. \A n \in Nat : n \in T
  BY <1>1, <1>2, NatSetInduction
<1> QED
  <2> TAKE s \in Seq(S)
  <2>1. Len(s) \in Nat
    OBVIOUS
  <2> QED BY <1>3, <2>1 DEF T

LEMMA BackInduction ==
    ASSUME NEW S, NEW P, <<>> \in P,
           \A c \in S : \A t \in Seq(S) : t \in P => Append(t, c) \in P
    PROVE  \A s \in Seq(S) : s \in P
<1> DEFINE T == {n \in Nat : \A s \in Seq(S) : Len(s) = n => s \in P}
<1>1. 0 \in T
  <2>1. \A s \in Seq(S) : Len(s) = 0 => s = <<>>
    BY EmptySeq
  <2> QED BY <2>1
<1>2. \A n \in Nat : n \in T => n + 1 \in T
  <2> SUFFICES ASSUME NEW n \in Nat, n \in T, NEW s \in Seq(S), Len(s) = n + 1
               PROVE  s \in P
    OBVIOUS
  <2>1. /\ ButLast(s) \in Seq(S) /\ Len(ButLast(s)) = n
        /\ s[n + 1] \in S /\ s = Append(ButLast(s), s[n + 1])
    BY LastOff
  <2>2. ButLast(s) \in P
    BY <2>1
  <2> QED BY <2>1, <2>2
<1> HIDE DEF T
<1>3. \A n \in Nat : n \in T
  BY <1>1, <1>2, NatSetInduction
<1> QED
  <2> TAKE s \in Seq(S)
  <2>1. Len(s) \in Nat
    OBVIOUS
  <2> QED BY <1>3, <2>1 DEF T

LEMMA ConsElements ==
    ASSUME NEW S, NEW c \in S, NEW t \in Seq(S)
    PROVE  /\ Cons(c, t) \in Seq(S) /\ Len(Cons(c, t)) = Len(t) + 1
           /\ Cons(c, t)[1] = c
           /\ \A i \in 1..Len(t) : Cons(c, t)[i + 1] = t[i]
<1>1. <<c>> \in Seq(S) /\ Len(<<c>>) = 1 /\ <<c>>[1] = c
  OBVIOUS
<1> DEFINE x == <<c>>
<1> HIDE DEF x
<1>2. x \in Seq(S) /\ Len(x) = 1 /\ x[1] = c
  BY <1>1 DEF x
<1>3. /\ x \o t \in Seq(S) /\ Len(x \o t) = 1 + Len(t)
      /\ \A i \in 1 .. 1 + Len(t) : (x \o t)[i] = IF i <= 1 THEN x[i] ELSE t[i - 1]
  <2>1. /\ x \o t \in Seq(S) /\ Len(x \o t) = Len(x) + Len(t)
        /\ \A i \in 1 .. Len(x) + Len(t) : (x \o t)[i] = IF i <= Len(x) THEN x[i] ELSE t[i - Len(x)]
    BY <1>2, ConcatProperties
  <2> QED BY <1>2, <2>1
<1>4. PICK n \in Nat : n = Len(t)
  OBVIOUS
<1>5. (x \o t)[1] = c
  BY <1>2, <1>3, <1>4
<1>6. ASSUME NEW i \in 1..n PROVE (x \o t)[i + 1] = t[i]
  <2>1. i + 1 \in 1 .. 1 + n /\ ~(i + 1 <= 1) /\ (i + 1) - 1 = i
    OBVIOUS
  <2> QED BY <1>3, <1>4, <2>1
<1>7. Cons(c, t) = x \o t
  BY DEF Cons, x
<1>8. Len(x \o t) = Len(t) + 1
  BY <1>3, <1>4
<1> HIDE DEF x
<1> QED BY <1>3, <1>4, <1>5, <1>6, <1>7, <1>8

LEMMA ConsOne ==
    ASSUME NEW S, NEW x \in S
    PROVE  Cons(x, <<>>) = <<x>>
<1>1. <<x>> \in Seq(S)
  OBVIOUS
<1> QED BY <1>1, ConcatEmptySeq DEF Cons

LEMMA ConsTwo ==
    ASSUME NEW S, NEW x \in S, NEW y \in S
    PROVE  Cons(x, <<y>>) = <<x, y>>
<1> DEFINE t == <<y>>  u == <<x, y>>
<1>1. t \in Seq(S) /\ Len(t) = 1 /\ t[1] = y
  OBVIOUS
<1>2. u \in Seq(S) /\ Len(u) = 2 /\ u[1] = x /\ u[2] = y
  OBVIOUS
<1> HIDE DEF t, u
<1>3. /\ Cons(x, t) \in Seq(S) /\ Len(Cons(x, t)) = Len(t) + 1
      /\ Cons(x, t)[1] = x /\ \A i \in 1..Len(t) : Cons(x, t)[i + 1] = t[i]
  <2>1. x \in S /\ t \in Seq(S)
    BY <1>1
  <2> QED BY <2>1, ConsElements
<1>4. \A i \in 1..2 : Cons(x, t)[i] = u[i]
  <2>1. Cons(x, t)[1 + 1] = t[1]
    BY <1>1, <1>3
  <2> QED BY <1>1, <1>2, <1>3, <2>1
<1>5. Len(Cons(x, t)) = 2
  BY <1>1, <1>3
<1>6. Cons(x, t) = u
  BY <1>2, <1>3, <1>4, <1>5, SameElements
<1> QED BY <1>6 DEF t, u

LEMMA ConsThree ==
    ASSUME NEW S, NEW x \in S, NEW y \in S, NEW z \in S
    PROVE  Cons(x, <<y, z>>) = <<x, y, z>>
<1> DEFINE t == <<y, z>>  u == <<x, y, z>>
<1>1. t \in Seq(S) /\ Len(t) = 2 /\ t[1] = y /\ t[2] = z
  OBVIOUS
<1>2. u \in Seq(S) /\ Len(u) = 3 /\ u[1] = x /\ u[2] = y /\ u[3] = z
  OBVIOUS
<1> HIDE DEF t, u
<1>3. /\ Cons(x, t) \in Seq(S) /\ Len(Cons(x, t)) = Len(t) + 1
      /\ Cons(x, t)[1] = x /\ \A i \in 1..Len(t) : Cons(x, t)[i + 1] = t[i]
  <2>1. x \in S /\ t \in Seq(S)
    BY <1>1
  <2> QED BY <2>1, ConsElements
<1>4. \A i \in 1..3 : Cons(x, t)[i] = u[i]
  <2>1. Cons(x, t)[1 + 1] = t[1] /\ Cons(x, t)[2 + 1] = t[2]
    BY <1>1, <1>3
  <2> QED BY <1>1, <1>2, <1>3, <2>1
<1>5. Len(Cons(x, t)) = 3
  BY <1>1, <1>3
<1>6. Cons(x, t) = u
  BY <1>2, <1>3, <1>4, <1>5, SameElements
<1> QED BY <1>6 DEF t, u

-----------------------------------------------------------------------------
(* FlattenSeq of a sequence that is one longer *)

LEMMA FlattenEmpty == FlattenSeq(<<>>) = <<>>
<1>1. Len(<<>>) = 0
  OBVIOUS
<1> QED BY <1>1 DEF FlattenSeq

LEMMA FlattenAppend ==
    ASSUME NEW S, NEW ss \in Seq(Seq(S)), NEW x \in Seq(S)
    PROVE  FlattenSeq(Append(ss, x)) = FlattenSeq(ss) \o x
<1> DEFINE tt == Append(ss, x)
<1>1. PICK n \in Nat : n = Len(ss)
  OBVIOUS
<1>2. /\ tt \in Seq(Seq(S)) /\ Len(tt) = n + 1 /\ tt[n + 1] = x
      /\ \A i \in 1..n : tt[i] = ss[i]
  BY <1>1
<1> HIDE DEF tt
<1>3. PICK G : Flattened(G, n + 1, tt) /\ FlattenSeq(tt) = G[n + 1]
  <2>1. Len(tt) \in Nat \ {0}
    BY <1>2
  <2>2. \E G : Flattened(G, Len(tt), tt) /\ FlattenSeq(tt) = G[Len(tt)]
    BY <2>1, FlattenDef
  <2> QED BY <1>2, <2>2
<1>4. \A i \in 1..(n + 1) : G[i] = IF i = 1 THEN tt[i] ELSE G[i - 1] \o tt[i]
  BY <1>3 DEF Flattened
<1>5. CASE n = 0
  <2>1. ss = <<>>
    BY <1>1, <1>5, EmptySeq
  <2>2. FlattenSeq(tt) = x
    BY <1>2, <1>3, <1>4, <1>5
  <2>3. <<>> \o x = x
    BY ConcatEmptySeq
  <2> QED BY <2>1, <2>2, <2>3, FlattenEmpty DEF tt
<1>6. CASE n # 0
  <2>1. PICK F : Flattened(F, n, ss) /\ FlattenSeq(ss) = F[n]
    BY <1>1, <1>6, FlattenDef
  <2>2. \A i \in 1..n : F[i] = IF i = 1 THEN ss[i] ELSE F[i - 1] \o ss[i]
    BY <2>1 DEF Flattened
  <2> DEFINE T == {m \in Nat : m + 1 \in 1..n => G[m + 1] = F[m + 1]}
  <2>3. 0 \in T
    <3>1. 1 \in 1..n /\ 1 \in 1..(n + 1)
      BY <1>6
    <3>2. G[1] = tt[1] /\ F[1] = ss[1] /\ tt[1] = ss[1]
      BY <3>1, <2>2, <1>4, <1>2
    <3> QED BY <3>2
  <2>4. \A m \in Nat : m \in T => m + 1 \in T
    <3> SUFFICES ASSUME NEW m \in Nat, m \in T, (m + 1) + 1 \in 1..n
                 PROVE  G[(m + 1) + 1] = F[(m + 1) + 1]
      OBVIOUS
    <3> DEFINE k == (m + 1) + 1
    <3>1. m + 1 \in 1..n /\ k \in 1..n /\ k \in 1..(n + 1) /\ k # 1 /\ k - 1 = m + 1
      OBVIOUS
    <3> HIDE DEF k
    <3>2. G[m + 1] = F[m + 1]
      BY <3>1
    <3>3. G[k] = G[k - 1] \o tt[k] /\ F[k] = F[k - 1] \o ss[k] /\ tt[k] = ss[k]
      BY <3>1, <2>2, <1>4, <1>2
    <3>4. G[k] = F[k]
      BY <3>1, <3>2, <3>3
    <3> QED BY <3>4 DEF k
  <2> HIDE DEF T
  <2>5. n - 1 \in Nat /\ (n - 1) + 1 = n /\ n \in 1..n /\ n + 1 \in 1..(n + 1)
        /\ n + 1 # 1 /\ (n + 1) - 1 = n
    BY <1>6
  <2>6. n - 1 \in T
    BY <2>3, <2>4, <2>5, NatSetInduction
  <2>7. G[n] = F[n]
    BY <2>5, <2>6 DEF T
  <2>8. G[n + 1] = G[n] \o tt[n + 1]
    BY <2>5, <1>4
  <2> QED BY <1>2, <1>3, <2>1, <2>7, <2>8 DEF tt
<1> QED BY <1>5, <1>6

LEMMA FlattenOne ==
    ASSUME NEW S, NEW x \in Seq(S)
    PROVE  FlattenSeq(<<x>>) = x
<1> DEFINE E == <<>>
<1>1. E \in Seq(Seq(S)) /\ Append(E, x) = <<x>>
  OBVIOUS
<1> HIDE DEF E
<1>2. FlattenSeq(Append(E, x)) = FlattenSeq(E) \o x
  BY <1>1, FlattenAppend
<1>3. FlattenSeq(E) \o x = x
  BY FlattenEmpty, ConcatEmptySeq DEF E
<1> QED BY <1>1, <1>2, <1>3

LEMMA FlattenFront ==
    ASSUME NEW S, NEW ss \in Seq(Seq(S)), NEW x \in Seq(S)
    PROVE  FlattenSeq(Cons(x, ss)) = x \o FlattenSeq(ss)
<1> DEFINE Q == Seq(S)
           one == <<x>>
           P == {tt \in Seq(Q) : FlattenSeq(one \o tt) = x \o FlattenSeq(tt)}
<1>1. one \in Seq(Q)
  OBVIOUS
<1>2. <<>> \in P
  <2>1. one \o <<>> = one /\ x \o <<>> = x
    BY <1>1, ConcatEmptySeq
  <2>2. <<>> \in Seq(Q)
    OBVIOUS
  <2> QED BY <2>1, <2>2, FlattenEmpty, FlattenOne
<1>3. \A y \in Q : \A tt \in Seq(Q) : tt \in P => Append(tt, y) \in P
  <2> SUFFICES ASSUME NEW y \in Q, NEW tt \in Seq(Q), tt \in P PROVE Append(tt, y) \in P
    OBVIOUS
  <2> HIDE DEF one
  <2>1. one \o Append(tt, y) = Append(one \o tt, y)
    BY <1>1, AppendToConcat
  <2>2. one \o tt \in Seq(Q) /\ Append(tt, y) \in Seq(Q)
    BY <1>1, ConcatProperties
  <2>3. FlattenSeq(Append(one \o tt, y)) = FlattenSeq(one \o tt) \o y
    BY <2>2, FlattenAppend
  <2>4. FlattenSeq(Append(tt, y)) = FlattenSeq(tt) \o y
    BY FlattenAppend
  <2>5. FlattenSeq(tt) \in Seq(S)
    BY FlattenType
  <2>6. (x \o FlattenSeq(tt)) \o y = x \o (FlattenSeq(tt) \o y)
    BY <2>5, ConcatAssociative
  <2>7. FlattenSeq(one \o tt) = x \o FlattenSeq(tt)
    OBVIOUS
  <2> QED BY <2>1, <2>2, <2>3, <2>4, <2>6, <2>7
<1> HIDE DEF P
<1>4. ss \in P
  BY <1>2, <1>3, BackInduction
<1> QED BY <1>4 DEF P, Cons

-----------------------------------------------------------------------------
(* Bytes and codes *)

Byte == 0 .. 127

\* The text s with every byte put into code.
Coded(code, s) == FlattenSeq([i \in DOMAIN s |-> code[s[i]]])

LEMMA CodedSeq ==
    ASSUME NEW D, NEW S, NEW code, \A b \in D : code[b] \in Seq(S), NEW s \in Seq(D)
    PROVE  /\ [i \in DOMAIN s |-> code[s[i]]] \in Seq(Seq(S))
           /\ Len([i \in DOMAIN s |-> code[s[i]]]) = Len(s)
           /\ \A j \in 1..Len(s) : [i \in DOMAIN s |-> code[s[i]]][j] = code[s[j]]
<1>1. PICK n \in Nat : n = Len(s) /\ DOMAIN s = 1..n
  OBVIOUS
<1>2. \A i \in 1..n : s[i] \in D
  BY <1>1
<1> DEFINE Q == Seq(S)
<1>3. \A b \in D : code[b] \in Q
  OBVIOUS
<1> HIDE DEF Q
<1>4. [i \in 1..n |-> code[s[i]]] \in Seq(Q) /\ Len([i \in 1..n |-> code[s[i]]]) = n
  BY <1>2, <1>3
<1>5. \A j \in 1..n : [i \in 1..n |-> code[s[i]]][j] = code[s[j]]
  OBVIOUS
<1> QED BY <1>1, <1>4, <1>5 DEF Q

LEMMA CodedType ==
    ASSUME NEW D, NEW S, NEW code, \A b \in D : code[b] \in Seq(S), NEW s \in Seq(D)
    PROVE  Coded(code, s) \in Seq(S)
<1> DEFINE r == [i \in DOMAIN s |-> code[s[i]]]
<1>1. r \in Seq(Seq(S))
  BY CodedSeq
<1> HIDE DEF r
<1>2. FlattenSeq(r) \in Seq(S)
  BY <1>1, FlattenType
<1> QED BY <1>2 DEF Coded, r

LEMMA CodedEmpty ==
    ASSUME NEW code PROVE Coded(code, <<>>) = <<>>
<1> DEFINE E == <<>>
<1>1. DOMAIN E = {}
  OBVIOUS
<1>2. [i \in DOMAIN E |-> code[E[i]]] = <<>>
  OBVIOUS
<1> QED BY <1>2, FlattenEmpty DEF Coded

LEMMA CodedFront ==
    ASSUME NEW D, NEW S, NEW code, \A b \in D : code[b] \in Seq(S), NEW c \in D, NEW t \in Seq(D)
    PROVE  Coded(code, Cons(c, t)) = code[c] \o Coded(code, t)
<1> DEFINE s == Cons(c, t)
           r == [i \in DOMAIN t |-> code[t[i]]]
           q == [i \in DOMAIN s |-> code[s[i]]]
           x == code[c]
           Q == Seq(S)
<1>1. PICK n \in Nat : n = Len(t) /\ DOMAIN t = 1..n
  OBVIOUS
<1>2. s \in Seq(D) /\ Len(s) = n + 1 /\ s[1] = c /\ \A i \in 1..n : s[i + 1] = t[i]
  <2>1. /\ s \in Seq(D) /\ Len(s) = Len(t) + 1
        /\ s[1] = c /\ \A i \in 1..Len(t) : s[i + 1] = t[i]
    BY ConsElements
  <2> HIDE DEF s
  <2> QED BY <1>1, <2>1
<1> HIDE DEF s
<1>3. r \in Seq(Q) /\ Len(r) = n /\ \A j \in 1..n : r[j] = code[t[j]]
  BY <1>1, CodedSeq
<1>4. q \in Seq(Q) /\ Len(q) = n + 1 /\ \A j \in 1..(n + 1) : q[j] = code[s[j]]
  BY <1>2, CodedSeq
<1> HIDE DEF r, q
<1>5. x \in Q
  OBVIOUS
<1> HIDE DEF x, Q
<1>6. /\ Cons(x, r) \in Seq(Q) /\ Len(Cons(x, r)) = n + 1
      /\ Cons(x, r)[1] = x /\ \A i \in 1..n : Cons(x, r)[i + 1] = r[i]
  <2> DEFINE u == Cons(x, r)
  <2>1. /\ u \in Seq(Q) /\ Len(u) = Len(r) + 1
        /\ u[1] = x /\ \A i \in 1..Len(r) : u[i + 1] = r[i]
    <3>1. r \in Seq(Q) /\ x \in Q
      BY <1>3, <1>5
    <3> QED BY <3>1, ConsElements
  <2> HIDE DEF u
  <2>2. u \in Seq(Q) /\ Len(u) = n + 1 /\ u[1] = x /\ \A i \in 1..n : u[i + 1] = r[i]
    BY <1>3, <2>1
  <2> QED BY <2>2 DEF u
<1> DEFINE u == Cons(x, r)
<1> HIDE DEF u
<1>7. \A j \in 1..(n + 1) : q[j] = u[j]
  <2> TAKE j \in 1..(n + 1)
  <2>1. CASE j = 1
    BY <2>1, <1>2, <1>4, <1>6 DEF x, u
  <2>2. CASE j # 1
    <3>1. PICK i \in 1..n : j = i + 1
      <4>1. j - 1 \in 1..n /\ j = (j - 1) + 1
        BY <2>2
      <4> QED BY <4>1
    <3>2. q[j] = code[s[j]] /\ s[j] = t[i] /\ u[j] = r[i] /\ r[i] = code[t[i]]
      BY <3>1, <1>2, <1>3, <1>4, <1>6 DEF u
    <3> QED BY <3>2
  <2> QED BY <2>1, <2>2
<1>8. n + 1 \in Nat /\ u \in Seq(Q) /\ Len(u) = n + 1
  BY <1>6 DEF u
<1>9. q = u
  BY <1>4, <1>7, <1>8, SameElements
<1>10. FlattenSeq(Cons(x, r)) = x \o FlattenSeq(r)
  BY <1>3, <1>5, FlattenFront DEF Q
<1> QED BY <1>9, <1>10 DEF Coded, q, u, r, s, x

-----------------------------------------------------------------------------
(* Split *)

\* The parts p of a text that gets one more byte in front.
Parted(p, c, b) == IF c = b THEN << <<>> >> \o p ELSE [p EXCEPT ![1] = <<c>> \o @]

SplitParts(F, m, s, b) ==
    F = [n \in 0..m |-> IF n = 0 THEN << <<>> >> ELSE Parted(F[n - 1], s[Len(s) - n + 1], b)]

LEMMA SplitDef ==
    ASSUME NEW s, Len(s) \in Nat, NEW b
    PROVE  \E F : /\ Split(s, b) = F[Len(s)] /\ F[0] = << <<>> >>
                  /\ \A n \in 1..Len(s) : F[n] = Parted(F[n - 1], s[Len(s) - n + 1], b)
<1> DEFINE T == {m \in Nat : \E F : SplitParts(F, m, s, b)}
<1>1. 0 \in T
  <2> DEFINE F == [n \in 0..0 |-> << <<>> >>]
  <2>1. SplitParts(F, 0, s, b)
    BY DEF SplitParts
  <2> QED BY <2>1
<1>2. \A m \in Nat : m \in T => m + 1 \in T
  <2> SUFFICES ASSUME NEW m \in Nat, NEW F, SplitParts(F, m, s, b)
               PROVE  \E G : SplitParts(G, m + 1, s, b)
    OBVIOUS
  <2> DEFINE G == [n \in 0..(m + 1) |-> IF n = m + 1 THEN Parted(F[m], s[Len(s) - n + 1], b)
                                                     ELSE F[n]]
             H == [n \in 0..(m + 1) |-> IF n = 0 THEN << <<>> >>
                                        ELSE Parted(G[n - 1], s[Len(s) - n + 1], b)]
  <2>1. \A n \in 0..m : F[n] = IF n = 0 THEN << <<>> >>
                               ELSE Parted(F[n - 1], s[Len(s) - n + 1], b)
    BY DEF SplitParts
  <2>2. \A n \in 0..(m + 1) : n # 0 => n - 1 \in 0..(m + 1) /\ n - 1 # m + 1
    OBVIOUS
  <2>3. \A n \in 0..(m + 1) : n # 0 => G[n - 1] = F[n - 1]
    BY <2>2
  <2>4. \A n \in 0..(m + 1) : (n = m + 1 /\ n # 0 /\ n - 1 = m) \/ (n \in 0..m /\ n # m + 1)
    OBVIOUS
  <2>5. \A n \in 0..(m + 1) : G[n] = H[n]
    <3> TAKE n \in 0..(m + 1)
    <3>1. CASE n = m + 1 /\ n # 0 /\ n - 1 = m
      BY <3>1, <2>3
    <3>2. CASE n \in 0..m /\ n # m + 1
      BY <3>2, <2>1, <2>3
    <3> QED BY <3>1, <3>2, <2>4
  <2>6. G = H
    BY <2>5
  <2>7. SplitParts(G, m + 1, s, b)
    BY <2>6 DEF SplitParts
  <2> QED BY <2>7
<1> HIDE DEF T
<1>3. Len(s) \in T
  BY <1>1, <1>2, NatSetInduction
<1>4. \E F : SplitParts(F, Len(s), s, b)
  BY <1>3 DEF T
<1> DEFINE F == CHOOSE F : SplitParts(F, Len(s), s, b)
<1>5. SplitParts(F, Len(s), s, b)
  BY <1>4
<1>6. Split(s, b) = F[Len(s)]
  BY DEF Split, SplitParts, Parted
<1> HIDE DEF F
<1>7. F = [n \in 0..Len(s) |-> IF n = 0 THEN << <<>> >>
                               ELSE Parted(F[n - 1], s[Len(s) - n + 1], b)]
  BY <1>5 DEF SplitParts
<1>8. F[0] = << <<>> >>
  BY <1>7
<1>9. \A n \in 1..Len(s) : n \in 0..Len(s) /\ n # 0
  OBVIOUS
<1>10. \A n \in 1..Len(s) : F[n] = Parted(F[n - 1], s[Len(s) - n + 1], b)
  BY <1>7, <1>9
<1> QED BY <1>6, <1>8, <1>10

LEMMA SplitEmpty ==
    ASSUME NEW b PROVE Split(<<>>, b) = << <<>> >>
<1> DEFINE s == <<>>
<1>1. Len(s) = 0
  OBVIOUS
<1> HIDE DEF s
<1>2. Len(s) \in Nat
  BY <1>1
<1>3. PICK F : Split(s, b) = F[Len(s)] /\ F[0] = << <<>> >>
  BY <1>2, SplitDef
<1>4. Split(s, b) = << <<>> >>
  BY <1>1, <1>3
<1> QED BY <1>4 DEF s

LEMMA SplitFront ==
    ASSUME NEW S, NEW c \in S, NEW t \in Seq(S), NEW b
    PROVE  Split(Cons(c, t), b) = Parted(Split(t, b), c, b)
<1> DEFINE s == Cons(c, t)
<1>1. PICK n \in Nat : n = Len(t)
  OBVIOUS
<1>2. s \in Seq(S) /\ Len(s) = Len(t) + 1 /\ s[1] = c /\ \A i \in 1..Len(t) : s[i + 1] = t[i]
  BY ConsElements
<1>3. Len(s) = n + 1 /\ s[1] = c /\ \A i \in 1..n : s[i + 1] = t[i]
  BY <1>1, <1>2
<1> HIDE DEF s
<1>4. PICK G : /\ Split(s, b) = G[Len(s)] /\ G[0] = << <<>> >>
               /\ \A k \in 1..Len(s) : G[k] = Parted(G[k - 1], s[Len(s) - k + 1], b)
  <2>1. Len(s) \in Nat
    BY <1>2
  <2> QED BY <2>1, SplitDef
<1>5. PICK F : /\ Split(t, b) = F[Len(t)] /\ F[0] = << <<>> >>
               /\ \A k \in 1..Len(t) : F[k] = Parted(F[k - 1], t[Len(t) - k + 1], b)
  <2>1. Len(t) \in Nat
    OBVIOUS
  <2> QED BY <2>1, SplitDef
<1>6. /\ G[n + 1] = Split(s, b) /\ F[n] = Split(t, b) /\ G[0] = F[0]
      /\ \A k \in 1..(n + 1) : G[k] = Parted(G[k - 1], s[(n + 1) - k + 1], b)
      /\ \A k \in 1..n : F[k] = Parted(F[k - 1], t[n - k + 1], b)
  BY <1>1, <1>3, <1>4, <1>5
<1> DEFINE T == {k \in Nat : k \in 0..n => G[k] = F[k]}
<1>7. 0 \in T
  BY <1>6
<1>8. \A k \in Nat : k \in T => k + 1 \in T
  <2> SUFFICES ASSUME NEW k \in Nat, k \in T, k + 1 \in 0..n
               PROVE  G[k + 1] = F[k + 1]
    OBVIOUS
  <2>1. /\ k + 1 \in 1..(n + 1) /\ k + 1 \in 1..n /\ (k + 1) - 1 = k
        /\ n - (k + 1) + 1 \in 1..n /\ (n + 1) - (k + 1) + 1 = (n - (k + 1) + 1) + 1
    OBVIOUS
  <2>2. G[k] = F[k]
    OBVIOUS
  <2>3. s[(n + 1) - (k + 1) + 1] = t[n - (k + 1) + 1]
    <3> DEFINE i == n - (k + 1) + 1
    <3>1. i \in 1..n /\ (n + 1) - (k + 1) + 1 = i + 1
      BY <2>1
    <3> HIDE DEF i
    <3>2. s[i + 1] = t[i]
      BY <1>3, <3>1
    <3>3. s[(n + 1) - (k + 1) + 1] = t[i]
      BY <3>1, <3>2
    <3> QED BY <3>3 DEF i
  <2>4. G[k + 1] = Parted(G[(k + 1) - 1], s[(n + 1) - (k + 1) + 1], b)
    BY <1>6, <2>1
  <2>5. F[k + 1] = Parted(F[(k + 1) - 1], t[n - (k + 1) + 1], b)
    BY <1>6, <2>1
  <2> HIDE DEF T
  <2> QED BY <2>1, <2>2, <2>3, <2>4, <2>5
<1> HIDE DEF T
<1>9. n \in T
  BY <1>7, <1>8, NatSetInduction
<1>10. G[n] = F[n]
  BY <1>9 DEF T
<1>11. n + 1 \in 1..(n + 1) /\ (n + 1) - 1 = n /\ (n + 1) - (n + 1) + 1 = 1
  OBVIOUS
<1>12. G[n + 1] = Parted(G[n], s[1], b)
  BY <1>6, <1>11
<1> QED BY <1>3, <1>6, <1>10, <1>12 DEF s

\* A part is as long as there are no separators.
LEMMA PartedPlain ==
    ASSUME NEW S, NEW c \in S, NEW x \in Seq(S), NEW p \in Seq(Seq(S)), NEW b, c # b
    PROVE  Parted(Cons(x, p), c, b) = Cons(Cons(c, x), p)
<1> DEFINE Q == Seq(S)  y == Cons(c, x)  u == Cons(x, p)  v == Cons(y, p)
           w == [u EXCEPT ![1] = y]
<1>1. x \in Q /\ p \in Seq(Q)
  OBVIOUS
<1>2. y \in Q
  BY ConsElements
<1>3. PICK n \in Nat : n = Len(p)
  OBVIOUS
<1> HIDE DEF Q
<1>4. Parted(u, c, b) = w
  <2>1. u[1] = x
    BY <1>1, ConsElements
  <2> HIDE DEF u
  <2> QED BY <2>1 DEF Parted, Cons
<1> HIDE DEF y
<1>5. u \in Seq(Q) /\ Len(u) = n + 1 /\ \A i \in 1..n : u[i + 1] = p[i]
  <2>1. u \in Seq(Q) /\ Len(u) = Len(p) + 1 /\ \A i \in 1..Len(p) : u[i + 1] = p[i]
    BY <1>1, ConsElements
  <2> HIDE DEF u
  <2> QED BY <1>3, <2>1
<1>6. v \in Seq(Q) /\ Len(v) = n + 1 /\ v[1] = y /\ \A i \in 1..n : v[i + 1] = p[i]
  <2>1. v \in Seq(Q) /\ Len(v) = Len(p) + 1 /\ v[1] = y /\ \A i \in 1..Len(p) : v[i + 1] = p[i]
    BY <1>1, <1>2, ConsElements
  <2> HIDE DEF v
  <2> QED BY <1>3, <2>1
<1> HIDE DEF u, v
<1>7. w \in Seq(Q) /\ Len(w) = n + 1 /\ w[1] = y /\ \A i \in 1..n : w[i + 1] = p[i]
  <2>1. DOMAIN u = 1..(n + 1) /\ 1 \in 1..(n + 1)
    BY <1>5
  <2>2. w \in Seq(Q) /\ Len(w) = n + 1
    BY <1>2, <1>5, <2>1
  <2>3. w[1] = y
    BY <2>1
  <2>4. \A i \in 1..n : i + 1 \in 1..(n + 1) /\ i + 1 # 1
    OBVIOUS
  <2>5. \A i \in 1..n : w[i + 1] = u[i + 1]
    BY <2>1, <2>4
  <2> QED BY <1>5, <2>2, <2>3, <2>5
<1> HIDE DEF w
<1>8. \A j \in 1..(n + 1) : w[j] = v[j]
  <2> TAKE j \in 1..(n + 1)
  <2>1. CASE j = 1
    BY <2>1, <1>6, <1>7
  <2>2. CASE j # 1
    <3>1. j - 1 \in 1..n /\ j = (j - 1) + 1
      BY <2>2
    <3>2. PICK i \in 1..n : j = i + 1
      BY <3>1
    <3> QED BY <3>2, <1>6, <1>7
  <2> QED BY <2>1, <2>2
<1>9. n + 1 \in Nat
  OBVIOUS
<1>10. w = v
  BY <1>6, <1>7, <1>8, <1>9, SameElements
<1> QED BY <1>4, <1>10 DEF u, v, y

LEMMA PartedType ==
    ASSUME NEW S, NEW c \in S, NEW p \in Seq(Seq(S)), p # <<>>, NEW b
    PROVE  Parted(p, c, b) \in Seq(Seq(S)) /\ Parted(p, c, b) # <<>>
<1> DEFINE Q == Seq(S)
<1>1. p \in Seq(Q) /\ <<>> \in Q
  OBVIOUS
<1>2. CASE c = b
  <2> HIDE DEF Q
  <2> DEFINE e == <<>>
  <2>1. e \in Q
    BY <1>1
  <2> HIDE DEF e
  <2>2. Cons(e, p) \in Seq(Q) /\ Len(Cons(e, p)) = Len(p) + 1
    BY <1>1, <2>1, ConsElements
  <2>3. PICK n \in Nat : n = Len(p)
    BY <1>1
  <2>4. Len(Cons(e, p)) # 0 /\ Len(<<>>) = 0
    BY <2>2, <2>3
  <2>5. Cons(e, p) # <<>>
    BY <2>4
  <2> QED BY <1>2, <2>2, <2>5 DEF Parted, Cons, e, Q
<1>3. CASE c # b
  <2> DEFINE y == <<c>> \o p[1]
             w == [p EXCEPT ![1] = y]
  <2>1. 1 \in 1..Len(p) /\ p[1] \in Seq(S)
    <3>1. Len(p) \in Nat \ {0}
      BY <1>1, EmptySeq
    <3> QED BY <1>1, <3>1
  <2>2. y \in Q
    <3> DEFINE a == p[1]
    <3>1. a \in Seq(S)
      BY <2>1
    <3> HIDE DEF a
    <3>2. Cons(c, a) \in Seq(S)
      BY <3>1, ConsElements
    <3> QED BY <3>2 DEF Cons, a
  <2> HIDE DEF y, Q
  <2>3. w \in Seq(Q) /\ Len(w) = Len(p)
    BY <1>1, <2>1, <2>2, ExceptSeq
  <2>4. w # <<>>
    BY <1>1, <2>1, <2>3
  <2> QED BY <1>3, <2>3, <2>4 DEF Parted, y, Q
<1> QED BY <1>2, <1>3

LEMMA SplitType ==
    ASSUME NEW S, NEW s \in Seq(S), NEW b
    PROVE  Split(s, b) \in Seq(Seq(S)) /\ Split(s, b) # <<>>
<1> DEFINE P == {t \in Seq(S) : Split(t, b) \in Seq(Seq(S)) /\ Split(t, b) # <<>>}
<1>1. <<>> \in P
  <2>1. << <<>> >> \in Seq(Seq(S)) /\ << <<>> >> # <<>> /\ <<>> \in Seq(S)
    OBVIOUS
  <2> QED BY <2>1, SplitEmpty
<1>2. \A c \in S : \A t \in Seq(S) : t \in P => Cons(c, t) \in P
  <2> SUFFICES ASSUME NEW c \in S, NEW t \in Seq(S), t \in P PROVE Cons(c, t) \in P
    OBVIOUS
  <2>1. Cons(c, t) \in Seq(S)
    BY ConsElements
  <2>2. Split(Cons(c, t), b) = Parted(Split(t, b), c, b)
    BY SplitFront
  <2> DEFINE p == Split(t, b)
  <2>3. p \in Seq(Seq(S)) /\ p # <<>>
    OBVIOUS
  <2> HIDE DEF p
  <2>4. Parted(p, c, b) \in Seq(Seq(S)) /\ Parted(p, c, b) # <<>>
    BY <2>3, PartedType
  <2> QED BY <2>1, <2>2, <2>4 DEF p
<1> HIDE DEF P
<1>3. s \in P
  BY <1>1, <1>2, FrontInduction
<1> QED BY <1>3 DEF P

\* A text without the separator is one part.
LEMMA SplitNone ==
    ASSUME NEW S, NEW b, NEW x \in Seq(S \ {b})
    PROVE  Split(x, b) = <<x>>
<1> DEFINE R == S \ {b}
           P == {t \in Seq(R) : Split(t, b) = <<t>>}
<1>1. <<>> \in P
  BY SplitEmpty
<1>2. \A c \in R : \A t \in Seq(R) : t \in P => Cons(c, t) \in P
  <2> SUFFICES ASSUME NEW c \in R, NEW t \in Seq(R), t \in P PROVE Cons(c, t) \in P
    OBVIOUS
  <2>1. c # b
    OBVIOUS
  <2> DEFINE e == <<>>
  <2>2. e \in Seq(Seq(R))
    OBVIOUS
  <2>3. Split(t, b) = <<t>>
    OBVIOUS
  <2> HIDE DEF R, e
  <2>4. Cons(c, t) \in Seq(R)
    BY ConsElements
  <2>5. Split(Cons(c, t), b) = Parted(<<t>>, c, b)
    BY <2>3, SplitFront
  <2>6. Parted(Cons(t, e), c, b) = Cons(Cons(c, t), e)
    BY <2>1, <2>2, PartedPlain
  <2>7. \A y \in Seq(R) : Cons(y, e) = <<y>>
    <3> TAKE y \in Seq(R)
    <3>1. <<y>> \in Seq(Seq(R))
      OBVIOUS
    <3> QED BY <3>1, ConcatEmptySeq DEF Cons, e
  <2>8. Cons(t, e) = <<t>> /\ Cons(Cons(c, t), e) = <<Cons(c, t)>>
    BY <2>4, <2>7
  <2> QED BY <2>4, <2>5, <2>6, <2>8
<1> HIDE DEF P, R
<1>3. x \in P
  BY <1>1, <1>2, FrontInduction DEF R
<1> QED BY <1>3 DEF P

LEMMA ConsConcat ==
    ASSUME NEW S, NEW c \in S, NEW x \in Seq(S), NEW r \in Seq(S)
    PROVE  Cons(c, x) \o r = Cons(c, x \o r)
<1> DEFINE y == <<c>>
<1>1. y \in Seq(S)
  OBVIOUS
<1> HIDE DEF y
<1>2. (y \o x) \o r = y \o (x \o r)
  BY <1>1, ConcatAssociative
<1> QED BY <1>2 DEF Cons, y

LEMMA SplitLonger ==
    ASSUME NEW S, NEW c \in S, NEW y \in Seq(S), NEW r \in Seq(S), NEW b
    PROVE  Split(Cons(c, y) \o r, b) = Parted(Split(y \o r, b), c, b)
<1>1. Cons(c, y) \o r = Cons(c, y \o r)
  BY ConsConcat
<1>2. y \o r \in Seq(S)
  BY ConcatProperties
<1>3. Split(Cons(c, y \o r), b) = Parted(Split(y \o r, b), c, b)
  BY <1>2, SplitFront
<1> QED BY <1>1, <1>3

\* What is before the first separator is the first part.
LEMMA SplitFirst ==
    ASSUME NEW S, NEW b \in S, NEW x \in Seq(S \ {b}), NEW t \in Seq(S)
    PROVE  Split(x \o Cons(b, t), b) = Cons(x, Split(t, b))
<1> DEFINE R == S \ {b}
           r == Cons(b, t)
           p == Split(t, b)
           P == {y \in Seq(R) : Split(y \o r, b) = Cons(y, p)}
<1>1. r \in Seq(S)
  BY ConsElements
<1>2. p \in Seq(Seq(S))
  BY SplitType
<1>3. Split(r, b) = Cons(<<>>, p)
  BY SplitFront DEF Parted, Cons
<1> HIDE DEF r, p
<1>4. <<>> \in P
  <2>1. <<>> \o r = r
    BY <1>1, ConcatEmptySeq
  <2>2. <<>> \in Seq(R)
    OBVIOUS
  <2> QED BY <1>3, <2>1, <2>2
<1>5. \A c \in R : \A y \in Seq(R) : y \in P => Cons(c, y) \in P
  <2> SUFFICES ASSUME NEW c \in R, NEW y \in Seq(R), y \in P PROVE Cons(c, y) \in P
    OBVIOUS
  <2>1. Split(y \o r, b) = Cons(y, p)
    OBVIOUS
  <2>2. c \in S /\ c # b /\ y \in Seq(S)
    OBVIOUS
  <2>3. Cons(c, y) \in Seq(R)
    BY ConsElements
  <2> HIDE DEF P, R
  <2>6. Split(Cons(c, y) \o r, b) = Parted(Split(y \o r, b), c, b)
    BY <1>1, <2>2, SplitLonger
  <2>7. Parted(Cons(y, p), c, b) = Cons(Cons(c, y), p)
    BY <1>2, <2>2, PartedPlain
  <2> QED BY <2>1, <2>3, <2>6, <2>7 DEF P
<1> HIDE DEF P, R
<1>6. x \in P
  BY <1>4, <1>5, FrontInduction DEF R
<1> QED BY <1>6 DEF P, r, p

-----------------------------------------------------------------------------
(* Unescaped *)

Value(s, i) == CHOOSE v \in EscapedAt(s, i) : TRUE
Plainly(s, i, blanks) == IF s[i] \in blanks THEN SPACE ELSE s[i]

Decoding(F, m, s, blanks) ==
    F = [n \in 0..m |->
           IF n = 0 THEN <<>>
           ELSE IF EscapedAt(s, Len(s) - n + 1) # {} THEN <<Value(s, Len(s) - n + 1)>> \o F[n - 3]
           ELSE <<Plainly(s, Len(s) - n + 1, blanks)>> \o F[n - 1]]

LEMMA EscapeFits ==
    ASSUME NEW s, NEW N \in Nat, N = Len(s), NEW n \in 1..N, EscapedAt(s, N - n + 1) # {}
    PROVE  n - 3 \in 0..(n - 1)
<1>1. (N - n + 1) + 2 <= N
  BY DEF EscapedAt, HasDigits
<1> QED BY <1>1

\* G is what the loop has decoded of the last n of the m bytes of s, for each n.
Decodes(G, m, s, blanks) ==
    /\ G[0] = <<>>
    /\ \A n \in 1..m :
         G[n] = IF EscapedAt(s, m - n + 1) # {}
                THEN <<Value(s, m - n + 1)>> \o G[n - 3]
                ELSE <<Plainly(s, m - n + 1, blanks)>> \o G[n - 1]

LEMMA UnescapedDef ==
    ASSUME NEW s, NEW N \in Nat, N = Len(s), NEW blanks
    PROVE  \E F : Unescaped(s, blanks) = F[N] /\ Decodes(F, N, s, blanks)
<1> DEFINE T == {m \in Nat : m <= N => \E F : Decoding(F, m, s, blanks)}
<1>1. 0 \in T
  <2> DEFINE F == [n \in 0..0 |-> <<>>]
  <2>1. Decoding(F, 0, s, blanks)
    BY DEF Decoding
  <2> QED BY <2>1
<1>2. \A m \in Nat : m \in T => m + 1 \in T
  <2> SUFFICES ASSUME NEW m \in Nat, m + 1 <= N, NEW F, Decoding(F, m, s, blanks)
               PROVE  \E G : Decoding(G, m + 1, s, blanks)
    OBVIOUS
  <2> DEFINE E(n) == EscapedAt(s, N - n + 1)
             A(n) == <<Value(s, N - n + 1)>>
             B(n) == <<Plainly(s, N - n + 1, blanks)>>
             G == [n \in 0..(m + 1) |->
                     IF n = m + 1 THEN IF E(n) # {} THEN A(n) \o F[n - 3] ELSE B(n) \o F[n - 1]
                     ELSE F[n]]
             H == [n \in 0..(m + 1) |->
                     IF n = 0 THEN <<>>
                     ELSE IF E(n) # {} THEN A(n) \o G[n - 3] ELSE B(n) \o G[n - 1]]
  <2>1. \A n \in 0..m : F[n] = IF n = 0 THEN <<>>
                               ELSE IF E(n) # {} THEN A(n) \o F[n - 3] ELSE B(n) \o F[n - 1]
    BY DEF Decoding
  <2>2. \A n \in 1..(m + 1) : E(n) # {} => n - 3 \in 0..(n - 1)
    <3> TAKE n \in 1..(m + 1)
    <3>1. n \in 1..N
      OBVIOUS
    <3> QED BY <3>1, EscapeFits
  <2>3. Decoding(G, m + 1, s, blanks) <=> G = H
    <3> HIDE DEF G
    <3> QED BY DEF Decoding
  <2> HIDE DEF E, A, B
  <2>4. \A n \in 0..(m + 1) : n # 0 => n \in 1..(m + 1) /\ n - 1 \in 0..m
    OBVIOUS
  <2>5. \A n \in 0..m : n \in 0..(m + 1) /\ n # m + 1 /\ G[n] = F[n]
    OBVIOUS
  <2>6. \A n \in 0..(m + 1) : n # 0 => G[n - 1] = F[n - 1]
    BY <2>4, <2>5
  <2>7. \A n \in 0..(m + 1) : n # 0 /\ E(n) # {} => G[n - 3] = F[n - 3]
    <3> TAKE n \in 0..(m + 1)
    <3> HAVE n # 0 /\ E(n) # {}
    <3>1. n - 3 \in 0..(n - 1)
      BY <2>2, <2>4
    <3>2. n - 3 \in 0..m
      BY <3>1
    <3> QED BY <3>2, <2>5
  <2>8. \A n \in 0..(m + 1) : G[n] = H[n]
    <3> TAKE n \in 0..(m + 1)
    <3>1. n = m + 1 \/ n \in 0..m
      OBVIOUS
    <3>2. CASE n = m + 1
      <4>1. G[n] = IF E(n) # {} THEN A(n) \o F[n - 3] ELSE B(n) \o F[n - 1]
        BY <3>2
      <4>2. H[n] = IF E(n) # {} THEN A(n) \o G[n - 3] ELSE B(n) \o G[n - 1]
        BY <3>2
      <4>3. n # 0
        BY <3>2
      <4> HIDE DEF G, H
      <4> QED BY <4>1, <4>2, <4>3, <2>6, <2>7
    <3>3. CASE n \in 0..m
      BY <3>3, <2>1, <2>5, <2>6, <2>7
    <3> QED BY <3>1, <3>2, <3>3
  <2>9. G = H
    BY <2>8
  <2> QED BY <2>3, <2>9
<1> HIDE DEF T
<1>3. N \in T
  BY <1>1, <1>2, NatSetInduction
<1>4. \E F : Decoding(F, N, s, blanks)
  BY <1>3 DEF T
<1> DEFINE F == CHOOSE F : Decoding(F, N, s, blanks)
<1>5. Decoding(F, N, s, blanks)
  BY <1>4
<1>6. Unescaped(s, blanks) = F[N]
  BY DEF Unescaped, Decoding, Value, Plainly
<1> HIDE DEF F
<1>7. F = [n \in 0..N |->
             IF n = 0 THEN <<>>
             ELSE IF EscapedAt(s, N - n + 1) # {} THEN <<Value(s, N - n + 1)>> \o F[n - 3]
             ELSE <<Plainly(s, N - n + 1, blanks)>> \o F[n - 1]]
  BY <1>5 DEF Decoding
<1>8. F[0] = <<>>
  BY <1>7
<1>9. \A n \in 1..N : n \in 0..N /\ n # 0
  OBVIOUS
<1>10. \A n \in 1..N : F[n] = IF EscapedAt(s, N - n + 1) # {}
                              THEN <<Value(s, N - n + 1)>> \o F[n - 3]
                              ELSE <<Plainly(s, N - n + 1, blanks)>> \o F[n - 1]
  BY <1>7, <1>9
<1>11. Decodes(F, N, s, blanks)
  BY <1>8, <1>10 DEF Decodes
<1> QED BY <1>6, <1>11

LEMMA UnescapedEmpty ==
    ASSUME NEW blanks PROVE Unescaped(<<>>, blanks) = <<>>
<1> DEFINE s == <<>>
<1>1. Len(s) = 0
  OBVIOUS
<1> HIDE DEF s
<1>2. PICK F : Unescaped(s, blanks) = F[0] /\ Decodes(F, 0, s, blanks)
  BY <1>1, UnescapedDef
<1> QED BY <1>2 DEF s, Decodes

\* Where the text t stands behind x, it has the same escapes.
LEMMA EscapesBehind ==
    ASSUME NEW S, NEW x \in Seq(S), NEW t \in Seq(S), NEW i \in 1..Len(t)
    PROVE  /\ EscapedAt(x \o t, Len(x) + i) = EscapedAt(t, i)
           /\ (x \o t)[Len(x) + i] = t[i]
<1> DEFINE s == x \o t
<1>1. PICK X \in Nat, N \in Nat : X = Len(x) /\ N = Len(t)
  OBVIOUS
<1>2. Len(s) = X + N /\ \A k \in 1..(X + N) : s[k] = IF k <= X THEN x[k] ELSE t[k - X]
  BY <1>1, ConcatProperties
<1> HIDE DEF s
<1>3. \A k \in 1..N : s[X + k] = t[k]
  <2> TAKE k \in 1..N
  <2>1. X + k \in 1..(X + N) /\ ~(X + k <= X) /\ (X + k) - X = k
    OBVIOUS
  <2> QED BY <1>2, <2>1
<1>4. i \in 1..N /\ HasDigits(s, X + i) = HasDigits(t, i)
  BY <1>1, <1>2 DEF HasDigits
<1>5. EscapedAt(s, X + i) = EscapedAt(t, i)
  <2>1. CASE ~HasDigits(t, i)
    BY <1>4, <2>1 DEF EscapedAt
  <2>2. CASE HasDigits(t, i)
    <3>1. i + 1 \in 1..N /\ i + 2 \in 1..N /\ X + (i + 1) = (X + i) + 1 /\ X + (i + 2) = (X + i) + 2
      BY <1>1, <1>4, <2>2 DEF HasDigits
    <3>2. s[X + i] = t[i] /\ s[(X + i) + 1] = t[i + 1] /\ s[(X + i) + 2] = t[i + 2]
      <4>1. s[X + i] = t[i]
        BY <1>3, <1>4
      <4>2. s[X + (i + 1)] = t[i + 1]
        BY <1>3, <3>1
      <4>3. s[X + (i + 2)] = t[i + 2]
        BY <1>3, <3>1
      <4> QED BY <3>1, <4>1, <4>2, <4>3
    <3> QED BY <1>4, <3>2 DEF EscapedAt
  <2> QED BY <2>1, <2>2
<1> QED BY <1>1, <1>3, <1>4, <1>5 DEF s

\* The loop over s, when it comes to the last n bytes, has only t left.
DecodesBehind(G, m, s, n, t, blanks) ==
    /\ Unescaped(s, blanks) = G[m] /\ Decodes(G, m, s, blanks)
    /\ G[n] = Unescaped(t, blanks)

LEMMA UnescapedBehind ==
    ASSUME NEW S, NEW x \in Seq(S), NEW t \in Seq(S), NEW blanks,
           NEW X \in Nat, X = Len(x), NEW N \in Nat, N = Len(t), NEW s, s = x \o t
    PROVE  \E G : DecodesBehind(G, X + N, s, N, t, blanks)
<1>1. Len(s) = X + N /\ X + N \in Nat
  BY ConcatProperties
<1>2. PICK G : Unescaped(s, blanks) = G[X + N] /\ Decodes(G, X + N, s, blanks)
  <2> DEFINE M == X + N
  <2>1. M \in Nat /\ M = Len(s)
    BY <1>1
  <2> HIDE DEF M
  <2>2. \E G : Unescaped(s, blanks) = G[M] /\ Decodes(G, M, s, blanks)
    BY <2>1, UnescapedDef
  <2> QED BY <2>2 DEF M
<1>3. PICK F : Unescaped(t, blanks) = F[N] /\ Decodes(F, N, t, blanks)
  BY UnescapedDef
<1> DEFINE T == {k \in Nat : k <= N => \A j \in 0..k : G[j] = F[j]}
<1>4. 0 \in T
  <2>1. \A j \in 0..0 : j = 0
    OBVIOUS
  <2> QED BY <1>2, <1>3, <2>1 DEF Decodes
<1>5. \A k \in Nat : k \in T => k + 1 \in T
  <2> TAKE k \in Nat
  <2> HAVE k \in T
  <2> SUFFICES ASSUME k + 1 <= N PROVE \A j \in 0..(k + 1) : G[j] = F[j]
    BY DEF T
  <2>1. \A j \in 0..k : G[j] = F[j]
    OBVIOUS
  <2> DEFINE n == k + 1  i == N - n + 1
  <2>2. /\ n \in 1..(X + N) /\ n \in 1..N /\ i \in 1..N /\ (X + N) - n + 1 = X + i
        /\ n - 1 = k /\ N - n + 1 = i
    OBVIOUS
  <2>3. \A j \in 0..n : j = n \/ j \in 0..k
    OBVIOUS
  <2> HIDE DEF i, n
  <2>4. EscapedAt(s, X + i) = EscapedAt(t, i) /\ s[X + i] = t[i]
    BY <2>2, EscapesBehind
  <2>5. Value(s, X + i) = Value(t, i) /\ Plainly(s, X + i, blanks) = Plainly(t, i, blanks)
    BY <2>4 DEF Value, Plainly
  <2>6. G[n] = IF EscapedAt(t, i) # {} THEN <<Value(t, i)>> \o G[n - 3]
                                       ELSE <<Plainly(t, i, blanks)>> \o G[k]
    <3>1. G[n] = IF EscapedAt(s, (X + N) - n + 1) # {}
                 THEN <<Value(s, (X + N) - n + 1)>> \o G[n - 3]
                 ELSE <<Plainly(s, (X + N) - n + 1, blanks)>> \o G[n - 1]
      BY <1>2, <2>2 DEF Decodes
    <3> QED BY <2>2, <2>4, <2>5, <3>1
  <2>7. F[n] = IF EscapedAt(t, i) # {} THEN <<Value(t, i)>> \o F[n - 3]
                                       ELSE <<Plainly(t, i, blanks)>> \o F[k]
    <3>1. F[n] = IF EscapedAt(t, N - n + 1) # {}
                 THEN <<Value(t, N - n + 1)>> \o F[n - 3]
                 ELSE <<Plainly(t, N - n + 1, blanks)>> \o F[n - 1]
      BY <1>3, <2>2 DEF Decodes
    <3> QED BY <2>2, <3>1
  <2>8. EscapedAt(t, i) # {} => n - 3 \in 0..k
    BY <2>2, EscapeFits
  <2>9. k \in 0..k
    OBVIOUS
  <2>10. G[n] = F[n]
    BY <2>1, <2>6, <2>7, <2>8, <2>9
  <2>11. \A j \in 0..n : G[j] = F[j]
    BY <2>1, <2>3, <2>10
  <2> QED BY <2>11 DEF n
<1> HIDE DEF T
<1>6. N \in T
  BY <1>4, <1>5, NatSetInduction
<1>7. G[N] = F[N]
  BY <1>6 DEF T
<1> QED BY <1>2, <1>3, <1>7 DEF DecodesBehind

LEMMA UnescapedPlain ==
    ASSUME NEW S, NEW c \in S, NEW t \in Seq(S), NEW blanks, c # PERCENT
    PROVE  Unescaped(Cons(c, t), blanks)
             = Cons(IF c \in blanks THEN SPACE ELSE c, Unescaped(t, blanks))
<1> DEFINE x == <<c>>  s == x \o t
<1>1. x \in Seq(S) /\ Len(x) = 1
  OBVIOUS
<1>2. s = Cons(c, t)
  BY DEF Cons
<1>3. s[1] = c
  BY <1>2, ConsElements
<1>4. PICK N \in Nat : N = Len(t)
  OBVIOUS
<1> HIDE DEF x, s
<1>5. s = x \o t
  BY DEF s
<1>6. PICK G : DecodesBehind(G, 1 + N, s, N, t, blanks)
  <2> DEFINE X == 1
  <2>1. X \in Nat /\ X = Len(x)
    BY <1>1
  <2> HIDE DEF X
  <2>2. \E G : DecodesBehind(G, X + N, s, N, t, blanks)
    BY <1>1, <1>4, <1>5, <2>1, UnescapedBehind
  <2> QED BY <2>2 DEF X
<1>7. 1 + N \in 1..(1 + N) /\ (1 + N) - (1 + N) + 1 = 1 /\ (1 + N) - 1 = N
  OBVIOUS
<1>8. EscapedAt(s, 1) = {}
  BY <1>3 DEF EscapedAt
<1>9. G[1 + N] = <<Plainly(s, 1, blanks)>> \o G[N]
  <2>1. G[1 + N] = IF EscapedAt(s, (1 + N) - (1 + N) + 1) # {}
                   THEN <<Value(s, (1 + N) - (1 + N) + 1)>> \o G[(1 + N) - 3]
                   ELSE <<Plainly(s, (1 + N) - (1 + N) + 1, blanks)>> \o G[(1 + N) - 1]
    BY <1>6, <1>7 DEF Decodes, DecodesBehind
  <2> QED BY <1>7, <1>8, <2>1
<1>10. Plainly(s, 1, blanks) = IF c \in blanks THEN SPACE ELSE c
  BY <1>3 DEF Plainly
<1> QED BY <1>2, <1>6, <1>9, <1>10 DEF Cons, DecodesBehind

LEMMA HexDigits ==
    ASSUME NEW b \in Byte
    PROVE  /\ \A d \in 0..15 : HexVal(IF d < 10 THEN 48 + d ELSE 65 + d - 10) = {d}
           /\ \E h \in 0..15, l \in 0..15 : h = b \div 16 /\ l = b % 16 /\ 16 * h + l = b
<1>1. ASSUME NEW d \in 0..15 PROVE HexVal(IF d < 10 THEN 48 + d ELSE 65 + d - 10) = {d}
  <2>1. CASE d < 10
    <3>1. 48 + d \in 48..57 /\ (48 + d) - 48 = d
      BY <2>1
    <3> QED BY <2>1, <3>1 DEF HexVal
  <2>2. CASE ~(d < 10)
    <3> DEFINE c == 65 + d - 10
    <3>1. c \notin 48..57 /\ c - 55 = d /\ c - 55 \in 10..15 /\ c - 87 \notin 10..15
      BY <2>2
    <3> HIDE DEF c
    <3>2. {k \in {55, 87} : c - k \in 10..15} = {55}
      BY <3>1
    <3>3. HexVal(c) = {c - 55}
      BY <3>1, <3>2 DEF HexVal
    <3> QED BY <2>2, <3>1, <3>3 DEF c
  <2> QED BY <2>1, <2>2
<1>2. \E h \in 0..15, l \in 0..15 : h = b \div 16 /\ l = b % 16 /\ 16 * h + l = b
  <2>1. \A d \in Int : d % 16 = d - 16 * (d \div 16) /\ d % 16 \in 0..15 /\ d \div 16 \in Int
    OBVIOUS
  <2>2. PICK h \in Int, l \in Int : h = b \div 16 /\ l = b % 16
    BY <2>1 DEF Byte
  <2>3. b \in 0..127 /\ l = b - 16 * h /\ l \in 0..15
    BY <2>1, <2>2 DEF Byte
  <2>4. h \in 0..15 /\ 16 * h + l = b
    BY <2>3
  <2> QED BY <2>2, <2>3, <2>4
<1> QED BY <1>1, <1>2

LEMMA EscapeType ==
    ASSUME NEW b \in Byte
    PROVE  /\ Escape(b) \in Seq(Byte) /\ Len(Escape(b)) = 3 /\ Escape(b)[1] = PERCENT
           /\ \E h \in 0..15, l \in 0..15 :
                HexVal(Escape(b)[2]) = {h} /\ HexVal(Escape(b)[3]) = {l} /\ 16 * h + l = b
           /\ \A i \in 2..3 : Escape(b)[i] \in 48..57 \union 65..70
<1> DEFINE Digit(d) == IF d < 10 THEN 48 + d ELSE 65 + d - 10
           h == Digit(b \div 16)  l == Digit(b % 16)
<1>1. PICK p \in 0..15, q \in 0..15 : p = b \div 16 /\ q = b % 16 /\ 16 * p + q = b
  BY HexDigits
<1>2. \A d \in 0..15 : Digit(d) \in 48..57 \union 65..70
  OBVIOUS
<1>3. \A d \in 0..15 : HexVal(Digit(d)) = {d}
  BY HexDigits
<1>4. Escape(b) = <<PERCENT, h, l>>
  <2>1. Hex(b, 65) = <<h, l>>
    BY DEF Hex
  <2> HIDE DEF h, l
  <2>2. <<PERCENT>> \o <<h, l>> = <<PERCENT, h, l>>
    <3> DEFINE u == <<PERCENT>>  v == <<h, l>>  U == {PERCENT, h, l}
               w == <<PERCENT, h, l>>
    <3>1. /\ u \in Seq(U) /\ v \in Seq(U) /\ Len(u) = 1 /\ Len(v) = 2
          /\ u[1] = PERCENT /\ v[1] = h /\ v[2] = l
      OBVIOUS
    <3>2. w \in Seq(U) /\ Len(w) = 3 /\ w[1] = PERCENT /\ w[2] = h /\ w[3] = l
      OBVIOUS
    <3> HIDE DEF u, v, w, U
    <3>3. /\ u \o v \in Seq(U) /\ Len(u \o v) = Len(u) + Len(v)
          /\ \A k \in 1..Len(u) + Len(v) :
               (u \o v)[k] = IF k <= Len(u) THEN u[k] ELSE v[k - Len(u)]
      BY <3>1, ConcatProperties
    <3>4. /\ Len(u \o v) = 3 /\ (u \o v)[1] = u[1]
          /\ (u \o v)[2] = v[1] /\ (u \o v)[3] = v[2]
      BY <3>1, <3>3
    <3>5. \A k \in 1..3 : k = 1 \/ k = 2 \/ k = 3
      OBVIOUS
    <3>6. \A k \in 1..3 : (u \o v)[k] = w[k]
      BY <3>1, <3>2, <3>4, <3>5
    <3>7. u \o v = w
      BY <3>2, <3>3, <3>4, <3>6, SameElements
    <3> QED BY <3>7 DEF u, v, w
  <2> QED BY <2>1, <2>2 DEF Escape
<1>5. /\ h \in 48..57 \union 65..70 /\ l \in 48..57 \union 65..70
      /\ HexVal(h) = {p} /\ HexVal(l) = {q}
  BY <1>1, <1>2, <1>3
<1> HIDE DEF h, l
<1>6. PERCENT \in Byte /\ h \in Byte /\ l \in Byte
  BY <1>5 DEF Byte, PERCENT
<1> DEFINE w == <<PERCENT, h, l>>
<1>7. w \in Seq(Byte) /\ Len(w) = 3 /\ w[1] = PERCENT /\ w[2] = h /\ w[3] = l
  BY <1>6
<1> HIDE DEF w
<1>8. \A i \in 2..3 : w[i] \in 48..57 \union 65..70
  <2>1. \A i \in 2..3 : i = 2 \/ i = 3
    OBVIOUS
  <2> QED BY <1>5, <1>7, <2>1
<1>9. HexVal(w[2]) = {p} /\ HexVal(w[3]) = {q} /\ 16 * p + q = b
  BY <1>1, <1>5, <1>7
<1>10. Escape(b) = w
  BY <1>4 DEF w
<1> QED BY <1>7, <1>8, <1>9, <1>10

LEMMA UnescapedEscape ==
    ASSUME NEW b \in Byte, NEW t \in Seq(Byte), NEW blanks
    PROVE  Unescaped(Escape(b) \o t, blanks) = Cons(b, Unescaped(t, blanks))
<1> DEFINE x == Escape(b)  s == x \o t
<1>1. x \in Seq(Byte) /\ Len(x) = 3 /\ x[1] = PERCENT
  BY EscapeType
<1>11. PICK p \in 0..15, q \in 0..15 :
         HexVal(x[2]) = {p} /\ HexVal(x[3]) = {q} /\ 16 * p + q = b
  BY EscapeType
<1>2. PICK N \in Nat : N = Len(t)
  OBVIOUS
<1> HIDE DEF x
<1>3. Len(s) = 3 + N /\ s[1] = x[1] /\ s[2] = x[2] /\ s[3] = x[3]
  <2>1. Len(s) = Len(x) + Len(t)
        /\ \A k \in 1..Len(x) + Len(t) : s[k] = IF k <= Len(x) THEN x[k] ELSE t[k - Len(x)]
    BY <1>1, ConcatProperties
  <2> HIDE DEF s
  <2> QED BY <1>1, <1>2, <2>1
<1> HIDE DEF s
<1>4. s = x \o t
  BY DEF s
<1>5. PICK G : DecodesBehind(G, 3 + N, s, N, t, blanks)
  <2> DEFINE X == 3
  <2>1. X \in Nat /\ X = Len(x)
    BY <1>1
  <2> HIDE DEF X
  <2>2. \E G : DecodesBehind(G, X + N, s, N, t, blanks)
    BY <1>1, <1>2, <1>4, <2>1, UnescapedBehind
  <2> QED BY <2>2 DEF X
<1>6. 3 + N \in 1..(3 + N) /\ (3 + N) - (3 + N) + 1 = 1 /\ (3 + N) - 3 = N
  OBVIOUS
<1>7. EscapedAt(s, 1) = {b}
  <2>1. HasDigits(s, 1)
    BY <1>3 DEF HasDigits
  <2>2. EscapedAt(s, 1) = {16 * h + l : h \in HexVal(s[2]), l \in HexVal(s[3])}
    BY <1>1, <1>3, <2>1 DEF EscapedAt
  <2> DEFINE P == HexVal(s[2])  Q == HexVal(s[3])
  <2>3. P = {p} /\ Q = {q}
    BY <1>11, <1>3
  <2>4. EscapedAt(s, 1) = {16 * h + l : h \in P, l \in Q}
    BY <2>2
  <2> HIDE DEF P, Q
  <2>5. {16 * h + l : h \in P, l \in Q} = {16 * p + q}
    BY <2>3
  <2> QED BY <1>11, <2>4, <2>5
<1>8. Value(s, 1) = b
  BY <1>7 DEF Value
<1>9. G[3 + N] = <<b>> \o G[N]
  <2>1. G[3 + N] = IF EscapedAt(s, (3 + N) - (3 + N) + 1) # {}
                   THEN <<Value(s, (3 + N) - (3 + N) + 1)>> \o G[(3 + N) - 3]
                   ELSE <<Plainly(s, (3 + N) - (3 + N) + 1, blanks)>> \o G[(3 + N) - 1]
    BY <1>5, <1>6 DEF Decodes, DecodesBehind
  <2> QED BY <1>6, <1>7, <1>8, <2>1
<1> QED BY <1>5, <1>9 DEF Cons, s, x, DecodesBehind

-----------------------------------------------------------------------------
(* What was escaped reads back *)

LEMMA DecodesBack ==
    ASSUME NEW code, \A b \in Byte : code[b] \in Seq(Byte), NEW blanks,
           \A b \in Byte : \A t \in Seq(Byte) :
             Unescaped(code[b] \o t, blanks) = Cons(b, Unescaped(t, blanks)),
           NEW s \in Seq(Byte)
    PROVE  Unescaped(Coded(code, s), blanks) = s
<1> DEFINE P == {t \in Seq(Byte) : Unescaped(Coded(code, t), blanks) = t}
<1>1. <<>> \in P
  BY CodedEmpty, UnescapedEmpty
<1>2. \A c \in Byte : \A t \in Seq(Byte) : t \in P => Cons(c, t) \in P
  <2> SUFFICES ASSUME NEW c \in Byte, NEW t \in Seq(Byte), t \in P PROVE Cons(c, t) \in P
    OBVIOUS
  <2>1. Cons(c, t) \in Seq(Byte)
    BY ConsElements
  <2>2. Coded(code, Cons(c, t)) = code[c] \o Coded(code, t)
    <3>1. \A b \in Byte : code[b] \in Seq(Byte)
      OBVIOUS
    <3>2. c \in Byte /\ t \in Seq(Byte)
      OBVIOUS
    <3> HIDE DEF P
    <3> QED BY ONLY <3>1, <3>2, CodedFront
  <2>3. Coded(code, t) \in Seq(Byte)
    BY CodedType
  <2>4. Unescaped(code[c] \o Coded(code, t), blanks) = Cons(c, Unescaped(Coded(code, t), blanks))
    BY <2>3
  <2>5. Unescaped(Coded(code, t), blanks) = t
    OBVIOUS
  <2> QED BY <2>1, <2>2, <2>4, <2>5
<1> HIDE DEF P
<1>3. s \in P
  BY <1>1, <1>2, FrontInduction
<1> QED BY <1>3 DEF P

PctCode == [b \in Byte |-> IF Structural(b) THEN Escape(b) ELSE <<b>>]

\* A column: no control characters.
Column == {b \in Byte : b >= 32 /\ b # DEL}

LEMMA EscapeIsColumn ==
    ASSUME NEW b \in Byte
    PROVE  Escape(b) \in Seq(Column \ {AMPERSAND, EQUALS})
<1> DEFINE x == Escape(b)
<1>1. /\ x \in Seq(Byte) /\ Len(x) = 3 /\ x[1] = PERCENT
      /\ \A i \in 2..3 : x[i] \in 48..57 \union 65..70
  BY EscapeType
<1> HIDE DEF x
<1>2. \A i \in 1..3 : x[i] \in Byte /\ (i = 1 \/ i \in 2..3)
  <2>1. x \in Seq(Byte) /\ Len(x) = 3
    BY <1>1
  <2>2. \A i \in 1..Len(x) : x[i] \in Byte
    BY <2>1, ElementOfSeq
  <2>3. \A i \in 1..3 : x[i] \in Byte
    BY <2>1, <2>2
  <2> QED BY <2>3
<1>3. \A i \in 1..3 : x[i] \in Column \ {AMPERSAND, EQUALS}
  <2> TAKE i \in 1..3
  <2>1. CASE i = 1
    BY <1>1, <1>2, <2>1 DEF Column, DEL, AMPERSAND, EQUALS, PERCENT
  <2>2. CASE i \in 2..3
    <3>1. x[i] \in Byte /\ x[i] \in 48..57 \union 65..70
      BY <1>1, <1>2, <2>2
    <3> QED BY <3>1 DEF Column, DEL, AMPERSAND, EQUALS
  <2> QED BY <1>2, <2>1, <2>2
<1>4. x \in Seq(Column \ {AMPERSAND, EQUALS})
  BY <1>1, <1>3, Retyped
<1> QED BY <1>4 DEF x

LEMMA PctCodeType == \A b \in Byte : PctCode[b] \in Seq(Column) /\ PctCode[b] \in Seq(Byte)
<1> TAKE b \in Byte
<1>1. CASE Structural(b)
  <2>1. Escape(b) \in Seq(Column) /\ Escape(b) \in Seq(Byte)
    BY EscapeIsColumn, EscapeType
  <2> QED BY <1>1, <2>1 DEF PctCode
<1>2. CASE ~Structural(b)
  <2>1. b \in Column
    BY <1>2 DEF Structural, Column, Byte
  <2>2. <<b>> \in Seq(Column) /\ <<b>> \in Seq(Byte)
    BY <2>1
  <2> QED BY <1>2, <2>2 DEF PctCode
<1> QED BY <1>1, <1>2

\* A field is a column whatever is in it, and reads back.
LEMMA PctReadsBack ==
    ASSUME NEW s \in Seq(Byte)
    PROVE  PctEncode(s) \in Seq(Column) /\ PctDecode(PctEncode(s)) = s
<1>1. PctEncode(s) = Coded(PctCode, s)
  <2>1. \A i \in DOMAIN s : s[i] \in Byte
    OBVIOUS
  <2>2. \A i \in DOMAIN s : PctCode[s[i]] = IF Structural(s[i]) THEN Escape(s[i]) ELSE <<s[i]>>
    BY <2>1 DEF PctCode
  <2>3. [i \in DOMAIN s |-> PctCode[s[i]]]
          = [i \in DOMAIN s |-> IF Structural(s[i]) THEN Escape(s[i]) ELSE <<s[i]>>]
    BY <2>2
  <2> QED BY <2>3 DEF PctEncode, Coded
<1>2. Coded(PctCode, s) \in Seq(Column)
  BY PctCodeType, CodedType
<1>3. \A b \in Byte : \A t \in Seq(Byte) :
        Unescaped(PctCode[b] \o t, {}) = Cons(b, Unescaped(t, {}))
  <2> TAKE b \in Byte
  <2> TAKE t \in Seq(Byte)
  <2>1. CASE Structural(b)
    <3>1. PctCode[b] = Escape(b)
      BY <2>1 DEF PctCode
    <3> QED BY <3>1, UnescapedEscape
  <2>2. CASE ~Structural(b)
    <3>1. PctCode[b] \o t = Cons(b, t)
      BY <2>2 DEF PctCode, Cons
    <3>2. b # PERCENT
      BY <2>2 DEF Structural
    <3> QED BY <3>1, <3>2, UnescapedPlain
  <2> QED BY <2>1, <2>2
<1>4. \A b \in Byte : PctCode[b] \in Seq(Byte)
  BY PctCodeType
<1> DEFINE code == PctCode
<1> HIDE DEF code
<1>5. Unescaped(Coded(code, s), {}) = s
  BY <1>3, <1>4, DecodesBack DEF code
<1> QED BY <1>1, <1>2, <1>5 DEF PctDecode, code

UrlCode == [b \in Byte |-> UrlChar(b)]

LEMMA UrlCodeType ==
    \A b \in Byte : UrlCode[b] \in Seq(Byte \ {AMPERSAND, EQUALS}) /\ UrlCode[b] \in Seq(Byte)
<1> DEFINE Q == Byte \ {AMPERSAND, EQUALS}
<1> TAKE b \in Byte
<1>1. CASE b < 32 \/ b \in {PERCENT, AMPERSAND, PLUS, EQUALS}
  <2>1. UrlCode[b] = Escape(b)
    BY <1>1 DEF UrlCode, UrlChar
  <2>2. Escape(b) \in Seq(Q)
    <3>1. Escape(b) \in Seq(Column \ {AMPERSAND, EQUALS}) /\ Column \ {AMPERSAND, EQUALS} \subseteq Q
      BY EscapeIsColumn DEF Column
    <3> QED BY <3>1, SeqMonotonic
  <2>3. Escape(b) \in Seq(Byte)
    BY EscapeType
  <2> QED BY <2>1, <2>2, <2>3
<1>2. CASE ~(b < 32 \/ b \in {PERCENT, AMPERSAND, PLUS, EQUALS}) /\ b = SPACE
  <2>1. UrlCode[b] = <<PLUS>> /\ PLUS \in Q
    BY <1>2 DEF UrlCode, UrlChar, Byte, PLUS, AMPERSAND, EQUALS
  <2> QED BY <2>1
<1>3. CASE ~(b < 32 \/ b \in {PERCENT, AMPERSAND, PLUS, EQUALS}) /\ b # SPACE
  <2>1. UrlCode[b] = <<b>> /\ b \in Q
    BY <1>3 DEF UrlCode, UrlChar
  <2> QED BY <2>1
<1> QED BY <1>1, <1>2, <1>3

LEMMA UrlReadsBack ==
    ASSUME NEW s \in Seq(Byte)
    PROVE  UrlEncode(s) \in Seq(Byte \ {AMPERSAND, EQUALS}) /\ UrlDecode(UrlEncode(s)) = s
<1>1. UrlEncode(s) = Coded(UrlCode, s)
  <2>1. \A i \in DOMAIN s : s[i] \in Byte
    OBVIOUS
  <2>2. \A i \in DOMAIN s : UrlCode[s[i]] = UrlChar(s[i])
    BY <2>1 DEF UrlCode
  <2>3. [i \in DOMAIN s |-> UrlCode[s[i]]] = [i \in DOMAIN s |-> UrlChar(s[i])]
    BY <2>2
  <2> QED BY <2>3 DEF UrlEncode, Coded
<1>2. Coded(UrlCode, s) \in Seq(Byte \ {AMPERSAND, EQUALS})
  BY UrlCodeType, CodedType
<1>3. \A b \in Byte : \A t \in Seq(Byte) :
        Unescaped(UrlCode[b] \o t, {PLUS}) = Cons(b, Unescaped(t, {PLUS}))
  <2> TAKE b \in Byte
  <2> TAKE t \in Seq(Byte)
  <2>1. CASE b < 32 \/ b \in {PERCENT, AMPERSAND, PLUS, EQUALS}
    <3>1. UrlCode[b] = Escape(b)
      BY <2>1 DEF UrlCode, UrlChar
    <3> QED BY <3>1, UnescapedEscape
  <2>2. CASE ~(b < 32 \/ b \in {PERCENT, AMPERSAND, PLUS, EQUALS}) /\ b = SPACE
    <3>1. UrlCode[b] \o t = Cons(PLUS, t)
      BY <2>2 DEF UrlCode, UrlChar, Cons
    <3>2. PLUS \in Byte /\ PLUS # PERCENT
      BY DEF PLUS, PERCENT, Byte
    <3>3. Unescaped(Cons(PLUS, t), {PLUS})
            = Cons(IF PLUS \in {PLUS} THEN SPACE ELSE PLUS, Unescaped(t, {PLUS}))
      BY <3>2, UnescapedPlain
    <3> QED BY <2>2, <3>1, <3>3
  <2>3. CASE ~(b < 32 \/ b \in {PERCENT, AMPERSAND, PLUS, EQUALS}) /\ b # SPACE
    <3>1. UrlCode[b] \o t = Cons(b, t)
      BY <2>3 DEF UrlCode, UrlChar, Cons
    <3>2. b # PERCENT /\ b \notin {PLUS}
      BY <2>3
    <3>3. Unescaped(Cons(b, t), {PLUS})
            = Cons(IF b \in {PLUS} THEN SPACE ELSE b, Unescaped(t, {PLUS}))
      BY <3>2, UnescapedPlain
    <3> QED BY <3>1, <3>2, <3>3
  <2> QED BY <2>1, <2>2, <2>3
<1>4. \A b \in Byte : UrlCode[b] \in Seq(Byte)
  BY UrlCodeType
<1> DEFINE code == UrlCode
<1> HIDE DEF code
<1>5. Unescaped(Coded(code, s), {PLUS}) = s
  BY <1>3, <1>4, DecodesBack DEF code
<1> QED BY <1>1, <1>2, <1>5 DEF UrlDecode, code

-----------------------------------------------------------------------------
(* Rows and lines *)

RowByte == Column \union {TAB}

LEMMA FormatRowOne ==
    ASSUME NEW c \in Seq(Column)
    PROVE  FormatRow(<<c>>) = c \o <<LF>>
<1> DEFINE cs == <<c>>
           q == [k \in DOMAIN cs |-> cs[k] \o <<IF k = Len(cs) THEN LF ELSE TAB>>]
           x == c \o <<LF>>
<1>1. DOMAIN cs = 1..1 /\ Len(cs) = 1 /\ cs[1] = c
  OBVIOUS
<1> HIDE DEF cs
<1>2. q = <<x>>
  BY <1>1
<1>3. x \in Seq(Byte \union {LF})
  <2> DEFINE U == Byte \union {LF}  e == <<LF>>
  <2>1. c \in Seq(U) /\ e \in Seq(U)
    BY SeqMonotonic DEF Column
  <2> HIDE DEF U, e
  <2>2. c \o e \in Seq(U)
    BY <2>1, ConcatProperties
  <2> QED BY <2>2 DEF U, e
<1>4. FlattenSeq(<<x>>) = x
  BY <1>3, FlattenOne
<1> HIDE DEF x
<1>5. FormatRow(cs) = x
  BY <1>2, <1>4 DEF FormatRow
<1> QED BY <1>5 DEF x, cs

LEMMA FormatRowFront ==
    ASSUME NEW c \in Seq(Column), NEW cs \in Seq(Seq(Column)), cs # <<>>
    PROVE  FormatRow(Cons(c, cs)) = c \o Cons(TAB, FormatRow(cs))
<1> DEFINE U == Byte \union {TAB, LF}
           Q == Seq(Column)
           R == Seq(U)
           Ended(ds) == [k \in DOMAIN ds |-> ds[k] \o <<IF k = Len(ds) THEN LF ELSE TAB>>]
           e == Ended(cs)
           ds == Cons(c, cs)
           x == c \o <<TAB>>
<1>1. PICK n \in Nat \ {0} : n = Len(cs) /\ DOMAIN cs = 1..n
  <2>1. Len(cs) \in Nat \ {0}
    BY EmptySeq
  <2> QED BY <2>1
<1>2. /\ ds \in Seq(Q) /\ Len(ds) = Len(cs) + 1
      /\ ds[1] = c /\ \A i \in 1..Len(cs) : ds[i + 1] = cs[i]
  BY ConsElements
<1> HIDE DEF ds
<1>3. DOMAIN ds = 1..(n + 1) /\ Len(ds) = n + 1
  BY <1>1, <1>2
<1>4. \A d \in Q : \A b \in {TAB, LF} : d \o <<b>> \in R
  <2> TAKE d \in Q
  <2> TAKE b \in {TAB, LF}
  <2>1. d \in Seq(U) /\ <<b>> \in Seq(U)
    BY SeqMonotonic DEF Column
  <2> DEFINE y == <<b>>
  <2> HIDE DEF U, y
  <2>2. y \in Seq(U)
    BY <2>1 DEF y
  <2>3. d \o y \in Seq(U)
    BY <2>1, <2>2, ConcatProperties
  <2> QED BY <2>3 DEF y
<1>5. \A i \in 1..n : cs[i] \in Q
  BY <1>1
<1> DEFINE E(i) == cs[i] \o <<IF i = n THEN LF ELSE TAB>>
<1>6. \A i \in 1..n : E(i) \in R
  BY <1>4, <1>5
<1>7. e = [i \in 1..n |-> E(i)]
  BY <1>1
<1>8. x \in R
  BY <1>4
<1> HIDE DEF E, R
<1>9. e \in Seq(R) /\ Len(e) = n /\ \A i \in 1..n : e[i] = E(i)
  <2>1. [i \in 1..n |-> E(i)] \in Seq(R) /\ Len([i \in 1..n |-> E(i)]) = n
    BY <1>6
  <2>2. \A i \in 1..n : [j \in 1..n |-> E(j)][i] = E(i)
    OBVIOUS
  <2> HIDE DEF e
  <2> QED BY <1>7, <2>1, <2>2
<1> DEFINE u == Cons(x, e)  v == Ended(ds)
<1>10. u \in Seq(R) /\ Len(u) = n + 1 /\ u[1] = x /\ \A i \in 1..n : u[i + 1] = e[i]
  <2> HIDE DEF e, x
  <2>1. u \in Seq(R) /\ Len(u) = Len(e) + 1 /\ u[1] = x /\ \A i \in 1..Len(e) : u[i + 1] = e[i]
    <3>1. e \in Seq(R) /\ x \in R
      BY <1>8, <1>9
    <3> QED BY <3>1, ConsElements
  <2> HIDE DEF u
  <2> QED BY <1>9, <2>1
<1>11. v = [i \in 1..(n + 1) |-> ds[i] \o <<IF i = n + 1 THEN LF ELSE TAB>>]
  BY <1>3
<1>12. \A i \in 1..(n + 1) : v[i] = u[i]
  <2> TAKE i \in 1..(n + 1)
  <2>1. v[i] = ds[i] \o <<IF i = n + 1 THEN LF ELSE TAB>>
    <3> HIDE DEF v
    <3> QED BY <1>11
  <2>2. CASE i = 1
    <3>1. i # n + 1 /\ ds[i] = c
      BY <1>2, <2>2
    <3>2. v[i] = c \o <<TAB>>
      <4> HIDE DEF v
      <4> QED BY <2>1, <3>1
    <3> HIDE DEF v, u
    <3> QED BY <1>10, <2>2, <3>2
  <2>3. CASE i # 1
    <3>1. PICK j \in 1..n : i = j + 1
      <4>1. i - 1 \in 1..n /\ i = (i - 1) + 1
        BY <2>3
      <4> QED BY <4>1
    <3>2. ds[i] = cs[j] /\ (i = n + 1 <=> j = n) /\ u[i] = E(j)
      <4> HIDE DEF u, e
      <4>1. ds[i] = cs[j]
        BY <1>1, <1>2, <3>1
      <4>2. i = n + 1 <=> j = n
        BY <3>1
      <4>3. u[i] = e[j] /\ e[j] = E(j)
        BY <1>9, <1>10, <3>1
      <4> QED BY <4>1, <4>2, <4>3
    <3>3. v[i] = cs[j] \o <<IF j = n THEN LF ELSE TAB>>
      <4> HIDE DEF v
      <4> QED BY <2>1, <3>2
    <3> HIDE DEF v, u
    <3> QED BY <3>2, <3>3 DEF E
  <2> QED BY <2>2, <2>3
<1>13. v = u
  <2>1. DOMAIN v = 1..(n + 1) /\ v = [i \in 1..(n + 1) |-> v[i]]
    BY <1>11
  <2> HIDE DEF v, u
  <2>2. DOMAIN u = 1..(n + 1) /\ u = [i \in 1..(n + 1) |-> u[i]]
    BY <1>10
  <2> QED BY <1>12, <2>1, <2>2
<1>14. FlattenSeq(u) = x \o FlattenSeq(e)
  <2> HIDE DEF e, x
  <2> QED BY <1>8, <1>9, FlattenFront DEF R
<1>15. FormatRow(ds) = FlattenSeq(v) /\ FormatRow(cs) = FlattenSeq(e)
  BY DEF FormatRow
<1>16. FlattenSeq(e) \in Seq(U)
  <2> HIDE DEF e, U
  <2> QED BY <1>9, FlattenType DEF R
<1>17. (c \o <<TAB>>) \o FlattenSeq(e) = c \o (<<TAB>> \o FlattenSeq(e))
  <2> DEFINE f == FlattenSeq(e)  y == <<TAB>>
  <2>1. c \in Seq(U) /\ y \in Seq(U)
    BY SeqMonotonic DEF Column
  <2> HIDE DEF f, y, U
  <2>2. (c \o y) \o f = c \o (y \o f)
    BY <1>16, <2>1, ConcatAssociative DEF f
  <2> QED BY <2>2 DEF f, y
<1> HIDE DEF v, u, e, U
<1> QED BY <1>13, <1>14, <1>15, <1>17 DEF ds, Cons

\* The bytes of cs joined by TAB and ended by LF are one line, which splits into cs.
Joined(cs) ==
  \E r \in Seq(RowByte) : /\ FormatRow(cs) = r \o <<LF>>
                          /\ Split(r, TAB) = cs
                          /\ Len(cs) > 1 => r # <<>>

LEMMA ColumnIsRowByte ==
    ASSUME NEW c \in Seq(Column)
    PROVE  c \in Seq(RowByte) /\ c \in Seq(RowByte \ {TAB}) /\ TAB \in RowByte /\ LF \notin RowByte
<1>1. Column \subseteq RowByte /\ Column \subseteq RowByte \ {TAB} /\ TAB \in RowByte /\ LF \notin RowByte
  BY DEF RowByte, Column, TAB, LF
<1>2. c \in Seq(RowByte)
  BY <1>1, SeqMonotonic
<1>3. c \in Seq(RowByte \ {TAB})
  BY <1>1, SeqMonotonic
<1> QED BY <1>1, <1>2, <1>3

LEMMA JoinedOne ==
    ASSUME NEW c \in Seq(Column)
    PROVE  Joined(<<c>>)
<1>1. c \in Seq(RowByte) /\ c \in Seq(RowByte \ {TAB})
  BY ColumnIsRowByte
<1>2. Split(c, TAB) = <<c>>
  BY <1>1, SplitNone
<1>3. FormatRow(<<c>>) = c \o <<LF>>
  BY FormatRowOne
<1>4. Len(<<c>>) = 1
  OBVIOUS
<1> DEFINE cs == <<c>>
<1> HIDE DEF cs
<1>5. ~(Len(cs) > 1)
  BY <1>4 DEF cs
<1>6. Joined(cs)
  BY <1>1, <1>2, <1>3, <1>5 DEF Joined, cs
<1> QED BY <1>6 DEF cs

LEMMA JoinedFront ==
    ASSUME NEW c \in Seq(Column), NEW cs \in Seq(Seq(Column)), cs # <<>>, Joined(cs)
    PROVE  Joined(Cons(c, cs))
<1>1. PICK r \in Seq(RowByte) : FormatRow(cs) = r \o <<LF>> /\ Split(r, TAB) = cs
  BY DEF Joined
<1>2. c \in Seq(RowByte) /\ c \in Seq(RowByte \ {TAB}) /\ TAB \in RowByte
  BY ColumnIsRowByte
<1> DEFINE U == RowByte \union {LF}  e == <<LF>>  t == Cons(TAB, r)  q == c \o t
<1>3. t \in Seq(RowByte) /\ Len(t) = Len(r) + 1
  BY <1>2, ConsElements
<1> HIDE DEF t
<1>4. q \in Seq(RowByte) /\ Len(q) = Len(c) + Len(t)
  BY <1>2, <1>3, ConcatProperties
<1>5. q # <<>>
  <2>1. Len(c) \in Nat /\ Len(r) \in Nat /\ Len(<<>>) = 0
    OBVIOUS
  <2> HIDE DEF q
  <2> QED BY <1>3, <1>4, <2>1
<1>6. Split(q, TAB) = Cons(c, cs)
  BY <1>1, <1>2, SplitFirst DEF t
<1>7. FormatRow(Cons(c, cs)) = c \o Cons(TAB, r \o e)
  BY <1>1, FormatRowFront
<1>8. c \in Seq(U) /\ t \in Seq(U) /\ r \in Seq(U) /\ e \in Seq(U) /\ TAB \in U
  <2>1. RowByte \subseteq U
    OBVIOUS
  <2> QED BY <1>2, <1>3, <2>1, SeqMonotonic
<1> HIDE DEF U, e
<1>9. t \o e = Cons(TAB, r \o e)
  <2>1. TAB \in U /\ r \in Seq(U) /\ e \in Seq(U)
    BY <1>8
  <2>2. Cons(TAB, r) \o e = Cons(TAB, r \o e)
    BY <2>1, ConsConcat
  <2> QED BY <2>2 DEF t
<1>10. q \o e = c \o (t \o e)
  BY <1>8, ConcatAssociative
<1> DEFINE ds == Cons(c, cs)
<1> HIDE DEF ds, q
<1>11. FormatRow(ds) = q \o <<LF>> /\ Split(q, TAB) = ds
  BY <1>6, <1>7, <1>9, <1>10 DEF ds, e
<1>12. Joined(ds)
  BY <1>4, <1>5, <1>11 DEF Joined
<1> QED BY <1>12 DEF ds

LEMMA RowJoined ==
    ASSUME NEW cs \in Seq(Seq(Column)), cs # <<>>
    PROVE  Joined(cs)
<1> DEFINE Q == Seq(Column)
           P == {ds \in Seq(Q) : ds # <<>> => Joined(ds)}
<1>1. <<>> \in P
  OBVIOUS
<1>2. \A c \in Q : \A ds \in Seq(Q) : ds \in P => Cons(c, ds) \in P
  <2> SUFFICES ASSUME NEW c \in Q, NEW ds \in Seq(Q), ds \in P PROVE Cons(c, ds) \in P
    OBVIOUS
  <2>1. Cons(c, ds) \in Seq(Q)
    BY ConsElements
  <2>2. Joined(Cons(c, ds))
    <3>1. CASE ds = <<>>
      <4>1. <<c>> \in Seq(Q)
        OBVIOUS
      <4>2. Cons(c, ds) = <<c>>
        BY <3>1, <4>1, ConcatEmptySeq DEF Cons
      <4> QED BY <4>2, JoinedOne
    <3>2. CASE ds # <<>>
      <4>1. Joined(ds)
        BY <3>2
      <4> QED BY <3>2, <4>1, JoinedFront
    <3> QED BY <3>1, <3>2
  <2> QED BY <2>1, <2>2
<1> HIDE DEF P
<1>3. cs \in P
  BY <1>1, <1>2, FrontInduction
<1> QED BY <1>3 DEF P

\* Parts that are not empty
LEMMA NonEmptyFront ==
    ASSUME NEW S, NEW x \in Seq(S), NEW p \in Seq(Seq(S))
    PROVE  NonEmpty(Cons(x, p)) = IF x = <<>> THEN NonEmpty(p) ELSE Cons(x, NonEmpty(p))
<1> DEFINE Q == Seq(S)  V == Q \ {<<>>}  g == <<x>>  h == g \o p
<1>0. \A d \in Seq(Q) : NonEmpty(d) = Filtered(d, Positions(d, V))
  <2> TAKE d \in Seq(Q)
  <2>1. \A k \in DOMAIN d : d[k] \in Q
    OBVIOUS
  <2>2. {k \in DOMAIN d : d[k] # <<>>} = Positions(d, V)
    BY <2>1 DEF Positions
  <2> QED BY <2>2 DEF NonEmpty
<1>1. g \in Seq(Q) /\ Len(g) = 1 /\ g[1] = x /\ DOMAIN g = 1..1
  OBVIOUS
<1> HIDE DEF g
<1>2. h \in Seq(Q)
  BY <1>1, ConcatProperties
<1>3. Filtered(h, Positions(h, V)) = Filtered(g, Positions(g, V)) \o Filtered(p, Positions(p, V))
  BY <1>1, FilteredConcat
<1>4. Filtered(p, Positions(p, V)) \in Seq(Q)
  <2>1. Filtered(p, Positions(p, V)) \in Seq(Q \intersect V)
    BY FilteredType
  <2> QED BY <2>1, SeqMonotonic
<1>5. CASE x = <<>>
  <2>1. \A i \in 1..Len(g) : g[i] \notin V
    BY <1>1, <1>5
  <2>2. Filtered(g, Positions(g, V)) = <<>>
    BY <1>1, <2>1, FilteredNone
  <2>3. <<>> \o Filtered(p, Positions(p, V)) = Filtered(p, Positions(p, V))
    BY <1>4, ConcatEmptySeq
  <2>4. NonEmpty(h) = NonEmpty(p)
    BY <1>0, <1>2, <1>3, <2>2, <2>3
  <2> QED BY <1>5, <2>4 DEF Cons, g
<1>6. CASE x # <<>>
  <2>1. \A n \in 1..Len(g) : n \in Positions(g, V)
    BY <1>1, <1>6 DEF Positions
  <2>2. Filtered(g, Positions(g, V)) = g
    BY <1>1, <2>1, FilteredAll
  <2>3. NonEmpty(h) = g \o NonEmpty(p)
    BY <1>0, <1>2, <1>3, <2>2
  <2> QED BY <1>6, <2>3 DEF Cons, g
<1> QED BY <1>5, <1>6

LEMMA NonEmptyOfNone == NonEmpty(<<>>) = <<>>
<1> DEFINE E == <<>>
<1>1. E \in Seq(Nat) /\ \A n \in 1..Len(E) : n \in {k \in DOMAIN E : E[k] # <<>>}
  OBVIOUS
<1> HIDE DEF E
<1>2. Filtered(E, {k \in DOMAIN E : E[k] # <<>>}) = E
  BY <1>1, FilteredAll
<1> QED BY <1>2 DEF NonEmpty, E

\* A text is its first line, and the lines of the rest.
LEMMA LineFirst ==
    ASSUME NEW S, LF \in S, NEW r \in Seq(S \ {LF}), r # <<>>, NEW t \in Seq(S)
    PROVE  Lines((r \o <<LF>>) \o t) = Cons(r, Lines(t))
<1> DEFINE e == <<LF>>
<1>1. e \in Seq(S) /\ r \in Seq(S)
  BY SeqMonotonic
<1> HIDE DEF e
<1>2. (r \o e) \o t = r \o (e \o t)
  BY <1>1, ConcatAssociative
<1>3. Split(r \o Cons(LF, t), LF) = Cons(r, Split(t, LF))
  BY SplitFirst
<1>4. Split(t, LF) \in Seq(Seq(S))
  BY SplitType
<1>5. NonEmpty(Cons(r, Split(t, LF))) = Cons(r, NonEmpty(Split(t, LF)))
  BY <1>1, <1>4, NonEmptyFront
<1> QED BY <1>2, <1>3, <1>5 DEF Lines, Cons, e

LEMMA LinesOfNone == Lines(<<>>) = <<>>
<1> DEFINE e == <<>>
<1>1. e \in Seq(Seq(Nat)) /\ e \in Seq(Nat)
  OBVIOUS
<1>2. Cons(e, e) = << <<>> >>
  <2>1. << <<>> >> \in Seq(Seq(Nat))
    OBVIOUS
  <2> QED BY <2>1, ConcatEmptySeq DEF Cons
<1> HIDE DEF e
<1>3. NonEmpty(Cons(e, e)) = NonEmpty(e)
  BY <1>1, NonEmptyFront DEF e
<1> QED BY <1>2, <1>3, SplitEmpty, NonEmptyOfNone DEF Lines, e

\* A row of the log is a line, and the line reads back as the fields of the row.
LogLine(fields, r) ==
  /\ r \in Seq(RowByte) /\ r # <<>>
  /\ LogRow(fields) = r \o <<LF>>
  /\ ParseLogRow(r, Len(fields)) = {fields}

LEMMA LogRowReadsBack ==
    ASSUME NEW fields \in Seq(Seq(Byte)), Len(fields) > 1
    PROVE  \E r : LogLine(fields, r)
<1> DEFINE Q == Seq(Byte)
           cs == [k \in DOMAIN fields |-> PctEncode(fields[k])]
<1>1. PICK n \in Nat : n = Len(fields) /\ DOMAIN fields = 1..n /\ n > 1
  OBVIOUS
<1>2. \A k \in 1..n : fields[k] \in Q
  BY <1>1
<1>3. \A k \in 1..n : PctEncode(fields[k]) \in Seq(Column) /\ PctDecode(PctEncode(fields[k])) = fields[k]
  BY <1>2, PctReadsBack
<1>4. cs = [k \in 1..n |-> PctEncode(fields[k])]
  BY <1>1
<1>5. cs \in Seq(Seq(Column)) /\ Len(cs) = n /\ \A k \in 1..n : cs[k] = PctEncode(fields[k])
  <2> DEFINE R == Seq(Column)
  <2>1. [k \in 1..n |-> PctEncode(fields[k])] \in Seq(R) /\ Len([k \in 1..n |-> PctEncode(fields[k])]) = n
    <3> HIDE DEF R
    <3> QED BY <1>3 DEF R
  <2> QED BY <1>4, <2>1
<1> HIDE DEF cs
<1>6. cs # <<>>
  BY <1>1, <1>5
<1>7. Joined(cs)
  BY <1>5, <1>6, RowJoined
<1>8. PICK r \in Seq(RowByte) : FormatRow(cs) = r \o <<LF>> /\ Split(r, TAB) = cs /\ r # <<>>
  BY <1>1, <1>5, <1>7 DEF Joined
<1>9. LogRow(fields) = r \o <<LF>>
  BY <1>8 DEF LogRow, cs
<1>10. [k \in 1..n |-> PctDecode(cs[k])] = fields
  <2>1. \A k \in 1..n : PctDecode(cs[k]) = fields[k]
    BY <1>3, <1>5
  <2>2. fields = [k \in 1..n |-> fields[k]]
    BY <1>1
  <2> QED BY <2>1, <2>2
<1>11. ParseLogRow(r, n) = {fields}
  BY <1>5, <1>8, <1>10 DEF ParseLogRow
<1> QED BY <1>1, <1>8, <1>9, <1>11 DEF LogLine

\* A row of the registry, of this build or of the older one that has no lastError.
SubLine(row, n, raw, lastError, r) ==
  /\ r \in Seq(RowByte) /\ r # <<>>
  /\ row = r \o <<LF>>
  /\ ParseSubRow(r, n) = {[raw |-> raw, lastError |-> lastError]}

LEMMA SubRowReadsBack ==
    ASSUME NEW raw \in Seq(Seq(Column)), raw # <<>>, NEW s \in Seq(Byte)
    PROVE  \E r : SubLine(SubRow(raw, s), Len(raw), raw, s, r)
<1> DEFINE R == Seq(Column)  x == PctEncode(s)  cs == Append(raw, x)
<1>1. x \in R /\ PctDecode(x) = s
  BY PctReadsBack
<1>2. PICK n \in Nat : n = Len(raw) /\ n > 0
  BY EmptySeq
<1> HIDE DEF x
<1>3. cs \in Seq(R) /\ Len(cs) = n + 1 /\ cs[n + 1] = x /\ SubSeq(cs, 1, n) = raw
  <2> HIDE DEF R
  <2>1. cs \in Seq(R) /\ Len(cs) = n + 1 /\ cs[n + 1] = x /\ \A k \in 1..n : cs[k] = raw[k]
    BY <1>1, <1>2 DEF R
  <2>2. raw \in Seq(R)
    BY DEF R
  <2> HIDE DEF cs
  <2>3. SubSeq(cs, 1, n) \in Seq(R) /\ Len(SubSeq(cs, 1, n)) = n
        /\ \A k \in 1..n : SubSeq(cs, 1, n)[k] = cs[k]
    BY <2>1
  <2>4. SubSeq(cs, 1, n) = raw
    <3> DEFINE u == SubSeq(cs, 1, n)
    <3>1. u \in Seq(R) /\ Len(u) = n /\ \A k \in 1..n : u[k] = raw[k]
      BY <2>1, <2>3
    <3> HIDE DEF u
    <3>2. u = raw
      BY <1>2, <2>2, <3>1, SameElements
    <3> QED BY <3>2 DEF u
  <2> QED BY <2>1, <2>4
<1> HIDE DEF cs
<1>4. cs # <<>>
  BY <1>2, <1>3
<1>5. Joined(cs)
  BY <1>3, <1>4, RowJoined
<1>6. PICK r \in Seq(RowByte) : FormatRow(cs) = r \o <<LF>> /\ Split(r, TAB) = cs /\ r # <<>>
  <2>1. Len(cs) > 1
    BY <1>2, <1>3
  <2> QED BY <1>5, <2>1 DEF Joined
<1>7. SubRow(raw, s) = r \o <<LF>>
  BY <1>6 DEF SubRow, cs, x
<1>8. ParseSubRow(r, n) = {[raw |-> raw, lastError |-> s]}
  <2>1. ~(Len(cs) < n) /\ Len(cs) > n
    BY <1>2, <1>3
  <2> QED BY <1>1, <1>3, <1>6, <2>1 DEF ParseSubRow
<1> QED BY <1>2, <1>6, <1>7, <1>8 DEF SubLine

LEMMA OldRowReadsBack ==
    ASSUME NEW raw \in Seq(Seq(Column)), Len(raw) > 1
    PROVE  \E r : SubLine(FormatRow(raw), Len(raw), raw, <<>>, r)
<1>1. PICK n \in Nat : n = Len(raw) /\ n > 1
  OBVIOUS
<1>2. raw # <<>>
  OBVIOUS
<1>3. Joined(raw)
  BY <1>2, RowJoined
<1>4. PICK r \in Seq(RowByte) : FormatRow(raw) = r \o <<LF>> /\ Split(r, TAB) = raw /\ r # <<>>
  BY <1>1, <1>3 DEF Joined
<1>5. SubSeq(raw, 1, n) = raw
  BY <1>1, SubSeqFull
<1>6. ParseSubRow(r, n) = {[raw |-> raw, lastError |-> <<>>]}
  <2>1. ~(Len(raw) < n) /\ ~(Len(raw) > n)
    BY <1>1
  <2> QED BY <1>4, <1>5, <2>1 DEF ParseSubRow
<1> QED BY <1>1, <1>4, <1>6 DEF SubLine

-----------------------------------------------------------------------------
(* Whole files *)

\* A byte of a file: of a line, or the end of one.
FileByte == RowByte \union {LF}

LEMMA LineNext ==
    ASSUME NEW r \in Seq(RowByte), r # <<>>, NEW t \in Seq(FileByte)
    PROVE  /\ Lines((r \o <<LF>>) \o t) = Cons(r, Lines(t))
           /\ r \o <<LF>> \in Seq(FileByte) /\ (r \o <<LF>>) \o t \in Seq(FileByte)
<1>1. LF \in FileByte /\ RowByte = FileByte \ {LF} /\ RowByte \subseteq FileByte
  BY DEF FileByte, RowByte, Column, LF, TAB
<1>2. Lines((r \o <<LF>>) \o t) = Cons(r, Lines(t))
  BY <1>1, LineFirst
<1> DEFINE e == <<LF>>
<1>3. r \in Seq(FileByte) /\ e \in Seq(FileByte)
  BY <1>1, SeqMonotonic
<1> HIDE DEF e
<1>4. r \o e \in Seq(FileByte)
  BY <1>3, ConcatProperties
<1>5. (r \o e) \o t \in Seq(FileByte)
  BY <1>4, ConcatProperties
<1> QED BY <1>2, <1>4, <1>5 DEF e

LEMMA TwoLines ==
    ASSUME NEW x \in Seq(RowByte), x # <<>>, NEW y \in Seq(RowByte), y # <<>>
    PROVE  Lines((x \o <<LF>>) \o (y \o <<LF>>)) = <<x, y>>
<1> DEFINE E == <<>>  Y == y \o <<LF>>
<1>1. E \in Seq(FileByte)
  OBVIOUS
<1> HIDE DEF E
<1>2. Lines(Y \o E) = Cons(y, Lines(E)) /\ Y \in Seq(FileByte)
  BY <1>1, LineNext
<1> HIDE DEF Y
<1>3. Y \o E = Y
  BY <1>2, ConcatEmptySeq DEF E
<1>4. Lines((x \o <<LF>>) \o Y) = Cons(x, Lines(Y))
  BY <1>2, LineNext
<1>5. Cons(y, <<>>) = <<y>> /\ Cons(x, <<y>>) = <<x, y>>
  BY ConsOne, ConsTwo
<1> QED BY <1>2, <1>3, <1>4, <1>5, LinesOfNone DEF E, Y

LEMMA ThreeLines ==
    ASSUME NEW x \in Seq(RowByte), x # <<>>, NEW y \in Seq(RowByte), y # <<>>,
           NEW z \in Seq(RowByte), z # <<>>
    PROVE  Lines(((x \o <<LF>>) \o (y \o <<LF>>)) \o (z \o <<LF>>)) = <<x, y, z>>
<1> DEFINE E == <<>>  X == x \o <<LF>>  Y == y \o <<LF>>  Z == z \o <<LF>>
<1>1. E \in Seq(FileByte)
  OBVIOUS
<1> HIDE DEF E
<1>2. /\ X \o E \in Seq(FileByte) /\ X \in Seq(FileByte)
      /\ Y \in Seq(FileByte) /\ Z \in Seq(FileByte)
  BY <1>1, LineNext
<1>3. Lines(Y \o Z) = <<y, z>>
  BY TwoLines
<1>4. Y \o Z \in Seq(FileByte)
  <2> HIDE DEF Y, Z
  <2> QED BY <1>2, ConcatProperties
<1>5. Lines(X \o (Y \o Z)) = Cons(x, Lines(Y \o Z))
  <2> DEFINE t == Y \o Z
  <2> HIDE DEF t
  <2>1. t \in Seq(FileByte)
    BY <1>4 DEF t
  <2>2. Lines(X \o t) = Cons(x, Lines(t))
    BY <2>1, LineNext
  <2> QED BY <2>2 DEF t
<1>6. (X \o Y) \o Z = X \o (Y \o Z)
  <2> HIDE DEF X, Y, Z
  <2>1. X \in Seq(FileByte) /\ Y \in Seq(FileByte) /\ Z \in Seq(FileByte)
    BY <1>2
  <2> QED BY <2>1, ConcatAssociative
<1>7. Cons(x, <<y, z>>) = <<x, y, z>>
  BY ConsThree
<1> QED BY <1>3, <1>5, <1>6, <1>7

-----------------------------------------------------------------------------
(* The texts that the writer writes *)

TextType == text \in Seq(Byte)

\* The text is one of ASCII characters, whatever has been written of it.
THEOREM TextTypeAlways == CodecSpec => []TextType
<1>1. CodecInit => TextType
  BY DEF CodecInit, TextType
<1>2. TextType /\ [CodecNext]_text => TextType'
  <2> SUFFICES ASSUME text \in Seq(Byte), [CodecNext]_text PROVE text' \in Seq(Byte)
    BY DEF TextType
  <2>1. CASE UNCHANGED text
    BY <2>1
  <2>2. CASE CodecNext
    <3>1. PICK b \in Alphabet : text' = Append(text, b)
      BY <2>2 DEF CodecNext
    <3>2. b \in Byte
      BY AlphabetAssumption DEF Byte
    <3> QED BY <3>1, <3>2
  <2> QED BY <2>1, <2>2
<1> QED BY <1>1, <1>2, PTL DEF CodecSpec

LEMMA CutType ==
    ASSUME TextType, NEW p \in Cuts
    PROVE  \E x, y \in Seq(Byte) : p = <<x, y>>
<1>1. PICK i \in 0 .. Len(text) : p = <<SubSeq(text, 1, i), After(text, i)>>
  BY DEF Cuts
<1>2. text \in Seq(Byte)
  BY DEF TextType
<1>3. SubSeq(text, 1, i) \in Seq(Byte)
  BY <1>2
<1>4. After(text, i) \in Seq(Byte)
  BY <1>2 DEF After
<1> QED BY <1>1, <1>3, <1>4

LEMMA LogOfTwo ==
    ASSUME NEW f \in Seq(Seq(Byte)), Len(f) = 2, NEW g \in Seq(Seq(Byte)), Len(g) = 2
    PROVE  LET log == Lines(LogRow(f) \o LogRow(g))
           IN  [k \in DOMAIN log |-> ParseLogRow(log[k], 2)] = <<{f}, {g}>>
<1>0. Len(f) > 1 /\ Len(g) > 1
  OBVIOUS
<1>1. PICK x : LogLine(f, x)
  BY <1>0, LogRowReadsBack
<1>2. PICK y : LogLine(g, y)
  BY <1>0, LogRowReadsBack
<1>3. /\ x \in Seq(RowByte) /\ x # <<>> /\ y \in Seq(RowByte) /\ y # <<>>
      /\ LogRow(f) = x \o <<LF>> /\ LogRow(g) = y \o <<LF>>
      /\ ParseLogRow(x, 2) = {f} /\ ParseLogRow(y, 2) = {g}
  BY <1>1, <1>2 DEF LogLine
<1>4. Lines(LogRow(f) \o LogRow(g)) = <<x, y>>
  BY <1>3, TwoLines
<1> DEFINE log == <<x, y>>
<1>5. [k \in DOMAIN log |-> ParseLogRow(log[k], 2)] = <<{f}, {g}>>
  <2>1. DOMAIN log = 1..2 /\ log[1] = x /\ log[2] = y
    OBVIOUS
  <2> HIDE DEF log
  <2> DEFINE u == [k \in DOMAIN log |-> ParseLogRow(log[k], 2)]
  <2>2. u = [k \in 1..2 |-> ParseLogRow(log[k], 2)] /\ u[1] = {f} /\ u[2] = {g}
    BY <1>3, <2>1
  <2>3. u = [k \in 1..2 |-> u[k]]
    BY <2>2
  <2> DEFINE F == {f}  G == {g}
  <2> HIDE DEF u, F, G
  <2>4. <<F, G>> = [k \in 1..2 |-> IF k = 1 THEN F ELSE G]
    OBVIOUS
  <2>5. u[1] = F /\ u[2] = G /\ u = [k \in 1..2 |-> u[k]]
    BY <2>2, <2>3 DEF F, G
  <2>6. u = <<F, G>>
    BY <2>4, <2>5
  <2> QED BY <2>6 DEF u, F, G
<1> QED BY <1>4, <1>5

LEMMA RegistryOfThree ==
    ASSUME NEW raw \in Seq(Seq(Column)), Len(raw) = 2, NEW s \in Seq(Byte), NEW t \in Seq(Byte)
    PROVE  LET rows == Lines(SubRow(raw, s) \o FormatRow(raw) \o SubRow(raw, t))
           IN  [k \in DOMAIN rows |-> ParseSubRow(rows[k], 2)] =
                 <<{[raw |-> raw, lastError |-> s]}, {[raw |-> raw, lastError |-> <<>>]},
                   {[raw |-> raw, lastError |-> t]}>>
<1> DEFINE a == {[raw |-> raw, lastError |-> s]}
           b == {[raw |-> raw, lastError |-> <<>>]}
           c == {[raw |-> raw, lastError |-> t]}
<1>0. raw # <<>> /\ Len(raw) > 1
  OBVIOUS
<1>1. PICK x : SubLine(SubRow(raw, s), Len(raw), raw, s, x)
  BY <1>0, SubRowReadsBack
<1>2. PICK y : SubLine(FormatRow(raw), Len(raw), raw, <<>>, y)
  BY <1>0, OldRowReadsBack
<1>3. PICK z : SubLine(SubRow(raw, t), Len(raw), raw, t, z)
  BY <1>0, SubRowReadsBack
<1>4. /\ x \in Seq(RowByte) /\ x # <<>> /\ y \in Seq(RowByte) /\ y # <<>>
      /\ z \in Seq(RowByte) /\ z # <<>>
  BY <1>1, <1>2, <1>3 DEF SubLine
<1>5. SubRow(raw, s) = x \o <<LF>> /\ FormatRow(raw) = y \o <<LF>> /\ SubRow(raw, t) = z \o <<LF>>
  BY <1>1, <1>2, <1>3 DEF SubLine
<1>6. ParseSubRow(x, 2) = a /\ ParseSubRow(y, 2) = b /\ ParseSubRow(z, 2) = c
  BY <1>1, <1>2, <1>3 DEF SubLine
<1>7. Lines((SubRow(raw, s) \o FormatRow(raw)) \o SubRow(raw, t)) = <<x, y, z>>
  BY <1>4, <1>5, ThreeLines
<1> DEFINE rows == <<x, y, z>>
           u == [k \in DOMAIN rows |-> ParseSubRow(rows[k], 2)]
<1>8. DOMAIN rows = 1..3 /\ rows[1] = x /\ rows[2] = y /\ rows[3] = z
  OBVIOUS
<1> HIDE DEF rows, a, b, c
<1>9. DOMAIN u = 1..3 /\ u = [k \in 1..3 |-> u[k]] /\ u[1] = a /\ u[2] = b /\ u[3] = c
  BY <1>6, <1>8
<1>10. <<a, b, c>> = [k \in 1..3 |-> IF k = 1 THEN a ELSE IF k = 2 THEN b ELSE c]
  OBVIOUS
<1>11. u = <<a, b, c>>
  <2> HIDE DEF u
  <2> QED BY <1>9, <1>10
<1> QED BY <1>7, <1>11 DEF rows, a, b, c

\* For every alphabet and every length of a text: the rows that are written are
\* one line each and read back as the fields they were written from, and those
\* of the older build still load (parse_line of store.rs and of subs.rs).
THEOREM RowsReadBackAlways == CodecSpec => []RowsReadBack
<1>1. TextType => RowsReadBack
  <2> SUFFICES ASSUME TextType, NEW p \in Cuts
               PROVE  /\ LET log == Lines(LogRow(p) \o LogRow(Swap(p)))
                         IN  [k \in DOMAIN log |-> ParseLogRow(log[k], 2)] = <<{p}, {Swap(p)}>>
                      /\ LET raw == <<<<90>>, <<89>>>>
                             rows == Lines(SubRow(raw, p[1]) \o FormatRow(raw) \o SubRow(raw, p[2]))
                         IN  [k \in DOMAIN rows |-> ParseSubRow(rows[k], 2)] =
                               <<{[raw |-> raw, lastError |-> p[1]]},
                                 {[raw |-> raw, lastError |-> <<>>]},
                                 {[raw |-> raw, lastError |-> p[2]]}>>
    BY DEF RowsReadBack
  <2>1. PICK x, y \in Seq(Byte) : p = <<x, y>>
    BY CutType
  <2>2. Swap(p) = <<y, x>>
    BY <2>1 DEF Swap
  <2> DEFINE Q == Seq(Byte)  q == <<y, x>>
  <2>3. p \in Seq(Q) /\ Len(p) = 2 /\ q \in Seq(Q) /\ Len(q) = 2
    BY <2>1
  <2>4. p[1] \in Seq(Byte) /\ p[2] \in Seq(Byte)
    BY <2>1
  <2> HIDE DEF q
  <2>5. LET log == Lines(LogRow(p) \o LogRow(q))
        IN  [k \in DOMAIN log |-> ParseLogRow(log[k], 2)] = <<{p}, {q}>>
    BY <2>3, LogOfTwo
  <2> DEFINE raw == <<<<90>>, <<89>>>>
  <2>6. raw \in Seq(Seq(Column)) /\ Len(raw) = 2
    BY DEF Column, Byte, DEL
  <2> HIDE DEF raw
  <2>7. LET rows == Lines(SubRow(raw, p[1]) \o FormatRow(raw) \o SubRow(raw, p[2]))
        IN  [k \in DOMAIN rows |-> ParseSubRow(rows[k], 2)] =
              <<{[raw |-> raw, lastError |-> p[1]]}, {[raw |-> raw, lastError |-> <<>>]},
                {[raw |-> raw, lastError |-> p[2]]}>>
    BY <2>4, <2>6, RegistryOfThree
  <2> QED BY <2>2, <2>5, <2>7 DEF q, raw
<1> QED BY <1>1, TextTypeAlways, PTL

-----------------------------------------------------------------------------
(* A log of any number of rows *)

FullLine == Seq(RowByte) \ {<<>>}
Ended == [r \in FullLine |-> r \o <<LF>>]

LEMMA LinesBack ==
    ASSUME NEW rs \in Seq(FullLine)
    PROVE  Lines(Coded(Ended, rs)) = rs
<1>1. \A r \in FullLine : Ended[r] \in Seq(FileByte) /\ Ended[r] = r \o <<LF>>
  <2> DEFINE E == <<>>
  <2>1. E \in Seq(FileByte)
    OBVIOUS
  <2> HIDE DEF E
  <2>2. \A r \in FullLine : r \o <<LF>> \in Seq(FileByte)
    BY <2>1, LineNext DEF FullLine
  <2> QED BY <2>2 DEF Ended
<1> DEFINE P == {s \in Seq(FullLine) : Lines(Coded(Ended, s)) = s}
<1>2. <<>> \in P
  BY CodedEmpty, LinesOfNone
<1>3. \A r \in FullLine : \A s \in Seq(FullLine) : s \in P => Cons(r, s) \in P
  <2> SUFFICES ASSUME NEW r \in FullLine, NEW s \in Seq(FullLine), s \in P PROVE Cons(r, s) \in P
    OBVIOUS
  <2>1. Cons(r, s) \in Seq(FullLine)
    BY ConsElements
  <2> DEFINE code == Ended  t == Coded(code, s)
  <2> HIDE DEF code
  <2>2. \A q \in FullLine : code[q] \in Seq(FileByte)
    BY <1>1 DEF code
  <2>3. Coded(code, Cons(r, s)) = code[r] \o t
    BY <2>2, CodedFront
  <2>4. t \in Seq(FileByte)
    BY <2>2, CodedType
  <2>5. r \in Seq(RowByte) /\ r # <<>>
    BY DEF FullLine
  <2>6. Lines(t) = s
    BY DEF code
  <2> HIDE DEF t
  <2>7. Lines((r \o <<LF>>) \o t) = Cons(r, Lines(t))
    BY <2>4, <2>5, LineNext
  <2>8. code[r] = r \o <<LF>>
    BY <1>1 DEF code
  <2>9. Lines(Coded(code, Cons(r, s))) = Cons(r, s)
    BY <2>3, <2>6, <2>7, <2>8
  <2> HIDE DEF P
  <2> QED BY <2>1, <2>9 DEF P, code
<1> HIDE DEF P
<1>4. rs \in P
  BY <1>2, <1>3, FrontInduction
<1> QED BY <1>4 DEF P

\* A log of any number of rows of any number of fields, two or more, with any
\* bytes in them, has as many lines as rows, and each line is read as the fields
\* of its row: what format_line of store.rs writes and parse_line reads back.
THEOREM LogReadsBack ==
    ASSUME NEW n \in Nat, n > 1,
           NEW rows \in Seq({f \in Seq(Seq(Byte)) : Len(f) = n})
    PROVE  LET log == Lines(FlattenSeq([k \in DOMAIN rows |-> LogRow(rows[k])]))
           IN  /\ Len(log) = Len(rows)
               /\ \A k \in 1 .. Len(rows) : ParseLogRow(log[k], n) = {rows[k]}
<1> DEFINE R == {f \in Seq(Seq(Byte)) : Len(f) = n}
           line == [f \in R |-> CHOOSE r : LogLine(f, r)]
           rs == [k \in DOMAIN rows |-> line[rows[k]]]
<1>1. \A f \in R : LogLine(f, line[f])
  <2> TAKE f \in R
  <2>1. f \in Seq(Seq(Byte)) /\ Len(f) > 1
    OBVIOUS
  <2>2. \E r : LogLine(f, r)
    BY <2>1, LogRowReadsBack
  <2> QED BY <2>2
<1>2. \A f \in R : /\ line[f] \in FullLine
                   /\ LogRow(f) = line[f] \o <<LF>>
                   /\ ParseLogRow(line[f], n) = {f}
  <2> TAKE f \in R
  <2>1. LogLine(f, line[f]) /\ Len(f) = n
    BY <1>1
  <2> HIDE DEF line
  <2> QED BY <2>1 DEF LogLine, FullLine
<1> HIDE DEF line
<1>3. PICK m \in Nat : m = Len(rows) /\ DOMAIN rows = 1..m
  OBVIOUS
<1>4. \A k \in 1..m : rows[k] \in R
  BY <1>3
<1> HIDE DEF R
<1>5. rs = [k \in 1..m |-> line[rows[k]]]
  BY <1>3
<1>6. rs \in Seq(FullLine) /\ Len(rs) = m /\ \A k \in 1..m : rs[k] = line[rows[k]]
  <2>1. /\ [k \in 1..m |-> line[rows[k]]] \in Seq(FullLine)
        /\ Len([k \in 1..m |-> line[rows[k]]]) = m
    BY <1>2, <1>4
  <2> QED BY <1>5, <2>1
<1> HIDE DEF rs
<1>7. [k \in DOMAIN rows |-> LogRow(rows[k])] = [k \in DOMAIN rs |-> Ended[rs[k]]]
  <2>1. DOMAIN rs = 1..m
    BY <1>6
  <2>2. \A k \in 1..m : LogRow(rows[k]) = Ended[rs[k]]
    BY <1>2, <1>4, <1>6 DEF Ended
  <2> QED BY <1>3, <2>1, <2>2
<1>8. Lines(FlattenSeq([k \in DOMAIN rows |-> LogRow(rows[k])])) = rs
  <2>1. Lines(Coded(Ended, rs)) = rs
    BY <1>6, LinesBack
  <2> QED BY <1>7, <2>1 DEF Coded
<1>9. \A k \in 1..m : ParseLogRow(rs[k], n) = {rows[k]}
  BY <1>2, <1>4, <1>6
<1> QED BY <1>3, <1>6, <1>8, <1>9

-----------------------------------------------------------------------------
(* Where a byte is first, and what is before and after it *)

LEMMA AroundElements ==
    ASSUME NEW S, NEW b \in S, NEW a \in Seq(S), NEW c \in Seq(S)
    PROVE  /\ a \o Cons(b, c) \in Seq(S) /\ Len(a \o Cons(b, c)) = Len(a) + 1 + Len(c)
           /\ \A i \in 1..Len(a) : (a \o Cons(b, c))[i] = a[i]
           /\ (a \o Cons(b, c))[Len(a) + 1] = b
           /\ \A i \in 1..Len(c) : (a \o Cons(b, c))[Len(a) + 1 + i] = c[i]
<1> DEFINE t == Cons(b, c)  p == a \o t
<1>1. PICK n \in Nat, m \in Nat : n = Len(a) /\ m = Len(c)
  OBVIOUS
<1>2. t \in Seq(S) /\ Len(t) = m + 1 /\ t[1] = b /\ \A i \in 1..m : t[i + 1] = c[i]
  <2>1. /\ t \in Seq(S) /\ Len(t) = Len(c) + 1 /\ t[1] = b
        /\ \A i \in 1..Len(c) : t[i + 1] = c[i]
    <3>1. b \in S /\ c \in Seq(S)
      OBVIOUS
    <3> QED BY ONLY <3>1, ConsElements DEF t
  <2> HIDE DEF t
  <2> QED BY <1>1, <2>1
<1> HIDE DEF t
<1>3. /\ p \in Seq(S) /\ Len(p) = n + (m + 1)
      /\ \A i \in 1 .. n + (m + 1) : p[i] = IF i <= n THEN a[i] ELSE t[i - n]
  <2>1. t \in Seq(S)
    BY <1>2
  <2>2. /\ p \in Seq(S) /\ Len(p) = Len(a) + Len(t)
        /\ \A i \in 1 .. Len(a) + Len(t) : p[i] = IF i <= Len(a) THEN a[i] ELSE t[i - Len(a)]
    BY <2>1, ConcatProperties
  <2> HIDE DEF p
  <2> QED BY <1>1, <1>2, <2>2
<1> HIDE DEF p
<1>4. \A i \in 1..n : p[i] = a[i]
  BY <1>3
<1>5. p[n + 1] = b
  <2>1. n + 1 \in 1 .. n + (m + 1) /\ ~(n + 1 <= n) /\ (n + 1) - n = 1
    OBVIOUS
  <2> QED BY <1>2, <1>3, <2>1
<1>6. \A i \in 1..m : p[n + 1 + i] = c[i]
  <2> TAKE i \in 1..m
  <2>1. n + 1 + i \in 1 .. n + (m + 1) /\ ~(n + 1 + i <= n) /\ (n + 1 + i) - n = i + 1
    OBVIOUS
  <2> QED BY <1>2, <1>3, <2>1
<1>7. Len(p) = n + 1 + m
  BY <1>3
<1> QED BY <1>1, <1>3, <1>4, <1>5, <1>6, <1>7 DEF p, t

LEMMA CutAt ==
    ASSUME NEW S, NEW b \in S, NEW a \in Seq(S \ {b}), NEW c \in Seq(S)
    PROVE  LET p == a \o Cons(b, c)
           IN  /\ FirstAt(p, b) = Len(a) + 1 /\ FirstAt(p, b) # 0
               /\ Before(p, FirstAt(p, b)) = a
               /\ After(p, FirstAt(p, b)) = c
<1> DEFINE p == a \o Cons(b, c)
           places == {i \in DOMAIN p : p[i] = b}
<1>1. PICK n \in Nat, m \in Nat : n = Len(a) /\ m = Len(c)
  OBVIOUS
<1>2. a \in Seq(S)
  BY SeqMonotonic
<1>3. /\ p \in Seq(S) /\ Len(p) = n + 1 + m
      /\ \A i \in 1..n : p[i] = a[i]
      /\ p[n + 1] = b
      /\ \A i \in 1..m : p[n + 1 + i] = c[i]
  <2>1. b \in S /\ a \in Seq(S) /\ c \in Seq(S)
    BY <1>2
  <2>2. /\ p \in Seq(S) /\ Len(p) = Len(a) + 1 + Len(c)
        /\ \A i \in 1..Len(a) : p[i] = a[i]
        /\ p[Len(a) + 1] = b
        /\ \A i \in 1..Len(c) : p[Len(a) + 1 + i] = c[i]
    BY ONLY <2>1, AroundElements
  <2> HIDE DEF p
  <2> QED BY <1>1, <2>2
<1> HIDE DEF p
<1>4. \A i \in 1..n : a[i] # b
  BY <1>1
<1>5. DOMAIN p = 1 .. n + 1 + m
  BY <1>3
<1>6. n + 1 \in places /\ \A i \in places : n + 1 <= i
  <2>1. n + 1 \in places
    BY <1>3, <1>5
  <2>2. ASSUME NEW i \in places PROVE n + 1 <= i
    <3>1. i \in 1 .. n + 1 + m /\ p[i] = b
      BY <1>5
    <3>2. ~(i \in 1..n)
      BY <1>3, <1>4, <3>1
    <3> QED BY <3>1, <3>2
  <2> QED BY <2>1, <2>2
<1>7. \A i \in places : i \in Nat
  BY <1>5
<1>8. FirstAt(p, b) = n + 1
  <2> HIDE DEF places
  <2>1. \A i \in places : (\A j \in places : i <= j) => i = n + 1
    <3> TAKE i \in places
    <3> HAVE \A j \in places : i <= j
    <3>1. i \in Nat /\ i <= n + 1 /\ n + 1 <= i
      BY <1>6, <1>7
    <3> QED BY <3>1
  <2>2. Min(places) = n + 1
    BY <1>6, <2>1 DEF Min
  <2> QED BY <1>6, <2>2 DEF FirstAt, places
<1>9. Before(p, n + 1) = a
  <2> DEFINE u == SubSeq(p, 1, n)
  <2>1. u \in Seq(S) /\ Len(u) = n /\ \A i \in 1..n : u[i] = p[i]
    BY <1>3
  <2> HIDE DEF u
  <2>2. \A i \in 1..n : u[i] = a[i]
    BY <1>3, <2>1
  <2>3. u = a
    BY <1>1, <1>2, <2>1, <2>2, SameElements
  <2>4. (n + 1) - 1 = n
    OBVIOUS
  <2> QED BY <2>3, <2>4 DEF Before, u
<1>10. After(p, n + 1) = c
  <2> DEFINE u == SubSeq(p, (n + 1) + 1, Len(p))
  <2>1. u \in Seq(S) /\ Len(u) = m /\ \A i \in 1..m : u[i] = p[n + 1 + i]
    BY <1>3
  <2> HIDE DEF u
  <2>2. \A i \in 1..m : u[i] = c[i]
    BY <1>3, <2>1
  <2>3. u = c
    BY <1>1, <2>1, <2>2, SameElements
  <2> QED BY <2>3 DEF After, u
<1> QED BY <1>1, <1>8, <1>9, <1>10 DEF p

-----------------------------------------------------------------------------
(* Queries *)

PlainByte == Byte \ {AMPERSAND, EQUALS}
\* A name and its value, as the sender writes them.
Given(k, v) == UrlEncode(k) \o Cons(EQUALS, UrlEncode(v))

LEMMA GivenReadsBack ==
    ASSUME NEW k \in Seq(Byte), NEW v \in Seq(Byte)
    PROVE  /\ Given(k, v) \in Seq(Byte \ {AMPERSAND}) /\ Given(k, v) # <<>>
           /\ FirstAt(Given(k, v), EQUALS) # 0
           /\ UrlDecode(Before(Given(k, v), FirstAt(Given(k, v), EQUALS))) = k
           /\ UrlDecode(After(Given(k, v), FirstAt(Given(k, v), EQUALS))) = v
           /\ UrlEncode(k) \o <<EQUALS>> \o UrlEncode(v) = Given(k, v)
<1> DEFINE S == Byte \ {AMPERSAND}  a == UrlEncode(k)  c == UrlEncode(v)  p == a \o Cons(EQUALS, c)
<1>1. EQUALS \in S /\ PlainByte = S \ {EQUALS} /\ PlainByte \subseteq S
  BY DEF PlainByte, EQUALS, AMPERSAND, Byte
<1>2. a \in Seq(PlainByte) /\ c \in Seq(PlainByte) /\ UrlDecode(a) = k /\ UrlDecode(c) = v
  BY UrlReadsBack DEF PlainByte
<1> HIDE DEF a, c, S
<1>3. a \in Seq(S) /\ c \in Seq(S) /\ a \in Seq(S \ {EQUALS}) /\ EQUALS \in S
  BY <1>1, <1>2, SeqMonotonic
<1>4. /\ FirstAt(p, EQUALS) # 0 /\ Before(p, FirstAt(p, EQUALS)) = a
      /\ After(p, FirstAt(p, EQUALS)) = c
  BY <1>3, CutAt
<1>5. p \in Seq(S) /\ p # <<>>
  <2>1. PICK n \in Nat, m \in Nat : n = Len(a) /\ m = Len(c)
    BY <1>3
  <2>2. p \in Seq(S) /\ Len(p) = n + 1 + m
    <3>1. p \in Seq(S) /\ Len(p) = Len(a) + 1 + Len(c)
      <4>1. EQUALS \in S /\ a \in Seq(S) /\ c \in Seq(S)
        BY <1>3
      <4> QED BY <4>1, AroundElements
    <3> QED BY <2>1, <3>1
  <2> HIDE DEF p
  <2>3. Len(p) # 0
    BY <2>1, <2>2
  <2> QED BY <2>2, <2>3
<1>6. (a \o <<EQUALS>>) \o c = a \o (<<EQUALS>> \o c)
  <2> DEFINE e == <<EQUALS>>
  <2>1. e \in Seq(S)
    BY <1>1
  <2> HIDE DEF e
  <2>2. (a \o e) \o c = a \o (e \o c)
    BY <1>3, <2>1, ConcatAssociative
  <2> QED BY <2>2 DEF e
<1>7. p = Given(k, v)
  BY DEF Given, a, c
<1> HIDE DEF p
<1> QED BY <1>2, <1>4, <1>5, <1>6, <1>7 DEF p, a, c, S, Cons

\* Concatenation as a name of its own, which the provers reason about by the two
\* lemmas below only.
Then(s, t) == s \o t

LEMMA ThenType ==
    ASSUME NEW S, NEW s \in Seq(S), NEW t \in Seq(S)
    PROVE  Then(s, t) \in Seq(S)
BY ConcatProperties DEF Then

LEMMA ThenAssociative ==
    ASSUME NEW S, NEW s \in Seq(S), NEW t \in Seq(S), NEW u \in Seq(S)
    PROVE  Then(Then(s, t), u) = Then(s, Then(t, u))
BY ConcatAssociative DEF Then

LEMMA Regrouped ==
    ASSUME NEW S, NEW x \in Seq(S), NEW e \in Seq(S), NEW y \in Seq(S), NEW z \in Seq(S)
    PROVE  Then(Then(Then(Then(x, e), y), e), z) = Then(x, Then(e, Then(y, Then(e, z))))
<1>1. Then(x, e) \in Seq(S) /\ Then(e, z) \in Seq(S)
  BY ThenType
<1>2. Then(Then(x, e), y) \in Seq(S) /\ Then(y, Then(e, z)) \in Seq(S)
  BY <1>1, ThenType
<1> QED BY <1>1, <1>2, ThenAssociative

\* Three parts, and the text that b puts them together to.
Apart(S, b, x, y, z) ==
  /\ b \in S
  /\ x \in Seq(S \ {b}) /\ y \in Seq(S \ {b}) /\ z \in Seq(S \ {b})
  /\ x # <<>> /\ y # <<>> /\ z # <<>>
Together(b, x, y, z) == (((x \o <<b>>) \o y) \o <<b>>) \o z

LEMMA ThreePairs ==
    ASSUME NEW S, NEW b, NEW x, NEW y, NEW z, Apart(S, b, x, y, z)
    PROVE  NonEmpty(Split(Together(b, x, y, z), b)) = <<x, y, z>>
<1>0. /\ b \in S
      /\ x \in Seq(S \ {b}) /\ y \in Seq(S \ {b}) /\ z \in Seq(S \ {b})
      /\ x # <<>> /\ y # <<>> /\ z # <<>>
  BY DEF Apart
<1> DEFINE e == <<b>>  yz == y \o (e \o z)
<1>1. x \in Seq(S) /\ y \in Seq(S) /\ z \in Seq(S) /\ e \in Seq(S)
  BY <1>0, SeqMonotonic
<1> HIDE DEF e
<1>3. x \o e \in Seq(S) /\ (x \o e) \o y \in Seq(S) /\ e \o z \in Seq(S)
  <2>1. x \o e \in Seq(S) /\ e \o z \in Seq(S)
    BY <1>1, ConcatProperties
  <2>2. (x \o e) \o y \in Seq(S)
    BY <1>1, <2>1, ConcatProperties
  <2> QED BY <2>1, <2>2
<1>4. y \o (e \o z) \in Seq(S)
  BY <1>1, <1>3, ConcatProperties
<1>5. (((x \o e) \o y) \o e) \o z = x \o (e \o yz)
  <2>1. x \in Seq(S) /\ y \in Seq(S) /\ z \in Seq(S) /\ e \in Seq(S)
    BY <1>1
  <2>2. Then(Then(Then(Then(x, e), y), e), z) = Then(x, Then(e, Then(y, Then(e, z))))
    BY <2>1, Regrouped
  <2> QED BY <2>2 DEF Then
<1>6. Split(z, b) = <<z>>
  BY <1>0, SplitNone
<1>7. Split(y \o Cons(b, z), b) = Cons(y, Split(z, b))
  BY <1>0, <1>1, SplitFirst
<1>8. yz \in Seq(S) /\ yz = y \o Cons(b, z)
  BY <1>4 DEF Cons, e
<1>9. Split(x \o Cons(b, yz), b) = Cons(x, Split(yz, b))
  <2> HIDE DEF yz
  <2> QED BY <1>0, <1>8, SplitFirst
<1> HIDE DEF yz
<1> DEFINE E == <<>>  Z == Cons(z, E)  Y == Cons(y, Z)
<1>10. E \in Seq(Seq(S))
  OBVIOUS
<1>11. Cons(z, E) = <<z>>
  BY <1>1, ConsOne
<1> HIDE DEF E
<1>12. Z \in Seq(Seq(S)) /\ NonEmpty(Z) = Cons(z, NonEmpty(E))
  <2>1. Z \in Seq(Seq(S))
    BY <1>1, <1>10, ConsElements
  <2>2. NonEmpty(Z) = Cons(z, NonEmpty(E))
    BY <1>0, <1>1, <1>10, NonEmptyFront
  <2> QED BY <2>1, <2>2
<1> HIDE DEF Z
<1>13. Y \in Seq(Seq(S)) /\ NonEmpty(Y) = Cons(y, NonEmpty(Z))
  <2>1. Y \in Seq(Seq(S))
    BY <1>1, <1>12, ConsElements
  <2>2. NonEmpty(Y) = Cons(y, NonEmpty(Z))
    BY <1>0, <1>1, <1>12, NonEmptyFront
  <2> QED BY <2>1, <2>2
<1> HIDE DEF Y
<1>14. NonEmpty(Cons(x, Y)) = Cons(x, NonEmpty(Y))
  BY <1>0, <1>1, <1>13, NonEmptyFront
<1>15. NonEmpty(E) = E
  BY NonEmptyOfNone DEF E
<1>16. Split(x \o (e \o yz), b) = Cons(x, Y)
  BY <1>6, <1>7, <1>8, <1>9, <1>11 DEF Cons, e, Y, Z
<1>17. Cons(x, Cons(y, Cons(z, E))) = <<x, y, z>>
  BY <1>1, <1>11, ConsTwo, ConsThree
<1>18. NonEmpty(Split(x \o (e \o yz), b)) = Cons(x, Cons(y, Cons(z, E)))
  BY <1>12, <1>13, <1>14, <1>15, <1>16
<1> QED BY <1>5, <1>17, <1>18 DEF e, Together

\* The first value given to a key, whatever is given before it and after it.
LEMMA QueryFirst ==
    ASSUME NEW k \in Seq(Byte), NEW u \in Seq(Byte), k # u,
           NEW w \in Seq(Byte), NEW v \in Seq(Byte), NEW z \in Seq(Byte)
    PROVE  QueryGet((((Given(k, w) \o <<AMPERSAND>>) \o Given(u, v)) \o <<AMPERSAND>>) \o Given(u, z), u)
             = {v}
<1> DEFINE A == Given(k, w)  B == Given(u, v)  C == Given(u, z)
           query == (((A \o <<AMPERSAND>>) \o B) \o <<AMPERSAND>>) \o C
           pairs == <<A, B, C>>
           EqualsAt(p) == IF FirstAt(p, EQUALS) = 0 THEN Len(p) + 1 ELSE FirstAt(p, EQUALS)
           hits == {i \in DOMAIN pairs : UrlDecode(Before(pairs[i], EqualsAt(pairs[i]))) = u}
<1>1. /\ A \in Seq(Byte \ {AMPERSAND}) /\ A # <<>>
      /\ B \in Seq(Byte \ {AMPERSAND}) /\ B # <<>>
      /\ C \in Seq(Byte \ {AMPERSAND}) /\ C # <<>>
  BY GivenReadsBack
<1>2. UrlDecode(Before(A, EqualsAt(A))) = k
  BY GivenReadsBack
<1>3. UrlDecode(Before(B, EqualsAt(B))) = u /\ UrlDecode(After(B, EqualsAt(B))) = v
  BY GivenReadsBack
<1> HIDE DEF A, B, C
<1>4. NonEmpty(Split(query, AMPERSAND)) = pairs
  <2>1. AMPERSAND \in Byte
    BY DEF AMPERSAND, Byte
  <2>2. Apart(Byte, AMPERSAND, A, B, C)
    BY <1>1, <2>1 DEF Apart
  <2>3. NonEmpty(Split(Together(AMPERSAND, A, B, C), AMPERSAND)) = <<A, B, C>>
    BY <2>2, ThreePairs
  <2>4. query = Together(AMPERSAND, A, B, C)
    BY DEF Together
  <2> HIDE DEF query
  <2> QED BY <2>3, <2>4 DEF pairs
<1>5. DOMAIN pairs = 1..3 /\ pairs[1] = A /\ pairs[2] = B /\ pairs[3] = C
  OBVIOUS
<1> HIDE DEF pairs, EqualsAt
<1>6. 1 \notin hits /\ 2 \in hits /\ hits \subseteq 1..3
  BY <1>2, <1>3, <1>5
<1>7. Min(hits) = 2 /\ hits # {}
  <2> HIDE DEF hits
  <2>1. \A i \in hits : 2 <= i /\ i \in Nat
    BY <1>6
  <2>2. \A i \in hits : (\A j \in hits : i <= j) => i = 2
    <3> TAKE i \in hits
    <3> HAVE \A j \in hits : i <= j
    <3>1. i <= 2 /\ 2 <= i /\ i \in Nat
      BY <1>6, <2>1
    <3> QED BY <3>1
  <2> QED BY <1>6, <2>1, <2>2 DEF Min
<1>8. QueryGet(query, u) = IF hits = {} THEN {} ELSE {UrlDecode(After(pairs[Min(hits)], EqualsAt(pairs[Min(hits)])))}
  BY <1>4 DEF QueryGet, EqualsAt
<1>9. QueryGet(query, u) = {v}
  <2> HIDE DEF query, hits
  <2> QED BY <1>3, <1>5, <1>7, <1>8
<1> QED BY <1>9 DEF A, B, C

-----------------------------------------------------------------------------
(* Reading a JSON array *)

Reads(F, m, s) ==
    F = [n \in 0..m |-> IF n = 0 THEN Outside ELSE ReadByte(F[n - 1], s[n])]

LEMMA ReadingDef ==
    ASSUME NEW s, Len(s) \in Nat
    PROVE  \E F : /\ Reading(s) = F[Len(s)] /\ F[0] = Outside
                  /\ \A n \in 1..Len(s) : F[n] = ReadByte(F[n - 1], s[n])
<1> DEFINE T == {m \in Nat : \E F : Reads(F, m, s)}
<1>1. 0 \in T
  <2> DEFINE F == [n \in 0..0 |-> Outside]
  <2>1. Reads(F, 0, s)
    BY DEF Reads
  <2> QED BY <2>1
<1>2. \A m \in Nat : m \in T => m + 1 \in T
  <2> SUFFICES ASSUME NEW m \in Nat, NEW F, Reads(F, m, s)
               PROVE  \E G : Reads(G, m + 1, s)
    OBVIOUS
  <2> DEFINE G == [n \in 0..(m + 1) |-> IF n = m + 1 THEN ReadByte(F[m], s[n]) ELSE F[n]]
             H == [n \in 0..(m + 1) |-> IF n = 0 THEN Outside ELSE ReadByte(G[n - 1], s[n])]
  <2>1. \A n \in 0..m : F[n] = IF n = 0 THEN Outside ELSE ReadByte(F[n - 1], s[n])
    BY DEF Reads
  <2>2. \A n \in 0..(m + 1) : n # 0 => n - 1 \in 0..(m + 1) /\ n - 1 # m + 1
    OBVIOUS
  <2>3. \A n \in 0..(m + 1) : n # 0 => G[n - 1] = F[n - 1]
    BY <2>2
  <2>4. \A n \in 0..(m + 1) : (n = m + 1 /\ n # 0 /\ n - 1 = m) \/ (n \in 0..m /\ n # m + 1)
    OBVIOUS
  <2>5. \A n \in 0..(m + 1) : G[n] = H[n]
    <3> TAKE n \in 0..(m + 1)
    <3>1. CASE n = m + 1 /\ n # 0 /\ n - 1 = m
      BY <3>1, <2>3
    <3>2. CASE n \in 0..m /\ n # m + 1
      BY <3>2, <2>1, <2>3
    <3> QED BY <3>1, <3>2, <2>4
  <2>6. G = H
    BY <2>5
  <2>7. Reads(G, m + 1, s)
    BY <2>6 DEF Reads
  <2> QED BY <2>7
<1> HIDE DEF T
<1>3. Len(s) \in T
  BY <1>1, <1>2, NatSetInduction
<1>4. \E F : Reads(F, Len(s), s)
  BY <1>3 DEF T
<1> DEFINE F == CHOOSE F : Reads(F, Len(s), s)
<1>5. Reads(F, Len(s), s)
  BY <1>4
<1>6. Reading(s) = F[Len(s)]
  BY DEF Reading, Reads
<1> HIDE DEF F
<1>7. F = [n \in 0..Len(s) |-> IF n = 0 THEN Outside ELSE ReadByte(F[n - 1], s[n])]
  BY <1>5 DEF Reads
<1>8. F[0] = Outside
  BY <1>7
<1>9. \A n \in 1..Len(s) : n \in 0..Len(s) /\ n # 0
  OBVIOUS
<1>10. \A n \in 1..Len(s) : F[n] = ReadByte(F[n - 1], s[n])
  BY <1>7, <1>9
<1> QED BY <1>6, <1>8, <1>10

LEMMA ReadingEmpty == Reading(<<>>) = Outside
<1> DEFINE E == <<>>
<1>1. Len(E) = 0
  OBVIOUS
<1> HIDE DEF E
<1>2. PICK F : Reading(E) = F[Len(E)] /\ F[0] = Outside
  BY <1>1, ReadingDef
<1> QED BY <1>1, <1>2 DEF E

LEMMA ReadingAppend ==
    ASSUME NEW S, NEW s \in Seq(S), NEW c \in S
    PROVE  Reading(Append(s, c)) = ReadByte(Reading(s), c)
<1> DEFINE t == Append(s, c)
<1>1. PICK n \in Nat : n = Len(s)
  OBVIOUS
<1>2. Len(t) = n + 1 /\ t[n + 1] = c /\ \A i \in 1..n : t[i] = s[i]
  BY <1>1
<1> HIDE DEF t
<1>3. PICK F : Reading(s) = F[n] /\ F[0] = Outside /\ \A k \in 1..n : F[k] = ReadByte(F[k - 1], s[k])
  BY <1>1, ReadingDef
<1>4. PICK G : /\ Reading(t) = G[n + 1] /\ G[0] = Outside
               /\ \A k \in 1..(n + 1) : G[k] = ReadByte(G[k - 1], t[k])
  <2>1. Len(t) \in Nat
    BY <1>2
  <2>2. \E G : /\ Reading(t) = G[Len(t)] /\ G[0] = Outside
               /\ \A k \in 1..Len(t) : G[k] = ReadByte(G[k - 1], t[k])
    BY <2>1, ReadingDef
  <2> QED BY <1>2, <2>2
<1> DEFINE Agree(k) == k \in 0..n => F[k] = G[k]
           T == {k \in Nat : Agree(k)}
<1>5. Agree(0)
  BY <1>3, <1>4
<1>6. ASSUME NEW k \in Nat, Agree(k) PROVE Agree(k + 1)
  <2> SUFFICES ASSUME k + 1 \in 0..n PROVE F[k + 1] = G[k + 1]
    OBVIOUS
  <2>1. k \in 0..n /\ k + 1 \in 1..n /\ k + 1 \in 1..(n + 1) /\ (k + 1) - 1 = k
    OBVIOUS
  <2>2. F[k] = G[k] /\ t[k + 1] = s[k + 1]
    BY <1>2, <1>6, <2>1
  <2>3. F[k + 1] = ReadByte(F[k], s[k + 1])
    BY <1>3, <2>1
  <2>4. G[k + 1] = ReadByte(G[k], t[k + 1])
    BY <1>4, <2>1
  <2> QED BY <2>2, <2>3, <2>4
<1> HIDE DEF Agree
<1>10. 0 \in T /\ \A k \in Nat : k \in T => k + 1 \in T
  BY <1>5, <1>6
<1> HIDE DEF T
<1>7. n \in T
  BY <1>10, NatSetInduction
<1>8. F[n] = G[n]
  BY <1>7 DEF T, Agree
<1>9. G[n + 1] = ReadByte(G[n], c)
  <2>1. n + 1 \in 1..(n + 1) /\ (n + 1) - 1 = n
    OBVIOUS
  <2> QED BY <1>2, <1>4, <2>1
<1> QED BY <1>3, <1>4, <1>8, <1>9 DEF t

\* Where the reader is: behind f literals, or in one with l read so far.
Behind(f) == [mode |-> "outside", literal |-> <<>>, found |-> f]
Inside(l, f) == [mode |-> "inside", literal |-> l, found |-> f]

LEMMA ReadSteps ==
    ASSUME NEW l, NEW f
    PROVE  /\ ReadByte(Behind(f), QUOTE) = Inside(<<>>, f)
           /\ \A b \in Byte \ {QUOTE} : ReadByte(Behind(f), b) = Behind(f)
           /\ ReadByte(Inside(l, f), QUOTE) = Behind(Append(f, Trim(l)))
           /\ \A b \in Byte \ {QUOTE, BACKSLASH} : ReadByte(Inside(l, f), b) = Inside(Append(l, b), f)
           /\ \A b \in {QUOTE, BACKSLASH} :
                ReadByte(ReadByte(Inside(l, f), BACKSLASH), b) = Inside(Append(l, b), f)
<1>1. ReadByte(Behind(f), QUOTE) = Inside(<<>>, f)
  BY DEF ReadByte, Behind, Inside
<1>2. \A b \in Byte \ {QUOTE} : ReadByte(Behind(f), b) = Behind(f)
  BY DEF ReadByte, Behind
<1>3. ReadByte(Inside(l, f), QUOTE) = Behind(Append(f, Trim(l)))
  BY DEF ReadByte, Behind, Inside, QUOTE, BACKSLASH
<1>4. \A b \in Byte \ {QUOTE, BACKSLASH} : ReadByte(Inside(l, f), b) = Inside(Append(l, b), f)
  BY DEF ReadByte, Inside
<1>5. \A b \in {QUOTE, BACKSLASH} :
         ReadByte(ReadByte(Inside(l, f), BACKSLASH), b) = Inside(Append(l, b), f)
  <2> TAKE b \in {QUOTE, BACKSLASH}
  <2>1. ReadByte(Inside(l, f), BACKSLASH) = [mode |-> "escape", literal |-> l, found |-> f]
    BY DEF ReadByte, Inside, QUOTE, BACKSLASH
  <2>2. JsonUnescape(b) = b
    BY DEF JsonUnescape, QUOTE, BACKSLASH
  <2>3. ReadByte([mode |-> "escape", literal |-> l, found |-> f], b) = Inside(Append(l, b), f)
    BY <2>2 DEF ReadByte, Inside
  <2> QED BY <2>1, <2>3
<1> QED BY <1>1, <1>2, <1>3, <1>4, <1>5

LEMMA CodedBack ==
    ASSUME NEW D, NEW S, NEW code, \A b \in D : code[b] \in Seq(S), NEW c \in D, NEW t \in Seq(D)
    PROVE  Coded(code, Append(t, c)) = Then(Coded(code, t), code[c])
<1> DEFINE s == Append(t, c)
           r == [i \in DOMAIN t |-> code[t[i]]]
           q == [i \in DOMAIN s |-> code[s[i]]]
           x == code[c]
           Q == Seq(S)
           u == Append(r, x)
<1>1. PICK n \in Nat : n = Len(t) /\ DOMAIN t = 1..n
  OBVIOUS
<1>2. s \in Seq(D) /\ Len(s) = n + 1 /\ s[n + 1] = c /\ \A i \in 1..n : s[i] = t[i]
  BY <1>1
<1> HIDE DEF s
<1>3. r \in Seq(Q) /\ Len(r) = n /\ \A j \in 1..n : r[j] = code[t[j]]
  BY <1>1, CodedSeq
<1>4. q \in Seq(Q) /\ Len(q) = n + 1 /\ \A j \in 1..(n + 1) : q[j] = code[s[j]]
  <2>1. s \in Seq(D) /\ Len(s) = n + 1 /\ \A b \in D : code[b] \in Seq(S)
    BY <1>2
  <2>2. /\ q \in Seq(Q) /\ Len(q) = Len(s)
        /\ \A j \in 1..Len(s) : q[j] = code[s[j]]
    BY ONLY <2>1, CodedSeq DEF q, Q
  <2> HIDE DEF q
  <2> QED BY <2>1, <2>2
<1> HIDE DEF r, q
<1>5. x \in Q
  OBVIOUS
<1> HIDE DEF x, Q
<1>6. u \in Seq(Q) /\ Len(u) = n + 1 /\ u[n + 1] = x /\ \A i \in 1..n : u[i] = r[i]
  BY <1>3, <1>5
<1> HIDE DEF u
<1>7. \A j \in 1..(n + 1) : q[j] = u[j]
  <2> TAKE j \in 1..(n + 1)
  <2>1. CASE j = n + 1
    BY <2>1, <1>2, <1>4, <1>6 DEF x
  <2>2. CASE j # n + 1
    <3>1. j \in 1..n
      BY <2>2
    <3>2. q[j] = code[s[j]] /\ s[j] = t[j]
      BY <3>1, <1>2, <1>4
    <3>3. u[j] = r[j] /\ r[j] = code[t[j]]
      BY <3>1, <1>3, <1>6
    <3> QED BY <3>2, <3>3
  <2> QED BY <2>1, <2>2
<1>8. n + 1 \in Nat /\ u \in Seq(Q) /\ Len(u) = n + 1
  BY <1>6
<1>9. q = u
  BY <1>4, <1>7, <1>8, SameElements
<1>10. FlattenSeq(Append(r, x)) = FlattenSeq(r) \o x
  BY <1>3, <1>5, FlattenAppend DEF Q
<1> QED BY <1>9, <1>10 DEF Coded, q, u, r, s, x, Then

JsonCode == [b \in Byte |-> JsonChar(b)]

\* A byte that an entry of the list may have and that does not end the array.
SafeByte == {b \in Byte : b >= 32 /\ b # DEL /\ b # CLOSE}

LEMMA JsonCodeType ==
    /\ \A b \in Byte : JsonCode[b] \in Seq(Byte)
    /\ \A b \in {QUOTE, BACKSLASH} : JsonCode[b] = <<BACKSLASH, b>>
    /\ \A b \in SafeByte \ {QUOTE, BACKSLASH} : JsonCode[b] = <<b>>
    /\ \A b \in SafeByte : JsonCode[b] \in Seq(Byte \ {CLOSE})
<1>1. \A b \in {QUOTE, BACKSLASH} : JsonCode[b] = <<BACKSLASH, b>>
  <2> TAKE b \in {QUOTE, BACKSLASH}
  <2>1. b \in Byte /\ JsonCode[b] = JsonChar(b)
    BY DEF JsonCode, QUOTE, BACKSLASH, Byte
  <2>2. b \in DOMAIN JsonEscapes /\ JsonEscapes[b] = b
    BY DEF JsonEscapes, QUOTE, BACKSLASH, LF, CR, TAB
  <2> QED BY <2>1, <2>2 DEF JsonChar
<1>2. \A b \in SafeByte \ {QUOTE, BACKSLASH} : JsonCode[b] = <<b>>
  <2> TAKE b \in SafeByte \ {QUOTE, BACKSLASH}
  <2>1. b \in Byte /\ JsonCode[b] = JsonChar(b) /\ ~(b < 32)
    BY DEF JsonCode, SafeByte, Byte
  <2>2. b \notin DOMAIN JsonEscapes
    BY <2>1 DEF JsonEscapes, LF, CR, TAB
  <2> QED BY <2>1, <2>2 DEF JsonChar
<1>3. \A b \in SafeByte : JsonCode[b] \in Seq(Byte \ {CLOSE})
  <2> TAKE b \in SafeByte
  <2> DEFINE R == Byte \ {CLOSE}
  <2>1. b \in R /\ BACKSLASH \in R
    BY DEF SafeByte, BACKSLASH, CLOSE, Byte
  <2> HIDE DEF R
  <2>2. <<b>> \in Seq(R) /\ <<BACKSLASH, b>> \in Seq(R)
    BY <2>1
  <2> QED BY <1>1, <1>2, <2>2 DEF R
<1>4. \A b \in Byte : JsonCode[b] \in Seq(Byte)
  <2> TAKE b \in Byte
  <2>1. JsonCode[b] = JsonChar(b)
    BY DEF JsonCode
  <2>2. CASE b \in DOMAIN JsonEscapes
    <3>1. JsonEscapes[b] \in Byte /\ BACKSLASH \in Byte
      BY <2>2 DEF JsonEscapes, Byte, BACKSLASH, QUOTE, LF, CR, TAB
    <3>2. JsonChar(b) = <<BACKSLASH, JsonEscapes[b]>>
      BY <2>2 DEF JsonChar
    <3> DEFINE c == JsonEscapes[b]
    <3> HIDE DEF c
    <3>3. <<BACKSLASH, c>> \in Seq(Byte)
      BY <3>1 DEF c
    <3> QED BY <2>1, <3>2, <3>3 DEF c
  <2>3. CASE b \notin DOMAIN JsonEscapes /\ b < 32
    <3> DEFINE Digit(d) == IF d < 10 THEN 48 + d ELSE 97 + d - 10
               h == Digit(b \div 16)  l == Digit(b % 16)
               x == <<BACKSLASH, 117, 48, 48>>  y == <<h, l>>
    <3>1. \A d \in 0..15 : Digit(d) \in Byte
      BY DEF Byte
    <3>2. PICK p \in 0..15, q \in 0..15 : p = b \div 16 /\ q = b % 16
      BY HexDigits
    <3>3. h \in Byte /\ l \in Byte
      <4> HIDE DEF Digit
      <4> QED BY <3>1, <3>2
    <3>4. Hex(b, 97) = y
      BY DEF Hex
    <3> HIDE DEF h, l
    <3>5. x \in Seq(Byte) /\ y \in Seq(Byte)
      BY <3>3 DEF Byte, BACKSLASH
    <3>6. JsonChar(b) = x \o y
      BY <2>3, <3>4 DEF JsonChar
    <3> HIDE DEF x, y
    <3>7. x \o y \in Seq(Byte)
      BY <3>5, ConcatProperties
    <3> QED BY <2>1, <3>6, <3>7
  <2>4. CASE b \notin DOMAIN JsonEscapes /\ ~(b < 32)
    <3>1. JsonChar(b) = <<b>>
      BY <2>4 DEF JsonChar
    <3> QED BY <2>1, <3>1
  <2> QED BY <2>2, <2>3, <2>4
<1> QED BY <1>1, <1>2, <1>3, <1>4

\* One character of a literal, read.
LEMMA ReadChar ==
    ASSUME NEW s \in Seq(Byte), NEW l \in Seq(SafeByte), NEW f, Reading(s) = Inside(l, f), NEW c \in SafeByte
    PROVE  Reading(Then(s, JsonCode[c])) = Inside(Append(l, c), f)
<1>1. c \in Byte /\ BACKSLASH \in Byte
  BY DEF SafeByte, BACKSLASH, Byte
<1>2. CASE c \in {QUOTE, BACKSLASH}
  <2> DEFINE r == Append(s, BACKSLASH)
  <2>1. Then(s, JsonCode[c]) = Append(r, c)
    <3>1. JsonCode[c] = <<BACKSLASH, c>>
      BY <1>2, JsonCodeType
    <3>2. s \o <<BACKSLASH, c>> = Append(Append(s, BACKSLASH), c)
      BY <1>1
    <3> QED BY <3>1, <3>2 DEF Then
  <2>2. r \in Seq(Byte)
    BY <1>1
  <2>3. Reading(r) = ReadByte(Inside(l, f), BACKSLASH)
    BY <1>1, ReadingAppend
  <2> HIDE DEF r
  <2>4. Reading(Append(r, c)) = ReadByte(Reading(r), c)
    BY <1>1, <2>2, ReadingAppend
  <2>5. ReadByte(ReadByte(Inside(l, f), BACKSLASH), c) = Inside(Append(l, c), f)
    BY <1>2, ReadSteps
  <2> QED BY <2>1, <2>3, <2>4, <2>5
<1>3. CASE c \notin {QUOTE, BACKSLASH}
  <2>1. Then(s, JsonCode[c]) = Append(s, c)
    <3>1. JsonCode[c] = <<c>>
      BY <1>3, JsonCodeType
    <3>2. s \o <<c>> = Append(s, c)
      BY <1>1
    <3> QED BY <3>1, <3>2 DEF Then
  <2>2. Reading(Append(s, c)) = ReadByte(Inside(l, f), c)
    BY <1>1, ReadingAppend
  <2>3. ReadByte(Inside(l, f), c) = Inside(Append(l, c), f)
    BY <1>1, <1>3, ReadSteps
  <2> QED BY <2>1, <2>2, <2>3
<1> QED BY <1>2, <1>3

LEMMA ReadChars ==
    ASSUME NEW s \in Seq(Byte), NEW f, Reading(s) = Inside(<<>>, f), NEW x \in Seq(SafeByte)
    PROVE  /\ Reading(Then(s, Coded(JsonCode, x))) = Inside(x, f)
           /\ Then(s, Coded(JsonCode, x)) \in Seq(Byte)
<1> DEFINE code == JsonCode
           P == {y \in Seq(SafeByte) : /\ Reading(Then(s, Coded(code, y))) = Inside(y, f)
                                       /\ Then(s, Coded(code, y)) \in Seq(Byte)}
<1>1. \A b \in SafeByte : code[b] \in Seq(Byte)
  BY JsonCodeType DEF SafeByte
<1> HIDE DEF code
<1>2. <<>> \in P
  <2>1. Then(s, <<>>) = s
    BY ConcatEmptySeq DEF Then
  <2>2. <<>> \in Seq(SafeByte)
    OBVIOUS
  <2> QED BY <2>1, <2>2, CodedEmpty
<1>3. \A c \in SafeByte : \A y \in Seq(SafeByte) : y \in P => Append(y, c) \in P
  <2> SUFFICES ASSUME NEW c \in SafeByte, NEW y \in Seq(SafeByte), y \in P PROVE Append(y, c) \in P
    OBVIOUS
  <2> DEFINE r == Then(s, Coded(code, y))
  <2>1. r \in Seq(Byte) /\ Reading(r) = Inside(y, f) /\ Append(y, c) \in Seq(SafeByte)
    OBVIOUS
  <2>2. Coded(code, Append(y, c)) = Then(Coded(code, y), code[c])
    BY <1>1, CodedBack
  <2>3. Coded(code, y) \in Seq(Byte) /\ code[c] \in Seq(Byte)
    BY <1>1, CodedType
  <2>4. Then(s, Then(Coded(code, y), code[c])) = Then(r, code[c])
    BY <2>3, ThenAssociative
  <2> HIDE DEF r
  <2>5. Reading(Then(r, code[c])) = Inside(Append(y, c), f)
    BY <2>1, ReadChar DEF code
  <2>6. Then(r, code[c]) \in Seq(Byte)
    BY <2>1, <2>3, ThenType
  <2> QED BY <2>1, <2>2, <2>4, <2>5, <2>6
<1> HIDE DEF P
<1>4. x \in P
  BY <1>2, <1>3, BackInduction
<1> QED BY <1>4 DEF P, code

LEMMA JsonStringIs ==
    ASSUME NEW x \in Seq(Byte)
    PROVE  /\ JsonString(x) = Then(Then(<<QUOTE>>, Coded(JsonCode, x)), <<QUOTE>>)
           /\ Coded(JsonCode, x) \in Seq(Byte) /\ JsonString(x) \in Seq(Byte)
<1>1. [i \in DOMAIN x |-> JsonChar(x[i])] = [i \in DOMAIN x |-> JsonCode[x[i]]]
  <2>1. \A i \in DOMAIN x : x[i] \in Byte
    OBVIOUS
  <2>2. \A i \in DOMAIN x : JsonCode[x[i]] = JsonChar(x[i])
    BY <2>1 DEF JsonCode
  <2> QED BY <2>2
<1>2. JsonString(x) = Then(Then(<<QUOTE>>, Coded(JsonCode, x)), <<QUOTE>>)
  BY <1>1 DEF JsonString, Coded, Then
<1> DEFINE code == JsonCode  q == <<QUOTE>>
<1>3. \A b \in Byte : code[b] \in Seq(Byte)
  BY JsonCodeType
<1>4. q \in Seq(Byte)
  BY DEF QUOTE, Byte
<1> HIDE DEF code, q
<1>5. Coded(code, x) \in Seq(Byte)
  BY <1>3, CodedType
<1>6. Then(Then(q, Coded(code, x)), q) \in Seq(Byte)
  <2>1. Then(q, Coded(code, x)) \in Seq(Byte)
    BY <1>4, <1>5, ThenType
  <2> QED BY <1>4, <2>1, ThenType
<1> QED BY <1>2, <1>5, <1>6 DEF code, q

\* A literal that can be read does not end the array.
LEMMA LiteralInArray ==
    ASSUME NEW x \in Seq(SafeByte)
    PROVE  JsonString(x) \in Seq(Byte \ {CLOSE}) /\ JsonString(x) \in Seq(Byte) /\ x \in Seq(Byte)
<1> DEFINE R == Byte \ {CLOSE}  code == JsonCode  q == <<QUOTE>>
<1>1. x \in Seq(Byte)
  <2>1. SafeByte \subseteq Byte
    BY DEF SafeByte
  <2> QED BY <2>1, SeqMonotonic
<1>2. JsonString(x) = Then(Then(q, Coded(code, x)), q) /\ JsonString(x) \in Seq(Byte)
  BY <1>1, JsonStringIs
<1>3. \A b \in SafeByte : code[b] \in Seq(R)
  BY JsonCodeType
<1>4. q \in Seq(R)
  BY DEF QUOTE, Byte, CLOSE
<1> HIDE DEF R, code, q
<1>5. Coded(code, x) \in Seq(R)
  BY <1>3, CodedType
<1>6. Then(q, Coded(code, x)) \in Seq(R)
  BY <1>4, <1>5, ThenType
<1>7. Then(Then(q, Coded(code, x)), q) \in Seq(R)
  BY <1>4, <1>6, ThenType
<1> QED BY <1>1, <1>2, <1>7 DEF R

LEMMA ThenOne ==
    ASSUME NEW S, NEW s \in Seq(S), NEW c \in S
    PROVE  Then(s, <<c>>) = Append(s, c) /\ Append(s, c) \in Seq(S)
BY DEF Then

\* A literal, read: it is found, without the blanks around it.
LEMMA ReadLiteral ==
    ASSUME NEW s \in Seq(Byte), NEW f, Reading(s) = Behind(f), NEW x \in Seq(SafeByte)
    PROVE  /\ Reading(Then(s, JsonString(x))) = Behind(Append(f, Trim(x)))
           /\ Then(s, JsonString(x)) \in Seq(Byte)
<1> DEFINE q == <<QUOTE>>  C == Coded(JsonCode, x)  r == Append(s, QUOTE)  t == Then(r, C)
<1>1. JsonString(x) = Then(Then(q, C), q) /\ C \in Seq(Byte)
  BY LiteralInArray, JsonStringIs
<1>2. QUOTE \in Byte /\ q \in Seq(Byte)
  BY DEF QUOTE, Byte
<1>3. Then(s, q) = r /\ r \in Seq(Byte)
  BY <1>2, ThenOne
<1>4. Reading(r) = Inside(<<>>, f)
  <2>1. Reading(r) = ReadByte(Behind(f), QUOTE)
    BY <1>2, ReadingAppend
  <2> QED BY <2>1, ReadSteps
<1> HIDE DEF r
<1>5. Reading(t) = Inside(x, f) /\ t \in Seq(Byte)
  BY <1>3, <1>4, ReadChars
<1> HIDE DEF C, q
<1>6. Then(s, Then(Then(q, C), q)) = Then(t, q)
  <2>1. Then(q, C) \in Seq(Byte)
    BY <1>1, <1>2, ThenType
  <2>2. Then(s, Then(Then(q, C), q)) = Then(Then(s, Then(q, C)), q)
    BY <1>2, <2>1, ThenAssociative
  <2>3. Then(s, Then(q, C)) = Then(Then(s, q), C)
    BY <1>1, <1>2, ThenAssociative
  <2> QED BY <1>3, <2>2, <2>3
<1> HIDE DEF t
<1>7. Then(t, q) = Append(t, QUOTE) /\ Append(t, QUOTE) \in Seq(Byte)
  BY <1>2, <1>5, ThenOne DEF q
<1>8. Reading(Append(t, QUOTE)) = ReadByte(Inside(x, f), QUOTE)
  BY <1>2, <1>5, ReadingAppend
<1>9. ReadByte(Inside(x, f), QUOTE) = Behind(Append(f, Trim(x)))
  BY ReadSteps
<1> QED BY <1>1, <1>6, <1>7, <1>8, <1>9

LEMMA ReadBetween ==
    ASSUME NEW s \in Seq(Byte), NEW f, Reading(s) = Behind(f), NEW b \in Byte \ {QUOTE}
    PROVE  Reading(Append(s, b)) = Behind(f) /\ Append(s, b) \in Seq(Byte)
<1>1. Reading(Append(s, b)) = ReadByte(Behind(f), b)
  BY ReadingAppend
<1>2. ReadByte(Behind(f), b) = Behind(f)
  BY ReadSteps
<1> QED BY <1>1, <1>2

LEMMA AppendTwo ==
    ASSUME NEW S, NEW x \in S, NEW y \in S
    PROVE  Append(<<>>, x) = <<x>> /\ Append(<<x>>, y) = <<x, y>>
<1> DEFINE E == <<>>  X == <<x>>  Y == <<y>>
<1>1. E \in Seq(S) /\ X \in Seq(S) /\ Y \in Seq(S)
  OBVIOUS
<1>2. X \o Y = <<x, y>>
  BY ConsTwo DEF Cons
<1>3. E \o X = X
  BY <1>1, ConcatEmptySeq
<1> HIDE DEF E
<1>4. Append(E, x) = E \o <<x>>
  BY <1>1, AppendIsConcat
<1> HIDE DEF X
<1>5. Append(X, y) = X \o <<y>>
  BY <1>1, AppendIsConcat
<1> QED BY <1>2, <1>3, <1>4, <1>5 DEF E, X

\* What is between the brackets.
Array(x, y) == Then(Then(JsonString(x), <<44, SPACE>>), JsonString(y))

LEMMA ArrayRead ==
    ASSUME NEW x \in Seq(SafeByte), NEW y \in Seq(SafeByte)
    PROVE  /\ Reading(Array(x, y)) = Behind(<<Trim(x), Trim(y)>>)
           /\ Array(x, y) \in Seq(Byte \ {CLOSE})
<1> DEFINE E == <<>>  j == JsonString(x)  k == Append(j, 44)  l == Append(k, SPACE)
           X == Trim(x)  Y == Trim(y)  c == 44
<1>1. E \in Seq(Byte) /\ Reading(E) = Behind(E)
  BY ReadingEmpty DEF Outside, Behind
<1>2. Then(E, JsonString(x)) = JsonString(x)
  BY LiteralInArray, ConcatEmptySeq DEF Then
<1>3. Append(E, X) = <<X>> /\ Append(<<X>>, Y) = <<X, Y>>
  <2> HIDE DEF X, Y
  <2>1. X \in {X, Y} /\ Y \in {X, Y}
    OBVIOUS
  <2> QED BY <2>1, AppendTwo
<1>4. c \in Byte \ {QUOTE} /\ SPACE \in Byte \ {QUOTE}
  BY DEF Byte, QUOTE, SPACE
<1> HIDE DEF E, X, Y, c
<1>5. Reading(j) = Behind(<<X>>) /\ j \in Seq(Byte)
  <2>1. /\ Reading(Then(E, JsonString(x))) = Behind(Append(E, Trim(x)))
        /\ Then(E, JsonString(x)) \in Seq(Byte)
    BY <1>1, ReadLiteral
  <2> QED BY <1>2, <1>3, <2>1 DEF X
<1> HIDE DEF j
<1>6. Reading(k) = Behind(<<X>>) /\ k \in Seq(Byte)
  BY <1>4, <1>5, ReadBetween DEF c
<1> HIDE DEF k
<1>7. Reading(l) = Behind(<<X>>) /\ l \in Seq(Byte)
  BY <1>4, <1>6, ReadBetween
<1>8. Then(j, <<44, SPACE>>) = l
  <2>1. j \o <<c, SPACE>> = Append(Append(j, c), SPACE)
    BY <1>4, <1>5
  <2> QED BY <2>1 DEF Then, c, k
<1> HIDE DEF l
<1>9. Reading(Then(l, JsonString(y))) = Behind(<<X, Y>>)
  <2>1. Reading(Then(l, JsonString(y))) = Behind(Append(<<X>>, Trim(y)))
    BY <1>7, ReadLiteral
  <2> QED BY <1>3, <2>1 DEF Y
<1>10. Then(Then(j, <<44, SPACE>>), JsonString(y)) \in Seq(Byte \ {CLOSE})
  <2> DEFINE R == Byte \ {CLOSE}  m == <<44, SPACE>>
  <2>1. j \in Seq(R) /\ JsonString(y) \in Seq(R)
    BY LiteralInArray DEF j
  <2>2. m \in Seq(R)
    BY DEF Byte, SPACE, CLOSE
  <2> HIDE DEF R, m
  <2>3. Then(j, m) \in Seq(R)
    BY <2>1, <2>2, ThenType
  <2>4. Then(Then(j, m), JsonString(y)) \in Seq(R)
    BY <2>1, <2>3, ThenType
  <2> QED BY <2>4 DEF R, m
<1> QED BY <1>8, <1>9, <1>10 DEF Array, j, X, Y

\* A text with the byte b in it, and no other b before that one.
Around(a, b, c) == Then(a, Then(<<b>>, c))
AroundFirst(S, a, b, c) == b \in S /\ a \in Seq(S \ {b}) /\ c \in Seq(S)

LEMMA CutAround ==
    ASSUME NEW S, NEW a, NEW b, NEW c, AroundFirst(S, a, b, c)
    PROVE  /\ FirstAt(Around(a, b, c), b) # 0
           /\ Before(Around(a, b, c), FirstAt(Around(a, b, c), b)) = a
           /\ After(Around(a, b, c), FirstAt(Around(a, b, c), b)) = c
<1> DEFINE p == a \o Cons(b, c)
<1>1. b \in S /\ a \in Seq(S \ {b}) /\ c \in Seq(S)
  BY DEF AroundFirst
<1>2. FirstAt(p, b) # 0 /\ Before(p, FirstAt(p, b)) = a /\ After(p, FirstAt(p, b)) = c
  BY ONLY <1>1, CutAt DEF p
<1>3. p = Around(a, b, c)
  BY DEF Around, Then, Cons
<1> HIDE DEF p
<1> QED BY <1>2, <1>3

\* What is behind the opening bracket, and the text before it.
Rest(x, y, other) == Around(Array(x, y), CLOSE, JsonString(other))
Heading == Then(JsonString(<<90>>), <<58>>)
Posted(x, y, other) ==
  JsonString(<<90>>) \o <<58, OPEN>> \o JsonString(x) \o <<44, SPACE>>
    \o JsonString(y) \o <<CLOSE>> \o JsonString(other)

LEMMA HeadingType == Heading \in Seq(Byte \ {OPEN})
<1> DEFINE z == <<90>>
<1>1. z \in Seq(SafeByte)
  BY DEF SafeByte, Byte, DEL, CLOSE
<1>2. z \in Seq(Byte)
  BY DEF Byte
<1> HIDE DEF z
<1>3. JsonString(z) = Then(Then(<<QUOTE>>, Coded(JsonCode, z)), <<QUOTE>>)
  BY <1>2, JsonStringIs
<1>4. Coded(JsonCode, z) = z
  <2>1. JsonCode[90] = <<90>>
    <3>1. 90 \in SafeByte \ {QUOTE, BACKSLASH}
      BY DEF SafeByte, Byte, DEL, CLOSE, QUOTE, BACKSLASH
    <3> QED BY <3>1, JsonCodeType
  <2> DEFINE E == <<>>  code == JsonCode
  <2>2. E \in Seq(Byte) /\ 90 \in Byte /\ Append(E, 90) = z /\ Coded(code, E) = E
    BY CodedEmpty DEF z, Byte
  <2>3. \A b \in Byte : code[b] \in Seq(Byte)
    BY JsonCodeType
  <2> DEFINE c == 90
  <2> HIDE DEF E, code, c
  <2>4. Coded(code, Append(E, c)) = Then(Coded(code, E), code[c])
    <3>1. c \in Byte
      BY <2>2 DEF c
    <3> QED BY <2>2, <2>3, <3>1, CodedBack
  <2>5. Then(E, z) = z
    BY <1>2, ConcatEmptySeq DEF Then, E
  <2> QED BY <2>1, <2>2, <2>4, <2>5 DEF code, c, z
<1> DEFINE R == Byte \ {OPEN}  q == <<QUOTE>>  g == <<58>>
<1>5. q \in Seq(R) /\ g \in Seq(R) /\ z \in Seq(R)
  BY DEF QUOTE, OPEN, Byte, z
<1> HIDE DEF R, q, g
<1>6. Then(q, z) \in Seq(R)
  BY <1>5, ThenType
<1>7. Then(Then(q, z), q) \in Seq(R)
  BY <1>5, <1>6, ThenType
<1>8. Then(Then(Then(q, z), q), g) \in Seq(R)
  BY <1>5, <1>7, ThenType
<1> QED BY <1>3, <1>4, <1>8 DEF Heading, R, q, g, z

EightTexts(S, k, g, o, jx, m, jy, e, jo) ==
  /\ k \in Seq(S) /\ g \in Seq(S) /\ o \in Seq(S) /\ jx \in Seq(S)
  /\ m \in Seq(S) /\ jy \in Seq(S) /\ e \in Seq(S) /\ jo \in Seq(S)

LEMMA EightRegrouped ==
    ASSUME NEW S, NEW k, NEW g, NEW o, NEW jx, NEW m, NEW jy, NEW e, NEW jo,
           EightTexts(S, k, g, o, jx, m, jy, e, jo)
    PROVE  Then(Then(Then(Then(Then(Then(k, Then(g, o)), jx), m), jy), e), jo)
             = Then(Then(k, g), Then(o, Then(Then(Then(jx, m), jy), Then(e, jo))))
<1>0. /\ k \in Seq(S) /\ g \in Seq(S) /\ o \in Seq(S) /\ jx \in Seq(S)
      /\ m \in Seq(S) /\ jy \in Seq(S) /\ e \in Seq(S) /\ jo \in Seq(S)
  BY DEF EightTexts
<1>1. Then(k, g) \in Seq(S) /\ Then(jx, m) \in Seq(S) /\ Then(e, jo) \in Seq(S)
  BY <1>0, ThenType
<1>2. PICK kg \in Seq(S), jm \in Seq(S), eo \in Seq(S) :
        kg = Then(k, g) /\ jm = Then(jx, m) /\ eo = Then(e, jo)
  BY <1>1
<1>3. Then(kg, o) \in Seq(S) /\ Then(jm, jy) \in Seq(S)
  BY <1>0, ThenType
<1>4. PICK b \in Seq(S), a \in Seq(S) : b = Then(kg, o) /\ a = Then(jm, jy)
  BY <1>3
<1>5. Then(b, a) \in Seq(S) /\ Then(a, eo) \in Seq(S)
  BY ThenType
<1>6. Then(k, Then(g, o)) = b
  BY <1>0, <1>2, <1>4, ThenAssociative
<1>7. Then(Then(b, jx), m) = Then(b, jm)
  BY <1>0, <1>2, ThenAssociative
<1>8. Then(Then(b, jm), jy) = Then(b, a)
  BY <1>0, <1>4, ThenAssociative
<1>9. Then(Then(Then(b, a), e), jo) = Then(Then(b, a), eo)
  BY <1>0, <1>2, <1>5, ThenAssociative
<1>10. Then(Then(b, a), eo) = Then(b, Then(a, eo))
  BY <1>0, ThenAssociative
<1>11. Then(b, Then(a, eo)) = Then(kg, Then(o, Then(a, eo)))
  BY <1>0, <1>4, <1>5, ThenAssociative
<1> QED BY <1>2, <1>4, <1>6, <1>7, <1>8, <1>9, <1>10, <1>11

LEMMA PostedIs ==
    ASSUME NEW x \in Seq(SafeByte), NEW y \in Seq(SafeByte), NEW other \in Seq(Byte)
    PROVE  /\ Posted(x, y, other) = Around(Heading, OPEN, Rest(x, y, other))
           /\ Rest(x, y, other) \in Seq(Byte)
<1> DEFINE k == JsonString(<<90>>)  g == <<58>>  o == <<OPEN>>  jx == JsonString(x)
           m == <<44, SPACE>>  jy == JsonString(y)  e == <<CLOSE>>  jo == JsonString(other)
<1>1. g \in Seq(Byte) /\ o \in Seq(Byte) /\ m \in Seq(Byte) /\ e \in Seq(Byte)
  BY DEF Byte, OPEN, SPACE, CLOSE
<1>2. k \in Seq(Byte) /\ jx \in Seq(Byte) /\ jy \in Seq(Byte) /\ jo \in Seq(Byte)
  <2>1. <<90>> \in Seq(Byte)
    BY DEF Byte
  <2>2. x \in Seq(Byte) /\ y \in Seq(Byte)
    BY LiteralInArray
  <2> QED BY <2>1, <2>2, JsonStringIs
<1>3. Then(g, o) = <<58, OPEN>>
  <2>1. 58 \in Byte /\ OPEN \in Byte
    BY DEF Byte, OPEN
  <2> DEFINE c == 58
  <2> HIDE DEF c
  <2>2. Cons(c, <<OPEN>>) = <<c, OPEN>>
    BY <2>1, ConsTwo DEF c
  <2> QED BY <2>2 DEF Cons, Then, c
<1>4. Posted(x, y, other) = Then(Then(Then(Then(Then(Then(k, Then(g, o)), jx), m), jy), e), jo)
  <2> HIDE DEF g, o
  <2> QED BY <1>3 DEF Posted, Then
<1> HIDE DEF k, g, o, jx, m, jy, e, jo
<1>5. Then(Then(Then(Then(Then(Then(k, Then(g, o)), jx), m), jy), e), jo)
        = Then(Then(k, g), Then(o, Then(Then(Then(jx, m), jy), Then(e, jo))))
  <2>1. EightTexts(Byte, k, g, o, jx, m, jy, e, jo)
    BY <1>1, <1>2 DEF EightTexts
  <2> QED BY <2>1, EightRegrouped
<1>6. Then(Then(jx, m), jy) \in Seq(Byte) /\ Then(e, jo) \in Seq(Byte)
  <2>1. Then(jx, m) \in Seq(Byte)
    BY <1>1, <1>2, ThenType
  <2> QED BY <1>1, <1>2, <2>1, ThenType
<1>7. Then(Then(Then(jx, m), jy), Then(e, jo)) \in Seq(Byte)
  BY <1>6, ThenType
<1> QED BY <1>4, <1>5, <1>7 DEF Around, Heading, Rest, Array, k, g, o, jx, m, jy, e, jo

LEMMA PostedReadsBack ==
    ASSUME NEW x \in Seq(SafeByte), NEW y \in Seq(SafeByte), NEW other \in Seq(Byte)
    PROVE  StringArray(Posted(x, y, other)) = NonEmpty(<<Trim(x), Trim(y)>>)
<1> DEFINE body == Posted(x, y, other)
           rest == After(body, FirstAt(body, OPEN))
           end == FirstAt(rest, CLOSE)
           last == Reading(IF end = 0 THEN rest ELSE Before(rest, end))
           X == Trim(x)  Y == Trim(y)  E == <<>>  p == <<X, Y>>
<1>1. body = Around(Heading, OPEN, Rest(x, y, other)) /\ Rest(x, y, other) \in Seq(Byte)
  BY PostedIs
<1> HIDE DEF body
<1>2. AroundFirst(Byte, Heading, OPEN, Rest(x, y, other))
  BY <1>1, HeadingType DEF AroundFirst, OPEN, Byte
<1>3. FirstAt(body, OPEN) # 0 /\ rest = Rest(x, y, other)
  BY <1>1, <1>2, CutAround
<1> HIDE DEF rest
<1>4. AroundFirst(Byte, Array(x, y), CLOSE, JsonString(other))
  <2>1. CLOSE \in Byte
    BY DEF CLOSE, Byte
  <2>2. Array(x, y) \in Seq(Byte \ {CLOSE}) /\ JsonString(other) \in Seq(Byte)
    BY ArrayRead, JsonStringIs
  <2> QED BY <2>1, <2>2 DEF AroundFirst
<1>5. end # 0 /\ Before(rest, end) = Array(x, y)
  BY <1>3, <1>4, CutAround DEF Rest
<1> HIDE DEF end
<1>6. last = Behind(p)
  BY <1>5, ArrayRead
<1> HIDE DEF last
<1>7. StringArray(body) = NonEmpty(Append(last.found, Trim(last.literal)))
  BY <1>3 DEF StringArray, rest, end, last
<1>8. last.found = p /\ last.literal = E
  BY <1>6 DEF Behind
<1>9. Trim(E) = E
  BY DEF Trim
<1> DEFINE U == {X, Y, E}  V == U \ {E}
<1>10. p \in Seq(U) /\ E \in U
  OBVIOUS
<1> HIDE DEF p, X, Y, E
<1>11. \A d \in Seq(U) : NonEmpty(d) = Filtered(d, Positions(d, V))
  <2> TAKE d \in Seq(U)
  <2>1. \A k \in DOMAIN d : d[k] \in U
    OBVIOUS
  <2>2. {k \in DOMAIN d : d[k] # <<>>} = Positions(d, V)
    <3> HIDE DEF U
    <3> QED BY <2>1 DEF Positions, E
  <2> QED BY <2>2 DEF NonEmpty
<1> HIDE DEF U
<1>12. Append(p, E) \in Seq(U) /\ E \notin V
  BY <1>10
<1>13. Filtered(Append(p, E), Positions(Append(p, E), V)) = Filtered(p, Positions(p, V))
  <2> HIDE DEF V
  <2> QED BY <1>10, <1>12, FilteredAppend
<1>14. NonEmpty(Append(p, E)) = NonEmpty(p)
  BY <1>10, <1>11, <1>12, <1>13
<1> QED BY <1>7, <1>8, <1>9, <1>14 DEF body, p, X, Y

\* For every alphabet and every length of a text: a query parameter is the first
\* one of its name whatever is in the name, in the value and in the other
\* parameters (util.rs query_get); and an entry of a posted array is read as it
\* was written, but for the blanks around it (api.rs extract_string_array).
THEOREM RequestReadsBackAlways == CodecSpec => []RequestReadsBack
<1>1. TextType => RequestReadsBack
  <2> SUFFICES ASSUME TextType, NEW p \in Cuts
               PROVE  LET other == p[1] \o p[2] \o <<90>>
                          Pair(k, v) == UrlEncode(k) \o <<EQUALS>> \o UrlEncode(v)
                          query == Pair(other, <<>>) \o <<AMPERSAND>> \o Pair(p[1], p[2])
                                   \o <<AMPERSAND>> \o Pair(p[1], other)
                          Readable(s) == IsSafeChannelEntry(s) /\ CLOSE \notin Range(s)
                      IN  /\ QueryGet(query, p[1]) = {p[2]}
                          /\ Readable(p[1]) /\ Readable(p[2]) =>
                               StringArray(Posted(p[1], p[2], other))
                                 = NonEmpty(<<Trim(p[1]), Trim(p[2])>>)
    BY DEF RequestReadsBack, Posted
  <2>1. PICK x, y \in Seq(Byte) : p = <<x, y>>
    BY CutType
  <2>2. p[1] = x /\ p[2] = y
    BY <2>1
  <2> DEFINE z == <<90>>  E == <<>>  other == (x \o y) \o z
             query == (((Given(other, E) \o <<AMPERSAND>>) \o Given(x, y)) \o <<AMPERSAND>>)
                      \o Given(x, other)
             Readable(s) == IsSafeChannelEntry(s) /\ CLOSE \notin Range(s)
  <2>3. z \in Seq(Byte) /\ Len(z) = 1 /\ E \in Seq(Byte)
    BY DEF Byte
  <2> HIDE DEF z, E
  <2>4. x \o y \in Seq(Byte) /\ Len(x \o y) = Len(x) + Len(y)
    BY ConcatProperties
  <2>5. other \in Seq(Byte) /\ Len(other) = Len(x \o y) + Len(z)
    BY <2>3, <2>4, ConcatProperties
  <2> HIDE DEF other
  <2>6. other # x
    <3>1. Len(x) \in Nat /\ Len(y) \in Nat
      OBVIOUS
    <3>2. Len(other) = Len(x) + Len(y) + 1
      BY <2>3, <2>4, <2>5
    <3>3. Len(other) # Len(x)
      BY <3>1, <3>2
    <3> QED BY <3>3
  <2>7. QueryGet(query, x) = {y}
    BY <2>3, <2>5, <2>6, QueryFirst
  <2>8. \A s \in Seq(Byte) : Readable(s) => s \in Seq(SafeByte)
    <3> SUFFICES ASSUME NEW s \in Seq(Byte), Readable(s) PROVE s \in Seq(SafeByte)
      OBVIOUS
    <3>1. \A i \in DOMAIN s : s[i] >= 32 /\ s[i] # DEL /\ s[i] # CLOSE
      BY DEF IsSafeChannelEntry, Range
    <3>2. \A i \in 1..Len(s) : s[i] \in SafeByte
      BY <3>1 DEF SafeByte
    <3> QED BY <3>2, Retyped
  <2>9. Readable(x) /\ Readable(y) =>
          StringArray(Posted(x, y, other)) = NonEmpty(<<Trim(x), Trim(y)>>)
    BY <2>5, <2>8, PostedReadsBack
  <2> DEFINE Pair(k, v) == UrlEncode(k) \o <<EQUALS>> \o UrlEncode(v)
  <2>10. Pair(other, E) = Given(other, E) /\ Pair(x, y) = Given(x, y) /\ Pair(x, other) = Given(x, other)
    <3>1. \A k, v \in Seq(Byte) : Pair(k, v) = Given(k, v)
      BY GivenReadsBack
    <3> HIDE DEF Pair
    <3> QED BY <2>3, <2>5, <3>1
  <2>11. query = Pair(other, E) \o <<AMPERSAND>> \o Pair(x, y) \o <<AMPERSAND>> \o Pair(x, other)
    <3> HIDE DEF Pair
    <3> QED BY <2>10
  <2> HIDE DEF query
  <2>12. QueryGet(Pair(other, E) \o <<AMPERSAND>> \o Pair(x, y) \o <<AMPERSAND>> \o Pair(x, other), x) = {y}
    <3> HIDE DEF Pair
    <3> QED BY <2>7, <2>11
  <2> QED BY <2>2, <2>9, <2>12 DEF other, z, E
<1> QED BY <1>1, TextTypeAlways, PTL

-----------------------------------------------------------------------------
(* The scanner of feeds *)

CutsUp(F, m, s, start, end) ==
    F = [n \in 0..m |-> IF n = 0 THEN Uncut ELSE CutAtToken(F[n - 1], s[n], start, end)]

LEMMA CutUpDef ==
    ASSUME NEW s, Len(s) \in Nat, NEW start, NEW end
    PROVE  \E F : /\ CutUp(s, start, end) = F[Len(s)] /\ F[0] = Uncut
                  /\ \A n \in 1..Len(s) : F[n] = CutAtToken(F[n - 1], s[n], start, end)
<1> DEFINE T == {m \in Nat : \E F : CutsUp(F, m, s, start, end)}
<1>1. 0 \in T
  <2> DEFINE F == [n \in 0..0 |-> Uncut]
  <2>1. CutsUp(F, 0, s, start, end)
    BY DEF CutsUp
  <2> QED BY <2>1
<1>2. \A m \in Nat : m \in T => m + 1 \in T
  <2> SUFFICES ASSUME NEW m \in Nat, NEW F, CutsUp(F, m, s, start, end)
               PROVE  \E G : CutsUp(G, m + 1, s, start, end)
    OBVIOUS
  <2> DEFINE G == [n \in 0..(m + 1) |-> IF n = m + 1 THEN CutAtToken(F[m], s[n], start, end) ELSE F[n]]
             H == [n \in 0..(m + 1) |-> IF n = 0 THEN Uncut ELSE CutAtToken(G[n - 1], s[n], start, end)]
  <2>1. \A n \in 0..m : F[n] = IF n = 0 THEN Uncut ELSE CutAtToken(F[n - 1], s[n], start, end)
    BY DEF CutsUp
  <2>2. \A n \in 0..(m + 1) : n # 0 => n - 1 \in 0..(m + 1) /\ n - 1 # m + 1
    OBVIOUS
  <2>3. \A n \in 0..(m + 1) : n # 0 => G[n - 1] = F[n - 1]
    BY <2>2
  <2>4. \A n \in 0..(m + 1) : (n = m + 1 /\ n # 0 /\ n - 1 = m) \/ (n \in 0..m /\ n # m + 1)
    OBVIOUS
  <2>5. \A n \in 0..(m + 1) : G[n] = H[n]
    <3> TAKE n \in 0..(m + 1)
    <3>1. CASE n = m + 1 /\ n # 0 /\ n - 1 = m
      BY <3>1, <2>3
    <3>2. CASE n \in 0..m /\ n # m + 1
      BY <3>2, <2>1, <2>3
    <3> QED BY <3>1, <3>2, <2>4
  <2>6. G = H
    BY <2>5
  <2>7. CutsUp(G, m + 1, s, start, end)
    BY <2>6 DEF CutsUp
  <2> QED BY <2>7
<1> HIDE DEF T
<1>3. Len(s) \in T
  BY <1>1, <1>2, NatSetInduction
<1>4. \E F : CutsUp(F, Len(s), s, start, end)
  BY <1>3 DEF T
<1> DEFINE F == CHOOSE F : CutsUp(F, Len(s), s, start, end)
<1>5. CutsUp(F, Len(s), s, start, end)
  BY <1>4
<1>6. CutUp(s, start, end) = F[Len(s)]
  BY DEF CutUp, CutsUp
<1> HIDE DEF F
<1>7. F = [n \in 0..Len(s) |-> IF n = 0 THEN Uncut ELSE CutAtToken(F[n - 1], s[n], start, end)]
  BY <1>5 DEF CutsUp
<1>8. F[0] = Uncut
  BY <1>7
<1>9. \A n \in 1..Len(s) : n \in 0..Len(s) /\ n # 0
  OBVIOUS
<1>10. \A n \in 1..Len(s) : F[n] = CutAtToken(F[n - 1], s[n], start, end)
  BY <1>7, <1>9
<1> QED BY <1>6, <1>8, <1>10

LEMMA CutUpEmpty ==
    ASSUME NEW start, NEW end PROVE CutUp(<<>>, start, end) = Uncut
<1> DEFINE E == <<>>
<1>1. Len(E) = 0
  OBVIOUS
<1> HIDE DEF E
<1>2. PICK F : CutUp(E, start, end) = F[Len(E)] /\ F[0] = Uncut
  BY <1>1, CutUpDef
<1> QED BY <1>1, <1>2 DEF E

LEMMA CutUpAppend ==
    ASSUME NEW S, NEW s \in Seq(S), NEW c \in S, NEW start, NEW end
    PROVE  CutUp(Append(s, c), start, end) = CutAtToken(CutUp(s, start, end), c, start, end)
<1> DEFINE t == Append(s, c)
<1>1. PICK n \in Nat : n = Len(s)
  OBVIOUS
<1>2. Len(t) = n + 1 /\ t[n + 1] = c /\ \A i \in 1..n : t[i] = s[i]
  BY <1>1
<1> HIDE DEF t
<1>3. PICK F : CutUp(s, start, end) = F[n] /\ F[0] = Uncut /\ \A k \in 1..n : F[k] = CutAtToken(F[k - 1], s[k], start, end)
  BY <1>1, CutUpDef
<1>4. PICK G : /\ CutUp(t, start, end) = G[n + 1] /\ G[0] = Uncut
               /\ \A k \in 1..(n + 1) : G[k] = CutAtToken(G[k - 1], t[k], start, end)
  <2>1. Len(t) \in Nat
    BY <1>2
  <2>2. \E G : /\ CutUp(t, start, end) = G[Len(t)] /\ G[0] = Uncut
               /\ \A k \in 1..Len(t) : G[k] = CutAtToken(G[k - 1], t[k], start, end)
    BY <2>1, CutUpDef
  <2> QED BY <1>2, <2>2
<1> DEFINE Agree(k) == k \in 0..n => F[k] = G[k]
           T == {k \in Nat : Agree(k)}
<1>5. Agree(0)
  BY <1>3, <1>4
<1>6. ASSUME NEW k \in Nat, Agree(k) PROVE Agree(k + 1)
  <2> SUFFICES ASSUME k + 1 \in 0..n PROVE F[k + 1] = G[k + 1]
    OBVIOUS
  <2>1. k \in 0..n /\ k + 1 \in 1..n /\ k + 1 \in 1..(n + 1) /\ (k + 1) - 1 = k
    OBVIOUS
  <2>2. F[k] = G[k] /\ t[k + 1] = s[k + 1]
    BY <1>2, <1>6, <2>1
  <2>3. F[k + 1] = CutAtToken(F[k], s[k + 1], start, end)
    BY <1>3, <2>1
  <2>4. G[k + 1] = CutAtToken(G[k], t[k + 1], start, end)
    BY <1>4, <2>1
  <2> QED BY <2>2, <2>3, <2>4
<1> HIDE DEF Agree
<1>10. 0 \in T /\ \A k \in Nat : k \in T => k + 1 \in T
  BY <1>5, <1>6
<1> HIDE DEF T
<1>7. n \in T
  BY <1>10, NatSetInduction
<1>8. F[n] = G[n]
  BY <1>7 DEF T, Agree
<1>9. G[n + 1] = CutAtToken(G[n], c, start, end)
  <2>1. n + 1 \in 1..(n + 1) /\ (n + 1) - 1 = n
    OBVIOUS
  <2> QED BY <1>2, <1>4, <2>1
<1> QED BY <1>3, <1>4, <1>8, <1>9 DEF t


-----------------------------------------------------------------------------
(* Tokens *)

LEMMA TokensDiffer ==
    /\ \A p, m, q, n : Start(p, m) = Start(q, n) <=> p = q /\ m = n
    /\ \A p, m, q, n : End(p, m) = End(q, n) <=> p = q /\ m = n
    /\ \A x, y : Text(x) = Text(y) <=> x = y
    /\ \A p, m, q, n : Start(p, m) # End(q, n)
    /\ \A p, m, x : Start(p, m) # Text(x)
    /\ \A p, m, x : End(p, m) # Text(x)
BY DEF Start, End, Text

\* Every string; those of the entities are named, as the provers do not know that
\* a literal is one.
Word ==
    STRING \union {"<", ">", "&", "\"", "'", "lt;", "gt;", "amp;", "quot;", "#39;", "apos;"}

FieldValue == Videos \union Channels \union Malformed \union Times \union Word
TextToken == {Text(x) : x \in FieldValue}
Tags(p, n) == {Start(p, n), End(p, n)}

\* What the segment of each field of an entry is made of.
VideoToken == TextToken \union Tags("yt:", "videoId") \union Tags(Bare, "videoId")
ChannelToken == TextToken \union Tags("yt:", "channelId") \union {Start(Bare, "/channel/")}
NamedToken(n) == TextToken \union Tags(Bare, n)

FieldToken ==
    VideoToken \union ChannelToken \union NamedToken("title") \union NamedToken("published")
    \union NamedToken("updated")

DeletionToken == NamedToken("ref") \union {Start(Bare, "/channel/")}

Token == FieldToken \union DeletionToken \union Tags(Bare, "entry") \union Tags("at:", "deleted-entry")

-----------------------------------------------------------------------------
(* Searching *)

LEMMA FirstAtNone ==
    ASSUME NEW S, NEW b, NEW s \in Seq(S \ {b})
    PROVE  FirstAt(s, b) = 0
<1>1. \A i \in DOMAIN s : s[i] \in S \ {b}
  OBVIOUS
<1>2. {i \in DOMAIN s : s[i] = b} = {}
  BY <1>1
<1> QED BY <1>2 DEF FirstAt

LEMMA BetweenNone ==
    ASSUME NEW S, NEW start, NEW end, NEW s \in Seq(S \ {start})
    PROVE  Between(s, start, end) = {}
BY FirstAtNone DEF Between

Enclosed(S, a, start, c, end, z) ==
    AroundFirst(S, a, start, Around(c, end, z)) /\ AroundFirst(S, c, end, z)

LEMMA BetweenIn ==
    ASSUME NEW S, NEW a, NEW start, NEW c, NEW end, NEW z, Enclosed(S, a, start, c, end, z)
    PROVE  Between(Around(a, start, Around(c, end, z)), start, end) = {c}
<1> DEFINE r == Around(c, end, z)  s == Around(a, start, r)
<1>1. AroundFirst(S, a, start, r) /\ AroundFirst(S, c, end, z)
  BY DEF Enclosed
<1>2. FirstAt(s, start) # 0 /\ After(s, FirstAt(s, start)) = r
  BY ONLY <1>1, CutAround DEF s
<1>3. FirstAt(r, end) # 0 /\ Before(r, FirstAt(r, end)) = c
  BY ONLY <1>1, CutAround DEF r
<1> HIDE DEF r, s
<1>4. Between(s, start, end) = {Before(r, FirstAt(r, end))}
  BY <1>2, <1>3 DEF Between
<1>5. Between(s, start, end) = {c}
  BY <1>3, <1>4
<1> QED BY <1>5 DEF r, s

LEMMA ElementIs ==
    ASSUME NEW p, NEW n, NEW c
    PROVE  Element(p, n, c) = Then(Then(<<Start(p, n)>>, c), <<End(p, n)>>)
BY DEF Element, Then

\* The five pieces that an element makes of what it stands in.
LEMMA ElementAround ==
    ASSUME NEW S, NEW p, NEW n, Start(p, n) \in S, End(p, n) \in S,
           NEW x \in Seq(S), NEW c \in Seq(S), NEW z \in Seq(S)
    PROVE  /\ Then(x, Then(Element(p, n, c), z)) = Around(x, Start(p, n), Around(c, End(p, n), z))
           /\ Around(c, End(p, n), z) \in Seq(S) /\ Element(p, n, c) \in Seq(S)
<1> DEFINE a == <<Start(p, n)>>  b == <<End(p, n)>>
<1>1. a \in Seq(S) /\ b \in Seq(S)
  OBVIOUS
<1>2. Element(p, n, c) = Then(Then(a, c), b)
  BY ElementIs
<1>3. Around(c, End(p, n), z) = Then(c, Then(b, z))
  BY DEF Around
<1>4. Around(x, Start(p, n), Around(c, End(p, n), z)) = Then(x, Then(a, Then(c, Then(b, z))))
  BY <1>3 DEF Around
<1> HIDE DEF a, b
<1>5. Then(a, c) \in Seq(S) /\ Then(b, z) \in Seq(S)
  BY <1>1, ThenType
<1>6. Then(Then(a, c), b) \in Seq(S) /\ Then(c, Then(b, z)) \in Seq(S)
  BY <1>1, <1>5, ThenType
<1>7. Then(Then(Then(a, c), b), z) = Then(Then(a, c), Then(b, z))
  BY <1>1, <1>5, ThenAssociative
<1>8. Then(Then(a, c), Then(b, z)) = Then(a, Then(c, Then(b, z)))
  BY <1>1, <1>5, ThenAssociative
<1>9. Then(x, Then(Element(p, n, c), z)) = Then(x, Then(a, Then(c, Then(b, z))))
  BY <1>2, <1>7, <1>8
<1> QED BY <1>2, <1>3, <1>4, <1>6, <1>9

LEMMA BetweenElement ==
    ASSUME NEW S, NEW p, NEW n, Start(p, n) \in S, End(p, n) \in S, TextToken \subseteq S,
           NEW x \in Seq(S \ {Start(p, n)}), NEW c \in Seq(TextToken), NEW z \in Seq(S)
    PROVE  Between(Then(x, Then(Element(p, n, c), z)), Start(p, n), End(p, n)) = {c}
<1>1. x \in Seq(S)
  BY SeqMonotonic
<1>2. TextToken \subseteq S \ {End(p, n)}
  BY TokensDiffer DEF TextToken
<1>3. c \in Seq(S) /\ c \in Seq(S \ {End(p, n)})
  BY <1>2, SeqMonotonic
<1>4. /\ Then(x, Then(Element(p, n, c), z)) = Around(x, Start(p, n), Around(c, End(p, n), z))
      /\ Around(c, End(p, n), z) \in Seq(S)
  BY <1>1, <1>3, ElementAround
<1>5. Enclosed(S, x, Start(p, n), c, End(p, n), z)
  BY <1>3, <1>4 DEF Enclosed, AroundFirst
<1> QED BY <1>4, <1>5, BetweenIn

LEMMA WellFormedOne ==
    ASSUME NEW v, NEW ids
    PROVE  WellFormed({<<Text(v)>>}, ids) = {v} \intersect ids
<1>1. \A id \in ids : <<Text(id)>> = <<Text(v)>> <=> id = v
  <2> TAKE id \in ids
  <2>1. <<Text(id)>> = <<Text(v)>> <=> Text(id) = Text(v)
    OBVIOUS
  <2> QED BY <2>1, TokensDiffer
<1> QED BY <1>1 DEF WellFormed

LEMMA MarkedNone ==
    ASSUME NEW S, NEW m, NEW s \in Seq(S \ {m})
    PROVE  Marked(s, m) = {}
<1>1. \A i \in 1 .. Len(s) - 1 : s[i] # m
  OBVIOUS
<1> QED BY <1>1 DEF Marked

MarkedFirst(S, m, u, c, v) ==
    /\ m \in S /\ Text(c) \in S /\ c \in Channels \union Malformed
    /\ u \in Seq(S \ {m}) /\ v \in Seq(S)

LEMMA MarkedIn ==
    ASSUME NEW S, NEW m, NEW u, NEW c, NEW v, MarkedFirst(S, m, u, c, v)
    PROVE  Marked(Then(u, Then(<<m>>, Then(<<Text(c)>>, v))), m) = {c} \intersect Channels
<1> DEFINE t == Cons(Text(c), v)  p == u \o Cons(m, t)
           C == {Text(d) : d \in Channels \union Malformed}
           places == {i \in 1 .. Len(p) - 1 : p[i] = m /\ p[i + 1] \in C}
<1>1. /\ m \in S /\ Text(c) \in S /\ c \in Channels \union Malformed
      /\ u \in Seq(S \ {m}) /\ v \in Seq(S)
  BY DEF MarkedFirst
<1>2. u \in Seq(S)
  BY <1>1, SeqMonotonic
<1>3. PICK n \in Nat, k \in Nat : n = Len(u) /\ k = Len(v)
  BY <1>1
<1>4. t \in Seq(S) /\ Len(t) = k + 1 /\ t[1] = Text(c)
  <2>1. t \in Seq(S) /\ Len(t) = Len(v) + 1 /\ t[1] = Text(c)
    BY <1>1, ConsElements
  <2> QED BY <1>3, <2>1
<1> HIDE DEF t
<1>5. /\ p \in Seq(S) /\ Len(p) = n + 1 + (k + 1)
      /\ \A i \in 1..n : p[i] = u[i]
      /\ p[n + 1] = m
      /\ p[n + 2] = Text(c)
  <2>3. m \in S /\ u \in Seq(S) /\ t \in Seq(S)
    BY <1>1, <1>2, <1>4
  <2>1. /\ p \in Seq(S) /\ Len(p) = Len(u) + 1 + Len(t)
        /\ \A i \in 1..Len(u) : p[i] = u[i]
        /\ p[Len(u) + 1] = m
        /\ \A i \in 1..Len(t) : p[Len(u) + 1 + i] = t[i]
    BY ONLY <2>3, AroundElements
  <2>2. 1 \in 1 .. k + 1 /\ n + 1 + 1 = n + 2
    OBVIOUS
  <2> HIDE DEF p
  <2> QED BY <1>3, <1>4, <2>1, <2>2
<1> HIDE DEF p
<1>6. \A i \in 1..n : p[i] # m
  BY <1>1, <1>3, <1>5
<1>7. Text(c) \in C
  BY <1>1
<1> HIDE DEF C
<1>8. n + 1 \in places /\ \A i \in places : n + 1 <= i /\ i \in Nat
  <2>1. n + 1 \in 1 .. Len(p) - 1 /\ (n + 1) + 1 = n + 2
    BY <1>5
  <2>2. n + 1 \in places
    BY <1>5, <1>7, <2>1
  <2>3. ASSUME NEW i \in places PROVE n + 1 <= i /\ i \in Nat
    <3>1. i \in 1 .. Len(p) - 1 /\ p[i] = m
      OBVIOUS
    <3>2. i \in Nat /\ 1 <= i
      BY <1>5, <3>1
    <3>3. ~(i \in 1..n)
      BY <1>6, <3>1
    <3> QED BY <3>2, <3>3
  <2> QED BY <2>2, <2>3
<1>9. Min(places) = n + 1
  <2> HIDE DEF places
  <2>1. \A i \in places : (\A j \in places : i <= j) => i = n + 1
    <3> TAKE i \in places
    <3> HAVE \A j \in places : i <= j
    <3>1. i \in Nat /\ i <= n + 1 /\ n + 1 <= i
      BY <1>8
    <3> QED BY <3>1
  <2> QED BY <1>8, <2>1 DEF Min
<1>10. Marked(p, m) = WellFormed({<<Text(c)>>}, Channels)
  <2>1. Marked(p, m) = IF places = {} THEN {} ELSE WellFormed({<<p[Min(places) + 1]>>}, Channels)
    BY DEF Marked, places, C
  <2>2. (n + 1) + 1 = n + 2
    OBVIOUS
  <2> HIDE DEF places
  <2> QED BY <1>5, <1>8, <1>9, <2>1, <2>2
<1>11. p = Then(u, Then(<<m>>, Then(<<Text(c)>>, v)))
  BY DEF p, t, Then, Cons
<1> QED BY <1>10, <1>11, WellFormedOne

-----------------------------------------------------------------------------
(* The block of an entry: the segments of its five fields *)

VideoIs(s, m) ==
    \/ s = <<>> /\ m = {}
    \/ \E v \in Videos \union Malformed, p \in {"yt:", Bare} :
         s = Element(p, "videoId", <<Text(v)>>) /\ m = {v}

ChannelIs(s, m) ==
    \/ s = <<>> /\ m = {}
    \/ \E c \in Channels \union Malformed : s = Element("yt:", "channelId", <<Text(c)>>) /\ m = {c}
    \/ \E c \in Channels : s = <<Start(Bare, "/channel/"), Text(c)>> /\ m = {c}
    \/ \E c \in Channels, d \in Malformed :
         s = Element("yt:", "channelId", <<Text(d)>>) \o <<Start(Bare, "/channel/"), Text(c)>> /\ m = {c}

TitleIs(s, m) ==
    \/ s = <<>> /\ m = {}
    \/ \E t \in Titles : s = Element(Bare, "title", Escaped(t)) /\ m = {Texts(t)}

TimeIs(n, s, m) ==
    \/ s = <<>> /\ m = {}
    \/ \E t \in Times : s = Element(Bare, n, <<Text(t)>>) /\ m = {<<Text(t)>>}

FieldsAre(f, e) ==
    /\ VideoIs(f.video, e.video) /\ ChannelIs(f.channel, e.channel) /\ TitleIs(f.title, e.title)
    /\ TimeIs("published", f.published, e.published) /\ TimeIs("updated", f.updated, e.updated)

Segments ==
    [video : Seq(VideoToken), channel : Seq(ChannelToken), title : Seq(NamedToken("title")),
     published : Seq(NamedToken("published")), updated : Seq(NamedToken("updated"))]

BlockOf(f) == Then(f.video, Then(f.channel, Then(f.title, Then(f.published, f.updated))))

LEMMA ThenEmpty ==
    ASSUME NEW S, NEW s \in Seq(S)
    PROVE  Then(<<>>, s) = s /\ Then(s, <<>>) = s
BY ConcatEmptySeq DEF Then

\* A segment w of s with no b on either side of it.
Alone(s, w, b) == \E x, z \in Seq(FieldToken \ {b}) : s = Then(x, Then(w, z))

LEMMA AloneNone ==
    ASSUME NEW s, NEW b, NEW w \in Seq(FieldToken \ {b}), Alone(s, w, b)
    PROVE  s \in Seq(FieldToken \ {b})
<1>1. PICK x, z \in Seq(FieldToken \ {b}) : s = Then(x, Then(w, z))
  BY DEF Alone
<1>2. Then(w, z) \in Seq(FieldToken \ {b})
  BY ThenType
<1> QED BY <1>1, <1>2, ThenType

LEMMA AloneElement ==
    ASSUME NEW s, NEW p, NEW n, Start(p, n) \in FieldToken, End(p, n) \in FieldToken,
           NEW c \in Seq(TextToken), Alone(s, Element(p, n, c), Start(p, n))
    PROVE  Between(s, Start(p, n), End(p, n)) = {c}
<1>1. PICK x, z \in Seq(FieldToken \ {Start(p, n)}) : s = Then(x, Then(Element(p, n, c), z))
  BY DEF Alone
<1>2. z \in Seq(FieldToken) /\ TextToken \subseteq FieldToken
  <2>1. z \in Seq(FieldToken)
    BY <1>1, SeqMonotonic
  <2>2. TextToken \subseteq FieldToken
    BY DEF FieldToken, VideoToken
  <2> QED BY <2>1, <2>2
<1> QED BY <1>1, <1>2, BetweenElement

MarkWithin(w, m, c) ==
    \E u \in Seq(FieldToken \ {m}), v \in Seq(FieldToken) : w = Then(u, Then(<<m>>, Then(<<Text(c)>>, v)))

LEMMA AloneMark ==
    ASSUME NEW s, NEW w, NEW m \in FieldToken, NEW c \in Channels \union Malformed,
           Alone(s, w, m), MarkWithin(w, m, c)
    PROVE  Marked(s, m) = {c} \intersect Channels
<1> DEFINE N == FieldToken \ {m}  a == <<m>>  b == <<Text(c)>>
<1>1. PICK x, z \in Seq(N) : s = Then(x, Then(w, z))
  BY DEF Alone
<1>2. PICK u \in Seq(N), v \in Seq(FieldToken) : w = Then(u, Then(a, Then(b, v)))
  BY DEF MarkWithin
<1>3. Text(c) \in FieldToken
  BY DEF FieldToken, VideoToken, TextToken, FieldValue
<1>4. a \in Seq(FieldToken) /\ b \in Seq(FieldToken)
  BY <1>3
<1>5. x \in Seq(FieldToken) /\ z \in Seq(FieldToken) /\ u \in Seq(FieldToken)
  BY <1>1, <1>2, SeqMonotonic
<1>6. Then(x, u) \in Seq(N)
  BY <1>1, <1>2, ThenType
<1>7. Then(v, z) \in Seq(FieldToken)
  BY <1>2, <1>5, ThenType
<1>8. MarkedFirst(FieldToken, m, Then(x, u), c, Then(v, z))
  BY <1>3, <1>6, <1>7 DEF MarkedFirst
<1> HIDE DEF N, a, b
<1>9. Then(b, v) \in Seq(FieldToken) /\ Then(a, Then(b, v)) \in Seq(FieldToken)
  BY <1>2, <1>4, ThenType
<1>10. Then(w, z) = Then(u, Then(a, Then(b, Then(v, z))))
  <2>1. Then(Then(u, Then(a, Then(b, v))), z) = Then(u, Then(Then(a, Then(b, v)), z))
    BY <1>5, <1>9, ThenAssociative
  <2>2. Then(Then(a, Then(b, v)), z) = Then(a, Then(Then(b, v), z))
    BY <1>4, <1>5, <1>9, ThenAssociative
  <2>3. Then(Then(b, v), z) = Then(b, Then(v, z))
    BY <1>2, <1>4, <1>5, ThenAssociative
  <2> QED BY <1>2, <2>1, <2>2, <2>3
<1>11. Then(b, Then(v, z)) \in Seq(FieldToken)
  BY <1>4, <1>7, ThenType
<1>12. Then(a, Then(b, Then(v, z))) \in Seq(FieldToken)
  BY <1>4, <1>11, ThenType
<1>13. s = Then(Then(x, u), Then(a, Then(b, Then(v, z))))
  <2>1. Then(Then(x, u), Then(a, Then(b, Then(v, z)))) = Then(x, Then(u, Then(a, Then(b, Then(v, z)))))
    BY <1>5, <1>12, ThenAssociative
  <2> QED BY <1>1, <1>10, <2>1
<1> QED BY <1>8, <1>13, MarkedIn DEF a, b

LEMMA SegmentsAlone ==
    ASSUME NEW f \in Segments, NEW b
    PROVE  /\ b \notin ChannelToken \union NamedToken("title") \union NamedToken("published")
                       \union NamedToken("updated") => Alone(BlockOf(f), f.video, b)
           /\ b \notin VideoToken \union NamedToken("title") \union NamedToken("published")
                       \union NamedToken("updated") => Alone(BlockOf(f), f.channel, b)
           /\ b \notin VideoToken \union ChannelToken \union NamedToken("published")
                       \union NamedToken("updated") => Alone(BlockOf(f), f.title, b)
           /\ b \notin VideoToken \union ChannelToken \union NamedToken("title")
                       \union NamedToken("updated") => Alone(BlockOf(f), f.published, b)
           /\ b \notin VideoToken \union ChannelToken \union NamedToken("title")
                       \union NamedToken("published") => Alone(BlockOf(f), f.updated, b)
<1> DEFINE N == FieldToken \ {b}
           v == f.video  c == f.channel  t == f.title  p == f.published  u == f.updated
           O == <<>>
<1>1. /\ v \in Seq(VideoToken) /\ c \in Seq(ChannelToken) /\ t \in Seq(NamedToken("title"))
      /\ p \in Seq(NamedToken("published")) /\ u \in Seq(NamedToken("updated"))
  BY DEF Segments
<1>2. O \in Seq(N) /\ O \in Seq(FieldToken)
  OBVIOUS
<1>3. BlockOf(f) = Then(v, Then(c, Then(t, Then(p, u))))
  BY DEF BlockOf
<1>4. /\ v \in Seq(FieldToken) /\ c \in Seq(FieldToken) /\ t \in Seq(FieldToken)
      /\ p \in Seq(FieldToken) /\ u \in Seq(FieldToken)
  <2>1. /\ VideoToken \subseteq FieldToken /\ ChannelToken \subseteq FieldToken
        /\ NamedToken("title") \subseteq FieldToken /\ NamedToken("published") \subseteq FieldToken
        /\ NamedToken("updated") \subseteq FieldToken
    BY DEF FieldToken
  <2> QED BY <1>1, <2>1, SeqMonotonic
<1>5. /\ b \notin VideoToken => v \in Seq(N)
      /\ b \notin ChannelToken => c \in Seq(N)
      /\ b \notin NamedToken("title") => t \in Seq(N)
      /\ b \notin NamedToken("published") => p \in Seq(N)
      /\ b \notin NamedToken("updated") => u \in Seq(N)
  <2>1. /\ b \notin VideoToken => VideoToken \subseteq N
        /\ b \notin ChannelToken => ChannelToken \subseteq N
        /\ b \notin NamedToken("title") => NamedToken("title") \subseteq N
        /\ b \notin NamedToken("published") => NamedToken("published") \subseteq N
        /\ b \notin NamedToken("updated") => NamedToken("updated") \subseteq N
    BY DEF FieldToken
  <2> QED BY <1>1, <2>1, SeqMonotonic
<1> HIDE DEF N, v, c, t, p, u, O
<1>6. Then(p, u) \in Seq(FieldToken) /\ Then(t, Then(p, u)) \in Seq(FieldToken)
  BY <1>4, ThenType
<1>7. Then(c, Then(t, Then(p, u))) \in Seq(FieldToken)
  BY <1>4, <1>6, ThenType
<1>8. Then(v, c) \in Seq(FieldToken) /\ Then(Then(v, c), t) \in Seq(FieldToken)
  BY <1>4, ThenType
<1>9. BlockOf(f) = Then(O, Then(v, Then(c, Then(t, Then(p, u)))))
  <2>1. Then(v, Then(c, Then(t, Then(p, u)))) \in Seq(FieldToken)
    BY <1>4, <1>7, ThenType
  <2> QED BY <1>3, <2>1, ThenEmpty DEF O
<1>10. BlockOf(f) = Then(Then(v, c), Then(t, Then(p, u)))
  BY <1>3, <1>4, <1>6, ThenAssociative
<1>11. BlockOf(f) = Then(Then(Then(v, c), t), Then(p, u))
  <2>1. Then(Then(Then(v, c), t), Then(p, u)) = Then(Then(v, c), Then(t, Then(p, u)))
    BY <1>4, <1>6, <1>8, ThenAssociative
  <2> QED BY <1>10, <2>1
<1>12. BlockOf(f) = Then(Then(Then(Then(v, c), t), p), Then(u, O))
  <2>1. Then(Then(Then(Then(v, c), t), p), u) = Then(Then(Then(v, c), t), Then(p, u))
    BY <1>4, <1>8, ThenAssociative
  <2>2. Then(u, O) = u
    BY <1>4, ThenEmpty DEF O
  <2> QED BY <1>11, <2>1, <2>2
<1>20. ASSUME c \in Seq(N), t \in Seq(N), p \in Seq(N), u \in Seq(N) PROVE Alone(BlockOf(f), v, b)
  <2>1. Then(c, Then(t, Then(p, u))) \in Seq(N)
    <3>1. Then(p, u) \in Seq(N)
      BY <1>20, ThenType
    <3>2. Then(t, Then(p, u)) \in Seq(N)
      BY <1>20, <3>1, ThenType
    <3> QED BY <1>20, <3>2, ThenType
  <2> QED BY <1>2, <1>9, <2>1 DEF Alone, N
<1>21. ASSUME v \in Seq(N), t \in Seq(N), p \in Seq(N), u \in Seq(N) PROVE Alone(BlockOf(f), c, b)
  <2>1. Then(t, Then(p, u)) \in Seq(N)
    <3>1. Then(p, u) \in Seq(N)
      BY <1>21, ThenType
    <3> QED BY <1>21, <3>1, ThenType
  <2> QED BY <1>3, <1>21, <2>1 DEF Alone, N
<1>22. ASSUME v \in Seq(N), c \in Seq(N), p \in Seq(N), u \in Seq(N) PROVE Alone(BlockOf(f), t, b)
  <2>1. Then(p, u) \in Seq(N) /\ Then(v, c) \in Seq(N)
    BY <1>22, ThenType
  <2> QED BY <1>10, <2>1 DEF Alone, N
<1>23. ASSUME v \in Seq(N), c \in Seq(N), t \in Seq(N), u \in Seq(N) PROVE Alone(BlockOf(f), p, b)
  <2>1. Then(v, c) \in Seq(N)
    BY <1>23, ThenType
  <2>2. Then(Then(v, c), t) \in Seq(N)
    BY <1>23, <2>1, ThenType
  <2> QED BY <1>11, <1>23, <2>2 DEF Alone, N
<1>24. ASSUME v \in Seq(N), c \in Seq(N), t \in Seq(N), p \in Seq(N) PROVE Alone(BlockOf(f), u, b)
  <2>1. Then(v, c) \in Seq(N)
    BY <1>24, ThenType
  <2>2. Then(Then(v, c), t) \in Seq(N)
    BY <1>24, <2>1, ThenType
  <2>3. Then(Then(Then(v, c), t), p) \in Seq(N)
    BY <1>24, <2>2, ThenType
  <2> QED BY <1>2, <1>12, <2>3 DEF Alone, N
<1> QED BY <1>5, <1>20, <1>21, <1>22, <1>23, <1>24 DEF v, c, t, p, u

-----------------------------------------------------------------------------
(* Entities *)

EntityAt(s, n, entity) == n > 1 /\ s[n - 1] = Text("&") /\ s[n] = Text(entity)

ReplacedAt(F, s, n, entity, char) ==
    IF EntityAt(s, n, entity) THEN Append(F[n - 2], Text(char)) ELSE Append(F[n - 1], s[n])

Replaces(F, m, s, entity, char) ==
    F = [n \in 0..m |-> IF n = 0 THEN <<>> ELSE ReplacedAt(F, s, n, entity, char)]

ReplacesEach(F, m, s, entity, char) ==
    F[0] = <<>> /\ \A n \in 1..m : F[n] = ReplacedAt(F, s, n, entity, char)

LEMMA ReplacedDef ==
    ASSUME NEW s, Len(s) \in Nat, NEW entity, NEW char
    PROVE  \E F : Replaced(s, entity, char) = F[Len(s)] /\ ReplacesEach(F, Len(s), s, entity, char)
<1> DEFINE T == {m \in Nat : \E F : Replaces(F, m, s, entity, char)}
<1>1. 0 \in T
  <2> DEFINE F == [n \in 0..0 |-> <<>>]
  <2>1. Replaces(F, 0, s, entity, char)
    BY DEF Replaces
  <2> QED BY <2>1
<1>2. \A m \in Nat : m \in T => m + 1 \in T
  <2> SUFFICES ASSUME NEW m \in Nat, NEW F, Replaces(F, m, s, entity, char)
               PROVE  \E G : Replaces(G, m + 1, s, entity, char)
    OBVIOUS
  <2> DEFINE G == [n \in 0..(m + 1) |-> IF n = m + 1 THEN ReplacedAt(F, s, n, entity, char) ELSE F[n]]
             H == [n \in 0..(m + 1) |-> IF n = 0 THEN <<>> ELSE ReplacedAt(G, s, n, entity, char)]
  <2>1. \A n \in 0..m : F[n] = IF n = 0 THEN <<>> ELSE ReplacedAt(F, s, n, entity, char)
    BY DEF Replaces
  <2>2. \A n \in 0..(m + 1) : n # 0 => n - 1 \in 0..(m + 1) /\ n - 1 # m + 1
    OBVIOUS
  <2>3. \A n \in 0..(m + 1) : n > 1 => n - 2 \in 0..(m + 1) /\ n - 2 # m + 1
    OBVIOUS
  <2>4. \A n \in 0..(m + 1) : n # 0 => G[n - 1] = F[n - 1]
    BY <2>2
  <2>5. \A n \in 0..(m + 1) : n > 1 => G[n - 2] = F[n - 2]
    BY <2>3
  <2>6. \A n \in 0..(m + 1) :
          n # 0 => ReplacedAt(G, s, n, entity, char) = ReplacedAt(F, s, n, entity, char)
    <3> HIDE DEF G
    <3> QED BY <2>4, <2>5 DEF ReplacedAt, EntityAt
  <2>7. \A n \in 0..(m + 1) : (n = m + 1 /\ n # 0) \/ (n \in 0..m /\ n # m + 1)
    OBVIOUS
  <2>8. \A n \in 0..(m + 1) : G[n] = H[n]
    <3> TAKE n \in 0..(m + 1)
    <3>1. CASE n = m + 1 /\ n # 0
      <4>1. G[n] = ReplacedAt(F, s, n, entity, char)
        BY <3>1
      <4>2. H[n] = ReplacedAt(G, s, n, entity, char)
        BY <3>1
      <4> HIDE DEF G, H
      <4> QED BY <3>1, <2>6, <4>1, <4>2
    <3>2. CASE n \in 0..m /\ n # m + 1
      <4>1. G[n] = F[n]
        BY <3>2
      <4>2. H[n] = IF n = 0 THEN <<>> ELSE ReplacedAt(G, s, n, entity, char)
        BY <3>2
      <4> HIDE DEF G, H
      <4> QED BY <3>2, <2>1, <2>6, <4>1, <4>2
    <3> QED BY <3>1, <3>2, <2>7
  <2>9. G = H
    BY <2>8
  <2>10. Replaces(G, m + 1, s, entity, char)
    BY <2>9 DEF Replaces
  <2> QED BY <2>10
<1> HIDE DEF T
<1>3. Len(s) \in T
  BY <1>1, <1>2, NatSetInduction
<1>4. \E F : Replaces(F, Len(s), s, entity, char)
  BY <1>3 DEF T
<1> DEFINE F == CHOOSE F : Replaces(F, Len(s), s, entity, char)
<1>5. Replaces(F, Len(s), s, entity, char)
  BY <1>4
<1>6. Replaced(s, entity, char) = F[Len(s)]
  BY DEF Replaced, Replaces, ReplacedAt, EntityAt
<1> HIDE DEF F
<1>7. F = [n \in 0..Len(s) |-> IF n = 0 THEN <<>> ELSE ReplacedAt(F, s, n, entity, char)]
  BY <1>5 DEF Replaces
<1>8. F[0] = <<>>
  BY <1>7
<1>9. \A n \in 1..Len(s) : n \in 0..Len(s) /\ n # 0
  OBVIOUS
<1>10. \A n \in 1..Len(s) : F[n] = ReplacedAt(F, s, n, entity, char)
  BY <1>7, <1>9
<1> QED BY <1>6, <1>8, <1>10 DEF ReplacesEach

\* What is replaced in a text does not depend on what comes after it.
LEMMA ReplacedPrefix ==
    ASSUME NEW s, Len(s) \in Nat, NEW t, NEW G, NEW m \in Nat, Len(s) <= m, NEW entity, NEW char,
           ReplacesEach(G, m, t, entity, char), \A i \in 1..Len(s) : t[i] = s[i]
    PROVE  Replaced(s, entity, char) = G[Len(s)]
<1>1. PICK n \in Nat : n = Len(s)
  OBVIOUS
<1>2. PICK F : Replaced(s, entity, char) = F[n] /\ ReplacesEach(F, n, s, entity, char)
  BY <1>1, ReplacedDef
<1> DEFINE Agree(k) == (k \in 0..n => F[k] = G[k]) /\ (k \in 1..n => F[k - 1] = G[k - 1])
           T == {k \in Nat : Agree(k)}
<1>3. Agree(0)
  BY <1>2 DEF ReplacesEach
<1>4. ASSUME NEW k \in Nat, Agree(k) PROVE Agree(k + 1)
  <2> SUFFICES ASSUME k + 1 \in 1..n PROVE F[k + 1] = G[k + 1] /\ F[k] = G[k]
    OBVIOUS
  <2>1. /\ k \in 0..n /\ k + 1 \in 1..m /\ (k + 1) - 1 = k /\ (k + 1) - 2 = k - 1
        /\ (k + 1 > 1 => k \in 1..n)
    BY <1>1
  <2>2. F[k] = G[k]
    BY <1>4, <2>1
  <2>3. k + 1 > 1 => F[k - 1] = G[k - 1] /\ t[k] = s[k]
    BY <1>1, <1>4, <2>1
  <2>4. t[k + 1] = s[k + 1]
    BY <1>1
  <2>5. F[k + 1] = ReplacedAt(F, s, k + 1, entity, char)
    BY <1>2 DEF ReplacesEach
  <2>6. G[k + 1] = ReplacedAt(G, t, k + 1, entity, char)
    BY <2>1 DEF ReplacesEach
  <2>7. EntityAt(s, k + 1, entity) <=> EntityAt(t, k + 1, entity)
    BY <2>1, <2>3, <2>4 DEF EntityAt
  <2>8. CASE EntityAt(s, k + 1, entity)
    <3>1. k + 1 > 1
      BY <2>8 DEF EntityAt
    <3>2. F[k + 1] = Append(F[k - 1], Text(char))
      BY <2>1, <2>5, <2>8 DEF ReplacedAt
    <3>3. G[k + 1] = Append(G[k - 1], Text(char))
      BY <2>1, <2>6, <2>7, <2>8 DEF ReplacedAt
    <3> QED BY <2>2, <2>3, <3>1, <3>2, <3>3
  <2>9. CASE ~EntityAt(s, k + 1, entity)
    <3>1. F[k + 1] = Append(F[k], s[k + 1])
      BY <2>1, <2>5, <2>9 DEF ReplacedAt
    <3>2. G[k + 1] = Append(G[k], t[k + 1])
      BY <2>1, <2>6, <2>7, <2>9 DEF ReplacedAt
    <3> QED BY <2>2, <2>4, <3>1, <3>2
  <2> QED BY <2>8, <2>9
<1> HIDE DEF Agree
<1>5. 0 \in T /\ \A k \in Nat : k \in T => k + 1 \in T
  BY <1>3, <1>4
<1> HIDE DEF T
<1>6. n \in T
  BY <1>5, NatSetInduction
<1>7. F[n] = G[n]
  BY <1>6 DEF T, Agree
<1> QED BY <1>1, <1>2, <1>7

LEMMA ReplacedEmpty ==
    ASSUME NEW entity, NEW char PROVE Replaced(<<>>, entity, char) = <<>>
<1> DEFINE E == <<>>
<1>1. Len(E) = 0
  OBVIOUS
<1> HIDE DEF E
<1>2. PICK F : Replaced(E, entity, char) = F[Len(E)] /\ ReplacesEach(F, Len(E), E, entity, char)
  BY <1>1, ReplacedDef
<1>3. Replaced(E, entity, char) = <<>>
  BY <1>1, <1>2 DEF ReplacesEach
<1> QED BY <1>3 DEF E

LEMMA ReplacedPlain ==
    ASSUME NEW S, NEW s \in Seq(S), NEW c \in S, NEW entity, NEW char,
           c = Text(entity) => s = <<>> \/ s[Len(s)] # Text("&")
    PROVE  Replaced(Append(s, c), entity, char) = Append(Replaced(s, entity, char), c)
<1> DEFINE t == Append(s, c)
<1>1. PICK n \in Nat : n = Len(s)
  OBVIOUS
<1>2. Len(t) = n + 1 /\ t[n + 1] = c /\ \A i \in 1..n : t[i] = s[i]
  BY <1>1
<1>3. s = <<>> <=> n = 0
  BY <1>1, EmptySeq
<1> HIDE DEF t
<1>4. PICK G : Replaced(t, entity, char) = G[n + 1] /\ ReplacesEach(G, n + 1, t, entity, char)
  <2>1. Len(t) \in Nat
    BY <1>2
  <2> QED BY <1>2, <2>1, ReplacedDef
<1>5. Replaced(s, entity, char) = G[n]
  <2>1. n + 1 \in Nat /\ Len(s) \in Nat /\ Len(s) <= n + 1
    BY <1>1
  <2> QED BY <1>1, <1>2, <1>4, <2>1, ReplacedPrefix
<1>6. n + 1 \in 1..(n + 1) /\ (n + 1) - 1 = n
  OBVIOUS
<1>7. ~EntityAt(t, n + 1, entity)
  <2> SUFFICES ASSUME n + 1 > 1, t[n] = Text("&"), t[n + 1] = Text(entity) PROVE FALSE
    BY <1>6 DEF EntityAt
  <2>1. n \in 1..n /\ n # 0
    OBVIOUS
  <2> QED BY <1>1, <1>2, <1>3, <2>1
<1>8. G[n + 1] = Append(G[n], t[n + 1])
  BY <1>4, <1>6, <1>7 DEF ReplacesEach, ReplacedAt
<1> QED BY <1>2, <1>4, <1>5, <1>8 DEF t

LEMMA ReplacedEntity ==
    ASSUME NEW S, NEW s \in Seq(S), NEW entity, NEW char, Text("&") \in S, Text(entity) \in S
    PROVE  Replaced(Append(Append(s, Text("&")), Text(entity)), entity, char)
             = Append(Replaced(s, entity, char), Text(char))
<1> DEFINE a == Text("&")  c == Text(entity)
<1> HIDE DEF a, c
<1> DEFINE r == Append(s, a)  t == Append(r, c)
<1>0. a \in S /\ c \in S
  BY DEF a, c
<1>1. PICK n \in Nat : n = Len(s)
  OBVIOUS
<1>2. r \in Seq(S) /\ Len(r) = n + 1 /\ r[n + 1] = a /\ \A i \in 1..n : r[i] = s[i]
  BY <1>0, <1>1
<1> HIDE DEF r
<1>3. Len(t) = n + 2 /\ t[n + 2] = c /\ \A i \in 1..(n + 1) : t[i] = r[i]
  BY <1>0, <1>2
<1> HIDE DEF t
<1>4. PICK G : Replaced(t, entity, char) = G[n + 2] /\ ReplacesEach(G, n + 2, t, entity, char)
  <2>1. Len(t) \in Nat
    BY <1>3
  <2> QED BY <1>3, <2>1, ReplacedDef
<1>5. Replaced(s, entity, char) = G[n]
  <2>1. n + 2 \in Nat /\ Len(s) \in Nat /\ Len(s) <= n + 2 /\ \A i \in 1..n : i \in 1..(n + 1)
    BY <1>1
  <2>2. \A i \in 1..Len(s) : t[i] = s[i]
    BY <1>1, <1>2, <1>3, <2>1
  <2> QED BY <1>1, <1>4, <2>1, <2>2, ReplacedPrefix
<1>6. /\ n + 2 \in 1..(n + 2) /\ (n + 2) - 1 = n + 1 /\ (n + 2) - 2 = n /\ n + 2 > 1
      /\ n + 1 \in 1..(n + 1)
  OBVIOUS
<1>7. EntityAt(t, n + 2, entity)
  BY <1>2, <1>3, <1>6 DEF EntityAt, a, c
<1>8. G[n + 2] = Append(G[n], Text(char))
  BY <1>4, <1>6, <1>7 DEF ReplacesEach, ReplacedAt
<1>9. Replaced(t, entity, char) = Append(Replaced(s, entity, char), Text(char))
  BY <1>4, <1>5, <1>8
<1> QED BY <1>9 DEF t, r, a, c

WordToken == {Text(x) : x \in Word}

\* A way to spell texts: each is one token that is not an ampersand, or an
\* ampersand and one that is not.
Spelling(code) ==
    \A x \in Word :
      \/ \E y \in Word \ {"&"} : code[x] = <<Text(y)>>
      \/ \E y \in Word \ {"&"} : code[x] = <<Text("&"), Text(y)>>

LEMMA SpellingType ==
    ASSUME NEW code, Spelling(code)
    PROVE  \A x \in Word : code[x] \in Seq(WordToken)
<1>1. \A y \in Word : <<Text(y)>> \in Seq(WordToken) /\ <<Text("&"), Text(y)>> \in Seq(WordToken)
  <2>1. \A y \in Word : Text(y) \in WordToken
    BY DEF WordToken
  <2>2. Text("&") \in WordToken
    BY <2>1 DEF Word
  <2> HIDE DEF WordToken
  <2> QED BY <2>1, <2>2
<1> QED BY <1>1 DEF Spelling

EndsPlain(s) == s = <<>> \/ s[Len(s)] # Text("&")

LEMMA ReplacedWord ==
    ASSUME NEW s \in Seq(WordToken), EndsPlain(s), NEW y \in Word \ {"&"},
           NEW entity \in Word \ {"&"}, NEW char \in Word, Replaced(s, entity, char) \in Seq(WordToken)
    PROVE  /\ Replaced(Then(s, <<Text(y)>>), entity, char) = Then(Replaced(s, entity, char), <<Text(y)>>)
           /\ Replaced(Then(s, <<Text("&"), Text(y)>>), entity, char)
                = Then(Replaced(s, entity, char), IF y = entity THEN <<Text(char)>>
                                                  ELSE <<Text("&"), Text(y)>>)
           /\ EndsPlain(Then(s, <<Text(y)>>)) /\ EndsPlain(Then(s, <<Text("&"), Text(y)>>))
<1> DEFINE a == Text("&")  c == Text(y)  e == Text(entity)  d == Text(char)
           r == Replaced(s, entity, char)
<1>1. a \in WordToken /\ c \in WordToken /\ e \in WordToken /\ d \in WordToken
  BY DEF WordToken, Word
<1>2. a # c /\ a # e /\ (c = e <=> y = entity)
  BY TokensDiffer
<1> HIDE DEF a, c, e, d, r
<1>3. Then(s, <<c>>) = Append(s, c) /\ Then(s, <<a, c>>) = Append(Append(s, a), c)
  BY <1>1 DEF Then
<1>4. Replaced(Append(s, c), entity, char) = Append(r, c)
  BY <1>1, ReplacedPlain DEF EndsPlain, a, e, r
<1>5. Replaced(Append(Append(s, a), c), entity, char)
        = IF y = entity THEN Append(r, d) ELSE Append(Append(r, a), c)
  <2>1. CASE y = entity
    <3>1. c = e
      BY <1>2, <2>1
    <3>2. Replaced(Append(Append(s, a), e), entity, char) = Append(r, d)
      BY <1>1, ReplacedEntity DEF a, e, d, r
    <3> QED BY <2>1, <3>1, <3>2
  <2>2. CASE y # entity
    <3>1. Replaced(Append(s, a), entity, char) = Append(r, a)
      BY <1>1, <1>2, ReplacedPlain DEF e, r
    <3>2. Append(s, a) \in Seq(WordToken)
      BY <1>1
    <3>3. Replaced(Append(Append(s, a), c), entity, char) = Append(Replaced(Append(s, a), entity, char), c)
      <4>1. c \in WordToken /\ c # Text(entity)
        BY <1>1, <1>2, <2>2 DEF e
      <4> DEFINE u == Append(s, a)
      <4>2. u \in Seq(WordToken)
        BY <3>2
      <4> HIDE DEF u
      <4>3. Replaced(Append(u, c), entity, char) = Append(Replaced(u, entity, char), c)
        BY <4>1, <4>2, ReplacedPlain
      <4> QED BY <4>3 DEF u
    <3> QED BY <2>2, <3>1, <3>3
  <2> QED BY <2>1, <2>2
<1>6. Then(r, <<c>>) = Append(r, c) /\ Then(r, <<d>>) = Append(r, d) /\ Then(r, <<a, c>>) = Append(Append(r, a), c)
  <2>1. r \in Seq(WordToken)
    BY DEF r
  <2> QED BY <1>1, <2>1 DEF Then
<1>7. EndsPlain(Append(s, c)) /\ EndsPlain(Append(Append(s, a), c))
  <2>1. Append(s, a) \in Seq(WordToken)
    BY <1>1
  <2>2. \A u \in Seq(WordToken) : Append(u, c)[Len(Append(u, c))] = c
    BY <1>1
  <2> QED BY <1>2, <2>1, <2>2 DEF EndsPlain, a
<1>8. (IF y = entity THEN Append(r, d) ELSE Append(Append(r, a), c))
        = Then(r, IF y = entity THEN <<d>> ELSE <<a, c>>)
  BY <1>6
<1> QED BY <1>3, <1>4, <1>5, <1>6, <1>7, <1>8 DEF a, c, d, r

\* The spelling new is that of code but for an entity, which is a character.
EntityDecoded(code, new, entity, char) ==
    \A x \in Word :
      new[x] = IF code[x] = <<Text("&"), Text(entity)>> THEN <<Text(char)>> ELSE code[x]

LEMMA ReplacedCode ==
    ASSUME NEW code, Spelling(code), NEW new, NEW entity \in Word \ {"&"}, NEW char \in Word,
           EntityDecoded(code, new, entity, char), NEW t \in Seq(Word)
    PROVE  Replaced(Coded(code, t), entity, char) = Coded(new, t)
<1> DEFINE Good(u) == Replaced(Coded(code, u), entity, char) = Coded(new, u) /\ EndsPlain(Coded(code, u))
           P == {u \in Seq(Word) : Good(u)}
<1>1. /\ \A x \in Word : code[x] \in Seq(WordToken)
      /\ \A x \in Word : new[x] \in Seq(WordToken)
  <2>1. \A x \in Word : code[x] \in Seq(WordToken)
    BY SpellingType
  <2>2. <<Text(char)>> \in Seq(WordToken)
    BY DEF WordToken
  <2> QED BY <2>1, <2>2 DEF EntityDecoded
<1>2. Good(<<>>)
  BY CodedEmpty, ReplacedEmpty DEF EndsPlain
<1>3. ASSUME NEW x \in Word, NEW u \in Seq(Word), Good(u) PROVE Good(Append(u, x))
  <2> DEFINE s == Coded(code, u)  r == Coded(new, u)
  <2>1. s \in Seq(WordToken) /\ r \in Seq(WordToken)
    BY <1>1, CodedType
  <2>2. /\ Coded(code, Append(u, x)) = Then(s, code[x])
        /\ Coded(new, Append(u, x)) = Then(r, new[x])
    BY <1>1, CodedBack
  <2>3. Replaced(s, entity, char) = r /\ EndsPlain(s)
    BY <1>3
  <2> HIDE DEF s, r
  <2>4. ASSUME NEW y \in Word \ {"&"}
        PROVE  /\ Replaced(Then(s, <<Text(y)>>), entity, char) = Then(r, <<Text(y)>>)
               /\ Replaced(Then(s, <<Text("&"), Text(y)>>), entity, char)
                    = Then(r, IF y = entity THEN <<Text(char)>> ELSE <<Text("&"), Text(y)>>)
               /\ EndsPlain(Then(s, <<Text(y)>>)) /\ EndsPlain(Then(s, <<Text("&"), Text(y)>>))
    <3>1. Replaced(s, entity, char) \in Seq(WordToken)
      BY <2>1, <2>3
    <3> QED BY <2>1, <2>3, <3>1, ReplacedWord
  <2>5. CASE \E y \in Word \ {"&"} : code[x] = <<Text(y)>>
    <3>1. PICK y \in Word \ {"&"} : code[x] = <<Text(y)>>
      BY <2>5
    <3>2. code[x] # <<Text("&"), Text(entity)>>
      BY <3>1
    <3>3. new[x] = <<Text(y)>>
      BY <3>1, <3>2 DEF EntityDecoded
    <3> QED BY <2>2, <2>4, <3>1, <3>3
  <2>6. CASE \E y \in Word \ {"&"} : code[x] = <<Text("&"), Text(y)>>
    <3>1. PICK y \in Word \ {"&"} : code[x] = <<Text("&"), Text(y)>>
      BY <2>6
    <3>2. code[x] = <<Text("&"), Text(entity)>> <=> y = entity
      <4>1. Text(y) = Text(entity) <=> y = entity
        BY TokensDiffer
      <4> QED BY <3>1, <4>1
    <3>3. new[x] = IF y = entity THEN <<Text(char)>> ELSE <<Text("&"), Text(y)>>
      BY <3>1, <3>2 DEF EntityDecoded
    <3> QED BY <2>2, <2>4, <3>1, <3>3
  <2> QED BY <2>5, <2>6 DEF Spelling
<1> HIDE DEF Good
<1>4. <<>> \in P /\ \A x \in Word : \A u \in Seq(Word) : u \in P => Append(u, x) \in P
  BY <1>2, <1>3
<1> HIDE DEF P
<1>5. t \in P
  BY <1>4, BackInduction
<1> QED BY <1>5 DEF P, Good

EscapedCode ==
    [x \in Word |-> IF x = "<" THEN <<Text("&"), Text("lt;")>>
                    ELSE IF x = "&" THEN <<Text("&"), Text("amp;")>> ELSE <<Text(x)>>]
AnglesCode == [x \in Word |-> IF x = "&" THEN <<Text("&"), Text("amp;")>> ELSE <<Text(x)>>]
PlainCode == [x \in Word |-> <<Text(x)>>]

LEMMA Spellings == Spelling(EscapedCode) /\ Spelling(AnglesCode)
<1>1. "lt;" \in Word \ {"&"} /\ "amp;" \in Word \ {"&"}
  BY DEF Word
<1> QED BY <1>1 DEF Spelling, EscapedCode, AnglesCode

LEMMA TextsAppend ==
    ASSUME NEW x \in Word, NEW u \in Seq(Word)
    PROVE  Texts(Append(u, x)) = Append(Texts(u), Text(x)) /\ Texts(u) \in Seq(WordToken)
<1> DEFINE v == Append(u, x)  a == Texts(u)  b == Texts(v)  c == Append(a, Text(x))
<1>1. \A y \in Word : Text(y) \in WordToken
  BY DEF WordToken
<1>2. v \in Seq(Word) /\ Len(v) = Len(u) + 1 /\ v[Len(u) + 1] = x /\ \A i \in 1..Len(u) : v[i] = u[i]
  OBVIOUS
<1>3. a \in Seq(WordToken) /\ Len(a) = Len(u) /\ \A i \in 1..Len(u) : a[i] = Text(u[i])
  BY <1>1 DEF Texts
<1>4. b \in Seq(WordToken) /\ Len(b) = Len(v) /\ \A i \in 1..Len(v) : b[i] = Text(v[i])
  BY <1>1, <1>2 DEF Texts
<1> HIDE DEF v, a, b
<1>5. /\ c \in Seq(WordToken) /\ Len(c) = Len(a) + 1 /\ c[Len(a) + 1] = Text(x)
      /\ \A i \in 1..Len(a) : c[i] = a[i]
  BY <1>1, <1>3
<1> HIDE DEF c
<1>6. \A i \in 1..Len(v) : i \in 1..Len(u) \/ i = Len(u) + 1
  BY <1>2
<1>7. \A i \in 1..Len(b) : c[i] = b[i]
  BY <1>2, <1>3, <1>4, <1>5, <1>6
<1>8. Len(b) = Len(c)
  BY <1>2, <1>3, <1>4, <1>5
<1>9. b = c
  BY <1>4, <1>5, <1>7, <1>8, SameElements
<1> QED BY <1>3, <1>9 DEF v, a, b, c

LEMMA TextsOfNone == Texts(<<>>) = <<>>
BY DEF Texts

LEMMA EscapedIs ==
    ASSUME NEW t \in Seq(Word)
    PROVE  Escaped(t) = Coded(EscapedCode, t) /\ Escaped(t) \in Seq(WordToken)
<1>0. ASSUME NEW x \in Word, NEW y \in Word PROVE Texts(<<x, y>>) = <<Text(x), Text(y)>>
  <2>1. Append(<<>>, x) = <<x>> /\ Append(<<x>>, y) = <<x, y>> /\ <<x>> \in Seq(Word) /\ <<>> \in Seq(Word)
    BY AppendTwo
  <2>2. Texts(<<x>>) = Append(<<>>, Text(x))
    BY <2>1, TextsAppend, TextsOfNone
  <2>3. Texts(<<x, y>>) = Append(Texts(<<x>>), Text(y))
    BY <2>1, TextsAppend
  <2>4. Text(x) \in WordToken /\ Text(y) \in WordToken
    BY DEF WordToken
  <2>5. Append(<<>>, Text(x)) = <<Text(x)>> /\ Append(<<Text(x)>>, Text(y)) = <<Text(x), Text(y)>>
    BY <2>4, AppendTwo
  <2> QED BY <2>2, <2>3, <2>5
<1>1. Texts(<<"&", "lt;">>) = <<Text("&"), Text("lt;")>>
  BY <1>0 DEF Word
<1>2. Texts(<<"&", "amp;">>) = <<Text("&"), Text("amp;")>>
  BY <1>0 DEF Word
<1>3. \A i \in DOMAIN t : t[i] \in Word
  OBVIOUS
<1>4. \A i \in DOMAIN t :
        (CASE t[i] = "<" -> Texts(<<"&", "lt;">>)
           [] t[i] = "&" -> Texts(<<"&", "amp;">>)
           [] OTHER -> <<Text(t[i])>>) = EscapedCode[t[i]]
  BY <1>1, <1>2, <1>3 DEF EscapedCode
<1>5. Escaped(t) = Coded(EscapedCode, t)
  BY <1>4 DEF Escaped, Coded
<1>6. Coded(EscapedCode, t) \in Seq(WordToken)
  <2>1. \A x \in Word : EscapedCode[x] \in Seq(WordToken)
    BY Spellings, SpellingType
  <2> QED BY <2>1, CodedType
<1> QED BY <1>5, <1>6

LEMMA TextsAre ==
    ASSUME NEW t \in Seq(Word)
    PROVE  Texts(t) = Coded(PlainCode, t)
<1> DEFINE P == {u \in Seq(Word) : Texts(u) = Coded(PlainCode, u)}
<1>1. \A x \in Word : PlainCode[x] \in Seq(WordToken) /\ PlainCode[x] = <<Text(x)>> /\ Text(x) \in WordToken
  BY DEF PlainCode, WordToken
<1>2. <<>> \in P
  BY CodedEmpty, TextsOfNone
<1>3. ASSUME NEW x \in Word, NEW u \in Seq(Word), u \in P PROVE Append(u, x) \in P
  <2> DEFINE a == Texts(u)
  <2>1. Texts(Append(u, x)) = Append(a, Text(x)) /\ a \in Seq(WordToken)
    BY TextsAppend
  <2>2. Coded(PlainCode, Append(u, x)) = Then(Coded(PlainCode, u), PlainCode[x])
    BY <1>1, CodedBack
  <2>3. Coded(PlainCode, u) = a
    BY <1>3
  <2> HIDE DEF a
  <2>4. Then(a, <<Text(x)>>) = Append(a, Text(x))
    BY <1>1, <2>1 DEF Then
  <2>5. Append(u, x) \in Seq(Word)
    OBVIOUS
  <2> QED BY <1>1, <2>1, <2>2, <2>3, <2>4, <2>5
<1> HIDE DEF P
<1>4. t \in P
  BY <1>2, <1>3, BackInduction
<1> QED BY <1>4 DEF P

\* A title comes back as it was before it was escaped.
LEMMA TitleReadsBack ==
    ASSUME NEW t \in Seq(Word)
    PROVE  DecodeEntities(Escaped(t)) = Texts(t)
<1> DEFINE e == Coded(EscapedCode, t)  a == Coded(AnglesCode, t)
<1>1. \A x \in {"lt;", "gt;", "amp;", "quot;", "#39;", "apos;"} : x \in Word \ {"&"}
  BY DEF Word
<1>2. \A x \in {"<", ">", "&", "\"", "'"} : x \in Word
  BY DEF Word
<1>3. Escaped(t) = e /\ Texts(t) = Coded(PlainCode, t)
  BY EscapedIs, TextsAre
<1> HIDE DEF e, a
<1>4. Replaced(e, "lt;", "<") = a
  <2>1. EntityDecoded(EscapedCode, AnglesCode, "lt;", "<")
    BY TokensDiffer DEF EntityDecoded, AnglesCode, EscapedCode
  <2> DEFINE lt == "lt;"  angle == "<"
  <2>2. lt \in Word \ {"&"} /\ angle \in Word
    BY <1>1, <1>2
  <2>4. EntityDecoded(EscapedCode, AnglesCode, lt, angle)
    BY <2>1
  <2> HIDE DEF lt, angle
  <2>3. Replaced(Coded(EscapedCode, t), lt, angle) = Coded(AnglesCode, t)
    BY <2>2, <2>4, Spellings, ReplacedCode
  <2> QED BY <2>3 DEF e, a, lt, angle
<1>5. ASSUME NEW entity \in Word \ {"&"}, NEW char \in Word, EntityDecoded(AnglesCode, AnglesCode, entity, char)
      PROVE  Replaced(a, entity, char) = a
  <2>1. Spelling(AnglesCode)
    BY Spellings
  <2>2. Replaced(Coded(AnglesCode, t), entity, char) = Coded(AnglesCode, t)
    BY <1>5, <2>1, ReplacedCode
  <2> QED BY <2>2 DEF a
<1>6. ASSUME NEW entity \in {"gt;", "quot;", "#39;", "apos;"}, NEW char \in Word
      PROVE  Replaced(a, entity, char) = a
  <2>1. EntityDecoded(AnglesCode, AnglesCode, entity, char)
    BY TokensDiffer DEF EntityDecoded, AnglesCode
  <2>2. entity \in Word \ {"&"}
    BY <1>1
  <2> QED BY <2>1, <2>2, <1>5
<1>7. Replaced(a, "amp;", "&") = Coded(PlainCode, t)
  <2>1. EntityDecoded(AnglesCode, PlainCode, "amp;", "&")
    BY TokensDiffer DEF EntityDecoded, AnglesCode, PlainCode
  <2> DEFINE amp == "amp;"  and == "&"
  <2>2. amp \in Word \ {and} /\ and \in Word
    BY <1>1, <1>2
  <2>4. EntityDecoded(AnglesCode, PlainCode, amp, and)
    BY <2>1
  <2> HIDE DEF amp
  <2>5. amp \in Word \ {"&"}
    BY <2>2
  <2> HIDE DEF and
  <2>3. Replaced(Coded(AnglesCode, t), amp, and) = Coded(PlainCode, t)
    BY <2>2, <2>4, <2>5, Spellings, ReplacedCode
  <2> QED BY <2>3 DEF a, amp, and
<1>8. /\ Replaced(a, "gt;", ">") = a /\ Replaced(a, "quot;", "\"") = a
      /\ Replaced(a, "#39;", "'") = a /\ Replaced(a, "apos;", "'") = a
  BY <1>2, <1>6
<1> QED BY <1>3, <1>4, <1>7, <1>8 DEF DecodeEntities

-----------------------------------------------------------------------------
(* What is read from the block of an entry *)

LEMMA ElementType ==
    ASSUME NEW S, NEW p, NEW n, Start(p, n) \in S, End(p, n) \in S, NEW c \in Seq(S)
    PROVE  Element(p, n, c) \in Seq(S)
<1>1. <<>> \in Seq(S)
  OBVIOUS
<1> QED BY <1>1, ElementAround

LEMMA TagElement ==
    ASSUME NEW s, NEW p \in {"yt:", Bare}, NEW n, NEW c \in Seq(TextToken),
           Start(p, n) \in FieldToken, End(p, n) \in FieldToken,
           \A q \in {"yt:", Bare} : Alone(s, Element(p, n, c), Start(q, n))
    PROVE  Tag(s, n) = {c}
<1>1. Between(s, Start(p, n), End(p, n)) = {c}
  BY AloneElement
<1>2. CASE p = "yt:"
  BY <1>1, <1>2 DEF Tag, OrElse
<1>3. CASE p = Bare
  <2> DEFINE b == Start("yt:", n)  N == FieldToken \ {b}
  <2>1. Start(p, n) \in N /\ End(p, n) \in N /\ TextToken \subseteq N
    <3>1. TextToken \subseteq FieldToken
      BY DEF FieldToken, VideoToken
    <3>2. Bare # "yt:"
      BY DEF Bare
    <3> QED BY <1>3, <3>1, <3>2, TokensDiffer DEF TextToken
  <2>2. c \in Seq(N)
    BY <2>1, SeqMonotonic
  <2>3. Element(p, n, c) \in Seq(N)
    BY <2>1, <2>2, ElementType
  <2>4. Alone(s, Element(p, n, c), b)
    OBVIOUS
  <2>5. s \in Seq(FieldToken \ {b})
    BY <2>3, <2>4, AloneNone
  <2>6. Between(s, b, End("yt:", n)) = {}
    BY <2>5, BetweenNone
  <2> QED BY <1>1, <1>3, <2>6 DEF Tag, OrElse
<1> QED BY <1>2, <1>3

LEMMA TagNone ==
    ASSUME NEW s, NEW n, NEW w,
           \A q \in {"yt:", Bare} : Alone(s, w, Start(q, n)) /\ w \in Seq(FieldToken \ {Start(q, n)})
    PROVE  Tag(s, n) = {}
<1>1. \A q \in {"yt:", Bare} : Between(s, Start(q, n), End(q, n)) = {}
  <2> TAKE q \in {"yt:", Bare}
  <2>1. s \in Seq(FieldToken \ {Start(q, n)})
    BY AloneNone
  <2> QED BY <2>1, BetweenNone
<1> QED BY <1>1 DEF Tag, OrElse

LEMMA VideoRead ==
    ASSUME NEW f \in Segments, NEW m, VideoIs(f.video, m)
    PROVE  WellFormed(Tag(BlockOf(f), "videoId"), Videos) = m \intersect Videos
<1> DEFINE B == BlockOf(f)  w == f.video
<1>1. \A q \in {"yt:", Bare} : Alone(B, w, Start(q, "videoId"))
  <2> TAKE q \in {"yt:", Bare}
  <2>1. Start(q, "videoId") \notin ChannelToken \union NamedToken("title") \union NamedToken("published")
                                     \union NamedToken("updated")
    BY TokensDiffer DEF ChannelToken, NamedToken, TextToken, Tags
  <2> QED BY <2>1, SegmentsAlone
<1> HIDE DEF B
<1>2. CASE w = <<>> /\ m = {}
  <2>1. Tag(B, "videoId") = {}
    <3>1. \A q \in {"yt:", Bare} : w \in Seq(FieldToken \ {Start(q, "videoId")})
      BY <1>2
    <3> QED BY <1>1, <3>1, TagNone
  <2> QED BY <1>2, <2>1 DEF WellFormed, B
<1>3. ASSUME NEW v \in Videos \union Malformed, NEW p \in {"yt:", Bare},
             w = Element(p, "videoId", <<Text(v)>>), m = {v}
      PROVE  WellFormed(Tag(B, "videoId"), Videos) = m \intersect Videos
  <2>1. <<Text(v)>> \in Seq(TextToken)
    <3>1. Text(v) \in TextToken
      BY DEF TextToken, FieldValue
    <3> QED BY <3>1
  <2>2. Start(p, "videoId") \in FieldToken /\ End(p, "videoId") \in FieldToken
    BY DEF FieldToken, VideoToken, Tags
  <2>3. \A q \in {"yt:", Bare} : Alone(B, Element(p, "videoId", <<Text(v)>>), Start(q, "videoId"))
    BY <1>1, <1>3
  <2>4. Tag(B, "videoId") = {<<Text(v)>>}
    BY <2>1, <2>2, <2>3, TagElement
  <2> QED BY <1>3, <2>4, WellFormedOne
<1> QED BY <1>2, <1>3 DEF VideoIs, B

LEMMA TitleRead ==
    ASSUME NEW f \in Segments, NEW m, TitleIs(f.title, m)
    PROVE  /\ m = {} => Tag(BlockOf(f), "title") = {}
           /\ m # {} => \E t \in Titles : Tag(BlockOf(f), "title") = {Escaped(t)} /\ m = {Texts(t)}
<1> DEFINE B == BlockOf(f)  w == f.title
<1>1. \A q \in {"yt:", Bare} : Alone(B, w, Start(q, "title"))
  <2> TAKE q \in {"yt:", Bare}
  <2>1. Start(q, "title") \notin VideoToken \union ChannelToken \union NamedToken("published")
                                     \union NamedToken("updated")
    BY TokensDiffer DEF VideoToken, ChannelToken, NamedToken, TextToken, Tags
  <2> QED BY <2>1, SegmentsAlone
<1> HIDE DEF B
<1>2. CASE w = <<>> /\ m = {}
  <2>1. Tag(B, "title") = {}
    <3>1. \A q \in {"yt:", Bare} : w \in Seq(FieldToken \ {Start(q, "title")})
      BY <1>2
    <3> QED BY <1>1, <3>1, TagNone
  <2> QED BY <1>2, <2>1 DEF B
<1>3. ASSUME NEW t \in Titles, w = Element(Bare, "title", Escaped(t)), m = {Texts(t)}
      PROVE  Tag(B, "title") = {Escaped(t)}
  <2>1. Escaped(t) \in Seq(TextToken)
    <3>1. t \in Seq(Word)
      BY FeedAssumption, SeqMonotonic DEF Word
    <3>2. WordToken \subseteq TextToken
      BY DEF WordToken, TextToken, FieldValue
    <3> QED BY <3>1, <3>2, EscapedIs, SeqMonotonic
  <2>2. Start(Bare, "title") \in FieldToken /\ End(Bare, "title") \in FieldToken
    BY DEF FieldToken, NamedToken, Tags
  <2>3. \A q \in {"yt:", Bare} : Alone(B, Element(Bare, "title", Escaped(t)), Start(q, "title"))
    BY <1>1, <1>3
  <2> QED BY <2>1, <2>2, <2>3, TagElement
<1> QED BY <1>2, <1>3 DEF TitleIs, B

LEMMA TimeRead ==
    ASSUME NEW f \in Segments, NEW n \in {"published", "updated"}, NEW m, TimeIs(n, f[n], m)
    PROVE  Tag(BlockOf(f), n) = m
<1> DEFINE B == BlockOf(f)  w == f[n]
<1>1. \A q \in {"yt:", Bare} : Alone(B, w, Start(q, n))
  <2> TAKE q \in {"yt:", Bare}
  <2>1. CASE n = "published"
    <3>1. Start(q, "published") \notin VideoToken \union ChannelToken \union NamedToken("title")
                                         \union NamedToken("updated")
      BY TokensDiffer DEF VideoToken, ChannelToken, NamedToken, TextToken, Tags
    <3> QED BY <2>1, <3>1, SegmentsAlone
  <2>2. CASE n = "updated"
    <3>1. Start(q, "updated") \notin VideoToken \union ChannelToken \union NamedToken("title")
                                         \union NamedToken("published")
      BY TokensDiffer DEF VideoToken, ChannelToken, NamedToken, TextToken, Tags
    <3> QED BY <2>2, <3>1, SegmentsAlone
  <2> QED BY <2>1, <2>2
<1> HIDE DEF B
<1>2. CASE w = <<>> /\ m = {}
  <2>1. Tag(B, n) = {}
    <3>1. \A q \in {"yt:", Bare} : w \in Seq(FieldToken \ {Start(q, n)})
      BY <1>2
    <3> QED BY <1>1, <3>1, TagNone
  <2> QED BY <1>2, <2>1 DEF B
<1>3. ASSUME NEW t \in Times, w = Element(Bare, n, <<Text(t)>>), m = {<<Text(t)>>}
      PROVE  Tag(B, n) = m
  <2>1. <<Text(t)>> \in Seq(TextToken)
    BY DEF TextToken, FieldValue
  <2>2. Start(Bare, n) \in FieldToken /\ End(Bare, n) \in FieldToken
    BY DEF FieldToken, NamedToken, Tags
  <2>3. \A q \in {"yt:", Bare} : Alone(B, Element(Bare, n, <<Text(t)>>), Start(q, n))
    BY <1>1, <1>3
  <2>4. Tag(B, n) = {<<Text(t)>>}
    BY <2>1, <2>2, <2>3, TagElement
  <2> QED BY <1>3, <2>4
<1> QED BY <1>2, <1>3 DEF TimeIs, B

LEMMA AlonePart ==
    ASSUME NEW s, NEW b, NEW a \in Seq(FieldToken), NEW y \in Seq(FieldToken \ {b}), Alone(s, Then(a, y), b)
    PROVE  Alone(s, a, b)
<1>1. PICK x, z \in Seq(FieldToken \ {b}) : s = Then(x, Then(Then(a, y), z))
  BY DEF Alone
<1>2. y \in Seq(FieldToken) /\ z \in Seq(FieldToken)
  BY <1>1, SeqMonotonic
<1>3. Then(Then(a, y), z) = Then(a, Then(y, z))
  BY <1>2, ThenAssociative
<1>4. Then(y, z) \in Seq(FieldToken \ {b})
  BY <1>1, ThenType
<1> QED BY <1>1, <1>3, <1>4 DEF Alone

ChannelStart == Start("yt:", "channelId")
ChannelLink == Start(Bare, "/channel/")
ChannelQuery == Start(Bare, "channel_id=")
ChannelElement(c) == Element("yt:", "channelId", <<Text(c)>>)

LEMMA ChannelTokens ==
    /\ ChannelStart \in FieldToken /\ ChannelLink \in FieldToken /\ End("yt:", "channelId") \in FieldToken
    /\ ChannelQuery \notin FieldToken /\ ChannelStart # ChannelLink /\ End("yt:", "channelId") # ChannelLink
    /\ ChannelLink \notin VideoToken \union NamedToken("title") \union NamedToken("published")
                          \union NamedToken("updated")
    /\ \A q \in {"yt:", Bare} :
         /\ Start(q, "channelId") \notin VideoToken \union NamedToken("title") \union NamedToken("published")
                                         \union NamedToken("updated")
         /\ Start(q, "channelId") # ChannelLink
    /\ \A c \in Channels \union Malformed :
         /\ Text(c) \in TextToken /\ Text(c) \in FieldToken
         /\ \A p, n : Text(c) # Start(p, n)
<1>1. ChannelStart \in FieldToken /\ ChannelLink \in FieldToken /\ End("yt:", "channelId") \in FieldToken
  BY DEF ChannelStart, ChannelLink, FieldToken, ChannelToken, Tags
<1>2. ChannelStart # ChannelLink /\ End("yt:", "channelId") # ChannelLink
  BY TokensDiffer DEF ChannelStart, ChannelLink
<1>3. ChannelLink \notin VideoToken \union NamedToken("title") \union NamedToken("published")
                         \union NamedToken("updated")
  BY TokensDiffer DEF ChannelLink, VideoToken, NamedToken, TextToken, Tags
<1>4. ChannelQuery \notin FieldToken
  BY TokensDiffer DEF ChannelQuery, FieldToken, VideoToken, ChannelToken, NamedToken, TextToken, Tags
<1>5. ASSUME NEW q \in {"yt:", Bare}
      PROVE  /\ Start(q, "channelId") \notin VideoToken \union NamedToken("title") \union NamedToken("published")
                                         \union NamedToken("updated")
             /\ Start(q, "channelId") # ChannelLink
  BY TokensDiffer DEF ChannelLink, VideoToken, NamedToken, TextToken, Tags
<1>6. ASSUME NEW c \in Channels \union Malformed
      PROVE  Text(c) \in TextToken /\ Text(c) \in FieldToken /\ \A p, n : Text(c) # Start(p, n)
  BY TokensDiffer DEF TextToken, FieldValue, FieldToken, VideoToken
<1> QED BY <1>1, <1>2, <1>3, <1>4, <1>5, <1>6

LEMMA ChannelElementIs ==
    ASSUME NEW c \in Channels \union Malformed
    PROVE  /\ ChannelElement(c) \in Seq(FieldToken \ {ChannelLink}) /\ ChannelElement(c) \in Seq(FieldToken)
           /\ ChannelElement(c)
                = Then(<<>>, Then(<<ChannelStart>>, Then(<<Text(c)>>, <<End("yt:", "channelId")>>)))
<1> DEFINE N == FieldToken \ {ChannelLink}
           a == <<ChannelStart>>  b == <<Text(c)>>  d == <<End("yt:", "channelId")>>  O == <<>>
<1>1. Text(c) \in N /\ ChannelStart \in N /\ End("yt:", "channelId") \in N
  BY ChannelTokens DEF ChannelLink
<1>2. a \in Seq(N) /\ b \in Seq(N) /\ d \in Seq(N) /\ O \in Seq(N)
  BY <1>1
<1>3. ChannelElement(c) = Then(Then(a, b), d)
  BY ElementIs DEF ChannelElement, ChannelStart
<1> HIDE DEF a, b, d
<1>4. Then(Then(a, b), d) = Then(a, Then(b, d)) /\ Then(Then(a, b), d) \in Seq(N)
  <2>1. Then(a, b) \in Seq(N)
    BY <1>2, ThenType
  <2> QED BY <1>2, <2>1, ThenAssociative, ThenType
<1>5. Then(O, Then(a, Then(b, d))) = Then(a, Then(b, d))
  BY <1>3, <1>4, ThenEmpty
<1>6. ChannelElement(c) \in Seq(FieldToken)
  BY <1>3, <1>4, SeqMonotonic
<1> QED BY <1>3, <1>4, <1>5, <1>6 DEF a, b, d

LEMMA ChannelRead ==
    ASSUME NEW f \in Segments, NEW m, ChannelIs(f.channel, m)
    PROVE  OrElse(WellFormed(Tag(BlockOf(f), "channelId"), Channels), FindChannelId(BlockOf(f)))
             = m \intersect Channels
<1> DEFINE B == BlockOf(f)  w == f.channel
           Found == OrElse(WellFormed(Tag(B, "channelId"), Channels), FindChannelId(B))
<1>1. Alone(B, w, ChannelLink) /\ \A q \in {"yt:", Bare} : Alone(B, w, Start(q, "channelId"))
  BY ChannelTokens, SegmentsAlone
<1>2. Alone(B, w, ChannelStart) /\ Alone(B, w, ChannelQuery)
  <2>1. ChannelQuery \notin VideoToken \union NamedToken("title") \union NamedToken("published")
                            \union NamedToken("updated")
    BY ChannelTokens DEF FieldToken
  <2> QED BY <1>1, <2>1, SegmentsAlone DEF ChannelStart
<1>3. w \in Seq(FieldToken)
  BY SeqMonotonic DEF Segments, FieldToken
<1>9. ChannelIs(w, m)
  OBVIOUS
<1> HIDE DEF B, w
<1>4. Marked(B, ChannelQuery) = {}
  <2>1. FieldToken \ {ChannelQuery} = FieldToken
    BY ChannelTokens
  <2>2. w \in Seq(FieldToken \ {ChannelQuery})
    BY <1>3, <2>1
  <2>3. B \in Seq(FieldToken \ {ChannelQuery})
    BY <1>2, <2>2, AloneNone
  <2> QED BY <2>3, MarkedNone
<1>5. Found = OrElse(WellFormed(Tag(B, "channelId"), Channels),
                     OrElse(Marked(B, ChannelStart), Marked(B, ChannelLink)))
  BY <1>4 DEF FindChannelId, OrElse, ChannelStart, ChannelLink, ChannelQuery
<1>6. /\ WellFormed({}, Channels) = {}
      /\ \A d : WellFormed({<<Text(d)>>}, Channels) = {d} \intersect Channels
  BY WellFormedOne DEF WellFormed
<1> HIDE DEF Found
<1>7. ASSUME NEW b, w \in Seq(FieldToken \ {b}), Alone(B, w, b) PROVE Marked(B, b) = {}
  <2>1. B \in Seq(FieldToken \ {b})
    BY <1>7, AloneNone
  <2> QED BY <2>1, MarkedNone
<1>10. ASSUME w = <<>>, m = {} PROVE Found = m \intersect Channels
  <2>1. \A b : w \in Seq(FieldToken \ {b})
    BY <1>10
  <2>2. Tag(B, "channelId") = {}
    BY <1>1, <2>1, TagNone
  <2>3. Marked(B, ChannelStart) = {} /\ Marked(B, ChannelLink) = {}
    BY <1>1, <1>2, <1>7, <2>1
  <2> QED BY <1>5, <1>6, <1>10, <2>2, <2>3 DEF OrElse
<1>11. ASSUME NEW c \in Channels \union Malformed, w = ChannelElement(c), m = {c}
       PROVE  Found = m \intersect Channels
  <2>1. Marked(B, ChannelLink) = {}
    BY <1>1, <1>7, <1>11, ChannelElementIs
  <2>2. MarkWithin(w, ChannelStart, c)
    <3>1. <<>> \in Seq(FieldToken \ {ChannelStart}) /\ <<End("yt:", "channelId")>> \in Seq(FieldToken)
      BY ChannelTokens
    <3> QED BY <1>11, <3>1, ChannelElementIs DEF MarkWithin
  <2>3. Marked(B, ChannelStart) = {c} \intersect Channels
    BY <1>2, <2>2, ChannelTokens, AloneMark
  <2>4. Tag(B, "channelId") = {<<Text(c)>>}
    <3>1. <<Text(c)>> \in Seq(TextToken)
      BY ChannelTokens
    <3>2. \A q \in {"yt:", Bare} : Alone(B, Element("yt:", "channelId", <<Text(c)>>), Start(q, "channelId"))
      BY <1>1, <1>11 DEF ChannelElement
    <3> QED BY <3>1, <3>2, ChannelTokens, TagElement DEF ChannelStart
  <2> QED BY <1>5, <1>6, <1>11, <2>1, <2>3, <2>4 DEF OrElse
<1>12. ASSUME NEW c \in Channels, w = <<ChannelLink, Text(c)>>, m = {c}
       PROVE  Found = m \intersect Channels
  <2>1. \A q \in {"yt:", Bare} : w \in Seq(FieldToken \ {Start(q, "channelId")})
    <3> TAKE q \in {"yt:", Bare}
    <3>1. Text(c) \in FieldToken \ {Start(q, "channelId")} /\ ChannelLink \in FieldToken \ {Start(q, "channelId")}
      BY ChannelTokens
    <3> QED BY <1>12, <3>1
  <2>2. Tag(B, "channelId") = {}
    BY <1>1, <2>1, TagNone
  <2>3. Marked(B, ChannelStart) = {}
    BY <1>2, <1>7, <2>1 DEF ChannelStart
  <2>4. MarkWithin(w, ChannelLink, c)
    <3>1. w = Then(<<>>, Then(<<ChannelLink>>, Then(<<Text(c)>>, <<>>)))
      BY <1>12 DEF Then
    <3>2. <<>> \in Seq(FieldToken \ {ChannelLink}) /\ <<>> \in Seq(FieldToken)
      OBVIOUS
    <3> QED BY <3>1, <3>2 DEF MarkWithin
  <2>5. Marked(B, ChannelLink) = {c} \intersect Channels
    BY <1>1, <2>4, ChannelTokens, AloneMark
  <2> QED BY <1>5, <1>6, <1>12, <2>2, <2>3, <2>5 DEF OrElse
<1>13. ASSUME NEW c \in Channels, NEW d \in Malformed,
              w = ChannelElement(d) \o <<ChannelLink, Text(c)>>, m = {c}
       PROVE  Found = m \intersect Channels
  <2> DEFINE y == <<ChannelLink, Text(c)>>  e == ChannelElement(d)
  <2>1. w = Then(e, y) /\ d \notin Channels
    BY <1>13, FeedAssumption DEF Then
  <2>2. y \in Seq(FieldToken)
    BY ChannelTokens
  <2>3. \A q \in {"yt:", Bare} : y \in Seq(FieldToken \ {Start(q, "channelId")})
    <3> TAKE q \in {"yt:", Bare}
    <3>1. Text(c) \in FieldToken \ {Start(q, "channelId")} /\ ChannelLink \in FieldToken \ {Start(q, "channelId")}
      BY ChannelTokens
    <3> QED BY <3>1
  <2>4. e \in Seq(FieldToken) /\ e \in Seq(FieldToken \ {ChannelLink})
    BY ChannelElementIs
  <2> HIDE DEF y
  <2>5. \A q \in {"yt:", Bare} : Alone(B, e, Start(q, "channelId"))
    BY <1>1, <2>1, <2>3, <2>4, AlonePart
  <2>6. Tag(B, "channelId") = {<<Text(d)>>}
    <3>1. <<Text(d)>> \in Seq(TextToken)
      BY ChannelTokens
    <3>2. \A q \in {"yt:", Bare} : Alone(B, Element("yt:", "channelId", <<Text(d)>>), Start(q, "channelId"))
      BY <2>5 DEF ChannelElement
    <3> QED BY <3>1, <3>2, ChannelTokens, TagElement DEF ChannelStart
  <2>7. Marked(B, ChannelStart) = {d} \intersect Channels
    <3>1. <<>> \in Seq(FieldToken \ {ChannelStart}) /\ <<End("yt:", "channelId")>> \in Seq(FieldToken)
      BY ChannelTokens
    <3>2. MarkWithin(e, ChannelStart, d)
      BY <3>1, ChannelElementIs DEF MarkWithin
    <3>3. Alone(B, e, ChannelStart)
      BY <2>5 DEF ChannelStart
    <3> QED BY <3>2, <3>3, ChannelTokens, AloneMark
  <2>8. Marked(B, ChannelLink) = {c} \intersect Channels
    <3>1. y = Then(<<ChannelLink>>, Then(<<Text(c)>>, <<>>))
      BY DEF Then, y
    <3>2. <<>> \in Seq(FieldToken)
      OBVIOUS
    <3>3. MarkWithin(w, ChannelLink, c)
      BY <2>1, <2>4, <3>1, <3>2 DEF MarkWithin
    <3> QED BY <1>1, <3>3, ChannelTokens, AloneMark
  <2> QED BY <1>5, <1>6, <1>13, <2>1, <2>6, <2>7, <2>8 DEF OrElse
<1>14. Found = m \intersect Channels
  <2>1. CASE \E c \in Channels \union Malformed : w = Element("yt:", "channelId", <<Text(c)>>) /\ m = {c}
    BY <1>11, <2>1 DEF ChannelElement
  <2>2. CASE \E c \in Channels : w = <<Start(Bare, "/channel/"), Text(c)>> /\ m = {c}
    BY <1>12, <2>2 DEF ChannelLink
  <2>3. CASE \E c \in Channels, d \in Malformed :
               w = Element("yt:", "channelId", <<Text(d)>>) \o <<Start(Bare, "/channel/"), Text(c)>> /\ m = {c}
    BY <1>13, <2>3 DEF ChannelElement, ChannelLink
  <2> QED BY <1>9, <1>10, <2>1, <2>2, <2>3 DEF ChannelIs
<1> QED BY <1>14 DEF Found, B

\* What the writer has meant by an entry.
ClosedAs(e) ==
    IF e.video \intersect Videos = {} \/ e.channel \intersect Channels = {} THEN <<>>
    ELSE <<[kind |-> Kind(e.published, e.updated), channel |-> e.channel, video |-> e.video,
            title |-> IF e.title = {} THEN <<>> ELSE CHOOSE t \in e.title : TRUE,
            ts |-> OrElse(e.updated, e.published)]>>

LEMMA EntryRead ==
    ASSUME NEW f \in Segments, NEW e, FieldsAre(f, e)
    PROVE  Entry(BlockOf(f)) = ClosedAs(e)
<1> DEFINE B == BlockOf(f)
           video == WellFormed(Tag(B, "videoId"), Videos)
           channel == OrElse(WellFormed(Tag(B, "channelId"), Channels), FindChannelId(B))
           title == IF Tag(B, "title") = {} THEN <<>> ELSE DecodeEntities(CHOOSE t \in Tag(B, "title") : TRUE)
           meant == IF e.title = {} THEN <<>> ELSE CHOOSE t \in e.title : TRUE
<1>1. video = e.video \intersect Videos
  BY VideoRead DEF FieldsAre
<1>2. channel = e.channel \intersect Channels
  BY ChannelRead DEF FieldsAre
<1>3. Tag(B, "published") = e.published /\ Tag(B, "updated") = e.updated
  <2>1. TimeIs("published", f["published"], e.published) /\ TimeIs("updated", f["updated"], e.updated)
    BY DEF FieldsAre
  <2> QED BY <2>1, TimeRead
<1>4. title = meant
  <2> DEFINE m == e.title
  <2>0. TitleIs(f.title, m)
    BY DEF FieldsAre
  <2>1. CASE m = {}
    <3>1. Tag(B, "title") = {}
      BY <2>0, <2>1, TitleRead
    <3> QED BY <2>1, <3>1
  <2>2. CASE m # {}
    <3>1. PICK t \in Titles : Tag(B, "title") = {Escaped(t)} /\ m = {Texts(t)}
      BY <2>0, <2>2, TitleRead
    <3>2. t \in Seq(Word)
      BY FeedAssumption, SeqMonotonic DEF Word
    <3>3. title = DecodeEntities(Escaped(t))
      BY <3>1
    <3>4. meant = Texts(t)
      BY <3>1
    <3> QED BY <3>2, <3>3, <3>4, TitleReadsBack
  <2> QED BY <2>1, <2>2
<1>5. \/ e.video = {} \/ \E v : e.video = {v}
  BY DEF FieldsAre, VideoIs
<1>6. \/ e.channel = {} \/ \E v : e.channel = {v}
  BY DEF FieldsAre, ChannelIs
<1>7. /\ video # {} => video = e.video
      /\ channel # {} => channel = e.channel
  BY <1>1, <1>2, <1>5, <1>6
<1>8. Entry(B) =
        IF video = {} \/ channel = {} THEN <<>>
        ELSE <<[kind |-> Kind(Tag(B, "published"), Tag(B, "updated")), channel |-> channel, video |-> video,
                title |-> title, ts |-> OrElse(Tag(B, "updated"), Tag(B, "published"))]>>
  BY DEF Entry
<1>9. ClosedAs(e) =
        IF e.video \intersect Videos = {} \/ e.channel \intersect Channels = {} THEN <<>>
        ELSE <<[kind |-> Kind(e.published, e.updated), channel |-> e.channel, video |-> e.video,
                title |-> meant, ts |-> OrElse(e.updated, e.published)]>>
  BY DEF ClosedAs
<1> HIDE DEF B, video, channel, title, meant
<1>10. Entry(B) = ClosedAs(e)
  BY <1>1, <1>2, <1>3, <1>4, <1>7, <1>8, <1>9
<1> QED BY <1>10 DEF B

-----------------------------------------------------------------------------
(* Cutting a document up *)

AtRest(bs) == [open |-> FALSE, block |-> <<>>, blocks |-> bs]
Within(b, bs) == [open |-> TRUE, block |-> b, blocks |-> bs]

LEMMA CutOpens ==
    ASSUME NEW bs, NEW start, NEW end
    PROVE  CutAtToken(AtRest(bs), start, start, end) = Within(<<>>, bs)
BY DEF CutAtToken, AtRest, Within

LEMMA CutPasses ==
    ASSUME NEW bs, NEW start, NEW end, NEW c, c # start
    PROVE  CutAtToken(AtRest(bs), c, start, end) = AtRest(bs)
BY DEF CutAtToken, AtRest

LEMMA CutCloses ==
    ASSUME NEW b, NEW bs, NEW start, NEW end
    PROVE  CutAtToken(Within(b, bs), end, start, end) = AtRest(Append(bs, b))
BY DEF CutAtToken, AtRest, Within

LEMMA CutKeeps ==
    ASSUME NEW b, NEW bs, NEW start, NEW end, NEW c, c # end
    PROVE  CutAtToken(Within(b, bs), c, start, end) = Within(Append(b, c), bs)
BY DEF CutAtToken, Within

LEMMA CutStart ==
    ASSUME NEW S, NEW start \in S, NEW end, NEW s \in Seq(S), NEW bs, CutUp(s, start, end) = AtRest(bs)
    PROVE  CutUp(Append(s, start), start, end) = Within(<<>>, bs)
<1>1. CutUp(Append(s, start), start, end) = CutAtToken(CutUp(s, start, end), start, start, end)
  BY CutUpAppend
<1>2. CutAtToken(AtRest(bs), start, start, end) = Within(<<>>, bs)
  BY ONLY CutOpens
<1> QED BY <1>1, <1>2

LEMMA CutEnd ==
    ASSUME NEW S, NEW start, NEW end \in S, NEW s \in Seq(S), NEW b, NEW bs,
           CutUp(s, start, end) = Within(b, bs)
    PROVE  CutUp(Append(s, end), start, end) = AtRest(Append(bs, b))
<1>1. CutUp(Append(s, end), start, end) = CutAtToken(CutUp(s, start, end), end, start, end)
  BY CutUpAppend
<1>2. CutAtToken(Within(b, bs), end, start, end) = AtRest(Append(bs, b))
  BY ONLY CutCloses
<1> QED BY <1>1, <1>2

LEMMA CutOutside ==
    ASSUME NEW S, NEW start, NEW end, NEW s \in Seq(S), NEW bs, CutUp(s, start, end) = AtRest(bs),
           NEW w \in Seq(S \ {start})
    PROVE  CutUp(Then(s, w), start, end) = AtRest(bs)
<1> DEFINE N == S \ {start}
           P == {u \in Seq(N) : CutUp(Then(s, u), start, end) = AtRest(bs)}
<1>1. <<>> \in P
  BY ThenEmpty
<1>2. ASSUME NEW c \in N, NEW u \in Seq(N), u \in P PROVE Append(u, c) \in P
  <2>1. u \in Seq(S) /\ c \in S /\ c # start
    BY SeqMonotonic
  <2>2. Then(s, u) \in Seq(S)
    BY <2>1, ThenType
  <2>3. Then(s, Append(u, c)) = Append(Then(s, u), c)
    BY <2>1 DEF Then
  <2>4. CutUp(Append(Then(s, u), c), start, end) = CutAtToken(CutUp(Then(s, u), start, end), c, start, end)
    BY <2>1, <2>2, CutUpAppend
  <2>5. CutAtToken(AtRest(bs), c, start, end) = AtRest(bs)
    BY ONLY <2>1, CutPasses
  <2>6. Append(u, c) \in Seq(N)
    BY <1>2, AppendProperties
  <2> QED BY <1>2, <2>3, <2>4, <2>5, <2>6
<1> HIDE DEF P
<1>3. w \in P
  BY <1>1, <1>2, BackInduction
<1> QED BY <1>3 DEF P

LEMMA CutInside ==
    ASSUME NEW S, NEW start, NEW end, NEW s \in Seq(S), NEW b \in Seq(S), NEW bs,
           CutUp(s, start, end) = Within(b, bs), NEW w \in Seq(S \ {end})
    PROVE  CutUp(Then(s, w), start, end) = Within(Then(b, w), bs)
<1> DEFINE N == S \ {end}
           P == {u \in Seq(N) : CutUp(Then(s, u), start, end) = Within(Then(b, u), bs)}
<1>1. <<>> \in P
  BY ThenEmpty
<1>2. ASSUME NEW c \in N, NEW u \in Seq(N), u \in P PROVE Append(u, c) \in P
  <2>1. u \in Seq(S) /\ c \in S /\ c # end
    BY SeqMonotonic
  <2>2. Then(s, u) \in Seq(S) /\ Then(b, u) \in Seq(S)
    BY <2>1, ThenType
  <2>3. Then(s, Append(u, c)) = Append(Then(s, u), c) /\ Then(b, Append(u, c)) = Append(Then(b, u), c)
    BY <2>1 DEF Then
  <2>4. CutUp(Append(Then(s, u), c), start, end) = CutAtToken(CutUp(Then(s, u), start, end), c, start, end)
    BY <2>1, <2>2, CutUpAppend
  <2>5. CutAtToken(Within(Then(b, u), bs), c, start, end) = Within(Append(Then(b, u), c), bs)
    <3> DEFINE x == Then(b, u)
    <3> HIDE DEF x
    <3>1. CutAtToken(Within(x, bs), c, start, end) = Within(Append(x, c), bs)
      BY ONLY <2>1, CutKeeps
    <3> QED BY ONLY <3>1 DEF x
  <2>6. Append(u, c) \in Seq(N)
    BY <1>2, AppendProperties
  <2> QED BY <1>2, <2>3, <2>4, <2>5, <2>6
<1> HIDE DEF P
<1>3. w \in P
  BY <1>1, <1>2, BackInduction
<1> QED BY <1>3 DEF P

-----------------------------------------------------------------------------
(* The block of a deletion *)

DeletionBlock(v, c) == Element(Bare, "ref", <<Text(v)>>) \o <<Start(Bare, "/channel/"), Text(c)>>

\* What the writer has meant by a deletion.
DeletedAs(v, c) ==
    IF v \notin Videos THEN <<>>
    ELSE <<[kind |-> "deleted", channel |-> {c} \intersect Channels, video |-> {v}, title |-> <<>>, ts |-> {}]>>

LEMMA DeletionTokens ==
    /\ Start(Bare, "ref") \in DeletionToken /\ End(Bare, "ref") \in DeletionToken /\ ChannelLink \in DeletionToken
    /\ TextToken \subseteq DeletionToken
    /\ ChannelStart \notin DeletionToken /\ ChannelQuery \notin DeletionToken
    /\ ChannelLink # Start(Bare, "ref") /\ ChannelLink # End(Bare, "ref")
    /\ \A x \in Videos \union Channels \union Malformed :
         Text(x) \in TextToken /\ Text(x) \in DeletionToken /\ Text(x) # ChannelLink
<1>1. Start(Bare, "ref") \in DeletionToken /\ End(Bare, "ref") \in DeletionToken /\ ChannelLink \in DeletionToken
  BY DEF DeletionToken, NamedToken, Tags, ChannelLink
<1>2. TextToken \subseteq DeletionToken
  BY DEF DeletionToken, NamedToken
<1>3. ChannelStart \notin DeletionToken
  BY TokensDiffer DEF ChannelStart, DeletionToken, NamedToken, TextToken, Tags
<1>4. ChannelQuery \notin DeletionToken
  BY TokensDiffer DEF ChannelQuery, DeletionToken, NamedToken, TextToken, Tags
<1>5. ChannelLink # Start(Bare, "ref") /\ ChannelLink # End(Bare, "ref")
  BY TokensDiffer DEF ChannelLink
<1>6. ASSUME NEW x \in Videos \union Channels \union Malformed
      PROVE  Text(x) \in TextToken /\ Text(x) # ChannelLink
  BY TokensDiffer DEF TextToken, FieldValue, ChannelLink
<1> QED BY <1>1, <1>2, <1>3, <1>4, <1>5, <1>6

LEMMA DeletionRead ==
    ASSUME NEW v \in Videos \union Malformed, NEW c \in Channels
    PROVE  DeletionBlock(v, c) \in Seq(DeletionToken) /\ Deletion(DeletionBlock(v, c)) = DeletedAs(v, c)
<1> DEFINE O == <<>>
           r == <<Text(v)>>
           e == Element(Bare, "ref", r)
           a == <<ChannelLink>>
           b == <<Text(c)>>
           y == <<ChannelLink, Text(c)>>
           B == DeletionBlock(v, c)
           N == DeletionToken \ {ChannelLink}
<1>1. /\ r \in Seq(TextToken) /\ r \in Seq(N) /\ O \in Seq(N) /\ O \in Seq(DeletionToken)
      /\ O \in Seq(DeletionToken \ {Start(Bare, "ref")})
      /\ a \in Seq(DeletionToken) /\ b \in Seq(DeletionToken) /\ y \in Seq(DeletionToken)
  <2>1. Text(v) \in TextToken /\ Text(v) \in N /\ Text(c) \in DeletionToken /\ ChannelLink \in DeletionToken
    BY DeletionTokens
  <2> QED BY <2>1
<1>2. y = Then(a, b) /\ b = Then(b, O)
  BY DEF Then
<1>3. B = Then(e, y)
  BY DEF DeletionBlock, Then, ChannelLink
<1> HIDE DEF r, a, b, y, O
<1>4. e \in Seq(N)
  <2>1. Start(Bare, "ref") \in N /\ End(Bare, "ref") \in N
    BY DeletionTokens
  <2> QED BY <1>1, <2>1, ElementType
<1>5. e \in Seq(DeletionToken)
  BY <1>4, SeqMonotonic
<1> HIDE DEF e
<1>6. B \in Seq(DeletionToken)
  BY <1>1, <1>3, <1>5, ThenType
<1>7. Between(B, Start(Bare, "ref"), End(Bare, "ref")) = {r}
  <2>1. Then(O, Then(e, y)) = Then(e, y)
    <3>1. Then(e, y) \in Seq(DeletionToken)
      BY <1>1, <1>5, ThenType
    <3> QED BY <3>1, ThenEmpty DEF O
  <2>2. Between(Then(O, Then(e, y)), Start(Bare, "ref"), End(Bare, "ref")) = {r}
    <3>1. /\ Start(Bare, "ref") \in DeletionToken /\ End(Bare, "ref") \in DeletionToken
          /\ TextToken \subseteq DeletionToken
          /\ O \in Seq(DeletionToken \ {Start(Bare, "ref")}) /\ r \in Seq(TextToken) /\ y \in Seq(DeletionToken)
      BY <1>1, DeletionTokens
    <3> QED BY ONLY <3>1, BetweenElement DEF e
  <2> QED BY <1>3, <2>1, <2>2
<1>8. Marked(B, ChannelStart) = {} /\ Marked(B, ChannelQuery) = {}
  <2>1. DeletionToken \ {ChannelStart} = DeletionToken /\ DeletionToken \ {ChannelQuery} = DeletionToken
    BY DeletionTokens
  <2> QED BY <1>6, <2>1, MarkedNone
<1>9. Marked(B, ChannelLink) = {c} \intersect Channels
  <2>1. MarkedFirst(DeletionToken, ChannelLink, e, c, O)
    BY <1>1, <1>4, DeletionTokens DEF MarkedFirst
  <2>2. B = Then(e, Then(a, Then(b, O)))
    BY <1>2, <1>3
  <2> QED BY <2>1, <2>2, MarkedIn DEF a, b
<1>10. FindChannelId(B) = {c} \intersect Channels
  BY <1>8, <1>9 DEF FindChannelId, OrElse, ChannelStart, ChannelLink, ChannelQuery
<1>11. WellFormed(Between(B, Start(Bare, "ref"), End(Bare, "ref")), Videos) = {v} \intersect Videos
  BY <1>7, WellFormedOne DEF r
<1>12. Deletion(B) =
         IF {v} \intersect Videos = {} THEN <<>>
         ELSE <<[kind |-> "deleted", channel |-> FindChannelId(B), video |-> {v} \intersect Videos,
                 title |-> <<>>, ts |-> {}]>>
  BY <1>11 DEF Deletion
<1> HIDE DEF B
<1>13. Deletion(B) = DeletedAs(v, c)
  <2>1. CASE v \in Videos
    <3>1. {v} \intersect Videos = {v}
      BY <2>1
    <3> QED BY <1>10, <1>12, <2>1, <3>1 DEF DeletedAs
  <2>2. CASE v \notin Videos
    BY <1>12, <2>2 DEF DeletedAs
  <2> QED BY <2>1, <2>2
<1> QED BY <1>6, <1>13 DEF B

-----------------------------------------------------------------------------
(* The blocks of a document and what they are read as *)

DeletionOf == [b \in Seq(Token) |-> Deletion(b)]
EntryOf == [b \in Seq(Token) |-> Entry(b)]
DeletionRecord == {Deletion(b)[1] : b \in Seq(Token)}
EntryRecord == {Entry(b)[1] : b \in Seq(Token)}

LEMMA DeletionOfType == \A b \in Seq(Token) : DeletionOf[b] \in Seq(DeletionRecord)
<1> TAKE b \in Seq(Token)
<1>1. DeletionOf[b] = Deletion(b)
  BY DEF DeletionOf
<1>2. Deletion(b)[1] \in DeletionRecord
  BY DEF DeletionRecord
<1>3. Deletion(b) = <<>> \/ \E r : Deletion(b) = <<r>>
  BY DEF Deletion
<1> HIDE DEF DeletionRecord
<1>4. Deletion(b) \in Seq(DeletionRecord)
  <2>1. CASE Deletion(b) = <<>>
    BY <2>1
  <2>2. ASSUME NEW r, Deletion(b) = <<r>> PROVE Deletion(b) \in Seq(DeletionRecord)
    <3>1. r \in DeletionRecord
      BY <1>2, <2>2
    <3> QED BY <2>2, <3>1
  <2> QED BY <1>3, <2>1, <2>2
<1> QED BY <1>1, <1>4

LEMMA EntryOfType == \A b \in Seq(Token) : EntryOf[b] \in Seq(EntryRecord)
<1> TAKE b \in Seq(Token)
<1>1. EntryOf[b] = Entry(b)
  BY DEF EntryOf
<1>2. Entry(b)[1] \in EntryRecord
  BY DEF EntryRecord
<1>3. Entry(b) = <<>> \/ \E r : Entry(b) = <<r>>
  BY DEF Entry
<1> HIDE DEF EntryRecord
<1>4. Entry(b) \in Seq(EntryRecord)
  <2>1. CASE Entry(b) = <<>>
    BY <2>1
  <2>2. ASSUME NEW r, Entry(b) = <<r>> PROVE Entry(b) \in Seq(EntryRecord)
    <3>1. r \in EntryRecord
      BY <1>2, <2>2
    <3> QED BY <2>2, <3>1
  <2> QED BY <1>3, <2>1, <2>2
<1> QED BY <1>1, <1>4

LEMMA ParseIs ==
    ASSUME NEW s, NEW ds \in Seq(Seq(Token)), NEW bs \in Seq(Seq(Token)),
           Blocks(s, "at:", "deleted-entry") = ds, Blocks(s, Bare, "entry") = bs
    PROVE  Parse(s) = Then(Coded(DeletionOf, ds), Coded(EntryOf, bs))
<1>1. [k \in DOMAIN ds |-> Deletion(ds[k])] = [k \in DOMAIN ds |-> DeletionOf[ds[k]]]
  <2>1. \A k \in DOMAIN ds : ds[k] \in Seq(Token)
    OBVIOUS
  <2>2. \A k \in DOMAIN ds : Deletion(ds[k]) = DeletionOf[ds[k]]
    BY <2>1 DEF DeletionOf
  <2> QED BY <2>2
<1>2. [k \in DOMAIN bs |-> Entry(bs[k])] = [k \in DOMAIN bs |-> EntryOf[bs[k]]]
  <2>1. \A k \in DOMAIN bs : bs[k] \in Seq(Token)
    OBVIOUS
  <2>2. \A k \in DOMAIN bs : Entry(bs[k]) = EntryOf[bs[k]]
    BY <2>1 DEF EntryOf
  <2> QED BY <2>2
<1> QED BY <1>1, <1>2 DEF Parse, Coded, Then

LEMMA PrefixOfThen ==
    ASSUME NEW S, NEW s \in Seq(S), NEW t \in Seq(S)
    PROVE  IsPrefix(s, Then(s, t)) /\ IsPrefix(s, s)
<1>1. PICK n \in Nat, k \in Nat : n = Len(s) /\ k = Len(t)
  OBVIOUS
<1>2. Len(Then(s, t)) = n + k /\ Then(s, t) \in Seq(S) /\ \A i \in 1..n : Then(s, t)[i] = s[i]
  BY <1>1 DEF Then
<1> HIDE DEF Then
<1>3. SubSeq(Then(s, t), 1, n) = SubSeq(s, 1, n)
  BY <1>1, <1>2
<1> QED BY <1>1, <1>2, <1>3 DEF IsPrefix

-----------------------------------------------------------------------------
(* Writing a field *)

LEMMA BlockGrows ==
    ASSUME NEW S, NEW O, O = <<>>
    PROVE  /\ \A w \in Seq(S) :
                Then(Then(O, Then(O, Then(O, Then(O, O)))), w) = Then(w, Then(O, Then(O, Then(O, O))))
           /\ \A v, w \in Seq(S) :
                Then(Then(v, Then(O, Then(O, Then(O, O)))), w) = Then(v, Then(w, Then(O, Then(O, O))))
           /\ \A v, c, w \in Seq(S) :
                Then(Then(v, Then(c, Then(O, Then(O, O)))), w) = Then(v, Then(c, Then(w, Then(O, O))))
           /\ \A v, c, t, w \in Seq(S) :
                Then(Then(v, Then(c, Then(t, Then(O, O)))), w) = Then(v, Then(c, Then(t, Then(w, O))))
           /\ \A v, c, t, p, w \in Seq(S) :
                Then(Then(v, Then(c, Then(t, Then(p, O)))), w) = Then(v, Then(c, Then(t, Then(p, w))))
<1>1. \A x \in Seq(S) : Then(O, x) = x /\ Then(x, O) = x
  BY ThenEmpty
<1>2. O \in Seq(S)
  OBVIOUS
<1>3. \A x, y, z \in Seq(S) : Then(x, y) \in Seq(S) /\ Then(Then(x, y), z) = Then(x, Then(y, z))
  BY ThenType, ThenAssociative
<1>4. Then(O, O) = O
  BY <1>1, <1>2
<1>5. \A v, c, w \in Seq(S) : Then(Then(v, c), w) = Then(v, Then(c, w))
  BY <1>3
<1>6. \A v, c, t, w \in Seq(S) : Then(Then(v, Then(c, t)), w) = Then(v, Then(c, Then(t, w)))
  <2> TAKE v, c, t, w \in Seq(S)
  <2>1. Then(c, t) \in Seq(S)
    BY <1>3
  <2> QED BY <1>3, <2>1
<1>7. \A v, c, t, p, w \in Seq(S) :
        Then(Then(v, Then(c, Then(t, p))), w) = Then(v, Then(c, Then(t, Then(p, w))))
  <2> TAKE v, c, t, p, w \in Seq(S)
  <2>1. Then(t, p) \in Seq(S)
    BY <1>3
  <2>2. Then(c, Then(t, p)) \in Seq(S)
    BY <1>3, <2>1
  <2>3. Then(Then(c, Then(t, p)), w) = Then(c, Then(t, Then(p, w)))
    BY <1>3, <2>1
  <2> QED BY <1>3, <2>2, <2>3
<1> HIDE DEF Then
<1> QED BY <1>1, <1>4, <1>5, <1>6, <1>7

LEMMA BlockGrowsLate ==
    ASSUME NEW S, NEW O, O = <<>>, NEW v \in Seq(S), NEW c \in Seq(S), NEW t \in Seq(S), NEW w \in Seq(S)
    PROVE  Then(Then(v, Then(c, Then(t, Then(O, O)))), w) = Then(v, Then(c, Then(t, Then(w, O))))
BY BlockGrows

LEMMA BlockGrowsLast ==
    ASSUME NEW S, NEW O, O = <<>>, NEW v \in Seq(S), NEW c \in Seq(S), NEW t \in Seq(S), NEW p \in Seq(S),
           NEW w \in Seq(S)
    PROVE  Then(Then(v, Then(c, Then(t, Then(p, O)))), w) = Then(v, Then(c, Then(t, Then(p, w))))
BY BlockGrows

FieldNames == {"video", "channel", "title", "published", "updated"}

\* A segment w of the field of a name that means m.
FieldIs(name, w, m) ==
    \/ name = "video" /\ VideoIs(w, m)
    \/ name = "channel" /\ ChannelIs(w, m)
    \/ name = "title" /\ TitleIs(w, m)
    \/ name = "published" /\ TimeIs("published", w, m)
    \/ name = "updated" /\ TimeIs("updated", w, m)

LEMMA SegmentType ==
    ASSUME NEW w, NEW m
    PROVE  /\ VideoIs(w, m) => w \in Seq(VideoToken)
           /\ ChannelIs(w, m) => w \in Seq(ChannelToken)
           /\ TitleIs(w, m) => w \in Seq(NamedToken("title"))
           /\ \A n : TimeIs(n, w, m) => w \in Seq(NamedToken(n))
<1>1. ASSUME NEW S, NEW x, TextToken \subseteq S, x \in Videos \union Channels \union Malformed \union Times
      PROVE  <<Text(x)>> \in Seq(S)
  <2>1. Text(x) \in S
    BY <1>1 DEF TextToken, FieldValue
  <2> QED BY <2>1
<1>2. VideoIs(w, m) => w \in Seq(VideoToken)
  <2>1. ASSUME NEW v \in Videos \union Malformed, NEW p \in {"yt:", Bare}
        PROVE  Element(p, "videoId", <<Text(v)>>) \in Seq(VideoToken)
    <3>1. Start(p, "videoId") \in VideoToken /\ End(p, "videoId") \in VideoToken
      BY DEF VideoToken, Tags
    <3>2. TextToken \subseteq VideoToken
      BY DEF VideoToken
    <3>3. <<Text(v)>> \in Seq(VideoToken)
      BY <1>1, <3>2
    <3> QED BY <3>1, <3>3, ElementType
  <2> HAVE VideoIs(w, m)
  <2>8. CASE w = <<>>
    BY <2>8
  <2>9. CASE w # <<>>
    <3>1. PICK v \in Videos \union Malformed, p \in {"yt:", Bare} : w = Element(p, "videoId", <<Text(v)>>)
      BY <2>9 DEF VideoIs
    <3> QED BY <2>1, <3>1
  <2> QED BY <2>8, <2>9
<1>3. ChannelIs(w, m) => w \in Seq(ChannelToken)
  <2>0. TextToken \subseteq ChannelToken
    BY DEF ChannelToken
  <2>1. ASSUME NEW c \in Channels \union Malformed
        PROVE  Element("yt:", "channelId", <<Text(c)>>) \in Seq(ChannelToken)
    <3>1. Start("yt:", "channelId") \in ChannelToken /\ End("yt:", "channelId") \in ChannelToken
      BY DEF ChannelToken, Tags
    <3>3. <<Text(c)>> \in Seq(ChannelToken)
      BY <1>1, <2>0
    <3> QED BY <3>1, <3>3, ElementType
  <2>2. ASSUME NEW c \in Channels
        PROVE  <<Start(Bare, "/channel/"), Text(c)>> \in Seq(ChannelToken)
    <3>1. Start(Bare, "/channel/") \in ChannelToken
      BY DEF ChannelToken
    <3>2. Text(c) \in ChannelToken
      BY <2>0 DEF TextToken, FieldValue
    <3> QED BY <3>1, <3>2
  <2>3. ASSUME NEW c \in Channels, NEW d \in Malformed
        PROVE  Element("yt:", "channelId", <<Text(d)>>) \o <<Start(Bare, "/channel/"), Text(c)>> \in Seq(ChannelToken)
    <3>1. Element("yt:", "channelId", <<Text(d)>>) \in Seq(ChannelToken)
      BY <2>1
    <3>2. <<Start(Bare, "/channel/"), Text(c)>> \in Seq(ChannelToken)
      BY <2>2
    <3> QED BY <3>1, <3>2, ConcatProperties
  <2> HAVE ChannelIs(w, m)
  <2>8. CASE w = <<>>
    BY <2>8
  <2>9. CASE w # <<>>
    <3>1. CASE \E c \in Channels \union Malformed : w = Element("yt:", "channelId", <<Text(c)>>)
      BY <2>1, <3>1
    <3>2. CASE \E c \in Channels : w = <<Start(Bare, "/channel/"), Text(c)>>
      BY <2>2, <3>2
    <3>3. CASE \E c \in Channels, d \in Malformed :
                 w = Element("yt:", "channelId", <<Text(d)>>) \o <<Start(Bare, "/channel/"), Text(c)>>
      BY <2>3, <3>3
    <3> QED BY <2>9, <3>1, <3>2, <3>3 DEF ChannelIs
  <2> QED BY <2>8, <2>9
<1>4. TitleIs(w, m) => w \in Seq(NamedToken("title"))
  <2>1. ASSUME NEW t \in Titles
        PROVE  Element(Bare, "title", Escaped(t)) \in Seq(NamedToken("title"))
    <3>1. Start(Bare, "title") \in NamedToken("title") /\ End(Bare, "title") \in NamedToken("title")
      BY DEF NamedToken, Tags
    <3>2. t \in Seq(Word)
      BY FeedAssumption, SeqMonotonic DEF Word
    <3>3. Escaped(t) \in Seq(WordToken)
      BY <3>2, EscapedIs
    <3>4. WordToken \subseteq NamedToken("title")
      BY DEF WordToken, NamedToken, TextToken, FieldValue
    <3>5. Escaped(t) \in Seq(NamedToken("title"))
      BY <3>3, <3>4, SeqMonotonic
    <3> QED BY <3>1, <3>5, ElementType
  <2> HAVE TitleIs(w, m)
  <2>8. CASE w = <<>>
    BY <2>8
  <2>9. CASE w # <<>>
    <3>1. PICK t \in Titles : w = Element(Bare, "title", Escaped(t))
      BY <2>9 DEF TitleIs
    <3> QED BY <2>1, <3>1
  <2> QED BY <2>8, <2>9
<1>5. ASSUME NEW n PROVE TimeIs(n, w, m) => w \in Seq(NamedToken(n))
  <2>1. ASSUME NEW t \in Times
        PROVE  Element(Bare, n, <<Text(t)>>) \in Seq(NamedToken(n))
    <3>1. Start(Bare, n) \in NamedToken(n) /\ End(Bare, n) \in NamedToken(n)
      BY DEF NamedToken, Tags
    <3>2. TextToken \subseteq NamedToken(n)
      BY DEF NamedToken
    <3>3. <<Text(t)>> \in Seq(NamedToken(n))
      BY <1>1, <3>2
    <3> QED BY <3>1, <3>3, ElementType
  <2> HAVE TimeIs(n, w, m)
  <2>8. CASE w = <<>>
    BY <2>8
  <2>9. CASE w # <<>>
    <3>1. PICK t \in Times : w = Element(Bare, n, <<Text(t)>>)
      BY <2>9 DEF TimeIs
    <3> QED BY <2>1, <3>1
  <2> QED BY <2>8, <2>9
<1> QED BY <1>2, <1>3, <1>4, <1>5

\* What an entry means: a value for each field.
IsMeaning(e) == e = [n \in FieldNames |-> e[n]]

LEMMA FieldWritten ==
    ASSUME NEW f \in Segments, NEW e, IsMeaning(e), FieldsAre(f, e),
           NEW name \in FieldNames, NEW w, NEW m, FieldIs(name, w, m),
           \A later \in DOMAIN FieldRank : FieldRank[later] >= FieldRank[name] => e[later] = {}
    PROVE  LET g == [f EXCEPT ![name] = w]
               d == [e EXCEPT ![name] = m]
           IN  /\ g \in Segments /\ IsMeaning(d) /\ FieldsAre(g, d)
               /\ BlockOf(g) = Then(BlockOf(f), w) /\ w \in Seq(FieldToken)
<1> DEFINE g == [f EXCEPT ![name] = w]
           d == [e EXCEPT ![name] = m]
           O == <<>>
<1>1. DOMAIN FieldRank = FieldNames
  BY DEF FieldRank, FieldNames
<1>2. \A s : /\ VideoIs(s, {}) => s = O
             /\ ChannelIs(s, {}) => s = O
             /\ TitleIs(s, {}) => s = O
             /\ \A n : TimeIs(n, s, {}) => s = O
  BY DEF VideoIs, ChannelIs, TitleIs, TimeIs
<1>3. /\ e["updated"] = {}
      /\ name # "updated" => e["published"] = {}
      /\ name \notin {"published", "updated"} => e["title"] = {}
      /\ name \notin {"title", "published", "updated"} => e["channel"] = {}
      /\ name = "video" => e["video"] = {}
  BY DEF FieldRank, FieldNames
<1>4. /\ f.updated = O
      /\ name # "updated" => f.published = O
      /\ name \notin {"published", "updated"} => f.title = O
      /\ name \notin {"title", "published", "updated"} => f.channel = O
      /\ name = "video" => f.video = O
  BY <1>2, <1>3 DEF FieldsAre
<1>5. /\ f.video \in Seq(FieldToken) /\ f.channel \in Seq(FieldToken) /\ f.title \in Seq(FieldToken)
      /\ f.published \in Seq(FieldToken)
  <2>1. /\ VideoToken \subseteq FieldToken /\ ChannelToken \subseteq FieldToken
        /\ NamedToken("title") \subseteq FieldToken /\ NamedToken("published") \subseteq FieldToken
    BY DEF FieldToken
  <2>2. /\ f.video \in Seq(VideoToken) /\ f.channel \in Seq(ChannelToken) /\ f.title \in Seq(NamedToken("title"))
        /\ f.published \in Seq(NamedToken("published"))
    BY DEF Segments
  <2>3. f.video \in Seq(FieldToken)
    BY <2>1, <2>2, SeqMonotonic
  <2>4. f.channel \in Seq(FieldToken)
    BY <2>1, <2>2, SeqMonotonic
  <2>5. f.title \in Seq(FieldToken)
    BY <2>1, <2>2, SeqMonotonic
  <2>6. f.published \in Seq(FieldToken)
    BY <2>1, <2>2, SeqMonotonic
  <2> QED BY <2>3, <2>4, <2>5, <2>6
<1>6. /\ name = "video" => VideoIs(w, m) /\ w \in Seq(VideoToken)
      /\ name = "channel" => ChannelIs(w, m) /\ w \in Seq(ChannelToken)
      /\ name = "title" => TitleIs(w, m) /\ w \in Seq(NamedToken("title"))
      /\ name = "published" => TimeIs("published", w, m) /\ w \in Seq(NamedToken("published"))
      /\ name = "updated" => TimeIs("updated", w, m) /\ w \in Seq(NamedToken("updated"))
  BY SegmentType DEF FieldIs
<1>7. w \in Seq(FieldToken)
  <2>1. CASE name = "video"
    BY <1>6, <2>1, SeqMonotonic DEF FieldToken
  <2>2. CASE name = "channel"
    BY <1>6, <2>2, SeqMonotonic DEF FieldToken
  <2>3. CASE name = "title"
    BY <1>6, <2>3, SeqMonotonic DEF FieldToken
  <2>4. CASE name = "published"
    BY <1>6, <2>4, SeqMonotonic DEF FieldToken
  <2>5. CASE name = "updated"
    BY <1>6, <2>5, SeqMonotonic DEF FieldToken
  <2> QED BY <2>1, <2>2, <2>3, <2>4, <2>5 DEF FieldNames
<1>8. g \in Segments
  BY <1>6 DEF Segments, FieldNames
<1>9. IsMeaning(d)
  BY DEF IsMeaning
<1>10. /\ g.video = (IF name = "video" THEN w ELSE f.video)
       /\ g.channel = (IF name = "channel" THEN w ELSE f.channel)
       /\ g.title = (IF name = "title" THEN w ELSE f.title)
       /\ g.published = (IF name = "published" THEN w ELSE f.published)
       /\ g.updated = (IF name = "updated" THEN w ELSE f.updated)
  BY DEF Segments
<1>11. /\ d.video = (IF name = "video" THEN m ELSE e.video)
       /\ d.channel = (IF name = "channel" THEN m ELSE e.channel)
       /\ d.title = (IF name = "title" THEN m ELSE e.title)
       /\ d.published = (IF name = "published" THEN m ELSE e.published)
       /\ d.updated = (IF name = "updated" THEN m ELSE e.updated)
  <2>1. "video" \in FieldNames /\ "channel" \in FieldNames /\ "title" \in FieldNames
        /\ "published" \in FieldNames /\ "updated" \in FieldNames
    BY DEF FieldNames
  <2>2. \A n \in FieldNames : d[n] = IF n = name THEN m ELSE e[n]
    BY DEF IsMeaning
  <2> HIDE DEF d
  <2> QED BY <2>1, <2>2
<1> HIDE DEF g, d
<1>12. FieldsAre(g, d)
  BY <1>6, <1>10, <1>11 DEF FieldsAre
<1>13. BlockOf(g) = Then(BlockOf(f), w)
  <2> HIDE DEF O
  <2>1. O = <<>>
    BY DEF O
  <2>2. CASE name = "video"
    <3>1. /\ BlockOf(f) = Then(O, Then(O, Then(O, Then(O, O))))
          /\ BlockOf(g) = Then(w, Then(O, Then(O, Then(O, O))))
      BY <1>4, <1>10, <2>2 DEF BlockOf
    <3>2. Then(Then(O, Then(O, Then(O, Then(O, O)))), w) = Then(w, Then(O, Then(O, Then(O, O))))
      BY ONLY <1>5, <1>7, <2>1, BlockGrows
    <3> QED BY <3>1, <3>2
  <2>3. CASE name = "channel"
    <3>1. /\ BlockOf(f) = Then(f.video, Then(O, Then(O, Then(O, O))))
          /\ BlockOf(g) = Then(f.video, Then(w, Then(O, Then(O, O))))
      BY <1>4, <1>10, <2>3 DEF BlockOf
    <3>2. Then(Then(f.video, Then(O, Then(O, Then(O, O)))), w) = Then(f.video, Then(w, Then(O, Then(O, O))))
      BY ONLY <1>5, <1>7, <2>1, BlockGrows
    <3> QED BY <3>1, <3>2
  <2>4. CASE name = "title"
    <3>1. /\ BlockOf(f) = Then(f.video, Then(f.channel, Then(O, Then(O, O))))
          /\ BlockOf(g) = Then(f.video, Then(f.channel, Then(w, Then(O, O))))
      BY <1>4, <1>10, <2>4 DEF BlockOf
    <3>2. Then(Then(f.video, Then(f.channel, Then(O, Then(O, O)))), w) = Then(f.video, Then(f.channel, Then(w, Then(O, O))))
      BY ONLY <1>5, <1>7, <2>1, BlockGrows
    <3> QED BY <3>1, <3>2
  <2>5. CASE name = "published"
    <3>1. /\ BlockOf(f) = Then(f.video, Then(f.channel, Then(f.title, Then(O, O))))
          /\ BlockOf(g) = Then(f.video, Then(f.channel, Then(f.title, Then(w, O))))
      BY <1>4, <1>10, <2>5 DEF BlockOf
    <3>2. Then(Then(f.video, Then(f.channel, Then(f.title, Then(O, O)))), w) = Then(f.video, Then(f.channel, Then(f.title, Then(w, O))))
      BY ONLY <1>5, <1>7, <2>1, BlockGrowsLate
    <3> QED BY <3>1, <3>2
  <2>6. CASE name = "updated"
    <3>1. /\ BlockOf(f) = Then(f.video, Then(f.channel, Then(f.title, Then(f.published, O))))
          /\ BlockOf(g) = Then(f.video, Then(f.channel, Then(f.title, Then(f.published, w))))
      BY <1>4, <1>10, <2>6 DEF BlockOf
    <3>2. Then(Then(f.video, Then(f.channel, Then(f.title, Then(f.published, O)))), w) = Then(f.video, Then(f.channel, Then(f.title, Then(f.published, w))))
      <4> DEFINE v == f.video  c == f.channel  t == f.title  p == f.published
      <4>1. /\ v \in Seq(FieldToken) /\ c \in Seq(FieldToken) /\ t \in Seq(FieldToken) /\ p \in Seq(FieldToken)
        BY <1>5
      <4> HIDE DEF v, c, t, p
      <4>2. Then(Then(v, Then(c, Then(t, Then(p, O)))), w) = Then(v, Then(c, Then(t, Then(p, w))))
        BY ONLY <1>7, <2>1, <4>1, BlockGrowsLast
      <4> QED BY <4>2 DEF v, c, t, p
    <3> QED BY <3>1, <3>2
  <2> QED BY <2>2, <2>3, <2>4, <2>5, <2>6 DEF FieldNames
<1> QED BY <1>7, <1>8, <1>9, <1>12, <1>13 DEF g, d

-----------------------------------------------------------------------------
(* What each write does to the cut-up document *)

EntriesCut(s) == CutUp(s, Start(Bare, "entry"), End(Bare, "entry"))
DeletionsCut(s) == CutUp(s, Start("at:", "deleted-entry"), End("at:", "deleted-entry"))

LEMMA TokenSets ==
    /\ Start(Bare, "entry") \in Token /\ End(Bare, "entry") \in Token
    /\ Start("at:", "deleted-entry") \in Token /\ End("at:", "deleted-entry") \in Token
    /\ Start(Bare, "entry") # Start("at:", "deleted-entry") /\ End(Bare, "entry") # Start("at:", "deleted-entry")
    /\ Start("at:", "deleted-entry") # Start(Bare, "entry") /\ End("at:", "deleted-entry") # Start(Bare, "entry")
    /\ FieldToken \union DeletionToken \subseteq Token
    /\ FieldToken \union DeletionToken \subseteq Token \ {Start(Bare, "entry")}
    /\ FieldToken \union DeletionToken \subseteq Token \ {End(Bare, "entry")}
    /\ FieldToken \union DeletionToken \subseteq Token \ {Start("at:", "deleted-entry")}
    /\ FieldToken \union DeletionToken \subseteq Token \ {End("at:", "deleted-entry")}
<1>1. /\ Start(Bare, "entry") \in Token /\ End(Bare, "entry") \in Token
      /\ Start("at:", "deleted-entry") \in Token /\ End("at:", "deleted-entry") \in Token
      /\ FieldToken \union DeletionToken \subseteq Token
  BY DEF Token, Tags
<1>2. /\ Start(Bare, "entry") # Start("at:", "deleted-entry") /\ End(Bare, "entry") # Start("at:", "deleted-entry")
      /\ Start("at:", "deleted-entry") # Start(Bare, "entry") /\ End("at:", "deleted-entry") # Start(Bare, "entry")
  BY TokensDiffer
<1>3. ASSUME NEW c \in FieldToken \union DeletionToken
      PROVE  c # Start(Bare, "entry") /\ c # End(Bare, "entry")
  BY TokensDiffer DEF FieldToken, DeletionToken, VideoToken, ChannelToken, NamedToken, TextToken, Tags
<1>4. ASSUME NEW c \in FieldToken \union DeletionToken
      PROVE  c # Start("at:", "deleted-entry") /\ c # End("at:", "deleted-entry")
  BY TokensDiffer DEF FieldToken, DeletionToken, VideoToken, ChannelToken, NamedToken, TextToken, Tags
<1> QED BY <1>1, <1>2, <1>3, <1>4

\* Tokens of fields and of what is within a deletion change neither cut but by
\* growing the block that is open.
LEMMA InnerWritten ==
    ASSUME NEW s \in Seq(Token), NEW w, w \in Seq(FieldToken) \/ w \in Seq(DeletionToken)
    PROVE  /\ Then(s, w) \in Seq(Token) /\ w \in Seq(Token)
           /\ \A bs : EntriesCut(s) = AtRest(bs) => EntriesCut(Then(s, w)) = AtRest(bs)
           /\ \A bs : DeletionsCut(s) = AtRest(bs) => DeletionsCut(Then(s, w)) = AtRest(bs)
           /\ \A b \in Seq(Token) : \A bs :
                EntriesCut(s) = Within(b, bs) => EntriesCut(Then(s, w)) = Within(Then(b, w), bs)
           /\ \A b \in Seq(Token) : \A bs :
                DeletionsCut(s) = Within(b, bs) => DeletionsCut(Then(s, w)) = Within(Then(b, w), bs)
<1> DEFINE I == FieldToken \union DeletionToken
<1>1. w \in Seq(I)
  <2>1. CASE w \in Seq(FieldToken)
    BY <2>1, SeqMonotonic
  <2>2. CASE w \in Seq(DeletionToken)
    BY <2>2, SeqMonotonic
  <2> QED BY <2>1, <2>2
<1> HIDE DEF I
<1>2. \A N : I \subseteq N => w \in Seq(N)
  BY <1>1, SeqMonotonic
<1>3. /\ w \in Seq(Token) /\ w \in Seq(Token \ {Start(Bare, "entry")}) /\ w \in Seq(Token \ {End(Bare, "entry")})
      /\ w \in Seq(Token \ {Start("at:", "deleted-entry")}) /\ w \in Seq(Token \ {End("at:", "deleted-entry")})
  BY <1>2, TokenSets DEF I
<1>4. Then(s, w) \in Seq(Token)
  BY <1>3, ThenType
<1>5. ASSUME NEW bs, EntriesCut(s) = AtRest(bs) PROVE EntriesCut(Then(s, w)) = AtRest(bs)
  BY <1>3, <1>5, CutOutside DEF EntriesCut
<1>6. ASSUME NEW bs, DeletionsCut(s) = AtRest(bs) PROVE DeletionsCut(Then(s, w)) = AtRest(bs)
  BY <1>3, <1>6, CutOutside DEF DeletionsCut
<1>7. ASSUME NEW b \in Seq(Token), NEW bs, EntriesCut(s) = Within(b, bs)
      PROVE  EntriesCut(Then(s, w)) = Within(Then(b, w), bs)
  BY <1>3, <1>7, CutInside DEF EntriesCut
<1>8. ASSUME NEW b \in Seq(Token), NEW bs, DeletionsCut(s) = Within(b, bs)
      PROVE  DeletionsCut(Then(s, w)) = Within(Then(b, w), bs)
  BY <1>3, <1>8, CutInside DEF DeletionsCut
<1> QED BY <1>3, <1>4, <1>5, <1>6, <1>7, <1>8

LEMMA OtherWritten ==
    ASSUME NEW S, NEW start, NEW end, NEW s \in Seq(S), NEW bs, CutUp(s, start, end) = AtRest(bs),
           NEW c \in S, c # start
    PROVE  CutUp(Append(s, c), start, end) = AtRest(bs)
<1>1. CutUp(Append(s, c), start, end) = CutAtToken(CutUp(s, start, end), c, start, end)
  BY CutUpAppend
<1>2. c # start
  OBVIOUS
<1>3. CutAtToken(AtRest(bs), c, start, end) = AtRest(bs)
  BY ONLY <1>2, CutPasses
<1> QED BY <1>1, <1>3

LEMMA EntryTagWritten ==
    ASSUME NEW s \in Seq(Token)
    PROVE  /\ Append(s, Start(Bare, "entry")) \in Seq(Token) /\ Append(s, End(Bare, "entry")) \in Seq(Token)
           /\ \A bs : EntriesCut(s) = AtRest(bs) => EntriesCut(Append(s, Start(Bare, "entry"))) = Within(<<>>, bs)
           /\ \A b, bs : EntriesCut(s) = Within(b, bs) => EntriesCut(Append(s, End(Bare, "entry"))) = AtRest(Append(bs, b))
           /\ \A bs, c : c \in Tags(Bare, "entry") /\ DeletionsCut(s) = AtRest(bs)
                           => DeletionsCut(Append(s, c)) = AtRest(bs)
<1>1. Append(s, Start(Bare, "entry")) \in Seq(Token) /\ Append(s, End(Bare, "entry")) \in Seq(Token)
  BY TokenSets
<1>2. ASSUME NEW bs, EntriesCut(s) = AtRest(bs)
      PROVE  EntriesCut(Append(s, Start(Bare, "entry"))) = Within(<<>>, bs)
  BY <1>2, TokenSets, CutStart DEF EntriesCut
<1>3. ASSUME NEW b, NEW bs, EntriesCut(s) = Within(b, bs)
      PROVE  EntriesCut(Append(s, End(Bare, "entry"))) = AtRest(Append(bs, b))
  BY <1>3, TokenSets, CutEnd DEF EntriesCut
<1>4. ASSUME NEW bs, NEW c \in Tags(Bare, "entry"), DeletionsCut(s) = AtRest(bs)
      PROVE  DeletionsCut(Append(s, c)) = AtRest(bs)
  <2>1. c \in Token /\ c # Start("at:", "deleted-entry")
    BY TokenSets DEF Tags
  <2> QED BY <1>4, <2>1, OtherWritten DEF DeletionsCut
<1> QED BY <1>1, <1>2, <1>3, <1>4

\* A deletion of w, written after s.
DeletionAfter(s, w, ds, bs, r) ==
    /\ s \in Seq(Token) /\ w \in Seq(DeletionToken)
    /\ DeletionsCut(s) = AtRest(ds) /\ EntriesCut(s) = AtRest(bs)
    /\ r = s \o Element("at:", "deleted-entry", w)

LEMMA DeletionWritten ==
    ASSUME NEW s, NEW w, NEW ds, NEW bs, NEW r, DeletionAfter(s, w, ds, bs, r)
    PROVE  /\ r \in Seq(Token) /\ w \in Seq(Token)
           /\ DeletionsCut(r) = AtRest(Append(ds, w)) /\ EntriesCut(r) = AtRest(bs)
<1> DEFINE b == Start("at:", "deleted-entry")  z == End("at:", "deleted-entry")
           x == Append(s, b)  y == Then(x, w)  t == Append(y, z)
<1>0. /\ s \in Seq(Token) /\ w \in Seq(DeletionToken)
      /\ DeletionsCut(s) = AtRest(ds) /\ EntriesCut(s) = AtRest(bs)
      /\ r = s \o Element("at:", "deleted-entry", w)
  BY DEF DeletionAfter
<1>1. b \in Token /\ z \in Token /\ b # Start(Bare, "entry") /\ z # Start(Bare, "entry")
  BY TokenSets
<1>2. x \in Seq(Token)
  BY <1>0, <1>1
<1>3. DeletionsCut(x) = Within(<<>>, ds)
  BY <1>0, <1>1, CutStart DEF DeletionsCut
<1>4. EntriesCut(x) = AtRest(bs)
  BY <1>0, <1>1, OtherWritten DEF EntriesCut
<1>5. y \in Seq(Token) /\ w \in Seq(Token) /\ DeletionsCut(y) = Within(w, ds) /\ EntriesCut(y) = AtRest(bs)
  <2> HIDE DEF x
  <2>1. <<>> \in Seq(Token)
    OBVIOUS
  <2>2. Then(<<>>, w) = w
    BY <1>0, ThenEmpty
  <2>3. y \in Seq(Token) /\ w \in Seq(Token) /\ EntriesCut(y) = AtRest(bs)
    BY <1>0, <1>2, <1>4, InnerWritten
  <2>4. DeletionsCut(y) = Within(Then(<<>>, w), ds)
    <3> DEFINE O == <<>>
    <3>1. O \in Seq(Token) /\ DeletionsCut(x) = Within(O, ds)
      BY <1>3
    <3> HIDE DEF O
    <3>2. DeletionsCut(y) = Within(Then(O, w), ds)
      BY <1>0, <1>2, <3>1, InnerWritten
    <3> QED BY <3>2 DEF O
  <2> QED BY <2>2, <2>3, <2>4
<1>6. s \o Element("at:", "deleted-entry", w) = t
  <2> DEFINE p == <<b>>  q == <<z>>
  <2>1. p \in Seq(Token) /\ q \in Seq(Token)
    BY <1>0, <1>1
  <2>2. Element("at:", "deleted-entry", w) = Then(Then(p, w), q)
    BY ElementIs
  <2>3. x = Then(s, p) /\ t = Then(y, q)
    BY <1>0, <1>1, <1>5, ThenOne
  <2> HIDE DEF p, q, x, t
  <2>4. Then(p, w) \in Seq(Token)
    BY <1>5, <2>1, ThenType
  <2>5. Then(s, Then(Then(p, w), q)) = Then(Then(s, Then(p, w)), q)
    BY <1>0, <2>1, <2>4, ThenAssociative
  <2>6. Then(s, Then(p, w)) = Then(Then(s, p), w)
    BY <1>0, <1>5, <2>1, ThenAssociative
  <2>7. s \o Element("at:", "deleted-entry", w) = Then(s, Element("at:", "deleted-entry", w))
    BY DEF Then
  <2> QED BY <2>2, <2>3, <2>5, <2>6, <2>7
<1> HIDE DEF y
<1>7. t \in Seq(Token) /\ DeletionsCut(t) = AtRest(Append(ds, w))
  BY <1>0, <1>1, <1>5, CutEnd DEF DeletionsCut
<1>8. EntriesCut(t) = AtRest(bs)
  BY <1>0, <1>1, <1>5, OtherWritten DEF EntriesCut
<1> QED BY <1>0, <1>5, <1>6, <1>7, <1>8

-----------------------------------------------------------------------------
(* The invariant: what the document, cut up, is read as, is what was meant *)

EntryWithin(cur, s, bs) ==
    \E f \in Segments : \E e :
      /\ cur = {e} /\ IsMeaning(e) /\ FieldsAre(f, e)
      /\ EntriesCut(s) = Within(BlockOf(f), bs)

DeletionsMeant(s, meant) ==
    \E ds \in Seq(Seq(Token)) : DeletionsCut(s) = AtRest(ds) /\ Coded(DeletionOf, ds) = meant

EntriesMeant(s, cur, meant) ==
    \E bs \in Seq(Seq(Token)) :
      /\ Coded(EntryOf, bs) = meant
      /\ \/ cur = {} /\ EntriesCut(s) = AtRest(bs)
         \/ EntryWithin(cur, s, bs)

FeedInv ==
    /\ doc \in Seq(Token)
    /\ DeletionsMeant(doc, deleted)
    /\ EntriesMeant(doc, current, regular)

LEMMA BlockType ==
    ASSUME NEW f \in Segments
    PROVE  BlockOf(f) \in Seq(FieldToken) /\ BlockOf(f) \in Seq(Token)
<1>1. /\ f.video \in Seq(VideoToken) /\ f.channel \in Seq(ChannelToken) /\ f.title \in Seq(NamedToken("title"))
      /\ f.published \in Seq(NamedToken("published")) /\ f.updated \in Seq(NamedToken("updated"))
  BY DEF Segments
<1>2. /\ VideoToken \subseteq FieldToken /\ ChannelToken \subseteq FieldToken
      /\ NamedToken("title") \subseteq FieldToken /\ NamedToken("published") \subseteq FieldToken
      /\ NamedToken("updated") \subseteq FieldToken
  BY DEF FieldToken
<1>3. f.video \in Seq(FieldToken)
  BY <1>1, <1>2, SeqMonotonic
<1>4. f.channel \in Seq(FieldToken)
  BY <1>1, <1>2, SeqMonotonic
<1>5. f.title \in Seq(FieldToken)
  BY <1>1, <1>2, SeqMonotonic
<1>6. f.published \in Seq(FieldToken)
  BY <1>1, <1>2, SeqMonotonic
<1>7. f.updated \in Seq(FieldToken)
  BY <1>1, <1>2, SeqMonotonic
<1>8. Then(f.published, f.updated) \in Seq(FieldToken)
  BY <1>6, <1>7, ThenType
<1>9. Then(f.title, Then(f.published, f.updated)) \in Seq(FieldToken)
  BY <1>5, <1>8, ThenType
<1>10. Then(f.channel, Then(f.title, Then(f.published, f.updated))) \in Seq(FieldToken)
  BY <1>4, <1>9, ThenType
<1>11. BlockOf(f) \in Seq(FieldToken)
  BY <1>3, <1>10, ThenType DEF BlockOf
<1>12. FieldToken \subseteq Token
  BY TokenSets
<1> QED BY <1>11, <1>12, SeqMonotonic

LEMMA FeedInitially ==
    ASSUME FeedInit PROVE FeedInv
<1> DEFINE O == <<>>
<1>1. doc = O /\ deleted = O /\ regular = O /\ current = {}
  BY DEF FeedInit
<1>2. O \in Seq(Seq(Token)) /\ O \in Seq(Token)
  OBVIOUS
<1>3. \A start, end : CutUp(O, start, end) = AtRest(O)
  BY CutUpEmpty DEF Uncut, AtRest
<1>4. Coded(DeletionOf, O) = O /\ Coded(EntryOf, O) = O
  BY CodedEmpty
<1> HIDE DEF O
<1>5. DeletionsCut(O) = AtRest(O) /\ EntriesCut(O) = AtRest(O)
  BY <1>3 DEF DeletionsCut, EntriesCut
<1> QED BY <1>1, <1>2, <1>4, <1>5 DEF FeedInv, DeletionsMeant, EntriesMeant

LEMMA FeedFieldStep ==
    ASSUME FeedInv, FeedField PROVE FeedInv'
<1>1. PICK t \in Times : doc' = doc \o Element(Bare, "title", <<Text(t)>>) \o Element(Bare, "updated", <<Text(t)>>)
  BY DEF FeedField
<1>2. current = {} /\ current' = {} /\ deleted' = deleted /\ regular' = regular
  BY DEF FeedField, NewElement
<1> DEFINE a == Element(Bare, "title", <<Text(t)>>)  b == Element(Bare, "updated", <<Text(t)>>)
           s == Then(doc, a)  u == Then(s, b)
<1>3. a \in Seq(FieldToken) /\ b \in Seq(FieldToken)
  <2>1. Text(t) \in FieldToken
    BY DEF FieldToken, VideoToken, TextToken, FieldValue
  <2>2. <<Text(t)>> \in Seq(FieldToken)
    BY <2>1
  <2>3. /\ Start(Bare, "title") \in FieldToken /\ End(Bare, "title") \in FieldToken
        /\ Start(Bare, "updated") \in FieldToken /\ End(Bare, "updated") \in FieldToken
    BY DEF FieldToken, NamedToken, Tags
  <2> QED BY <2>2, <2>3, ElementType
<1>4. doc' = u
  BY <1>1 DEF Then
<1> HIDE DEF a, b
<1>5. doc \in Seq(Token) /\ s \in Seq(Token)
  BY <1>3, InnerWritten DEF FeedInv
<1> HIDE DEF s
<1>6. u \in Seq(Token)
  BY <1>3, <1>5, InnerWritten
<1>7. \A ds : DeletionsCut(doc) = AtRest(ds) => DeletionsCut(u) = AtRest(ds)
  <2> TAKE ds
  <2> HAVE DeletionsCut(doc) = AtRest(ds)
  <2>1. DeletionsCut(s) = AtRest(ds)
    BY <1>3, <1>5, InnerWritten DEF s
  <2> QED BY <1>3, <1>5, <2>1, InnerWritten
<1>8. \A bs : EntriesCut(doc) = AtRest(bs) => EntriesCut(u) = AtRest(bs)
  <2> TAKE bs
  <2> HAVE EntriesCut(doc) = AtRest(bs)
  <2>1. EntriesCut(s) = AtRest(bs)
    BY <1>3, <1>5, InnerWritten DEF s
  <2> QED BY <1>3, <1>5, <2>1, InnerWritten
<1> HIDE DEF u
<1>9. DeletionsMeant(doc', deleted')
  BY <1>2, <1>4, <1>7 DEF FeedInv, DeletionsMeant
<1>10. EntriesMeant(doc', current', regular')
  <2>1. PICK bs \in Seq(Seq(Token)) : Coded(EntryOf, bs) = regular /\ EntriesCut(doc) = AtRest(bs)
    BY <1>2 DEF FeedInv, EntriesMeant, EntryWithin
  <2> QED BY <1>2, <1>4, <1>8, <2>1 DEF EntriesMeant
<1> QED BY <1>4, <1>6, <1>9, <1>10 DEF FeedInv

LEMMA DeletionCoded ==
    ASSUME NEW ds \in Seq(Seq(Token)), NEW w \in Seq(Token)
    PROVE  Coded(DeletionOf, Append(ds, w)) = Then(Coded(DeletionOf, ds), DeletionOf[w])
BY DeletionOfType, CodedBack

LEMMA WriteDeletionStep ==
    ASSUME FeedInv, NEW v \in Videos \union Malformed, NEW c \in Channels, WriteDeletion(v, c)
    PROVE  FeedInv'
<1> DEFINE w == DeletionBlock(v, c)  t == doc \o Element("at:", "deleted-entry", w)
<1>1. /\ current = {} /\ current' = {} /\ regular' = regular
      /\ doc' = t /\ deleted' = Then(deleted, DeletedAs(v, c))
  BY DEF WriteDeletion, NewElement, DeletionBlock, DeletedAs, Then
<1>2. w \in Seq(DeletionToken) /\ Deletion(w) = DeletedAs(v, c)
  BY DeletionRead
<1>3. PICK ds \in Seq(Seq(Token)) : DeletionsCut(doc) = AtRest(ds) /\ Coded(DeletionOf, ds) = deleted
  BY DEF FeedInv, DeletionsMeant
<1>4. PICK bs \in Seq(Seq(Token)) : EntriesCut(doc) = AtRest(bs) /\ Coded(EntryOf, bs) = regular
  BY <1>1 DEF FeedInv, EntriesMeant, EntryWithin
<1>5. doc \in Seq(Token)
  BY DEF FeedInv
<1> HIDE DEF w
<1>6. /\ t \in Seq(Token) /\ w \in Seq(Token)
      /\ DeletionsCut(t) = AtRest(Append(ds, w)) /\ EntriesCut(t) = AtRest(bs)
  <2>1. DeletionAfter(doc, w, ds, bs, t)
    BY <1>2, <1>3, <1>4, <1>5 DEF DeletionAfter
  <2> HIDE DEF t
  <2> QED BY <2>1, DeletionWritten
<1> HIDE DEF t
<1>7. Coded(DeletionOf, Append(ds, w)) = Then(Coded(DeletionOf, ds), DeletionOf[w])
  BY <1>6, DeletionCoded
<1>8. DeletionOf[w] = DeletedAs(v, c)
  BY <1>2, <1>6 DEF DeletionOf
<1>9. Append(ds, w) \in Seq(Seq(Token))
  BY <1>6
<1>10. DeletionsMeant(t, deleted')
  BY <1>1, <1>3, <1>6, <1>7, <1>8, <1>9 DEF DeletionsMeant
<1>11. EntriesMeant(t, current', regular')
  BY <1>1, <1>4, <1>6 DEF EntriesMeant
<1> QED BY <1>1, <1>6, <1>10, <1>11 DEF FeedInv

LEMMA OpenEntryStep ==
    ASSUME FeedInv, OpenEntry PROVE FeedInv'
<1> DEFINE t == Append(doc, Start(Bare, "entry"))
           O == <<>>
           f == [video |-> O, channel |-> O, title |-> O, published |-> O, updated |-> O]
<1>1. /\ current = {} /\ current' = {Missing} /\ regular' = regular /\ deleted' = deleted /\ doc' = t
  BY DEF OpenEntry, NewElement
<1>2. PICK bs \in Seq(Seq(Token)) : EntriesCut(doc) = AtRest(bs) /\ Coded(EntryOf, bs) = regular
  BY <1>1 DEF FeedInv, EntriesMeant, EntryWithin
<1>3. doc \in Seq(Token) /\ Start(Bare, "entry") \in Tags(Bare, "entry")
  BY DEF FeedInv, Tags
<1>4. t \in Seq(Token) /\ EntriesCut(t) = Within(O, bs)
  BY <1>2, <1>3, EntryTagWritten
<1>5. f \in Segments /\ BlockOf(f) = O
  <2>1. \A S : O \in Seq(S)
    OBVIOUS
  <2>2. Then(O, O) = O
    <3>1. O \in Seq(Token)
      BY <2>1
    <3> QED BY ONLY <3>1, ThenEmpty DEF O
  <2> HIDE DEF O
  <2> QED BY <2>1, <2>2 DEF Segments, BlockOf
<1>6. IsMeaning(Missing) /\ FieldsAre(f, Missing)
  <2>1. IsMeaning(Missing)
    BY DEF IsMeaning, Missing, FieldNames
  <2>2. FieldsAre(f, Missing)
    BY DEF FieldsAre, Missing, VideoIs, ChannelIs, TitleIs, TimeIs
  <2> QED BY <2>1, <2>2
<1> HIDE DEF f, O
<1>7. EntryWithin(current', t, bs)
  BY <1>1, <1>4, <1>5, <1>6 DEF EntryWithin
<1>8. DeletionsMeant(t, deleted')
  BY <1>1, <1>3, EntryTagWritten DEF FeedInv, DeletionsMeant
<1> QED BY <1>1, <1>2, <1>4, <1>7, <1>8 DEF FeedInv, EntriesMeant

LEMMA WriteFieldStep ==
    ASSUME FeedInv, NEW e \in current, NEW name \in FieldNames, NEW w, NEW m, FieldIs(name, w, m),
           WriteField(e, name, w, m)
    PROVE  FeedInv'
<1>1. /\ doc' = Then(doc, w) /\ current' = {[e EXCEPT ![name] = m]} /\ deleted' = deleted /\ regular' = regular
      /\ \A later \in DOMAIN FieldRank : FieldRank[later] >= FieldRank[name] => e[later] = {}
  BY DEF WriteField, Then
<1>2. PICK bs \in Seq(Seq(Token)) : Coded(EntryOf, bs) = regular /\ EntryWithin(current, doc, bs)
  BY DEF FeedInv, EntriesMeant
<1>3. PICK f \in Segments : IsMeaning(e) /\ FieldsAre(f, e) /\ EntriesCut(doc) = Within(BlockOf(f), bs)
  BY <1>2 DEF EntryWithin
<1> DEFINE g == [f EXCEPT ![name] = w]  d == [e EXCEPT ![name] = m]
<1>4. /\ g \in Segments /\ IsMeaning(d) /\ FieldsAre(g, d)
      /\ BlockOf(g) = Then(BlockOf(f), w) /\ w \in Seq(FieldToken)
  BY <1>1, <1>3, FieldWritten
<1>5. doc \in Seq(Token) /\ BlockOf(f) \in Seq(Token)
  BY BlockType DEF FeedInv
<1> HIDE DEF g, d
<1>6. Then(doc, w) \in Seq(Token) /\ EntriesCut(Then(doc, w)) = Within(BlockOf(g), bs)
  BY <1>3, <1>4, <1>5, InnerWritten
<1>7. EntryWithin(current', doc', bs)
  BY <1>1, <1>4, <1>6 DEF EntryWithin, d
<1>8. DeletionsMeant(doc', deleted')
  BY <1>1, <1>4, <1>5, InnerWritten DEF FeedInv, DeletionsMeant
<1> QED BY <1>1, <1>2, <1>6, <1>7, <1>8 DEF FeedInv, EntriesMeant

LEMMA FieldsWrittenAre ==
    ASSUME NEW e, WriteId(e) \/ WriteText(e)
    PROVE  \E name \in FieldNames : \E w, m : FieldIs(name, w, m) /\ WriteField(e, name, w, m)
<1>1. "video" \in FieldNames /\ "channel" \in FieldNames /\ "title" \in FieldNames
      /\ "published" \in FieldNames /\ "updated" \in FieldNames
  BY DEF FieldNames
<1>2. ASSUME NEW v \in Videos \union Malformed, NEW p \in {"yt:", Bare},
             WriteField(e, "video", Element(p, "videoId", <<Text(v)>>), {v})
      PROVE  \E name \in FieldNames : \E w, m : FieldIs(name, w, m) /\ WriteField(e, name, w, m)
  <2>1. FieldIs("video", Element(p, "videoId", <<Text(v)>>), {v})
    BY DEF FieldIs, VideoIs
  <2> QED BY <1>1, <1>2, <2>1
<1>3. ASSUME NEW c \in Channels \union Malformed,
             WriteField(e, "channel", Element("yt:", "channelId", <<Text(c)>>), {c})
      PROVE  \E name \in FieldNames : \E w, m : FieldIs(name, w, m) /\ WriteField(e, name, w, m)
  <2>1. FieldIs("channel", Element("yt:", "channelId", <<Text(c)>>), {c})
    BY DEF FieldIs, ChannelIs
  <2> QED BY <1>1, <1>3, <2>1
<1>4. ASSUME NEW c \in Channels, WriteField(e, "channel", <<>> \o <<Start(Bare, "/channel/"), Text(c)>>, {c})
      PROVE  \E name \in FieldNames : \E w, m : FieldIs(name, w, m) /\ WriteField(e, name, w, m)
  <2> DEFINE y == <<Start(Bare, "/channel/"), Text(c)>>
  <2>1. FieldIs("channel", y, {c})
    BY DEF FieldIs, ChannelIs
  <2>2. <<>> \o y = y
    OBVIOUS
  <2>3. WriteField(e, "channel", y, {c})
    BY <1>4, <2>2
  <2> HIDE DEF y
  <2> QED BY <1>1, <2>1, <2>3
<1>5. ASSUME NEW c \in Channels, NEW d \in Malformed,
             WriteField(e, "channel", Element("yt:", "channelId", <<Text(d)>>) \o <<Start(Bare, "/channel/"), Text(c)>>, {c})
      PROVE  \E name \in FieldNames : \E w, m : FieldIs(name, w, m) /\ WriteField(e, name, w, m)
  <2>1. FieldIs("channel", Element("yt:", "channelId", <<Text(d)>>) \o <<Start(Bare, "/channel/"), Text(c)>>, {c})
    BY DEF FieldIs, ChannelIs
  <2> QED BY <1>1, <1>5, <2>1
<1>6. ASSUME NEW t \in Titles, WriteField(e, "title", Element(Bare, "title", Escaped(t)), {Texts(t)})
      PROVE  \E name \in FieldNames : \E w, m : FieldIs(name, w, m) /\ WriteField(e, name, w, m)
  <2>1. FieldIs("title", Element(Bare, "title", Escaped(t)), {Texts(t)})
    BY DEF FieldIs, TitleIs
  <2> QED BY <1>1, <1>6, <2>1
<1>7. ASSUME NEW n \in {"published", "updated"}, NEW t \in Times,
             WriteField(e, n, Element(Bare, n, <<Text(t)>>), {<<Text(t)>>})
      PROVE  \E name \in FieldNames : \E w, m : FieldIs(name, w, m) /\ WriteField(e, name, w, m)
  <2>1. FieldIs(n, Element(Bare, n, <<Text(t)>>), {<<Text(t)>>})
    BY DEF FieldIs, TimeIs
  <2> QED BY <1>1, <1>7, <2>1
<1>8. CASE WriteId(e)
  <2>1. CASE \E v \in Videos \union Malformed, p \in {"yt:", Bare} :
               WriteField(e, "video", Element(p, "videoId", <<Text(v)>>), {v})
    BY <1>2, <2>1
  <2>2. CASE \E c \in Channels \union Malformed :
               WriteField(e, "channel", Element("yt:", "channelId", <<Text(c)>>), {c})
    BY <1>3, <2>2
  <2>3. CASE \E c \in Channels, id \in {<<>>} \union {Element("yt:", "channelId", <<Text(m)>>) : m \in Malformed} :
               WriteField(e, "channel", id \o <<Start(Bare, "/channel/"), Text(c)>>, {c})
    <3>1. PICK c \in Channels, id \in {<<>>} \union {Element("yt:", "channelId", <<Text(m)>>) : m \in Malformed} :
            WriteField(e, "channel", id \o <<Start(Bare, "/channel/"), Text(c)>>, {c})
      BY <2>3
    <3>2. CASE id = <<>>
      BY <1>4, <3>1, <3>2
    <3>3. CASE \E d \in Malformed : id = Element("yt:", "channelId", <<Text(d)>>)
      BY <1>5, <3>1, <3>3
    <3> QED BY <3>1, <3>2, <3>3
  <2> QED BY <1>8, <2>1, <2>2, <2>3 DEF WriteId
<1>9. CASE WriteText(e)
  BY <1>6, <1>7, <1>9 DEF WriteText
<1> QED BY <1>8, <1>9

LEMMA CloseEntryStep ==
    ASSUME FeedInv, NEW e \in current, CloseEntry(e) PROVE FeedInv'
<1> DEFINE t == Append(doc, End(Bare, "entry"))
<1>1. doc' = t /\ current' = {} /\ deleted' = deleted /\ regular' = Then(regular, ClosedAs(e))
  BY DEF CloseEntry, ClosedAs, Then
<1>2. PICK bs \in Seq(Seq(Token)) : Coded(EntryOf, bs) = regular /\ EntryWithin(current, doc, bs)
  BY DEF FeedInv, EntriesMeant
<1>3. PICK f \in Segments : FieldsAre(f, e) /\ EntriesCut(doc) = Within(BlockOf(f), bs)
  BY <1>2 DEF EntryWithin
<1>4. doc \in Seq(Token) /\ End(Bare, "entry") \in Tags(Bare, "entry") /\ BlockOf(f) \in Seq(Token)
  BY BlockType DEF FeedInv, Tags
<1> DEFINE b == BlockOf(f)
<1>5. Entry(b) = ClosedAs(e)
  BY <1>3, EntryRead
<1> HIDE DEF b
<1>6. t \in Seq(Token) /\ EntriesCut(t) = AtRest(Append(bs, b))
  BY <1>3, <1>4, EntryTagWritten DEF b
<1>7. Coded(EntryOf, Append(bs, b)) = Then(Coded(EntryOf, bs), EntryOf[b])
  BY <1>4, EntryOfType, CodedBack DEF b
<1>8. EntryOf[b] = ClosedAs(e) /\ Append(bs, b) \in Seq(Seq(Token))
  BY <1>4, <1>5 DEF EntryOf, b
<1>9. DeletionsMeant(t, deleted')
  BY <1>1, <1>4, EntryTagWritten DEF FeedInv, DeletionsMeant
<1> HIDE DEF t
<1>10. EntriesMeant(t, current', regular')
  BY <1>1, <1>2, <1>6, <1>7, <1>8 DEF EntriesMeant
<1> QED BY <1>1, <1>6, <1>9, <1>10 DEF FeedInv

LEMMA FeedInvHolds == FeedSpec => []FeedInv
<1>1. FeedInit => FeedInv
  BY FeedInitially
<1>2. FeedInv /\ [FeedNext]_feedVars => FeedInv'
  <2> SUFFICES ASSUME FeedInv, [FeedNext]_feedVars PROVE FeedInv'
    OBVIOUS
  <2>1. CASE FeedField
    BY <2>1, FeedFieldStep
  <2>2. CASE \E v \in Videos \union Malformed, c \in Channels : WriteDeletion(v, c)
    BY <2>2, WriteDeletionStep
  <2>3. CASE OpenEntry
    BY <2>3, OpenEntryStep
  <2>4. ASSUME NEW e \in current, WriteId(e) \/ WriteText(e) PROVE FeedInv'
    BY <2>4, FieldsWrittenAre, WriteFieldStep
  <2>5. ASSUME NEW e \in current, CloseEntry(e) PROVE FeedInv'
    BY <2>5, CloseEntryStep
  <2>6. CASE UNCHANGED feedVars
    BY <2>6 DEF feedVars, FeedInv
  <2> QED BY <2>1, <2>2, <2>3, <2>4, <2>5, <2>6 DEF FeedNext
<1> QED BY <1>1, <1>2, PTL DEF FeedSpec

LEMMA ReadAsMeant == FeedInv => ParsedAsWritten
<1> SUFFICES ASSUME FeedInv PROVE ParsedAsWritten
  OBVIOUS
<1>1. PICK ds \in Seq(Seq(Token)) : DeletionsCut(doc) = AtRest(ds) /\ Coded(DeletionOf, ds) = deleted
  BY DEF FeedInv, DeletionsMeant
<1>2. PICK bs \in Seq(Seq(Token)) :
        /\ Coded(EntryOf, bs) = regular
        /\ \/ current = {} /\ EntriesCut(doc) = AtRest(bs)
           \/ EntryWithin(current, doc, bs)
  BY DEF FeedInv, EntriesMeant
<1> DEFINE R == DeletionRecord \union EntryRecord
<1>3. deleted \in Seq(R) /\ regular \in Seq(R)
  <2>1. deleted \in Seq(DeletionRecord)
    BY <1>1, DeletionOfType, CodedType
  <2>2. regular \in Seq(EntryRecord)
    BY <1>2, EntryOfType, CodedType
  <2>3. deleted \in Seq(R)
    BY <2>1, SeqMonotonic
  <2>4. regular \in Seq(R)
    BY <2>2, SeqMonotonic
  <2> QED BY <2>3, <2>4
<1>4. Then(deleted, regular) \in Seq(R)
  BY <1>3, ThenType
<1>5. Blocks(doc, "at:", "deleted-entry") = ds
  BY <1>1 DEF Blocks, DeletionsCut, AtRest
<1>6. deleted \o regular = Then(deleted, regular)
  BY DEF Then
<1>7. CASE current = {} /\ EntriesCut(doc) = AtRest(bs)
  <2>1. Blocks(doc, Bare, "entry") = bs
    BY <1>7 DEF Blocks, EntriesCut, AtRest
  <2>2. Parse(doc) = Then(deleted, regular)
    BY <1>1, <1>2, <1>5, <2>1, ParseIs
  <2>3. IsPrefix(Then(deleted, regular), Then(deleted, regular))
    BY <1>4, PrefixOfThen
  <2> QED BY <1>6, <2>2, <2>3 DEF ParsedAsWritten
<1>8. CASE EntryWithin(current, doc, bs)
  <2>1. PICK f \in Segments : current # {} /\ EntriesCut(doc) = Within(BlockOf(f), bs)
    BY <1>8 DEF EntryWithin
  <2> DEFINE b == BlockOf(f)
  <2>2. b \in Seq(Token)
    BY BlockType
  <2> HIDE DEF b
  <2>3. Blocks(doc, Bare, "entry") = Append(bs, b) /\ Append(bs, b) \in Seq(Seq(Token))
    BY <2>1, <2>2 DEF Blocks, EntriesCut, Within, b
  <2>4. Parse(doc) = Then(deleted, Coded(EntryOf, Append(bs, b)))
    BY <1>1, <1>5, <2>3, ParseIs
  <2>5. Coded(EntryOf, Append(bs, b)) = Then(regular, EntryOf[b])
    BY <1>2, <2>2, EntryOfType, CodedBack
  <2>6. EntryOf[b] \in Seq(R)
    <3>1. EntryOf[b] \in Seq(EntryRecord)
      BY <2>2, EntryOfType
    <3> QED BY <3>1, SeqMonotonic
  <2> HIDE DEF R
  <2>7. Then(deleted, Then(regular, EntryOf[b])) = Then(Then(deleted, regular), EntryOf[b])
    BY <1>3, <2>6, ThenAssociative
  <2>8. IsPrefix(Then(deleted, regular), Parse(doc))
    <3>1. Parse(doc) = Then(Then(deleted, regular), EntryOf[b])
      BY <2>4, <2>5, <2>7
    <3>2. IsPrefix(Then(deleted, regular), Then(Then(deleted, regular), EntryOf[b]))
      BY <1>4, <2>6, PrefixOfThen
    <3> QED BY <3>1, <3>2
  <2> QED BY <1>6, <2>1, <2>8 DEF ParsedAsWritten
<1> QED BY <1>2, <1>7, <1>8

\* The parser returns what the writer meant (atom.rs:62-142): every deletion and
\* every well-formed entry once, in the order of the document, each with its own
\* fields and its title as it was before escaping; a document that stops inside
\* an entry changes nothing about the closed ones.
THEOREM ParsedAsWrittenAlways == FeedSpec => []ParsedAsWritten
BY FeedInvHolds, ReadAsMeant, PTL
=============================================================================
