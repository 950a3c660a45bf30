------------------------------ MODULE Strings ------------------------------
(***************************************************************************)
(* str::find, slices and str::split, as the hand-written parsers use them  *)
(* on a text that is a sequence of bytes or of tokens.                     *)
(***************************************************************************)
EXTENDS Naturals, Sequences, FiniteSetsExt

\* The first place of b, or 0.
FirstAt(s, b) ==
  LET places == {i \in DOMAIN s : s[i] = b} IN IF places = {} THEN 0 ELSE Min(places)
Before(s, i) == SubSeq(s, 1, i - 1)
After(s, i) == SubSeq(s, i + 1, Len(s))

Split(s, b) ==
  LET parts[n \in 0 .. Len(s)] ==   \* of the last n bytes
        IF n = 0 THEN << <<>> >>
        ELSE IF s[Len(s) - n + 1] = b THEN << <<>> >> \o parts[n - 1]
        ELSE [parts[n - 1] EXCEPT ![1] = <<s[Len(s) - n + 1]>> \o @]
  IN  parts[Len(s)]
=============================================================================
