-------------------------------- MODULE Scan --------------------------------
(***************************************************************************)
(* What a loop over the lines of a file, or a filter over the entries of a *)
(* queue, keeps of what it reads.                                          *)
(***************************************************************************)
EXTENDS Naturals, Sequences

\* What has been kept of the first n elements of s, by n, when those at the
\* positions in keep are.
Scan(s, keep) ==
    LET kept[n \in 0..Len(s)] ==
          IF n = 0 THEN <<>>
          ELSE IF n \in keep THEN Append(kept[n - 1], s[n])
          ELSE kept[n - 1]
    IN  kept

Filtered(s, keep) == Scan(s, keep)[Len(s)]

=============================================================================
