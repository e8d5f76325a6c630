---------------------------- MODULE Subsequences ----------------------------
(***************************************************************************)
(* What a loop that copies some elements of a sequence makes of it.  This  *)
(* is SelectSeq for a set, as a recursive function that can be reasoned    *)
(* about.                                                                  *)
(***************************************************************************)
EXTENDS Naturals, Sequences

\* The elements of s that are in S, in the order of s.
Only(s, S) ==
    LET kept[i \in 0 .. Len(s)] ==
            IF i = 0 THEN <<>>
            ELSE IF s[i] \in S THEN Append(kept[i - 1], s[i])
            ELSE kept[i - 1]
    IN  kept[Len(s)]

=============================================================================
