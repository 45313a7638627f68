----------------------------- MODULE Subsequences -----------------------------
(***************************************************************************)
(* The filter of a list, by a set of the elements that stay.               *)
(***************************************************************************)
EXTENDS Naturals, Sequences

\* The elements of s in T among the first i, for every i.
keptUpTo(s, T) ==
    LET upTo[i \in 0..Len(s)] ==
          IF i = 0 THEN <<>>
          ELSE IF s[i] \in T THEN Append(upTo[i - 1], s[i]) ELSE upTo[i - 1]
    IN  upTo

\* s.filter((x) => x in T)
only(s, T) == keptUpTo(s, T)[Len(s)]
=============================================================================
