----------------------------- MODULE ListFilter -----------------------------
(***************************************************************************)
(* What a list comprehension with a condition keeps of a list.  A recursive *)
(* function rather than SelectSeq, so that proofs can unfold it.            *)
(***************************************************************************)
EXTENDS Naturals, Sequences

\* [x for x in s if x in S]
Within(s, S) ==
  LET kept[i \in 0..Len(s)] ==
        IF i = 0 THEN <<>>
        ELSE IF s[i] \in S THEN Append(kept[i - 1], s[i]) ELSE kept[i - 1]
  IN kept[Len(s)]
=============================================================================
