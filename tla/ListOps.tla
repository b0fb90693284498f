------------------------------- MODULE ListOps -------------------------------
(***************************************************************************)
(* What the components do with lists and no community module defines by a  *)
(* recursive function, which the proofs can reason about.                  *)
(***************************************************************************)
EXTENDS Naturals, Sequences

\* The elements of s that are in S, in their order.
Picked(s, S) ==
    LET picked[n \in 0..Len(s)] ==
            IF n = 0 THEN <<>>
            ELSE IF s[n] \in S THEN Append(picked[n - 1], s[n]) ELSE picked[n - 1]
    IN  picked[Len(s)]

\* The numbers in s, added up.
Total(s) ==
    LET total[n \in 0..Len(s)] == IF n = 0 THEN 0 ELSE total[n - 1] + s[n]
    IN  total[Len(s)]

=============================================================================
