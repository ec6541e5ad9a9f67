---------------------------- MODULE Subsequences ----------------------------
(***************************************************************************)
(* The elements of a sequence that a loop keeps, in their order.           *)
(***************************************************************************)
EXTENDS Integers, Sequences

\* The elements of a sequence at the positions in P, in their order.
At(s, P) ==
  LET to[n \in 0..Len(s)] ==
        IF n = 0 THEN <<>> ELSE IF n \in P THEN Append(to[n - 1], s[n]) ELSE to[n - 1]
  IN  to[Len(s)]
=============================================================================
