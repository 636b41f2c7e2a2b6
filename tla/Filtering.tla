----------------------------- MODULE Filtering -----------------------------
(***************************************************************************)
(* What is left of a list that is filtered (Vec::retain, Iterator::filter),*)
(* or of an object whose keys have an order when one is deleted from it.   *)
(***************************************************************************)
EXTENDS Naturals, Sequences

Ran(f) == {f[x] : x \in DOMAIN f}

\* Of the first n elements of q those in S, in their order.
OnlyUpTo(q, S) ==
  LET kept[n \in 0 .. Len(q)] ==
        IF n = 0 THEN <<>>
        ELSE IF q[n] \in S THEN Append(kept[n - 1], q[n]) ELSE kept[n - 1]
  IN  kept

Only(q, S) == OnlyUpTo(q, S)[Len(q)]

=============================================================================
