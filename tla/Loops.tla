------------------------------- MODULE Loops ---------------------------------
(***************************************************************************)
(* The loops of the code, as values.  c is whatever the body reads besides *)
(* the value so far; k counts the rounds.                                  *)
(***************************************************************************)
EXTENDS Naturals, Sequences

\* The value a loop of n rounds makes of base.
Loop(Body(_, _, _), c, base, n) ==
    LET value[k \in 0..n] == IF k = 0 THEN base ELSE Body(c, value[k - 1], k) IN value[n]

\* c = <<s, at>>: an element of s is kept when it stands at one of the places.
PickStep(c, v, k) == IF k \in c[2] THEN Append(v, c[1][k]) ELSE v

\* The elements of s at these places, in their order.
Picked(s, at) == Loop(PickStep, <<s, at>>, <<>>, Len(s))
=============================================================================
