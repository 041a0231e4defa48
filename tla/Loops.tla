------------------------------- MODULE Loops -------------------------------
(* The loops of the program: for (n = from; n < to; n++) m = op(m, n), where *)
(* from <= to.  A break is a step that leaves m alone from then on.          *)
EXTENDS Integers

Loop(op(_, _), m, from, to) ==
    LET x[n \in from .. to] == IF n = from THEN m ELSE op(x[n - 1], n - 1) IN x[to]
=============================================================================
