---------------------------- MODULE MCExitStatus ----------------------------
(* TLC instances of ExitStatus. *)
EXTENDS ExitStatus, TLC

\* Slots are interchangeable.
Symmetry == Permutations(Slot)
=============================================================================
