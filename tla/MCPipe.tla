------------------------------- MODULE MCPipe -------------------------------
(* TLC instances of Pipe. *)
EXTENDS Pipe, TLC

\* The processes other than the creator are interchangeable.
Symmetry == Permutations(Proc \ {Creator})
=============================================================================
