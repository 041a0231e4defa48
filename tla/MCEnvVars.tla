----------------------------- MODULE MCEnvVars -----------------------------
(* TLC instance of EnvVars. *)
EXTENDS EnvVars, TLC

\* Names, and the envs other than the first, are interchangeable.
Symmetry == Permutations(Name) \cup Permutations(Env \ {Root})
=============================================================================
