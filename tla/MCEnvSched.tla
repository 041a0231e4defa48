----------------------------- MODULE MCEnvSched -----------------------------
(* TLC instances of EnvSched. *)
EXTENDS EnvSched
=============================================================================
