----------------------------- MODULE MCPageMap -----------------------------
(* TLC instances of PageMap. *)
EXTENDS PageMap, TLC

CONSTANTS zero, u1, u2, w,   \* virtual page 0, a pair at UTEMP, one further up
          t0, t1             \* their page tables

MCPdx  == [v \in Va |-> IF v = w THEN t1 ELSE t0]
MCPair == [v \in VPage |-> IF v \in Table THEN Table
                           ELSE IF v \in {u1, u2} THEN {u1, u2} \cap UserVa ELSE {v}]

\* Pages, envs and address space ids are interchangeable.
Symmetry == Permutations(Page) \cup Permutations(Env) \cup Permutations(Asid)
=============================================================================
