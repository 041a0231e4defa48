--------------------------- MODULE AddressSpaces ---------------------------
(***************************************************************************)
(* What fork() and spawn() promise about memory, with no pages in sight:   *)
(* every env has values of its own at its virtual pages, except at the     *)
(* pages of Shared (those mapped with PTE_LIBRARY), where all envs that    *)
(* have the page see one value.  Fork implements this.                     *)
(***************************************************************************)
CONSTANTS Env, Va, Shared, Val, NULL

VARIABLES mem,   \* what env e reads at page v, NULL if e does not have the page
          live   \* the envs that run

vars == <<mem, live>>

Has(e, v) == mem[e][v] # NULL

Init == /\ mem \in [Env -> [Va -> Val \cup {NULL}]]
        /\ \E e \in Env : /\ live = {e}
                          /\ \A f \in Env \ live, v \in Va : ~Has(f, v)

\* A running env writes: the others notice at a shared page only.
Write(e, v, x) ==
    /\ e \in live /\ Has(e, v)
    /\ mem' = IF v \in Shared
              THEN [f \in Env |-> IF Has(f, v) THEN [mem[f] EXCEPT ![v] = x] ELSE mem[f]]
              ELSE [mem EXCEPT ![e][v] = x]
    /\ UNCHANGED live

\* A child that does not run yet gets a page: a copy of another env's page, as it is now.
Copy(e, c, v) ==
    /\ e \in live /\ c \notin live /\ Has(e, v) /\ ~Has(c, v)
    /\ mem' = [mem EXCEPT ![c][v] = mem[e][v]]
    /\ UNCHANGED live

\* Or, in spawn(), a page of its own that its parent has filled.
Load(c, v, x) ==
    /\ c \notin live /\ v \notin Shared /\ ~Has(c, v)
    /\ mem' = [mem EXCEPT ![c][v] = x]
    /\ UNCHANGED live

Start(c) == live' = live \cup {c} /\ UNCHANGED mem

\* An env dies, or a child that never ran is destroyed.
Gone(e) == /\ live' = live \ {e}
           /\ mem' = [mem EXCEPT ![e] = [v \in Va |-> NULL]]

Next == \/ \E e \in Env, v \in Va, x \in Val : Write(e, v, x) \/ Load(e, v, x)
        \/ \E e, c \in Env, v \in Va : Copy(e, c, v)
        \/ \E e \in Env : Start(e) \/ Gone(e)

Spec == Init /\ [][Next]_vars
=============================================================================
