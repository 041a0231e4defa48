------------------------------- MODULE MCFork -------------------------------
(* Fork with a page of each kind: s the stack, t the text, l shared with PTE_LIBRARY. *)
EXTENDS Fork, TLC

CONSTANTS s, t, l
MCPage == 1 .. 16
MCVa == {s, t, l}
MCShared == {l}
MCReadOnly == {t}
MCStack == {s}
MCImage == s :> 1 @@ t :> 2 @@ l :> 3
\* Pages are interchangeable: a state is who shares a page with whom and what is in it.
View == <<[e \in Env, v \in VPage |->
              IF Mapped(e, v) THEN <<{q \in Env \X VPage : SamePage(e, v, q[1], q[2])},
                                     pt[e][v].perm, data[pt[e][v].page]>>
              ELSE NULL], live, job, fault>>
Symmetry == Permutations(Env \ {First})
=============================================================================
