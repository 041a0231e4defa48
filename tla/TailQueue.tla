----------------------------- MODULE TailQueue -----------------------------
(***************************************************************************)
(* The tail queue of include/queue.h at the level of its pointers.         *)
(*                                                                         *)
(* A queue is a record:                                                    *)
(*   first   tqh_first, the first element or NULL;                         *)
(*   last    tqh_last, the ADDRESS of the last "next" field: the element   *)
(*           whose tqe_next it is, or HEAD for &head->tqh_first;           *)
(*   next    tqe_next of every element;                                    *)
(*   prev    tqe_prev of every element, again the address of a "next"      *)
(*           field.                                                        *)
(* The links of an element outlive its removal, as they do in the macros:  *)
(* nothing clears them.  Elements that were never inserted have the zeros  *)
(* of the .bss section in both fields.                                     *)
(***************************************************************************)
EXTENDS Naturals, FiniteSets

CONSTANTS NULL,     \* the null pointer
          HEAD      \* the address of head->tqh_first

ASSUME NullHeadAssumption == NULL # HEAD

\* Pointers to elements of E, and addresses of "next" fields.
Ptr(E) == E \cup {NULL}
Loc(E) == E \cup {NULL, HEAD}

Queue(E) == [first : Ptr(E), last : Loc(E), next : [E -> Ptr(E)], prev : [E -> Loc(E)]]

\* TAILQ_INIT on a head whose elements are still zero.
InitQueue(E) == [first |-> NULL, last |-> HEAD,
                 next |-> [e \in E |-> NULL], prev |-> [e \in E |-> NULL]]

\* "*loc = v" for an address loc of a "next" field: what it leaves in
\* tqh_first and in the tqe_next fields.  A store through NULL halts the
\* kernel instead: see Faults.
StoredFirst(first, loc, v) == IF loc = HEAD THEN v ELSE first
StoredNext(next, loc, v)   == IF loc = HEAD THEN next ELSE [next EXCEPT ![loc] = v]

\* TAILQ_INSERT_HEAD.
InsertHead(q, e) ==
    [first |-> e,
     last  |-> IF q.first = NULL THEN e ELSE q.last,
     next  |-> [q.next EXCEPT ![e] = q.first],
     prev  |-> IF q.first = NULL THEN [q.prev EXCEPT ![e] = HEAD]
                                 ELSE [q.prev EXCEPT ![q.first] = e, ![e] = HEAD]]

\* TAILQ_INSERT_TAIL.
InsertTail(q, e) ==
    [first |-> StoredFirst(q.first, q.last, e),
     last  |-> e,
     next  |-> StoredNext([q.next EXCEPT ![e] = NULL], q.last, e),
     prev  |-> [q.prev EXCEPT ![e] = q.last]]

\* TAILQ_REMOVE, which trusts the links it finds in the element.
Remove(q, e) ==
    LET n == q.next[e]
        p == q.prev[e]
    IN  [first |-> StoredFirst(q.first, p, n),
         last  |-> IF n = NULL THEN p ELSE q.last,
         next  |-> StoredNext(q.next, p, n),
         prev  |-> IF n = NULL THEN q.prev ELSE [q.prev EXCEPT ![n] = p]]

\* TAILQ_REMOVE of an element that was never inserted stores through NULL.
Faults(q, e) == q.prev[e] = NULL

(***************************************************************************)
(* What the pointers mean: q, followed from its head, is the sequence      *)
(* s[1], ..., s[n], and every back pointer agrees with it.                 *)
(***************************************************************************)
IsList(q, n, s) ==
    /\ \A i, j \in 1..n : s[i] = s[j] => i = j
    /\ q.first = IF n = 0 THEN NULL ELSE s[1]
    /\ q.last = IF n = 0 THEN HEAD ELSE s[n]
    /\ \A i \in 1..n : /\ q.next[s[i]] = IF i = n THEN NULL ELSE s[i + 1]
                       /\ q.prev[s[i]] = IF i = 1 THEN HEAD ELSE s[i - 1]

\* The queue holds every element of S exactly once and nothing else.
Lists(q, S) ==
    \E s \in [1 .. Cardinality(S) -> S] :
        /\ IsList(q, Cardinality(S), s)
        /\ \A e \in S : \E i \in 1 .. Cardinality(S) : s[i] = e
=============================================================================
