--------------------------- MODULE EnvSchedProofs ---------------------------
(***************************************************************************)
(* Invariance proofs for EnvSched, for any number of envs, ASIDs,          *)
(* priorities and generations; before them, what the macros of             *)
(* include/queue.h do to the sequence a queue stands for, for queues of    *)
(* any length over any set of elements.                                    *)
(***************************************************************************)
EXTENDS EnvSched, FiniteSetTheorems, SequenceTheorems, WellFoundedInduction, TLAPS

(* Tail queues *)

\* The sequence with e appended, with e in front, and without its k-th element.
Appended(n, s, e)  == [i \in 1 .. n + 1 |-> IF i = n + 1 THEN e ELSE s[i]]
Prepended(n, s, e) == [i \in 1 .. n + 1 |-> IF i = 1 THEN e ELSE s[i - 1]]
Without(n, s, k)   == [i \in 1 .. n - 1 |-> IF i < k THEN s[i] ELSE s[i + 1]]

\* A set of elements that holds neither of the two special addresses.
Elements(E) == NULL \notin E /\ HEAD \notin E

\* TAILQ_INIT leaves an empty queue.
LEMMA InitQueueIsList ==
    ASSUME NEW E, NEW s
    PROVE  InitQueue(E) \in Queue(E) /\ IsList(InitQueue(E), 0, s)
  BY DEF InitQueue, Queue, Ptr, Loc, IsList

\* TAILQ_INSERT_TAIL appends an element that is not in the queue.
LEMMA InsertTailAppends ==
    ASSUME NEW E, Elements(E), NEW q \in Queue(E), NEW n \in Nat,
           NEW s \in [1 .. n -> E], IsList(q, n, s),
           NEW e \in E, \A i \in 1 .. n : s[i] # e
    PROVE  /\ InsertTail(q, e) \in Queue(E)
           /\ IsList(InsertTail(q, e), n + 1, Appended(n, s, e))
  <1> DEFINE r == InsertTail(q, e)
             t == Appended(n, s, e)
  <1>0. NULL # HEAD  BY NullHeadAssumption
  <1>1. CASE n = 0
    <2>1. q.last = HEAD /\ q.first = NULL  BY <1>1 DEF IsList
    <2>2. r = [first |-> e, last |-> e, next |-> [q.next EXCEPT ![e] = NULL],
               prev |-> [q.prev EXCEPT ![e] = HEAD]]
      BY <2>1, <1>0 DEF InsertTail, StoredFirst, StoredNext, Queue
    <2>3. r \in Queue(E)  BY <2>2 DEF Queue, Ptr, Loc
    <2>4. IsList(r, 1, t)
      <3>1. t[1] = e  BY <1>1 DEF Appended
      <3> QED BY <2>2, <3>1 DEF IsList, Queue
    <2> QED BY <1>1, <2>3, <2>4
  <1>2. CASE n # 0
    <2>1. q.last = s[n] /\ s[n] \in E /\ s[n] # e /\ q.first = s[1]
      BY <1>2 DEF IsList
    <2>2. r = [first |-> q.first, last |-> e,
               next |-> [q.next EXCEPT ![e] = NULL, ![s[n]] = e],
               prev |-> [q.prev EXCEPT ![e] = s[n]]]
      BY <2>1 DEF InsertTail, StoredFirst, StoredNext, Queue, Elements
    <2>3. r \in Queue(E)  BY <2>1, <2>2 DEF Queue, Ptr, Loc
    <2>4. /\ t[n + 1] = e
          /\ \A i \in 1 .. n : t[i] = s[i] /\ s[i] \in E
      BY DEF Appended
    <2>5. \A i, j \in 1 .. n + 1 : t[i] = t[j] => i = j
      BY <2>4 DEF IsList
    <2>6. r.first = t[1] /\ r.last = t[n + 1]
      BY <1>2, <2>1, <2>2, <2>4
    <2>7. \A i \in 1 .. n + 1 : r.next[t[i]] = IF i = n + 1 THEN NULL ELSE t[i + 1]
      <3> TAKE i \in 1 .. n + 1
      <3>1. CASE i = n + 1  BY <3>1, <2>1, <2>2, <2>4 DEF Queue
      <3>2. CASE i = n  BY <3>2, <1>2, <2>1, <2>2, <2>4 DEF Queue
      <3>3. CASE i \in 1 .. n - 1
        <4>1. s[i] # s[n]  BY <3>3 DEF IsList
        <4>2. r.next[s[i]] = q.next[s[i]]
          BY <3>3, <4>1, <2>1, <2>2, <2>4 DEF Queue
        <4>3. i \in 1 .. n /\ i + 1 \in 1 .. n /\ i # n  BY <3>3
        <4>4. q.next[s[i]] = s[i + 1]  BY <4>3 DEF IsList
        <4> QED BY <4>2, <4>3, <4>4, <2>4
      <3> QED BY <3>1, <3>2, <3>3
    <2>8. \A i \in 1 .. n + 1 : r.prev[t[i]] = IF i = 1 THEN HEAD ELSE t[i - 1]
      <3> TAKE i \in 1 .. n + 1
      <3>1. CASE i = n + 1  BY <3>1, <1>2, <2>1, <2>2, <2>4 DEF Queue
      <3>2. CASE i \in 1 .. n
        <4>1. r.prev[s[i]] = q.prev[s[i]]
          BY <3>2, <2>1, <2>2, <2>4 DEF Queue
        <4> QED BY <3>2, <4>1, <2>4 DEF IsList
      <3> QED BY <3>1, <3>2
    <2> QED BY <2>3, <2>5, <2>6, <2>7, <2>8 DEF IsList
  <1> QED BY <1>1, <1>2

\* TAILQ_INSERT_HEAD puts an element that is not in the queue in front.
LEMMA InsertHeadPrepends ==
    ASSUME NEW E, Elements(E), NEW q \in Queue(E), NEW n \in Nat,
           NEW s \in [1 .. n -> E], IsList(q, n, s),
           NEW e \in E, \A i \in 1 .. n : s[i] # e
    PROVE  /\ InsertHead(q, e) \in Queue(E)
           /\ IsList(InsertHead(q, e), n + 1, Prepended(n, s, e))
  <1> DEFINE r == InsertHead(q, e)
             t == Prepended(n, s, e)
  <1>0. /\ NULL # HEAD
        /\ t[1] = e
        /\ \A i \in 1 .. n : t[i + 1] = s[i] /\ s[i] \in E
    BY NullHeadAssumption DEF Prepended
  <1>1. CASE n = 0
    <2>1. q.first = NULL  BY <1>1 DEF IsList
    <2>2. r = [first |-> e, last |-> e, next |-> [q.next EXCEPT ![e] = NULL],
               prev |-> [q.prev EXCEPT ![e] = HEAD]]
      BY <2>1 DEF InsertHead, Queue
    <2>3. r \in Queue(E)  BY <2>2 DEF Queue, Ptr, Loc
    <2>4. IsList(r, 1, t)  BY <2>2, <1>0 DEF IsList, Queue
    <2> QED BY <1>1, <2>3, <2>4
  <1>2. CASE n # 0
    <2>1. /\ q.last = s[n] /\ q.first = s[1] /\ s[1] # NULL /\ s[1] # e
          /\ 1 \in 1 .. n /\ n \in 1 .. n
      BY <1>2, <1>0 DEF IsList, Elements
    <2>2. r = [first |-> e, last |-> q.last,
               next |-> [q.next EXCEPT ![e] = s[1]],
               prev |-> [q.prev EXCEPT ![s[1]] = e, ![e] = HEAD]]
      BY <2>1 DEF InsertHead, Queue
    <2>3. r \in Queue(E)
      <3>1. s[1] \in E  BY <2>1, <1>0
      <3>2. [q.next EXCEPT ![e] = s[1]] \in [E -> Ptr(E)]  BY <3>1 DEF Queue, Ptr
      <3>3. q.prev \in [E -> Loc(E)] /\ e \in Loc(E) /\ HEAD \in Loc(E)
        BY DEF Queue, Loc
      <3>4. [q.prev EXCEPT ![s[1]] = e, ![e] = HEAD] \in [E -> Loc(E)]  BY <3>1, <3>3
      <3>5. e \in Ptr(E) /\ q.last \in Loc(E)  BY DEF Queue, Ptr
      <3> HIDE DEF r
      <3> QED BY <2>2, <3>2, <3>4, <3>5 DEF Queue
    <2>4. \A i, j \in 1 .. n + 1 : t[i] = t[j] => i = j
      <3> TAKE i, j \in 1 .. n + 1
      <3>1. i # 1 => i - 1 \in 1 .. n /\ t[i] = s[i - 1]  BY DEF Prepended
      <3>2. j # 1 => j - 1 \in 1 .. n /\ t[j] = s[j - 1]  BY DEF Prepended
      <3> QED BY <3>1, <3>2, <1>0 DEF IsList
    <2>5. r.first = t[1] /\ r.last = t[n + 1]
      BY <1>0, <2>1, <2>2
    <2>6. \A i \in 1 .. n + 1 : r.next[t[i]] = IF i = n + 1 THEN NULL ELSE t[i + 1]
      <3> TAKE i \in 1 .. n + 1
      <3>1. CASE i = 1  BY <3>1, <1>0, <1>2, <2>1, <2>2 DEF Queue
      <3>2. CASE i # 1
        <4>1. i - 1 \in 1 .. n /\ t[i] = s[i - 1]  BY <3>2 DEF Prepended
        <4>2. r.next[t[i]] = q.next[s[i - 1]]  BY <4>1, <1>0, <2>2 DEF Queue
        <4>3. q.next[s[i - 1]] = IF i - 1 = n THEN NULL ELSE s[i]
          BY <4>1, <3>2 DEF IsList
        <4>4. i # n + 1 => t[i + 1] = s[i]  BY <1>0
        <4> QED BY <4>2, <4>3, <4>4
      <3> QED BY <3>1, <3>2
    <2>7. \A i \in 1 .. n + 1 : r.prev[t[i]] = IF i = 1 THEN HEAD ELSE t[i - 1]
      <3> TAKE i \in 1 .. n + 1
      <3>1. CASE i = 1  BY <3>1, <1>0, <2>2 DEF Queue
      <3>2. CASE i = 2
        BY <3>2, <1>0, <2>1, <2>2 DEF Queue, Prepended
      <3>3. CASE i \in 3 .. n + 1
        <4>1. i - 1 \in 1 .. n /\ t[i] = s[i - 1] /\ s[i - 1] # s[1]
          BY <3>3 DEF Prepended, IsList
        <4>2. r.prev[t[i]] = q.prev[s[i - 1]]  BY <4>1, <1>0, <2>1, <2>2 DEF Queue
        <4>3. q.prev[s[i - 1]] = s[i - 2]  BY <4>1, <3>3 DEF IsList
        <4>4. t[i - 1] = s[i - 2]  BY <3>3 DEF Prepended
        <4> QED BY <3>3, <4>2, <4>3, <4>4
      <3> QED BY <3>1, <3>2, <3>3
    <2> QED BY <2>3, <2>4, <2>5, <2>6, <2>7 DEF IsList
  <1> QED BY <1>1, <1>2

\* TAILQ_REMOVE takes the k-th element out of the queue and leaves that
\* element's own links alone.
LEMMA RemoveDeletes ==
    ASSUME NEW E, Elements(E), NEW q \in Queue(E), NEW n \in Nat,
           NEW s \in [1 .. n -> E], IsList(q, n, s), NEW k \in 1 .. n
    PROVE  /\ Remove(q, s[k]) \in Queue(E)
           /\ IsList(Remove(q, s[k]), n - 1, Without(n, s, k))
           /\ Remove(q, s[k]).next[s[k]] = q.next[s[k]]
           /\ Remove(q, s[k]).prev[s[k]] = q.prev[s[k]]
  <1> DEFINE e == s[k]
             r == Remove(q, e)
             t == Without(n, s, k)
             nx == q.next[e]
             pv == q.prev[e]
  <1>1. /\ NULL # HEAD
        /\ \A i \in 1 .. n : s[i] \in E /\ s[i] # NULL /\ s[i] # HEAD
        /\ \A i, j \in 1 .. n : s[i] = s[j] => i = j
    BY NullHeadAssumption DEF Elements, IsList
  <1>2. /\ nx = IF k = n THEN NULL ELSE s[k + 1]
        /\ pv = IF k = 1 THEN HEAD ELSE s[k - 1]
    BY DEF IsList
  <1>3. /\ k # n => k + 1 \in 1 .. n
        /\ k # 1 => k - 1 \in 1 .. n
        /\ k + 1 # k /\ k - 1 # k
    OBVIOUS
  <1>4. /\ nx = NULL <=> k = n
        /\ pv = HEAD <=> k = 1
        /\ nx \in Ptr(E) /\ pv \in Loc(E) \ {NULL}
    BY <1>1, <1>2, <1>3 DEF Ptr, Loc
  <1>5. /\ r.first = IF k = 1 THEN nx ELSE q.first
        /\ r.last = IF k = n THEN pv ELSE q.last
        /\ r.next = IF k = 1 THEN q.next ELSE [q.next EXCEPT ![pv] = nx]
        /\ r.prev = IF k = n THEN q.prev ELSE [q.prev EXCEPT ![nx] = pv]
    BY <1>4 DEF Remove, StoredFirst, StoredNext
  <1>6. r \in Queue(E)
    BY <1>4 DEF Remove, StoredFirst, StoredNext, Queue, Ptr, Loc
  <1>7. r.next[e] = nx /\ r.prev[e] = pv
    BY <1>1, <1>2, <1>3, <1>5 DEF Queue
  <1>8. \A i \in 1 .. n - 1 : /\ i \in 1 .. n /\ i + 1 \in 1 .. n
                              /\ t[i] = IF i < k THEN s[i] ELSE s[i + 1]
    BY DEF Without
  <1>9. \A i, j \in 1 .. n - 1 : t[i] = t[j] => i = j
    <2> SUFFICES ASSUME NEW i \in 1 .. n - 1, NEW j \in 1 .. n - 1, t[i] = t[j]
                 PROVE  i = j
      OBVIOUS
    <2> QED BY <1>1, <1>8
  <1>10. r.first = IF n - 1 = 0 THEN NULL ELSE t[1]
    <2>1. CASE k = 1
      BY <2>1, <1>2, <1>5, <1>8
    <2>2. CASE k # 1
      <3>1. r.first = s[1]  BY <2>2, <1>5 DEF IsList
      <3>2. 1 \in 1 .. n - 1 /\ 1 < k  BY <2>2
      <3> QED BY <3>1, <3>2, <1>8
    <2> QED BY <2>1, <2>2
  <1>11. r.last = IF n - 1 = 0 THEN HEAD ELSE t[n - 1]
    <2>1. CASE k = n
      BY <2>1, <1>2, <1>5, <1>8
    <2>2. CASE k # n
      <3>1. r.last = s[n]  BY <2>2, <1>5 DEF IsList
      <3>2. n - 1 \in 1 .. n - 1 /\ ~(n - 1 < k) /\ n - 1 + 1 = n  BY <2>2
      <3> QED BY <3>1, <3>2, <1>8
    <2> QED BY <2>1, <2>2
  <1>12. \A i \in 1 .. n : i # k /\ i # k - 1 => r.next[s[i]] = q.next[s[i]]
    BY <1>1, <1>2, <1>3, <1>5 DEF Queue
  <1>13. \A i \in 1 .. n : i # k /\ i # k + 1 => r.prev[s[i]] = q.prev[s[i]]
    BY <1>1, <1>2, <1>3, <1>5 DEF Queue
  <1>14. /\ k # 1 => r.next[s[k - 1]] = nx
         /\ k # n => r.prev[s[k + 1]] = pv
    BY <1>1, <1>2, <1>3, <1>5 DEF Queue
  <1>15. \A i \in 1 .. n - 1 : r.next[t[i]] = IF i = n - 1 THEN NULL ELSE t[i + 1]
    <2> TAKE i \in 1 .. n - 1
    <2>1. CASE i < k - 1
      <3>1. /\ i \in 1 .. n /\ i # k /\ i # k - 1 /\ i # n - 1 /\ i # n
            /\ t[i] = s[i] /\ t[i + 1] = s[i + 1]
        BY <2>1, <1>8
      <3>2. q.next[s[i]] = s[i + 1]  BY <3>1 DEF IsList
      <3> QED BY <3>1, <3>2, <1>12
    <2>2. CASE i = k - 1
      <3>1. t[i] = s[k - 1] /\ k # 1  BY <2>2, <1>8
      <3>2. i # n - 1 => t[i + 1] = s[k + 1]  BY <2>2, <1>8
      <3> QED BY <2>2, <3>1, <3>2, <1>14, <1>2
    <2>3. CASE i >= k
      <3>1. /\ i + 1 \in 1 .. n /\ i + 1 # k /\ i + 1 # k - 1
            /\ t[i] = s[i + 1]
        BY <2>3, <1>8
      <3>2. i # n - 1 => t[i + 1] = s[i + 2]  BY <2>3, <1>8
      <3>3. q.next[s[i + 1]] = IF i + 1 = n THEN NULL ELSE s[i + 2]
        BY <3>1 DEF IsList
      <3> QED BY <3>1, <3>2, <3>3, <1>12
    <2> QED BY <2>1, <2>2, <2>3
  <1>16. \A i \in 1 .. n - 1 : r.prev[t[i]] = IF i = 1 THEN HEAD ELSE t[i - 1]
    <2> TAKE i \in 1 .. n - 1
    <2>1. CASE i < k
      <3>1. /\ i \in 1 .. n /\ i # k /\ i # k + 1 /\ t[i] = s[i]
            /\ i # 1 => t[i - 1] = s[i - 1]
        BY <2>1, <1>8
      <3>2. q.prev[s[i]] = IF i = 1 THEN HEAD ELSE s[i - 1]  BY <3>1 DEF IsList
      <3> QED BY <3>1, <3>2, <1>13
    <2>2. CASE i = k
      <3>1. t[i] = s[k + 1] /\ k # n  BY <2>2, <1>8
      <3>2. i # 1 => t[i - 1] = s[k - 1]  BY <2>2, <1>8
      <3> QED BY <2>2, <3>1, <3>2, <1>14, <1>2
    <2>3. CASE i > k
      <3>1. /\ i + 1 \in 1 .. n /\ i + 1 # k /\ i + 1 # k + 1 /\ i # 1
            /\ t[i] = s[i + 1] /\ t[i - 1] = s[i]
        BY <2>3, <1>8
      <3>2. q.prev[s[i + 1]] = s[i]  BY <3>1 DEF IsList
      <3> QED BY <3>1, <3>2, <1>13
    <2> QED BY <2>1, <2>2, <2>3
  <1> QED BY <1>6, <1>7, <1>9, <1>10, <1>11, <1>15, <1>16 DEF IsList

\* A second TAILQ_REMOVE of the same element, with nothing between the two,
\* changes nothing: sys_ipc_recv and sys_set_env_status unlink the caller and
\* schedule() unlinks it again.
LEMMA RemoveTwice ==
    ASSUME NEW E, Elements(E), NEW q \in Queue(E), NEW n \in Nat,
           NEW s \in [1 .. n -> E], IsList(q, n, s), NEW k \in 1 .. n
    PROVE  Remove(Remove(q, s[k]), s[k]) = Remove(q, s[k])
  <1> DEFINE r == Remove(q, s[k])
             nx == q.next[s[k]]
             pv == q.prev[s[k]]
  <1>1. r.next[s[k]] = nx /\ r.prev[s[k]] = pv
    BY RemoveDeletes
  <1>2. q.next \in [E -> Ptr(E)] /\ q.prev \in [E -> Loc(E)]  BY DEF Queue
  <1>3. /\ r.first = IF pv = HEAD THEN nx ELSE q.first
        /\ r.last = IF nx = NULL THEN pv ELSE q.last
        /\ r.next = IF pv = HEAD THEN q.next ELSE [q.next EXCEPT ![pv] = nx]
        /\ r.prev = IF nx = NULL THEN q.prev ELSE [q.prev EXCEPT ![nx] = pv]
        /\ r = [first |-> r.first, last |-> r.last, next |-> r.next, prev |-> r.prev]
    BY DEF Remove, StoredFirst, StoredNext
  <1>4. pv # HEAD => [r.next EXCEPT ![pv] = nx] = r.next
    BY <1>2, <1>3
  <1>5. nx # NULL => [r.prev EXCEPT ![nx] = pv] = r.prev
    BY <1>2, <1>3
  <1>6. Remove(r, s[k]) =
          [first |-> IF pv = HEAD THEN nx ELSE r.first,
           last  |-> IF nx = NULL THEN pv ELSE r.last,
           next  |-> IF pv = HEAD THEN r.next ELSE [r.next EXCEPT ![pv] = nx],
           prev  |-> IF nx = NULL THEN r.prev ELSE [r.prev EXCEPT ![nx] = pv]]
    BY <1>1 DEF Remove, StoredFirst, StoredNext
  <1> QED BY <1>3, <1>4, <1>5, <1>6

-----------------------------------------------------------------------------
(* The same facts about the set of elements a queue holds. *)

\* The queue TAILQ_INIT makes holds nothing.
LEMMA ListsInit ==
    ASSUME NEW E
    PROVE  InitQueue(E) \in Queue(E) /\ Lists(InitQueue(E), {})
  <1> DEFINE s == [i \in 1 .. 0 |-> NULL]
  <1>1. Cardinality({}) = 0  BY FS_EmptySet
  <1>2. s \in [1 .. 0 -> {}]  OBVIOUS
  <1>3. InitQueue(E) \in Queue(E) /\ IsList(InitQueue(E), 0, s)
    BY InitQueueIsList
  <1> QED BY <1>1, <1>2, <1>3 DEF Lists

\* TAILQ_INSERT_TAIL adds one element and keeps the head of a queue that has one.
LEMMA ListsInsertTail ==
    ASSUME NEW E, Elements(E), NEW q \in Queue(E), NEW S \in SUBSET E, IsFiniteSet(S),
           Lists(q, S), NEW e \in E, e \notin S
    PROVE  /\ InsertTail(q, e) \in Queue(E)
           /\ Lists(InsertTail(q, e), S \cup {e})
           /\ S # {} => InsertTail(q, e).first = q.first
  <1> DEFINE n == Cardinality(S)
  <1>1. PICK s \in [1 .. n -> S] :
               IsList(q, n, s) /\ \A x \in S : \E i \in 1 .. n : s[i] = x
    BY DEF Lists
  <1>2. n \in Nat /\ Cardinality(S \cup {e}) = n + 1 /\ (n = 0 <=> S = {})
    BY FS_CardinalityType, FS_AddElement, FS_EmptySet
  <1> HIDE DEF n
  <1>3. s \in [1 .. n -> E] /\ \A i \in 1 .. n : s[i] # e
    OBVIOUS
  <1>4. /\ InsertTail(q, e) \in Queue(E)
        /\ IsList(InsertTail(q, e), n + 1, Appended(n, s, e))
    BY <1>1, <1>2, <1>3, InsertTailAppends
  <1>5. Appended(n, s, e) \in [1 .. n + 1 -> S \cup {e}]
    BY <1>2, <1>3 DEF Appended
  <1>6. \A x \in S \cup {e} : \E i \in 1 .. n + 1 : Appended(n, s, e)[i] = x
    <2> TAKE x \in S \cup {e}
    <2>1. CASE x = e
      BY <2>1, <1>2 DEF Appended
    <2>2. CASE x \in S
      <3>1. PICK i \in 1 .. n : s[i] = x  BY <2>2, <1>1
      <3> QED BY <3>1, <1>2 DEF Appended
    <2> QED BY <2>1, <2>2
  <1>7. S # {} => InsertTail(q, e).first = q.first
    <2> SUFFICES ASSUME S # {} PROVE InsertTail(q, e).first = q.first
      OBVIOUS
    <2>1. q.last = s[n] /\ s[n] # HEAD
      BY <1>1, <1>2, <1>3 DEF IsList, Elements
    <2> QED BY <2>1 DEF InsertTail, StoredFirst
  <1> QED BY <1>2, <1>4, <1>5, <1>6, <1>7 DEF Lists

\* TAILQ_INSERT_HEAD adds one element.
LEMMA ListsInsertHead ==
    ASSUME NEW E, Elements(E), NEW q \in Queue(E), NEW S \in SUBSET E, IsFiniteSet(S),
           Lists(q, S), NEW e \in E, e \notin S
    PROVE  /\ InsertHead(q, e) \in Queue(E)
           /\ Lists(InsertHead(q, e), S \cup {e})
  <1> DEFINE n == Cardinality(S)
  <1>1. PICK s \in [1 .. n -> S] :
               IsList(q, n, s) /\ \A x \in S : \E i \in 1 .. n : s[i] = x
    BY DEF Lists
  <1>2. n \in Nat /\ Cardinality(S \cup {e}) = n + 1
    BY FS_CardinalityType, FS_AddElement
  <1> HIDE DEF n
  <1>3. s \in [1 .. n -> E] /\ \A i \in 1 .. n : s[i] # e
    OBVIOUS
  <1>4. /\ InsertHead(q, e) \in Queue(E)
        /\ IsList(InsertHead(q, e), n + 1, Prepended(n, s, e))
    BY <1>1, <1>2, <1>3, InsertHeadPrepends
  <1>5. Prepended(n, s, e) \in [1 .. n + 1 -> S \cup {e}]
    BY <1>2, <1>3 DEF Prepended
  <1>6. \A x \in S \cup {e} : \E i \in 1 .. n + 1 : Prepended(n, s, e)[i] = x
    <2> TAKE x \in S \cup {e}
    <2>1. CASE x = e
      BY <2>1, <1>2 DEF Prepended
    <2>2. CASE x \in S
      <3>1. PICK i \in 1 .. n : s[i] = x  BY <2>2, <1>1
      <3>2. i + 1 \in 1 .. n + 1 /\ Prepended(n, s, e)[i + 1] = x
        BY <3>1, <1>2 DEF Prepended
      <3> QED BY <3>2
    <2> QED BY <2>1, <2>2
  <1> QED BY <1>2, <1>4, <1>5, <1>6 DEF Lists

\* TAILQ_REMOVE of an element of the queue takes out that element, does not
\* store through NULL, and may be repeated at once.
LEMMA ListsRemove ==
    ASSUME NEW E, Elements(E), NEW q \in Queue(E), NEW S \in SUBSET E, IsFiniteSet(S),
           Lists(q, S), NEW e \in S
    PROVE  /\ Remove(q, e) \in Queue(E)
           /\ Lists(Remove(q, e), S \ {e})
           /\ Remove(Remove(q, e), e) = Remove(q, e)
           /\ ~Faults(q, e) /\ ~Faults(Remove(q, e), e)
  <1> DEFINE n == Cardinality(S)
  <1>1. PICK s \in [1 .. n -> S] :
               IsList(q, n, s) /\ \A x \in S : \E i \in 1 .. n : s[i] = x
    BY DEF Lists
  <1>2. n \in Nat /\ Cardinality(S \ {e}) = n - 1
    BY FS_CardinalityType, FS_RemoveElement
  <1> HIDE DEF n
  <1>3. PICK k \in 1 .. n : s[k] = e  BY <1>1
  <1>4. s \in [1 .. n -> E]  OBVIOUS
  <1>5. /\ Remove(q, e) \in Queue(E)
        /\ IsList(Remove(q, e), n - 1, Without(n, s, k))
        /\ Remove(q, e).prev[e] = q.prev[e]
    BY <1>1, <1>2, <1>3, <1>4, RemoveDeletes
  <1>6. Remove(Remove(q, e), e) = Remove(q, e)
    BY <1>1, <1>2, <1>3, <1>4, RemoveTwice
  <1>7. \A i, j \in 1 .. n : s[i] = s[j] => i = j  BY <1>1 DEF IsList
  <1>8. Without(n, s, k) \in [1 .. n - 1 -> S \ {e}]
    <2> SUFFICES ASSUME NEW i \in 1 .. n - 1
                 PROVE  (IF i < k THEN s[i] ELSE s[i + 1]) \in S \ {e}
      BY DEF Without
    <2> QED BY <1>2, <1>3, <1>7
  <1>9. \A x \in S \ {e} : \E i \in 1 .. n - 1 : Without(n, s, k)[i] = x
    <2> TAKE x \in S \ {e}
    <2>1. PICK i \in 1 .. n : s[i] = x  BY <1>1
    <2>2. CASE i < k
      <3>1. i \in 1 .. n - 1 /\ Without(n, s, k)[i] = x
        BY <2>1, <2>2, <1>2 DEF Without
      <3> QED BY <3>1
    <2>3. CASE i > k
      <3>1. i - 1 \in 1 .. n - 1 /\ Without(n, s, k)[i - 1] = x
        BY <2>1, <2>3, <1>2 DEF Without
      <3> QED BY <3>1
    <2> QED BY <2>1, <2>2, <2>3, <1>2, <1>3
  <1>10. ~Faults(q, e)
    <2>1. q.prev[e] = IF k = 1 THEN HEAD ELSE s[k - 1]  BY <1>1, <1>3 DEF IsList
    <2>2. k # 1 => s[k - 1] \in E  BY <1>2, <1>4
    <2> QED BY <2>1, <2>2, NullHeadAssumption DEF Faults, Elements
  <1>11. ~Faults(Remove(q, e), e)  BY <1>5, <1>10 DEF Faults
  <1>12. Lists(Remove(q, e), S \ {e})
    <2> DEFINE t == Without(n, s, k)
               m == n - 1
    <2>1. /\ t \in [1 .. m -> S \ {e}] /\ m = Cardinality(S \ {e})
          /\ IsList(Remove(q, e), m, t)
          /\ \A x \in S \ {e} : \E i \in 1 .. m : t[i] = x
      BY <1>2, <1>5, <1>8, <1>9
    <2> HIDE DEF t, m
    <2> QED BY <2>1 DEF Lists
  <1> QED BY <1>5, <1>6, <1>10, <1>11, <1>12

\* TAILQ_FIRST is NULL exactly for the empty queue, and else one of its elements.
LEMMA ListsFirst ==
    ASSUME NEW E, Elements(E), NEW q \in Queue(E), NEW S \in SUBSET E, IsFiniteSet(S),
           Lists(q, S)
    PROVE  IF S = {} THEN q.first = NULL ELSE q.first \in S /\ q.first # NULL
  <1> DEFINE n == Cardinality(S)
  <1>1. PICK s \in [1 .. n -> S] : IsList(q, n, s)
    BY DEF Lists
  <1>2. n \in Nat /\ (n = 0 <=> S = {})
    BY FS_CardinalityType, FS_EmptySet
  <1> HIDE DEF n
  <1>3. q.first = IF n = 0 THEN NULL ELSE s[1]  BY <1>1 DEF IsList
  <1>4. n # 0 => s[1] \in S  BY <1>1, <1>2
  <1> QED BY <1>2, <1>3, <1>4 DEF Elements
-----------------------------------------------------------------------------
(* Envs *)

\* The envs that are runnable under statuses st.
Ready(st) == {e \in Env : st[e] = RUNNABLE}

\* Live envs have a positive priority, so schedule() never sets a negative count.
PriPositive == \A e \in Live : pri[e] \in Pri

\* During boot nothing runs and nothing has failed.
BootState == mode = "boot" => curenv = NULL /\ ~panicked

(***************************************************************************)
(* The inductive invariant.  SchedListExact alone is not inductive: a      *)
(* wake-up keeps the list free of duplicates only because a receiver is    *)
(* not runnable, schedule() may unlink curenv only because curenv is in    *)
(* the list, and a new env is in no list only because free slots are free. *)
(***************************************************************************)
IInv ==
    /\ TypeOK
    /\ SchedListExact
    /\ CurenvRunnable
    /\ PanicOnlyWhenIdle
    /\ RecvingBlocked
    /\ FreeListExact
    /\ PriPositive
    /\ BootState

\* Slots are a finite set of elements, and so are the envs ready to run.
LEMMA EnvFacts == /\ Elements(Env) /\ IsFiniteSet(Env)
                  /\ \A st : Ready(st) \in SUBSET Env /\ IsFiniteSet(Ready(st))
  <1>1. IsFiniteSet(Env)
    <2>1. 0 \in Int /\ NENV - 1 \in Int  BY SizesAssumption
    <2> QED BY <2>1, FS_Interval DEF Env
  <1>2. \A st : Ready(st) \in SUBSET Env  BY DEF Ready
  <1>3. \A st : IsFiniteSet(Ready(st))  BY <1>1, <1>2, FS_Subset
  <1> QED BY <1>1, <1>2, <1>3, PointersAssumption DEF Elements

\* The list q schedule() is called with: all ready envs, from which an env e
\* that just stopped being ready has been unlinked once.
Called(q, st, e) ==
    \/ e = NULL /\ Lists(q, Ready(st))
    \/ e \in Ready(st) /\ Lists(q, Ready(st))
    \/ /\ e \in Env \ Ready(st)
       /\ \E q0 \in Queue(Env) : Lists(q0, Ready(st) \cup {e}) /\ q = Remove(q0, e)

\* Requeue() leaves exactly the ready envs in the list and never faults; an env
\* that yields is not first unless it is alone.
LEMMA RequeueOK ==
    ASSUME NEW st, NEW q \in Queue(Env), NEW e \in Ptr(Env), Called(q, st, e)
    PROVE  /\ Requeue(q, st, e) \in Queue(Env)
           /\ Lists(Requeue(q, st, e), Ready(st))
           /\ e # NULL => ~Faults(q, e)
           /\ e \in Ready(st) /\ Ready(st) # {e} => Requeue(q, st, e).first # e
  <1> USE EnvFacts
  <1>0. e # NULL <=> e \in Env  BY PointersAssumption DEF Ptr
  <1>1. CASE e = NULL /\ Lists(q, Ready(st))
    BY <1>1, <1>0 DEF Requeue, Ready
  <1>2. CASE e \in Ready(st) /\ Lists(q, Ready(st))
    <2>1. /\ Remove(q, e) \in Queue(Env)
          /\ Lists(Remove(q, e), Ready(st) \ {e})
          /\ ~Faults(q, e)
      BY <1>2, ListsRemove
    <2>2. /\ e \in Env /\ st[e] = RUNNABLE /\ e # NULL
          /\ Requeue(q, st, e) = InsertTail(Remove(q, e), e)
      BY <1>2, <1>0 DEF Requeue, Ready
    <2> DEFINE T == Ready(st) \ {e}
               p == Remove(q, e)
    <2>3. IsFiniteSet(T) /\ T \in SUBSET Env /\ e \notin T
      BY FS_RemoveElement
    <2>4. /\ Requeue(q, st, e) \in Queue(Env)
          /\ Lists(Requeue(q, st, e), T \cup {e})
          /\ T # {} => Requeue(q, st, e).first = p.first
      <3>1. p \in Queue(Env) /\ Lists(p, T) /\ Requeue(q, st, e) = InsertTail(p, e) /\ e \in Env
        BY <2>1, <2>2
      <3> HIDE DEF T, p
      <3> QED BY <2>3, <3>1, ListsInsertTail
    <2>5. (Ready(st) \ {e}) \cup {e} = Ready(st)  BY <1>2
    <2>6. Ready(st) # {e} => Ready(st) \ {e} # {} /\ Remove(q, e).first \in Ready(st) \ {e}
      BY <1>2, <2>1, <2>3, ListsFirst
    <2> QED BY <2>1, <2>4, <2>5, <2>6
  <1>3. CASE /\ e \in Env \ Ready(st)
             /\ \E q0 \in Queue(Env) : Lists(q0, Ready(st) \cup {e}) /\ q = Remove(q0, e)
    <2>1. PICK q0 \in Queue(Env) : Lists(q0, Ready(st) \cup {e}) /\ q = Remove(q0, e)
      BY <1>3
    <2>2. IsFiniteSet(Ready(st) \cup {e}) /\ Ready(st) \cup {e} \in SUBSET Env
      BY <1>3, FS_AddElement
    <2>3. /\ Lists(q, (Ready(st) \cup {e}) \ {e})
          /\ Remove(q, e) = q
          /\ ~Faults(q, e)
      BY <2>1, <2>2, ListsRemove
    <2>4. (Ready(st) \cup {e}) \ {e} = Ready(st)  BY <1>3
    <2>5. Requeue(q, st, e) = q  BY <1>0, <1>3, <2>3 DEF Requeue, Ready
    <2> QED BY <1>3, <2>3, <2>4, <2>5
  <1> QED BY <1>1, <1>2, <1>3 DEF Called

\* schedule() ends with exactly the ready envs in the list and one of them on
\* the CPU, or panics because there is none.
LEMMA ScheduleOK ==
    ASSUME TypeOK, NEW st \in [Env -> Status], NEW q \in Queue(Env), NEW e \in Ptr(Env),
           NEW yield \in BOOLEAN, Called(q, st, e),
           \A x \in Ready(st) : pri[x] \in Pri,
           schedule(yield, q, st, e)
    PROVE  /\ sched' \in Queue(Env)
           /\ Lists(sched', Ready(st))
           /\ count' \in 0 .. MaxPri
           /\ \/ panicked' = panicked /\ curenv' \in Ready(st)
              \/ panicked' = TRUE /\ curenv' = curenv /\ Ready(st) = {}
           /\ yield /\ e \in Ready(st) /\ Ready(st) # {e} => curenv' # e
  <1> USE EnvFacts
  <1> DEFINE r == Requeue(q, st, e)
  <1>1. /\ r \in Queue(Env) /\ Lists(r, Ready(st))
        /\ e # NULL => ~Faults(q, e)
        /\ e \in Ready(st) /\ Ready(st) # {e} => r.first # e
    BY RequeueOK
  <1> HIDE DEF r
  <1>2. CASE yield \/ count <= 0 \/ e = NULL \/ st[e] # RUNNABLE
    <2>1. IF r.first = NULL THEN Panic(r) ELSE env_run(r, st, r.first, pri[r.first] - 1)
      BY <1>1, <1>2 DEF schedule, r
    <2>2. IF Ready(st) = {} THEN r.first = NULL ELSE r.first \in Ready(st) /\ r.first # NULL
      BY <1>1, ListsFirst
    <2>3. CASE Ready(st) = {}
      <3>1. Panic(r)  BY <2>1, <2>2, <2>3
      <3> QED BY <1>1, <2>3, <3>1 DEF Panic, TypeOK
    <2>4. CASE Ready(st) # {}
      <3>1. /\ r.first \in Ready(st)
            /\ env_run(r, st, r.first, pri[r.first] - 1)
        BY <2>1, <2>2, <2>4
      <3>2. pri[r.first] - 1 \in 0 .. MaxPri
        BY <3>1, SizesAssumption DEF Pri
      <3> QED BY <1>1, <2>4, <3>1, <3>2 DEF env_run, Ready
    <2> QED BY <2>3, <2>4
  <1>3. CASE ~(yield \/ count <= 0 \/ e = NULL \/ st[e] # RUNNABLE)
    <2>1. e \in Ready(st) /\ Lists(q, Ready(st))
      BY <1>3 DEF Called, Ready, Ptr
    <2>2. env_run(q, st, e, count - 1)
      BY <1>3 DEF schedule
    <2>3. count - 1 \in 0 .. MaxPri
      BY <1>3, SizesAssumption DEF TypeOK
    <2> QED BY <1>3, <2>1, <2>2, <2>3 DEF env_run, Ready
  <1> QED BY <1>2, <1>3

-----------------------------------------------------------------------------
(* Pools *)

\* asid_alloc finds an ASID whenever one is free.
LEMMA AsidAllocFinds ==
    ASSUME AsidFree # {}
    PROVE  asid_alloc \in AsidFree
  <1> DEFINE R == {z \in Nat \X Nat : z[1] < z[2]}
  <1>1. AsidFree \subseteq Nat  BY SizesAssumption DEF AsidFree, Asid
  <1>2. IsWellFoundedOn(R, Nat)
    BY NatLessThanWellFounded, Zenon DEF OpToRel
  <1> HIDE DEF R
  <1>3. PICK a \in AsidFree : \A b \in AsidFree : ~(<<b, a>> \in R)
    BY <1>1, <1>2, WFMin
  <1>4. \A b \in AsidFree : a <= b
    <2> TAKE b \in AsidFree
    <2>1. a \in Nat /\ b \in Nat  BY <1>1
    <2>2. b < a => <<b, a>> \in R  BY <2>1 DEF R
    <2> QED BY <1>3, <2>1, <2>2
  <1> QED BY <1>4 DEF asid_alloc

\* The head of the free list is a free slot, and the rest lists the others.
LEMMA FreePop ==
    ASSUME TypeOK, FreeListExact, free # <<>>
    PROVE  /\ Head(free) \in Env /\ status[Head(free)] = FREE
           /\ Tail(free) \in Seq(Env)
           /\ \A i, j \in DOMAIN Tail(free) : Tail(free)[i] = Tail(free)[j] => i = j
           /\ {Tail(free)[i] : i \in DOMAIN Tail(free)} = (Env \ Live) \ {Head(free)}
  <1> DEFINE t == Tail(free)
  <1>1. /\ free \in Seq(Env) /\ Len(free) \in Nat \ {0} /\ DOMAIN free = 1 .. Len(free)
        /\ Head(free) = free[1]
    BY EmptySeq, LenProperties DEF TypeOK
  <1>2. /\ t \in Seq(Env) /\ Len(t) = Len(free) - 1
        /\ \A i \in 1 .. Len(t) : t[i] = free[i + 1]
    BY <1>1, HeadTailProperties
  <1>3. DOMAIN t = 1 .. Len(t)  BY <1>2, LenProperties
  <1>4. \A i \in DOMAIN free : free[i] \in Env \ Live  BY DEF FreeListExact
  <1>5. Head(free) \in Env /\ status[Head(free)] = FREE
    BY <1>1, <1>4 DEF Live
  <1>6. \A i, j \in DOMAIN t : t[i] = t[j] => i = j
    BY <1>1, <1>2, <1>3 DEF FreeListExact
  <1>7. ASSUME NEW i \in DOMAIN t PROVE t[i] \in (Env \ Live) \ {Head(free)}
    <2>1. i + 1 \in DOMAIN free /\ 1 \in DOMAIN free /\ i + 1 # 1 /\ t[i] = free[i + 1]
      BY <1>1, <1>2, <1>3
    <2> QED BY <1>1, <1>4, <2>1 DEF FreeListExact
  <1>8. ASSUME NEW e \in (Env \ Live) \ {Head(free)} PROVE \E i \in DOMAIN t : e = t[i]
    <2>1. PICK k \in DOMAIN free : e = free[k]  BY DEF FreeListExact
    <2>2. k # 1 /\ k - 1 \in DOMAIN t /\ t[k - 1] = e  BY <1>1, <1>2, <1>3, <2>1
    <2> QED BY <2>2
  <1> QED BY <1>2, <1>5, <1>6, <1>7, <1>8

\* env_free puts a slot that was in use in front of the free list.
LEMMA FreePush ==
    ASSUME TypeOK, FreeListExact, NEW e \in Live
    PROVE  LET f == <<e>> \o free
           IN  /\ f \in Seq(Env)
               /\ \A i, j \in DOMAIN f : f[i] = f[j] => i = j
               /\ {f[i] : i \in DOMAIN f} = (Env \ Live) \cup {e}
  <1> DEFINE f == <<e>> \o free
  <1>1. e \in Env /\ <<e>> \in Seq(Env) /\ Len(<<e>>) = 1 /\ <<e>>[1] = e  BY DEF Live
  <1>2. /\ free \in Seq(Env) /\ Len(free) \in Nat /\ DOMAIN free = 1 .. Len(free)
    BY LenProperties DEF TypeOK
  <1>3. /\ f \in Seq(Env) /\ Len(f) = 1 + Len(free)
        /\ \A i \in 1 .. Len(f) : f[i] = IF i = 1 THEN e ELSE free[i - 1]
    <2>1. /\ f \in Seq(Env) /\ Len(f) = Len(<<e>>) + Len(free)
          /\ \A i \in 1 .. Len(<<e>>) + Len(free) :
                f[i] = IF i <= Len(<<e>>) THEN <<e>>[i] ELSE free[i - Len(<<e>>)]
      BY <1>1, <1>2, ConcatProperties
    <2> HIDE DEF f
    <2> QED BY <2>1, <1>1, <1>2
  <1> HIDE DEF f
  <1>4. DOMAIN f = 1 .. Len(f)  BY <1>3, LenProperties
  <1>5. \A i \in DOMAIN free : free[i] \in Env \ Live  BY DEF FreeListExact
  <1>6. \A i, j \in DOMAIN f : f[i] = f[j] => i = j
    <2> SUFFICES ASSUME NEW i \in DOMAIN f, NEW j \in DOMAIN f, f[i] = f[j] PROVE i = j
      OBVIOUS
    <2>1. /\ i # 1 => i - 1 \in DOMAIN free /\ f[i] = free[i - 1]
          /\ j # 1 => j - 1 \in DOMAIN free /\ f[j] = free[j - 1]
          /\ i = 1 => f[i] = e
          /\ j = 1 => f[j] = e
      BY <1>2, <1>3, <1>4
    <2>2. i = 1 <=> j = 1  BY <2>1, <1>5
    <2>3. i # 1 => i - 1 = j - 1  BY <2>1, <2>2 DEF FreeListExact
    <2> QED BY <2>2, <2>3, <1>2, <1>3, <1>4
  <1>7. ASSUME NEW i \in DOMAIN f PROVE f[i] \in (Env \ Live) \cup {e}
    BY <1>2, <1>3, <1>4, <1>5
  <1>8. ASSUME NEW x \in (Env \ Live) \cup {e} PROVE \E i \in DOMAIN f : x = f[i]
    <2>1. CASE x = e  BY <2>1, <1>2, <1>3, <1>4
    <2>2. CASE x \in Env \ Live
      <3>1. PICK k \in DOMAIN free : x = free[k]  BY <2>2 DEF FreeListExact
      <3>2. k + 1 \in DOMAIN f /\ f[k + 1] = x  BY <1>2, <1>3, <1>4, <3>1
      <3> QED BY <3>2
    <2> QED BY <2>1, <2>2
  <1> QED BY <1>3, <1>6, <1>7, <1>8 DEF f

\* env_alloc: the slot it takes was free; types and the free list are kept
\* when the caller then gives the slot a status other than FREE.
LEMMA AllocOK ==
    ASSUME TypeOK, FreeListExact, CanAlloc, NEW id \in EnvId,
           NEW v \in {RUNNABLE, NOT_RUNNABLE},
           env_alloc(Head(free), id), status' = [status EXCEPT ![Head(free)] = v]
    PROVE  /\ Head(free) \in Env /\ status[Head(free)] = FREE
           /\ FreeListExact'
           /\ free' \in Seq(Env) /\ status' \in [Env -> Status]
           /\ envId' \in [Env -> EnvId] /\ parent' \in [Env -> EnvId]
           /\ asid' \in [Env -> Asid] /\ asidBitmap' \in SUBSET Asid
           /\ gen' \in 0 .. MaxGen
           /\ Live' = Live \cup {Head(free)}
  <1> DEFINE e == Head(free)
  <1>1. /\ e \in Env /\ status[e] = FREE /\ Tail(free) \in Seq(Env)
        /\ \A i, j \in DOMAIN Tail(free) : Tail(free)[i] = Tail(free)[j] => i = j
        /\ {Tail(free)[i] : i \in DOMAIN Tail(free)} = (Env \ Live) \ {e}
    BY FreePop DEF CanAlloc
  <1>2. free' = Tail(free)  BY DEF env_alloc
  <1> HIDE DEF e
  <1>3. status' \in [Env -> Status]  BY <1>1 DEF TypeOK, Status, e
  <1>4. Live' = Live \cup {e}
    BY <1>1 DEF Live, TypeOK, FREE, RUNNABLE, NOT_RUNNABLE, e
  <1>5. FreeListExact'  BY <1>1, <1>2, <1>4 DEF FreeListExact
  <1>6. asid_alloc \in Asid  BY AsidAllocFinds DEF CanAlloc, AsidFree
  <1>7. asid' \in [Env -> Asid] /\ asidBitmap' \in SUBSET Asid
    BY <1>6 DEF env_alloc, TypeOK
  <1>8. gen + 1 \in 0 .. MaxGen  BY SizesAssumption DEF CanAlloc, TypeOK
  <1>9. mkenvid(e) \in EnvId  BY <1>1, <1>8 DEF mkenvid, EnvId
  <1>10. /\ envId' \in [Env -> EnvId] /\ parent' \in [Env -> EnvId]
         /\ gen' \in 0 .. MaxGen
    BY <1>8, <1>9 DEF env_alloc, TypeOK, e
  <1> QED BY <1>1, <1>2, <1>3, <1>4, <1>5, <1>7, <1>10 DEF e

-----------------------------------------------------------------------------
(* Every step keeps the invariant *)

\* The statuses are three different values.
LEMMA StatusFacts == /\ FREE # RUNNABLE /\ FREE # NOT_RUNNABLE /\ RUNNABLE # NOT_RUNNABLE
                     /\ FREE \in Status /\ RUNNABLE \in Status /\ NOT_RUNNABLE \in Status
                     /\ Runnable = Ready(status) /\ Runnable' = Ready(status')
                     /\ Runnable \subseteq Live
  BY DEF FREE, RUNNABLE, NOT_RUNNABLE, Status, Runnable, Ready, Live

\* envid2env returns an env that is in use, or none.
LEMMA LookupLive ==
    ASSUME TypeOK, CurenvRunnable, Running, NEW id \in EnvId, NEW c \in BOOLEAN,
           envid2env(id, c) # NULL
    PROVE  envid2env(id, c) \in Live
  <1>1. id[2] \in Env  BY DEF EnvId
  <1>2. curenv \in Live  BY StatusFacts DEF CurenvRunnable, Running
  <1> QED BY <1>1, <1>2 DEF envid2env, Live

\* Boot starts in a good state.
LEMMA InitIInv == Init => IInv
  <1> SUFFICES ASSUME Init PROVE IInv
    OBVIOUS
  <1> USE DEF Init
  <1>1. Runnable = {} /\ Live = {}
    BY StatusFacts DEF Runnable, Live
  <1>2. 0 \in Env /\ ZeroId \in EnvId /\ 0 \in Asid
    BY SizesAssumption DEF Env, EnvId, ZeroId, Asid
  <1>3. free \in [1 .. NENV -> Env] /\ free \in Seq(Env) /\ DOMAIN free = 1 .. NENV
    <2>1. free \in [1 .. NENV -> Env]  BY SizesAssumption DEF Env
    <2>2. free \in Seq(Env)  BY <2>1, SeqDef, SizesAssumption
    <2> QED BY <2>1, <2>2
  <1>4. TypeOK
    <2>1. sched \in Queue(Env)  BY ListsInit
    <2>2. 0 \in 0 .. MaxPri /\ 0 \in 0 .. MaxGen  BY SizesAssumption
    <2> QED BY <1>2, <1>3, <2>1, <2>2, StatusFacts DEF TypeOK, Ptr
  <1>5. SchedListExact  BY <1>1, ListsInit DEF SchedListExact
  <1>6. FreeListExact
    <2>1. \A i, j \in DOMAIN free : free[i] = free[j] => i = j
      BY <1>3, SizesAssumption
    <2>2. \A e \in Env : e + 1 \in DOMAIN free /\ free[e + 1] = e
      BY <1>3, SizesAssumption DEF Env
    <2>3. {free[i] : i \in DOMAIN free} = Env  BY <1>3, <2>2
    <2> QED BY <1>1, <2>1, <2>3 DEF FreeListExact
  <1>7. /\ CurenvRunnable /\ PanicOnlyWhenIdle /\ RecvingBlocked /\ PriPositive
        /\ BootState
    BY <1>1 DEF CurenvRunnable, Running, PanicOnlyWhenIdle, RecvingBlocked, PriPositive,
                BootState
  <1> QED BY <1>4, <1>5, <1>6, <1>7 DEF IInv

\* env_create during boot.
LEMMA EnvCreateIInv ==
    ASSUME IInv, NEW p \in Pri, EnvCreate(p)
    PROVE  IInv'
  <1> DEFINE e == Head(free)
  <1>0. TypeOK /\ FreeListExact /\ CanAlloc /\ ZeroId \in EnvId
    BY SizesAssumption DEF IInv, EnvCreate, ZeroId, EnvId, Env
  <1>1. /\ env_alloc(e, ZeroId) /\ status' = [status EXCEPT ![e] = RUNNABLE]
        /\ pri' = [pri EXCEPT ![e] = p] /\ sched' = InsertHead(sched, e)
        /\ UNCHANGED <<recving, curenv, count, mode, panicked>>
        /\ mode = "boot"
    BY DEF EnvCreate
  <1>2. /\ e \in Env /\ status[e] = FREE
        /\ FreeListExact'
        /\ free' \in Seq(Env) /\ status' \in [Env -> Status]
        /\ envId' \in [Env -> EnvId] /\ parent' \in [Env -> EnvId]
        /\ asid' \in [Env -> Asid] /\ asidBitmap' \in SUBSET Asid
        /\ gen' \in 0 .. MaxGen
        /\ Live' = Live \cup {e}
    BY <1>0, <1>1, AllocOK
  <1> HIDE DEF e
  <1>3. Runnable' = Runnable \cup {e} /\ e \notin Runnable
    BY <1>1, <1>2, StatusFacts DEF Runnable, TypeOK, IInv
  <1>4. sched' \in Queue(Env) /\ Lists(sched', Runnable')
    <2>1. Runnable \in SUBSET Env /\ IsFiniteSet(Runnable)  BY EnvFacts, StatusFacts
    <2>2. sched \in Queue(Env) /\ Lists(sched, Runnable)
      BY DEF IInv, TypeOK, SchedListExact
    <2> QED BY <1>1, <1>2, <1>3, <2>1, <2>2, EnvFacts, ListsInsertHead
  <1>5. pri' \in [Env -> 0 .. MaxPri] /\ PriPositive'
    BY <1>1, <1>2, SizesAssumption DEF IInv, TypeOK, PriPositive, Pri, Live
  <1>6. TypeOK'  BY <1>1, <1>2, <1>4, <1>5 DEF IInv, TypeOK
  <1>7. RecvingBlocked'
    BY <1>1, <1>2, StatusFacts DEF IInv, RecvingBlocked, TypeOK
  <1>8. CurenvRunnable' /\ PanicOnlyWhenIdle' /\ BootState'
    BY <1>1 DEF IInv, CurenvRunnable, Running, PanicOnlyWhenIdle, BootState
  <1> QED BY <1>2, <1>4, <1>5, <1>6, <1>7, <1>8 DEF IInv, SchedListExact

\* sys_exofork: the child enters no list.
LEMMA ExoforkIInv ==
    ASSUME IInv, sys_exofork
    PROVE  IInv'
  <1> DEFINE e == Head(free)
  <1>0. TypeOK /\ FreeListExact /\ CanAlloc /\ curenv \in Runnable /\ envId[curenv] \in EnvId
    BY DEF IInv, sys_exofork, CurenvRunnable, Running, TypeOK, Runnable
  <1>1. /\ env_alloc(e, envId[curenv]) /\ status' = [status EXCEPT ![e] = NOT_RUNNABLE]
        /\ pri' = [pri EXCEPT ![e] = pri[curenv]]
        /\ UNCHANGED <<recving, sched, curenv, count, panicked, mode>>
    BY DEF sys_exofork, cpuVars
  <1>2. /\ e \in Env /\ status[e] = FREE
        /\ FreeListExact'
        /\ free' \in Seq(Env) /\ status' \in [Env -> Status]
        /\ envId' \in [Env -> EnvId] /\ parent' \in [Env -> EnvId]
        /\ asid' \in [Env -> Asid] /\ asidBitmap' \in SUBSET Asid
        /\ gen' \in 0 .. MaxGen
        /\ Live' = Live \cup {e}
    BY <1>0, <1>1, AllocOK
  <1> HIDE DEF e
  <1>3. Runnable' = Runnable
    BY <1>1, <1>2, StatusFacts DEF Runnable, TypeOK, IInv
  <1>4. pri' \in [Env -> 0 .. MaxPri] /\ PriPositive'
    BY <1>0, <1>1, <1>2, SizesAssumption, StatusFacts DEF IInv, TypeOK, PriPositive, Pri, Live
  <1>5. TypeOK'  BY <1>1, <1>2, <1>4 DEF IInv, TypeOK
  <1>6. RecvingBlocked'
    BY <1>1, <1>2, StatusFacts DEF IInv, RecvingBlocked, TypeOK
  <1>7. CurenvRunnable' /\ PanicOnlyWhenIdle' /\ BootState' /\ SchedListExact'
    BY <1>1, <1>3 DEF IInv, CurenvRunnable, Running, PanicOnlyWhenIdle, BootState, SchedListExact
  <1> QED BY <1>2, <1>4, <1>5, <1>6, <1>7 DEF IInv

\* What a step that ends in schedule() leaves behind, when its earlier part
\* changed the statuses to status' and called schedule() as it should.
LEMMA AfterSchedule ==
    ASSUME TypeOK, ~panicked, mode' = "user", status' \in [Env -> Status],
           NEW q \in Queue(Env), NEW e \in Ptr(Env), NEW yield \in BOOLEAN,
           Called(q, status', e), \A x \in Ready(status') : pri[x] \in Pri,
           schedule(yield, q, status', e)
    PROVE  /\ sched' \in Queue(Env) /\ count' \in 0 .. MaxPri
           /\ curenv' \in Ptr(Env) /\ panicked' \in BOOLEAN
           /\ SchedListExact' /\ CurenvRunnable' /\ PanicOnlyWhenIdle' /\ BootState'
  <1>1. /\ sched' \in Queue(Env) /\ Lists(sched', Ready(status'))
        /\ count' \in 0 .. MaxPri
        /\ \/ panicked' = panicked /\ curenv' \in Ready(status')
           \/ panicked' = TRUE /\ curenv' = curenv /\ Ready(status') = {}
    BY ScheduleOK
  <1>2. curenv' \in Ptr(Env) /\ panicked' \in BOOLEAN
    BY <1>1 DEF Ready, Ptr, TypeOK
  <1>3. SchedListExact' /\ CurenvRunnable' /\ PanicOnlyWhenIdle' /\ BootState'
    BY <1>1, StatusFacts DEF SchedListExact, CurenvRunnable, Running, PanicOnlyWhenIdle, BootState
  <1> QED BY <1>1, <1>2, <1>3

\* A plain schedule(), with no status changed: the timer, sys_yield, the end of boot.
LEMMA PlainScheduleIInv ==
    ASSUME IInv, ~panicked, NEW yield \in BOOLEAN,
           mode = "boot" \/ Running, mode' = "user",
           schedule(yield, sched, status, curenv), UNCHANGED <<slotVars, poolVars>>
    PROVE  IInv'
  <1>1. /\ status' = status /\ envId' = envId /\ parent' = parent /\ pri' = pri
        /\ asid' = asid /\ recving' = recving
        /\ free' = free /\ asidBitmap' = asidBitmap /\ gen' = gen
    BY DEF slotVars, poolVars
  <1>2. Called(sched, status', curenv)
    BY <1>1, StatusFacts DEF IInv, BootState, CurenvRunnable, SchedListExact, Called
  <1>3. \A x \in Ready(status') : pri[x] \in Pri
    BY <1>1, StatusFacts DEF IInv, PriPositive
  <1>4. /\ sched' \in Queue(Env) /\ count' \in 0 .. MaxPri
        /\ curenv' \in Ptr(Env) /\ panicked' \in BOOLEAN
        /\ SchedListExact' /\ CurenvRunnable' /\ PanicOnlyWhenIdle' /\ BootState'
    <2>1. /\ TypeOK /\ sched \in Queue(Env) /\ curenv \in Ptr(Env)
          /\ status' \in [Env -> Status]
      BY <1>1 DEF IInv, TypeOK
    <2>2. schedule(yield, sched, status', curenv)  BY <1>1
    <2> QED BY <1>2, <1>3, <2>1, <2>2, AfterSchedule
  <1>5. TypeOK'  BY <1>1, <1>4 DEF IInv, TypeOK
  <1>6. Live' = Live  BY <1>1 DEF Live
  <1>7. RecvingBlocked' /\ FreeListExact' /\ PriPositive'
    BY <1>1, <1>6 DEF IInv, RecvingBlocked, FreeListExact, PriPositive
  <1> QED BY <1>4, <1>5, <1>7 DEF IInv

\* sys_ipc_recv unlinks the caller, and schedule() unlinks it again.
LEMMA IpcRecvIInv ==
    ASSUME IInv, sys_ipc_recv
    PROVE  IInv'
  <1> DEFINE c == curenv
             q == Remove(sched, curenv)
  <1>1. /\ recving' = [recving EXCEPT ![c] = TRUE]
        /\ status' = [status EXCEPT ![c] = NOT_RUNNABLE]
        /\ schedule(TRUE, q, status', c)
        /\ envId' = envId /\ parent' = parent /\ pri' = pri /\ asid' = asid
        /\ free' = free /\ asidBitmap' = asidBitmap /\ gen' = gen /\ mode' = mode
        /\ ~panicked /\ mode = "user"
    BY DEF sys_ipc_recv, poolVars, Running
  <1>2. /\ TypeOK /\ c \in Runnable /\ c \in Env /\ sched \in Queue(Env) /\ c \in Ptr(Env)
        /\ Lists(sched, Runnable)
    BY <1>1 DEF IInv, CurenvRunnable, Running, Runnable, TypeOK, SchedListExact, Ptr
  <1> HIDE DEF c
  <1>3. status' \in [Env -> Status] /\ Live' = Live
    BY <1>1, <1>2, StatusFacts DEF TypeOK, Live, Runnable
  <1>4. /\ Ready(status') = Runnable \ {c} /\ Ready(status') \cup {c} = Runnable
        /\ c \in Env \ Ready(status')
    BY <1>1, <1>2, StatusFacts DEF TypeOK, Runnable, Ready
  <1>5. q \in Queue(Env) /\ Called(q, status', c)
    <2>1. q = Remove(sched, c) /\ Remove(sched, c) \in Queue(Env)
      <3>1. Runnable \in SUBSET Env /\ IsFiniteSet(Runnable)  BY EnvFacts, StatusFacts
      <3> QED BY <1>2, <3>1, EnvFacts, ListsRemove DEF c
    <2> QED BY <1>2, <1>4, <2>1 DEF Called
  <1>6. \A x \in Ready(status') : pri[x] \in Pri
    BY <1>4, StatusFacts DEF IInv, PriPositive
  <1> HIDE DEF q
  <1>7. /\ sched' \in Queue(Env) /\ count' \in 0 .. MaxPri
        /\ curenv' \in Ptr(Env) /\ panicked' \in BOOLEAN
        /\ SchedListExact' /\ CurenvRunnable' /\ PanicOnlyWhenIdle' /\ BootState'
    BY <1>1, <1>2, <1>3, <1>5, <1>6, AfterSchedule
  <1>8. TypeOK'  BY <1>1, <1>2, <1>3, <1>7 DEF TypeOK
  <1>9. RecvingBlocked'
    BY <1>1, <1>2, <1>3 DEF IInv, RecvingBlocked, TypeOK
  <1>10. FreeListExact' /\ PriPositive'
    BY <1>1, <1>3 DEF IInv, FreeListExact, PriPositive
  <1> QED BY <1>7, <1>8, <1>9, <1>10 DEF IInv

\* sys_ipc_try_send inserts an env that was in no list.
LEMMA IpcTrySendIInv ==
    ASSUME IInv, NEW id \in EnvId, sys_ipc_try_send(id)
    PROVE  IInv'
  <1> DEFINE e == envid2env(id, FALSE)
  <1>1. /\ e # NULL /\ recving[e]
        /\ recving' = [recving EXCEPT ![e] = FALSE]
        /\ status' = [status EXCEPT ![e] = RUNNABLE]
        /\ sched' = InsertTail(sched, e)
        /\ envId' = envId /\ parent' = parent /\ pri' = pri /\ asid' = asid
        /\ curenv' = curenv /\ count' = count /\ panicked' = panicked
        /\ free' = free /\ asidBitmap' = asidBitmap /\ gen' = gen /\ mode' = mode
        /\ Running
    BY DEF sys_ipc_try_send, poolVars
  <1>2. e \in Live  BY <1>1, LookupLive DEF IInv
  <1> HIDE DEF e
  <1>3. e \in Env /\ status[e] = NOT_RUNNABLE /\ TypeOK
    BY <1>1, <1>2 DEF IInv, RecvingBlocked, Live
  <1>4. /\ status' \in [Env -> Status] /\ Live' = Live
        /\ Runnable' = Runnable \cup {e} /\ e \notin Runnable
    BY <1>1, <1>3, StatusFacts DEF TypeOK, Live, Runnable
  <1>5. sched' \in Queue(Env) /\ Lists(sched', Runnable')
    <2>1. Runnable \in SUBSET Env /\ IsFiniteSet(Runnable)  BY EnvFacts, StatusFacts
    <2>2. sched \in Queue(Env) /\ Lists(sched, Runnable)
      BY DEF IInv, TypeOK, SchedListExact
    <2> QED BY <1>1, <1>3, <1>4, <2>1, <2>2, EnvFacts, ListsInsertTail
  <1>6. TypeOK'  BY <1>1, <1>3, <1>4, <1>5 DEF TypeOK
  <1>7. RecvingBlocked'
    BY <1>1, <1>3 DEF IInv, RecvingBlocked, TypeOK
  <1>8. FreeListExact' /\ PriPositive' /\ CurenvRunnable' /\ PanicOnlyWhenIdle' /\ BootState'
    BY <1>1, <1>4 DEF IInv, FreeListExact, PriPositive, CurenvRunnable, Running,
                      PanicOnlyWhenIdle, BootState
  <1> QED BY <1>5, <1>6, <1>7, <1>8 DEF IInv, SchedListExact

\* The update step of sys_set_env_status: the list it leaves is the one
\* schedule() expects, or already exact when the env is not the caller.
LEMMA RelistOK ==
    ASSUME TypeOK, SchedListExact, NEW e \in Live, NEW v \in {RUNNABLE, NOT_RUNNABLE},
           status' = [status EXCEPT ![e] = v]
    PROVE  /\ Relist(e, v) \in Queue(Env)
           /\ Lists(Relist(e, v), Ready(status'))
           /\ e \in Runnable => Called(Relist(e, v), status', e)
  <1> DEFINE q == Relist(e, v)
  <1>1. /\ e \in Env /\ sched \in Queue(Env) /\ Lists(sched, Runnable)
        /\ Runnable \in SUBSET Env /\ IsFiniteSet(Runnable)
        /\ status \in [Env -> Status] /\ status[e] \in {RUNNABLE, NOT_RUNNABLE}
    BY EnvFacts, StatusFacts DEF TypeOK, SchedListExact, Live, Status
  <1>2. CASE e \in Runnable /\ v = NOT_RUNNABLE
    <2>1. status[e] = RUNNABLE  BY <1>2 DEF Runnable
    <2>2. q = Remove(sched, e)  BY <1>2, <2>1, StatusFacts DEF Relist
    <2>3. /\ Ready(status') = Runnable \ {e} /\ Ready(status') \cup {e} = Runnable
          /\ e \in Env \ Ready(status')
      BY <1>1, <1>2, StatusFacts DEF Runnable, Ready
    <2>4. q \in Queue(Env) /\ Lists(q, Runnable \ {e})
      BY <1>1, <1>2, <2>2, EnvFacts, ListsRemove
    <2> QED BY <1>1, <2>2, <2>3, <2>4 DEF Called
  <1>3. CASE e \notin Runnable /\ v = RUNNABLE
    <2>1. status[e] = NOT_RUNNABLE  BY <1>1, <1>3 DEF Runnable
    <2>2. q = InsertTail(sched, e)  BY <1>3, <2>1, StatusFacts DEF Relist
    <2>3. Ready(status') = Runnable \cup {e}
      BY <1>1, <1>3, StatusFacts DEF Runnable, Ready
    <2>4. q \in Queue(Env) /\ Lists(q, Runnable \cup {e})
      BY <1>1, <1>3, <2>2, EnvFacts, ListsInsertTail
    <2> QED BY <1>3, <2>3, <2>4
  <1>4. CASE (e \in Runnable) <=> (v = RUNNABLE)
    <2>1. status[e] = v  BY <1>1, <1>4, StatusFacts DEF Runnable
    <2>2. q = sched  BY <2>1, StatusFacts DEF Relist
    <2>3. Ready(status') = Runnable
      BY <1>1, <2>1, StatusFacts DEF Runnable, Ready
    <2> QED BY <1>1, <2>2, <2>3 DEF Called
  <1> QED BY <1>2, <1>3, <1>4, StatusFacts

\* sys_set_env_status, of the caller or of a child that does not wait for a message.
LEMMA SetEnvStatusIInv ==
    ASSUME IInv, NEW id \in EnvId, NEW v \in {RUNNABLE, NOT_RUNNABLE},
           v = RUNNABLE => MayResume(id),
           sys_set_env_status(id, v)
    PROVE  IInv'
  <1> DEFINE e == envid2env(id, TRUE)
  <1>1. /\ e # NULL /\ status' = [status EXCEPT ![e] = v]
        /\ IF e = curenv THEN schedule(TRUE, Relist(e, v), status', curenv)
           ELSE sched' = Relist(e, v) /\ curenv' = curenv /\ count' = count /\ panicked' = panicked
        /\ envId' = envId /\ parent' = parent /\ pri' = pri /\ asid' = asid
        /\ recving' = recving /\ free' = free /\ asidBitmap' = asidBitmap /\ gen' = gen
        /\ mode' = mode /\ Running /\ mode = "user" /\ ~panicked
    BY DEF sys_set_env_status, poolVars, Running
  <1>2. e \in Live  BY <1>1, LookupLive DEF IInv
  <1>3. v = RUNNABLE => ~recving[e]  BY <1>1 DEF MayResume, Blocked
  <1> HIDE DEF e
  <1>4. /\ TypeOK /\ SchedListExact /\ e \in Env /\ curenv \in Runnable /\ curenv \in Ptr(Env)
    BY <1>1, <1>2 DEF IInv, CurenvRunnable, Live, TypeOK
  <1>5. status' \in [Env -> Status] /\ Live' = Live
    BY <1>1, <1>2, <1>4, StatusFacts DEF TypeOK, Live
  <1>6. /\ Relist(e, v) \in Queue(Env) /\ Lists(Relist(e, v), Ready(status'))
        /\ e \in Runnable => Called(Relist(e, v), status', e)
    BY <1>1, <1>2, <1>4, RelistOK
  <1>7. \A x \in Ready(status') : pri[x] \in Pri
    BY <1>5, StatusFacts DEF IInv, PriPositive, Ready, Live
  <1>8. /\ sched' \in Queue(Env) /\ count' \in 0 .. MaxPri
        /\ curenv' \in Ptr(Env) /\ panicked' \in BOOLEAN
        /\ SchedListExact' /\ CurenvRunnable' /\ PanicOnlyWhenIdle' /\ BootState'
    <2>1. CASE e = curenv
      BY <1>1, <1>4, <1>5, <1>6, <1>7, <2>1, AfterSchedule
    <2>2. CASE e # curenv
      <3>1. curenv \in Runnable'  BY <1>1, <1>4, <2>2 DEF Runnable, TypeOK
      <3> QED BY <1>1, <1>4, <1>6, <2>2, <3>1, StatusFacts
              DEF TypeOK, SchedListExact, CurenvRunnable, PanicOnlyWhenIdle, BootState
    <2> QED BY <2>1, <2>2
  <1>9. TypeOK'  BY <1>1, <1>4, <1>5, <1>8 DEF TypeOK
  <1>10. RecvingBlocked'
    BY <1>1, <1>3, <1>4, StatusFacts DEF IInv, RecvingBlocked, TypeOK
  <1>11. FreeListExact' /\ PriPositive'
    BY <1>1, <1>5 DEF IInv, FreeListExact, PriPositive
  <1> QED BY <1>8, <1>9, <1>10, <1>11 DEF IInv

\* sys_env_destroy of an env that is in the list.
LEMMA EnvDestroyIInv ==
    ASSUME IInv, NEW id \in EnvId, MayDestroy(id), sys_env_destroy(id)
    PROVE  IInv'
  <1> DEFINE e == envid2env(id, TRUE)
             q == Remove(sched, e)
  <1>1. /\ e \in Runnable /\ env_free(e)
        /\ IF Faults(sched, e) THEN Panic(sched)
           ELSE IF e = curenv THEN schedule(TRUE, q, status', NULL)
           ELSE sched' = q /\ curenv' = curenv /\ count' = count /\ panicked' = panicked
        /\ envId' = envId /\ parent' = parent /\ pri' = pri /\ asid' = asid
        /\ recving' = recving /\ gen' = gen
        /\ mode' = mode /\ mode = "user" /\ ~panicked
    BY DEF sys_env_destroy, MayDestroy, Running
  <1> HIDE DEF e
  <1>2. /\ TypeOK /\ FreeListExact /\ e \in Env /\ e \in Live /\ curenv \in Runnable
        /\ sched \in Queue(Env) /\ Lists(sched, Runnable)
        /\ Runnable \in SUBSET Env /\ IsFiniteSet(Runnable)
    BY <1>1, EnvFacts, StatusFacts DEF IInv, CurenvRunnable, Running, Runnable, TypeOK, SchedListExact
  <1>3. /\ q \in Queue(Env) /\ Lists(q, Runnable \ {e}) /\ ~Faults(sched, e)
    BY <1>1, <1>2, EnvFacts, ListsRemove
  <1> HIDE DEF q
  <1>4. /\ status' = [status EXCEPT ![e] = FREE] /\ free' = <<e>> \o free
        /\ asidBitmap' = asidBitmap \ {asid[e]}
    BY <1>1 DEF env_free
  <1>5. /\ status' \in [Env -> Status] /\ Live' = Live \ {e}
        /\ Ready(status') = Runnable \ {e}
    BY <1>2, <1>4, StatusFacts DEF TypeOK, Live, Runnable, Ready
  <1>6. \A x \in Ready(status') : pri[x] \in Pri
    BY <1>5, StatusFacts DEF IInv, PriPositive
  <1>7. free' \in Seq(Env) /\ FreeListExact'
    <2>1. Env \ Live' = (Env \ Live) \cup {e}  BY <1>2, <1>5
    <2> QED BY <1>2, <1>4, <2>1, FreePush DEF FreeListExact
  <1>8. /\ sched' \in Queue(Env) /\ count' \in 0 .. MaxPri
        /\ curenv' \in Ptr(Env) /\ panicked' \in BOOLEAN
        /\ SchedListExact' /\ CurenvRunnable' /\ PanicOnlyWhenIdle' /\ BootState'
    <2>1. CASE e = curenv
      <3>1. schedule(TRUE, q, status', NULL)  BY <1>1, <1>3, <2>1
      <3>2. NULL \in Ptr(Env) /\ Called(q, status', NULL)
        BY <1>3, <1>5 DEF Ptr, Called
      <3> QED BY <1>1, <1>2, <1>3, <1>5, <1>6, <3>1, <3>2, AfterSchedule
    <2>2. CASE e # curenv
      <3>1. sched' = q /\ curenv' = curenv /\ count' = count /\ panicked' = panicked
        BY <1>1, <1>3, <2>2
      <3>2. curenv \in Runnable'  BY <1>2, <1>5, <2>2, StatusFacts
      <3> QED BY <1>1, <1>2, <1>3, <1>5, <3>1, <3>2, StatusFacts
              DEF TypeOK, SchedListExact, CurenvRunnable, PanicOnlyWhenIdle, BootState
    <2> QED BY <2>1, <2>2
  <1>9. TypeOK'  BY <1>1, <1>2, <1>4, <1>5, <1>7, <1>8 DEF TypeOK
  <1>10. RecvingBlocked'
    BY <1>1, <1>2, <1>4, StatusFacts DEF IInv, RecvingBlocked, TypeOK, Runnable
  <1>11. PriPositive'
    BY <1>1, <1>5 DEF IInv, PriPositive
  <1> QED BY <1>7, <1>8, <1>9, <1>10, <1>11 DEF IInv

\* sys_cgetc moves no env, however long it waits.
LEMMA KeyIInv ==
    ASSUME IInv, sys_cgetc \/ KeyPressed
    PROVE  IInv'
  <1>1. /\ UNCHANGED <<slotVars, poolVars, cpuVars>>
        /\ mode \in {"user", "key"} /\ mode' \in {"user", "key"}
    BY DEF sys_cgetc, KeyPressed, Running
  <1> QED BY <1>1 DEF slotVars, poolVars, cpuVars, IInv, TypeOK, SchedListExact, CurenvRunnable,
                PanicOnlyWhenIdle, RecvingBlocked, FreeListExact, PriPositive,
                BootState, Runnable, Live

\* Every step of the kernel keeps the invariant.
LEMMA NextIInv == IInv /\ [Next]_vars => IInv'
  <1> SUFFICES ASSUME IInv, [Next]_vars PROVE IInv'
    OBVIOUS
  <1>1. CASE UNCHANGED vars
    BY <1>1 DEF vars, slotVars, poolVars, cpuVars, IInv, TypeOK, SchedListExact, CurenvRunnable,
                Running, PanicOnlyWhenIdle, RecvingBlocked, FreeListExact, PriPositive,
                BootState, Runnable, Live
  <1>2. CASE \E p \in Pri : EnvCreate(p)  BY <1>2, EnvCreateIInv
  <1>3. CASE Start
    BY <1>3, PlainScheduleIInv DEF Start, IInv, BootState
  <1>4. CASE TimerTick
    <2>1. Running /\ ~panicked /\ mode' = "user"
      BY <1>4 DEF TimerTick, Running, IInv, TypeOK
    <2> QED BY <1>4, <2>1, PlainScheduleIInv DEF TimerTick
  <1>5. CASE sys_yield
    <2>1. Running /\ ~panicked /\ mode' = "user"
      BY <1>5 DEF sys_yield, Running, IInv, TypeOK
    <2> QED BY <1>5, <2>1, PlainScheduleIInv DEF sys_yield
  <1>6. CASE sys_exofork  BY <1>6, ExoforkIInv
  <1>7. CASE \E id \in EnvId : sys_set_env_status(id, RUNNABLE) /\ MayResume(id)
    BY <1>7, SetEnvStatusIInv
  <1>8. CASE \E id \in EnvId : sys_set_env_status(id, NOT_RUNNABLE)
    BY <1>8, StatusFacts, SetEnvStatusIInv
  <1>9. CASE sys_ipc_recv  BY <1>9, IpcRecvIInv
  <1>10. CASE \E id \in EnvId : sys_ipc_try_send(id)  BY <1>10, IpcTrySendIInv
  <1>11. CASE \E id \in EnvId : sys_env_destroy(id) /\ MayDestroy(id)
    BY <1>11, EnvDestroyIInv
  <1>12. CASE Halted  BY <1>1, <1>12 DEF Halted
  <1>13. CASE sys_cgetc \/ KeyPressed  BY <1>13, KeyIInv
  <1> QED BY <1>1, <1>2, <1>3, <1>4, <1>5, <1>6, <1>7, <1>8, <1>9, <1>10, <1>11, <1>12, <1>13 DEF Next

-----------------------------------------------------------------------------
(* The results *)

\* The inductive invariant holds in every reachable state of the kernel.
THEOREM KernelInvariant == Spec => []IInv
  BY InitIInv, NextIInv, PTL DEF Spec

\* Every variable of kern/env.c and kern/sched.c stays in its range.
THEOREM TypeCorrect == Spec => []TypeOK
  <1>1. IInv => TypeOK  BY DEF IInv
  <1> QED BY <1>1, KernelInvariant, PTL

\* The invariant stated at kern/env.c's env_sched_list: at every moment user
\* code can see, the list holds exactly the runnable envs, each once, with
\* consistent links, however envs are created, blocked, woken and destroyed.
THEOREM SchedListCorrect == Spec => []SchedListExact
  <1>1. IInv => SchedListExact  BY DEF IInv
  <1> QED BY <1>1, KernelInvariant, PTL

\* The CPU is never left with an env that may not run.
THEOREM CurenvCorrect == Spec => []CurenvRunnable
  <1>1. IInv => CurenvRunnable  BY DEF IInv
  <1> QED BY <1>1, KernelInvariant, PTL

\* The only panic of schedule(), env_run() and the list macros is the one for
\* an idle machine.
THEOREM NoSpuriousPanic == Spec => []PanicOnlyWhenIdle
  <1>1. IInv => PanicOnlyWhenIdle  BY DEF IInv
  <1> QED BY <1>1, KernelInvariant, PTL

\* A receiver that waits is not runnable, in whatever slot and generation.
THEOREM RecvingCorrect == Spec => []RecvingBlocked
  <1>1. IInv => RecvingBlocked  BY DEF IInv
  <1> QED BY <1>1, KernelInvariant, PTL

\* No slot is lost from env_free_list and none is in it twice.
THEOREM FreeListCorrect == Spec => []FreeListExact
  <1>1. IInv => FreeListExact  BY DEF IInv
  <1> QED BY <1>1, KernelInvariant, PTL

\* sys_yield gives the CPU to another env whenever there is one.
THEOREM YieldCorrect == Spec => YieldRotates
  <1>1. IInv /\ [Next]_vars => [sys_yield => curenv' # curenv \/ Runnable = {curenv}]_vars
    <2> SUFFICES ASSUME IInv, sys_yield, Runnable # {curenv} PROVE curenv' # curenv
      OBVIOUS
    <2>1. /\ Running /\ schedule(TRUE, sched, status, curenv)  BY DEF sys_yield
    <2>2. /\ TypeOK /\ status \in [Env -> Status] /\ sched \in Queue(Env) /\ curenv \in Ptr(Env)
          /\ curenv \in Ready(status) /\ Ready(status) # {curenv}
          /\ Called(sched, status, curenv)
      BY <2>1, StatusFacts DEF IInv, TypeOK, CurenvRunnable, Running, SchedListExact, Called
    <2>3. \A x \in Ready(status) : pri[x] \in Pri  BY StatusFacts DEF IInv, PriPositive
    <2> QED BY <2>1, <2>2, <2>3, ScheduleOK
  <1> QED BY <1>1, KernelInvariant, PTL DEF Spec, YieldRotates

-----------------------------------------------------------------------------
(* ASIDs *)

\* env_alloc gives the new env an ASID that no live env has.
LEMMA AllocAsids ==
    ASSUME IInv, AsidsExact, CanAlloc, NEW id, NEW v \in {RUNNABLE, NOT_RUNNABLE},
           env_alloc(Head(free), id), status' = [status EXCEPT ![Head(free)] = v]
    PROVE  AsidsExact'
  <1> DEFINE e == Head(free)
  <1>1. e \in Env /\ status[e] = FREE  BY FreePop DEF IInv, CanAlloc
  <1>2. asid_alloc \in Asid \ asidBitmap  BY AsidAllocFinds DEF CanAlloc, AsidFree
  <1>3. asid' = [asid EXCEPT ![e] = asid_alloc] /\ asidBitmap' = asidBitmap \cup {asid_alloc}
    BY DEF env_alloc
  <1> HIDE DEF e
  <1>4. Live' = Live \cup {e} /\ e \notin Live
    BY <1>1, StatusFacts DEF IInv, TypeOK, Live, e
  <1>5. asid'[e] = asid_alloc /\ \A x \in Live : asid'[x] = asid[x] /\ asid[x] \in asidBitmap
    BY <1>1, <1>3, <1>4 DEF IInv, TypeOK, Live, AsidsExact
  <1>6. asidBitmap' = {asid'[x] : x \in Live'}
    BY <1>3, <1>4, <1>5 DEF AsidsExact
  <1>7. \A x, y \in Live' : asid'[x] = asid'[y] => x = y
    BY <1>2, <1>4, <1>5 DEF AsidsExact
  <1> QED BY <1>6, <1>7 DEF AsidsExact

\* env_free clears the bit of an ASID that only the dead env had.
LEMMA FreeAsids ==
    ASSUME IInv, AsidsExact, NEW e \in Live, env_free(e), asid' = asid
    PROVE  AsidsExact'
  <1>1. asidBitmap' = asidBitmap \ {asid[e]} /\ Live' = Live \ {e}
    BY StatusFacts DEF env_free, Live, IInv, TypeOK
  <1> QED BY <1>1 DEF AsidsExact

\* Every step keeps ASIDs exact.
LEMMA NextAsids == IInv /\ AsidsExact /\ [Next]_vars => AsidsExact'
  <1> SUFFICES ASSUME IInv, AsidsExact, [Next]_vars PROVE AsidsExact'
    OBVIOUS
  <1>1. ASSUME asid' = asid, asidBitmap' = asidBitmap, Live' = Live PROVE AsidsExact'
    BY <1>1 DEF AsidsExact
  <1>2. ASSUME UNCHANGED <<slotVars, poolVars>> PROVE AsidsExact'
    BY <1>1, <1>2 DEF slotVars, poolVars, Live
  <1>3. CASE UNCHANGED vars  BY <1>2, <1>3 DEF vars
  <1>4. CASE \E p \in Pri : EnvCreate(p)
    BY <1>4, AllocAsids DEF EnvCreate
  <1>5. CASE Start \/ TimerTick \/ sys_yield
    BY <1>2, <1>5 DEF Start, TimerTick, sys_yield
  <1>6. CASE sys_exofork
    BY <1>6, AllocAsids DEF sys_exofork
  <1>7. ASSUME NEW id \in EnvId, NEW v \in {RUNNABLE, NOT_RUNNABLE}, sys_set_env_status(id, v)
        PROVE  AsidsExact'
    <2>1. envid2env(id, TRUE) \in Live
      BY <1>7, LookupLive DEF IInv, sys_set_env_status
    <2>2. Live' = Live
      BY <1>7, <2>1, StatusFacts DEF sys_set_env_status, Live, IInv, TypeOK
    <2> QED BY <1>1, <1>7, <2>2 DEF sys_set_env_status, poolVars
  <1>8. CASE sys_ipc_recv
    <2>1. curenv \in Live
      BY <1>8, StatusFacts DEF IInv, CurenvRunnable, Running, sys_ipc_recv
    <2>2. Live' = Live
      BY <1>8, <2>1, StatusFacts DEF sys_ipc_recv, Live, IInv, TypeOK
    <2> QED BY <1>1, <1>8, <2>2 DEF sys_ipc_recv, poolVars
  <1>9. CASE \E id \in EnvId : sys_ipc_try_send(id)
    <2>1. PICK id \in EnvId : sys_ipc_try_send(id)  BY <1>9
    <2>2. envid2env(id, FALSE) \in Live
      BY <2>1, LookupLive DEF IInv, sys_ipc_try_send
    <2>3. Live' = Live
      BY <2>1, <2>2, StatusFacts DEF sys_ipc_try_send, Live, IInv, TypeOK
    <2> QED BY <1>1, <2>1, <2>3 DEF sys_ipc_try_send, poolVars
  <1>10. CASE \E id \in EnvId : sys_env_destroy(id) /\ MayDestroy(id)
    <2>1. PICK id \in EnvId : sys_env_destroy(id) /\ MayDestroy(id)  BY <1>10
    <2>2. envid2env(id, TRUE) \in Live  BY <2>1, StatusFacts DEF MayDestroy
    <2>3. env_free(envid2env(id, TRUE)) /\ asid' = asid  BY <2>1 DEF sys_env_destroy
    <2> QED BY <2>2, <2>3, FreeAsids
  <1>11. CASE Halted  BY <1>3, <1>11 DEF Halted
  <1>12. CASE sys_cgetc \/ KeyPressed  BY <1>2, <1>12 DEF sys_cgetc, KeyPressed
  <1> QED BY <1>3, <1>4, <1>5, <1>6, <1>7, <1>8, <1>9, <1>10, <1>11, <1>12 DEF Next

\* Live envs never share an ASID and none is leaked, although there are fewer
\* ASIDs than slots.
THEOREM AsidsCorrect == Spec => []AsidsExact
  <1>1. Init => AsidsExact  BY StatusFacts DEF Init, AsidsExact, Live
  <1> QED BY <1>1, NextAsids, KernelInvariant, PTL DEF Spec
=============================================================================
