-------------------------- MODULE FileServerProofs --------------------------
(***************************************************************************)
(* Proofs about FileStore and FileServer, for any disk that is well        *)
(* formed, any sizes, any clients and any number of calls.                 *)
(***************************************************************************)
EXTENDS FileServer, FiniteSetTheorems, WellFoundedInduction, TLAPS

(* Numbers and loops *)

LEMMA LessThan ==
    \E R : IsWellFoundedOn(R, Nat) /\ \A a, b \in Nat : a < b => <<a, b>> \in R
  <1> DEFINE R == OpToRel(<, Nat)
  <1>1. IsWellFoundedOn(R, Nat)  BY NatLessThanWellFounded
  <1>2. \A a, b \in Nat : a < b => <<a, b>> \in R  BY DEF OpToRel
  <1> HIDE DEF R
  <1> QED BY <1>1, <1>2

\* Where induction is needed: a least counterexample.
LEMMA NatMin ==
    ASSUME NEW T, T \subseteq Nat, T # {}
    PROVE  \E x \in T : \A y \in T : x <= y
  <1>1. PICK R : IsWellFoundedOn(R, Nat) /\ \A a, b \in Nat : a < b => <<a, b>> \in R
    BY LessThan
  <1>2. IsWellFoundedOn(R, Nat)  BY <1>1
  <1>3. \E x \in T : \A y \in T : ~(<<y, x>> \in R)  BY <1>2, WFMin, Zenon
  <1>4. PICK x : x \in T /\ \A y \in T : ~(<<y, x>> \in R)  BY <1>3
  <1>5. \A y \in T : ~(y < x)
    <2> TAKE y \in T
    <2>1. y \in Nat /\ x \in Nat  BY <1>4
    <2> QED BY <2>1, <1>1, <1>4
  <1> QED BY <1>4, <1>5

\* The least of some numbers is one of them.
LEMMA MinIn ==
    ASSUME NEW T, T \subseteq Nat, T # {}
    PROVE  Min(T) \in T
  <1>1. \E x \in T : \A y \in T : x <= y  BY NatMin
  <1> QED BY <1>1 DEF Min

\* A set that has the start of a range, and with each number the next, has all of it.
LEMMA Induction ==
    ASSUME NEW from \in Nat, NEW to \in Nat, NEW S, from \in S,
           \A n \in from .. to - 1 : n \in S => n + 1 \in S
    PROVE  \A n \in from .. to : n \in S
  <1> DEFINE T == {n \in Nat : n \in from .. to /\ n \notin S}
  <1>1. SUFFICES ASSUME T # {} PROVE FALSE  OBVIOUS
  <1>2. T \subseteq Nat  OBVIOUS
  <1>3. PICK n \in T : \A i \in T : n <= i  BY <1>1, <1>2, NatMin
  <1>4. n \in Nat /\ n \in from .. to /\ n \notin S /\ n # from  OBVIOUS
  <1>5. n - 1 \in from .. to - 1 /\ n - 1 \in Nat /\ ~(n <= n - 1) /\ n - 1 \in from .. to
    BY <1>4
  <1>6. n - 1 \in S  BY <1>3, <1>5
  <1>7. n - 1 + 1 = n  BY <1>4
  <1> QED BY <1>4, <1>5, <1>6, <1>7

pushed(path, w, n) == push(path, w.segs[n])

\* One round of a loop, for all of the loops.
Body(l, m, n) ==
    CASE l.op = "flush" -> flush_block(m, l.f, n)
      [] l.op = "sync"  -> sync_block(m, n)
      [] l.op = "clear" -> clear_block(m, l.f, n)
      [] l.op = "look"  -> look(m, l.dir, l.name, n)
      [] l.op = "enter" -> enter(m, l.path, n)
      [] l.op = "mark"  -> mark(m, l.dir, l.f, n)
      [] OTHER          -> pushed(m, l.w, n)

\* x is what is computed by the loop l.
IsLoop(l, m, from, to, x) ==
    x = [n \in from .. to |-> IF n = from THEN m ELSE Body(l, x[n - 1], n - 1)]

LEMMA LoopExists ==
    ASSUME NEW l, NEW m, NEW from \in Nat, NEW to \in Nat, from <= to
    PROVE  \E x : IsLoop(l, m, from, to, x)
  <1> DEFINE T == {n \in Nat : from <= n /\ ~\E x : IsLoop(l, m, from, n, x)}
  <1>1. SUFFICES T = {}  OBVIOUS
  <1>2. SUFFICES ASSUME T # {} PROVE FALSE  OBVIOUS
  <1>3. T \subseteq Nat  OBVIOUS
  <1>4. PICK n \in T : \A i \in T : n <= i  BY <1>2, <1>3, NatMin
  <1>5. CASE n = from
    <2> DEFINE g == [k \in from .. from |-> m]
    <2>1. \A k \in from .. from : k = from  OBVIOUS
    <2>2. IsLoop(l, m, from, from, g)  BY <2>1 DEF IsLoop
    <2> QED BY <2>2, <1>5
  <1>6. CASE n # from
    <2>1. n - 1 \in Nat /\ n \in Nat /\ from <= n - 1  BY <1>6
    <2>2. n - 1 \notin T
      <3> HIDE DEF T
      <3>1. ~(n <= n - 1)  BY <2>1
      <3> QED BY <1>4, <3>1
    <2>3. PICK h : IsLoop(l, m, from, n - 1, h)  BY <2>1, <2>2
    <2> DEFINE g == [k \in from .. n |-> IF k = n THEN Body(l, h[n - 1], n - 1) ELSE h[k]]
    <2>4. \A k \in from .. n - 1 : k \in from .. n /\ k # n /\ g[k] = h[k]  BY <2>1
    <2>5. ASSUME NEW k \in from .. n
          PROVE  g[k] = IF k = from THEN m ELSE Body(l, g[k - 1], k - 1)
      <3>1. CASE k = n
        <4>1. n - 1 \in from .. n - 1 /\ n # from  BY <2>1, <1>6
        <4>2. g[n - 1] = h[n - 1]  BY <4>1, <2>4
        <4> QED BY <3>1, <4>1, <4>2
      <3>2. CASE k # n
        <4>1. k \in from .. n - 1 /\ (k # from => k - 1 \in from .. n - 1)  BY <3>2, <2>1
        <4>2. g[k] = h[k] /\ (k # from => g[k - 1] = h[k - 1])  BY <4>1, <2>4
        <4>3. h[k] = IF k = from THEN m ELSE Body(l, h[k - 1], k - 1)
          BY <4>1, <2>3 DEF IsLoop
        <4> QED BY <4>2, <4>3
      <3> QED BY <3>1, <3>2
    <2>6. g = [k \in from .. n |-> g[k]]  OBVIOUS
    <2> HIDE DEF g
    <2>7. IsLoop(l, m, from, n, g)  BY <2>5, <2>6 DEF IsLoop
    <2> QED BY <2>7, <1>4
  <1> QED BY <1>5, <1>6

\* The loops as what their rounds make of one another.
LEMMA FlushLoop ==
    ASSUME NEW m, NEW f, FileAt(m, f).size \in Nat
    PROVE  \E x : /\ file_flush(m, f) = x[FileAt(m, f).size] /\ x[0] = m
                  /\ \A n \in 0 .. FileAt(m, f).size - 1 : x[n + 1] = flush_block(x[n], f, n)
  <1> DEFINE l == [op |-> "flush", f |-> f]
             to == FileAt(m, f).size
             init == m
             x[n \in 0 .. to] == IF n = 0 THEN init ELSE flush_block(x[n - 1], f, n - 1)
  <1>0. 0 \in Nat /\ to \in Nat /\ 0 <= to  OBVIOUS
  <1>1. file_flush(m, f) = x[to]  BY DEF file_flush, Loop
  <1>2. \A y, n : Body(l, y, n) = flush_block(y, f, n)  BY DEF Body
  <1> HIDE DEF init, to, l
  <1>3. \E y : y = [n \in 0 .. to |-> IF n = 0 THEN init ELSE flush_block(y[n - 1], f, n - 1)]
    <2>1. PICK y : IsLoop(l, init, 0, to, y)  BY <1>0, LoopExists
    <2>2. y = [n \in 0 .. to |-> IF n = 0 THEN init ELSE Body(l, y[n - 1], n - 1)]
      BY <2>1 DEF IsLoop
    <2>3. y = [n \in 0 .. to |-> IF n = 0 THEN init ELSE flush_block(y[n - 1], f, n - 1)]
      BY <2>2, <1>2
    <2> QED BY <2>3
  <1>4. x = [n \in 0 .. to |-> IF n = 0 THEN init ELSE flush_block(x[n - 1], f, n - 1)]
    BY <1>3
  <1> HIDE DEF x
  <1>5. x[0] = init
    <2>1. 0 \in 0 .. to  BY <1>0
    <2> QED BY <2>1, <1>4
  <1>6. ASSUME NEW n \in 0 .. to - 1 PROVE x[n + 1] = flush_block(x[n], f, n)
    <2>1. PICK k : k = n + 1  OBVIOUS
    <2>2. k \in 0 .. to /\ k # 0 /\ k - 1 = n  BY <1>0, <2>1
    <2>3. x[k] = flush_block(x[k - 1], f, k - 1)  BY <2>2, <1>4
    <2> QED BY <2>1, <2>2, <2>3
  <1> USE DEF init, to
  <1> QED BY <1>1, <1>5, <1>6

LEMMA SyncLoop ==
    ASSUME NEW m
    PROVE  \E x : /\ fs_sync(m) = x[NBLOCK] /\ x[0] = m
                  /\ \A n \in 0 .. NBLOCK - 1 : x[n + 1] = sync_block(x[n], n)
  <1> DEFINE l == [op |-> "sync"]
             to == NBLOCK
             init == m
             x[n \in 0 .. to] == IF n = 0 THEN init ELSE sync_block(x[n - 1], n - 1)
  <1>0. 0 \in Nat /\ to \in Nat /\ 0 <= to  BY SizesAssumption
  <1>1. fs_sync(m) = x[to]  BY DEF fs_sync, Loop
  <1>2. \A y, n : Body(l, y, n) = sync_block(y, n)  BY DEF Body
  <1> HIDE DEF init, to, l
  <1>3. \E y : y = [n \in 0 .. to |-> IF n = 0 THEN init ELSE sync_block(y[n - 1], n - 1)]
    <2>1. PICK y : IsLoop(l, init, 0, to, y)  BY <1>0, LoopExists
    <2>2. y = [n \in 0 .. to |-> IF n = 0 THEN init ELSE Body(l, y[n - 1], n - 1)]
      BY <2>1 DEF IsLoop
    <2>3. y = [n \in 0 .. to |-> IF n = 0 THEN init ELSE sync_block(y[n - 1], n - 1)]
      BY <2>2, <1>2
    <2> QED BY <2>3
  <1>4. x = [n \in 0 .. to |-> IF n = 0 THEN init ELSE sync_block(x[n - 1], n - 1)]
    BY <1>3
  <1> HIDE DEF x
  <1>5. x[0] = init
    <2>1. 0 \in 0 .. to  BY <1>0
    <2> QED BY <2>1, <1>4
  <1>6. ASSUME NEW n \in 0 .. to - 1 PROVE x[n + 1] = sync_block(x[n], n)
    <2>1. PICK k : k = n + 1  OBVIOUS
    <2>2. k \in 0 .. to /\ k # 0 /\ k - 1 = n  BY <1>0, <2>1
    <2>3. x[k] = sync_block(x[k - 1], k - 1)  BY <2>2, <1>4
    <2> QED BY <2>1, <2>2, <2>3
  <1> USE DEF init, to
  <1> QED BY <1>1, <1>5, <1>6

LEMMA ScanLoop ==
    ASSUME NEW m, NEW dir, NEW name, FileAt(m, dir).size \in Nat
    PROVE  \E x : /\ Scan(m, dir, name) = x[FileAt(m, dir).size] /\ x[0] = Err(m, "E_NOT_FOUND")
                  /\ \A n \in 0 .. FileAt(m, dir).size - 1 : x[n + 1] = look(x[n], dir, name, n)
  <1> DEFINE l == [op |-> "look", dir |-> dir, name |-> name]
             to == FileAt(m, dir).size
             init == Err(m, "E_NOT_FOUND")
             x[n \in 0 .. to] == IF n = 0 THEN init ELSE look(x[n - 1], dir, name, n - 1)
  <1>0. 0 \in Nat /\ to \in Nat /\ 0 <= to  OBVIOUS
  <1>1. Scan(m, dir, name) = x[to]  BY DEF Scan, Loop
  <1>2. \A y, n : Body(l, y, n) = look(y, dir, name, n)  BY DEF Body
  <1> HIDE DEF init, to, l
  <1>3. \E y : y = [n \in 0 .. to |-> IF n = 0 THEN init ELSE look(y[n - 1], dir, name, n - 1)]
    <2>1. PICK y : IsLoop(l, init, 0, to, y)  BY <1>0, LoopExists
    <2>2. y = [n \in 0 .. to |-> IF n = 0 THEN init ELSE Body(l, y[n - 1], n - 1)]
      BY <2>1 DEF IsLoop
    <2>3. y = [n \in 0 .. to |-> IF n = 0 THEN init ELSE look(y[n - 1], dir, name, n - 1)]
      BY <2>2, <1>2
    <2> QED BY <2>3
  <1>4. x = [n \in 0 .. to |-> IF n = 0 THEN init ELSE look(x[n - 1], dir, name, n - 1)]
    BY <1>3
  <1> HIDE DEF x
  <1>5. x[0] = init
    <2>1. 0 \in 0 .. to  BY <1>0
    <2> QED BY <2>1, <1>4
  <1>6. ASSUME NEW n \in 0 .. to - 1 PROVE x[n + 1] = look(x[n], dir, name, n)
    <2>1. PICK k : k = n + 1  OBVIOUS
    <2>2. k \in 0 .. to /\ k # 0 /\ k - 1 = n  BY <1>0, <2>1
    <2>3. x[k] = look(x[k - 1], dir, name, k - 1)  BY <2>2, <1>4
    <2> QED BY <2>1, <2>2, <2>3
  <1> USE DEF init, to
  <1> QED BY <1>1, <1>5, <1>6

LEMMA ClearLoop ==
    ASSUME NEW m, NEW f, NEW size \in Nat, FileAt(m, f).size \in Nat, size <= FileAt(m, f).size
    PROVE  \E x : /\ clear_blocks(m, f, size) = x[FileAt(m, f).size] /\ x[size] = m
                  /\ \A n \in size .. FileAt(m, f).size - 1 : x[n + 1] = clear_block(x[n], f, n)
  <1> DEFINE l == [op |-> "clear", f |-> f]
             to == FileAt(m, f).size
             init == m
             x[n \in size .. to] == IF n = size THEN init ELSE clear_block(x[n - 1], f, n - 1)
  <1>0. size \in Nat /\ to \in Nat /\ size <= to  OBVIOUS
  <1>1. clear_blocks(m, f, size) = x[to]  BY DEF clear_blocks, Loop
  <1>2. \A y, n : Body(l, y, n) = clear_block(y, f, n)  BY DEF Body
  <1> HIDE DEF init, to, l
  <1>3. \E y : y = [n \in size .. to |-> IF n = size THEN init ELSE clear_block(y[n - 1], f, n - 1)]
    <2>1. PICK y : IsLoop(l, init, size, to, y)  BY <1>0, LoopExists
    <2>2. y = [n \in size .. to |-> IF n = size THEN init ELSE Body(l, y[n - 1], n - 1)]
      BY <2>1 DEF IsLoop
    <2>3. y = [n \in size .. to |-> IF n = size THEN init ELSE clear_block(y[n - 1], f, n - 1)]
      BY <2>2, <1>2
    <2> QED BY <2>3
  <1>4. x = [n \in size .. to |-> IF n = size THEN init ELSE clear_block(x[n - 1], f, n - 1)]
    BY <1>3
  <1> HIDE DEF x
  <1>5. x[size] = init
    <2>1. size \in size .. to  BY <1>0
    <2> QED BY <2>1, <1>4
  <1>6. ASSUME NEW n \in size .. to - 1 PROVE x[n + 1] = clear_block(x[n], f, n)
    <2>1. PICK k : k = n + 1  OBVIOUS
    <2>2. k \in size .. to /\ k # size /\ k - 1 = n  BY <1>0, <2>1
    <2>3. x[k] = clear_block(x[k - 1], f, k - 1)  BY <2>2, <1>4
    <2> QED BY <2>1, <2>2, <2>3
  <1> USE DEF init, to
  <1> QED BY <1>1, <1>5, <1>6

LEMMA MarkLoop ==
    ASSUME NEW m, NEW dir, NEW f, FileAt(m, dir).size \in Nat
    PROVE  \E x : /\ mark_blocks(m, dir, f) = x[FileAt(m, dir).size] /\ x[0] = Ret(m, 0)
                  /\ \A n \in 0 .. FileAt(m, dir).size - 1 : x[n + 1] = mark(x[n], dir, f, n)
  <1> DEFINE l == [op |-> "mark", dir |-> dir, f |-> f]
             to == FileAt(m, dir).size
             init == Ret(m, 0)
             x[n \in 0 .. to] == IF n = 0 THEN init ELSE mark(x[n - 1], dir, f, n - 1)
  <1>0. 0 \in Nat /\ to \in Nat /\ 0 <= to  OBVIOUS
  <1>1. mark_blocks(m, dir, f) = x[to]  BY DEF mark_blocks, Loop
  <1>2. \A y, n : Body(l, y, n) = mark(y, dir, f, n)  BY DEF Body
  <1> HIDE DEF init, to, l
  <1>3. \E y : y = [n \in 0 .. to |-> IF n = 0 THEN init ELSE mark(y[n - 1], dir, f, n - 1)]
    <2>1. PICK y : IsLoop(l, init, 0, to, y)  BY <1>0, LoopExists
    <2>2. y = [n \in 0 .. to |-> IF n = 0 THEN init ELSE Body(l, y[n - 1], n - 1)]
      BY <2>1 DEF IsLoop
    <2>3. y = [n \in 0 .. to |-> IF n = 0 THEN init ELSE mark(y[n - 1], dir, f, n - 1)]
      BY <2>2, <1>2
    <2> QED BY <2>3
  <1>4. x = [n \in 0 .. to |-> IF n = 0 THEN init ELSE mark(x[n - 1], dir, f, n - 1)]
    BY <1>3
  <1> HIDE DEF x
  <1>5. x[0] = init
    <2>1. 0 \in 0 .. to  BY <1>0
    <2> QED BY <2>1, <1>4
  <1>6. ASSUME NEW n \in 0 .. to - 1 PROVE x[n + 1] = mark(x[n], dir, f, n)
    <2>1. PICK k : k = n + 1  OBVIOUS
    <2>2. k \in 0 .. to /\ k # 0 /\ k - 1 = n  BY <1>0, <2>1
    <2>3. x[k] = mark(x[k - 1], dir, f, k - 1)  BY <2>2, <1>4
    <2> QED BY <2>1, <2>2, <2>3
  <1> USE DEF init, to
  <1> QED BY <1>1, <1>5, <1>6

LEMMA PathLoop ==
    ASSUME NEW p, NEW w, Len(w.segs) \in Nat
    PROVE  \E x : /\ cat2Path(p, w) = x[Len(w.segs) + 1] /\ x[1] = (IF w.abs THEN <<>> ELSE p)
                  /\ \A n \in 1 .. Len(w.segs) + 1 - 1 : x[n + 1] = pushed(x[n], w, n)
  <1> DEFINE l == [op |-> "push", w |-> w]
             to == Len(w.segs) + 1
             init == (IF w.abs THEN <<>> ELSE p)
             x[n \in 1 .. to] == IF n = 1 THEN init ELSE pushed(x[n - 1], w, n - 1)
  <1>0. 1 \in Nat /\ to \in Nat /\ 1 <= to  OBVIOUS
  <1>1. cat2Path(p, w) = x[to]  BY DEF cat2Path, pushed, Loop
  <1>2. \A y, n : Body(l, y, n) = pushed(y, w, n)  BY DEF Body, pushed
  <1> HIDE DEF init, to, l
  <1>3. \E y : y = [n \in 1 .. to |-> IF n = 1 THEN init ELSE pushed(y[n - 1], w, n - 1)]
    <2>1. PICK y : IsLoop(l, init, 1, to, y)  BY <1>0, LoopExists
    <2>2. y = [n \in 1 .. to |-> IF n = 1 THEN init ELSE Body(l, y[n - 1], n - 1)]
      BY <2>1 DEF IsLoop
    <2>3. y = [n \in 1 .. to |-> IF n = 1 THEN init ELSE pushed(y[n - 1], w, n - 1)]
      BY <2>2, <1>2
    <2> QED BY <2>3
  <1>4. x = [n \in 1 .. to |-> IF n = 1 THEN init ELSE pushed(x[n - 1], w, n - 1)]
    BY <1>3
  <1> HIDE DEF x
  <1>5. x[1] = init
    <2>1. 1 \in 1 .. to  BY <1>0
    <2> QED BY <2>1, <1>4
  <1>6. ASSUME NEW n \in 1 .. to - 1 PROVE x[n + 1] = pushed(x[n], w, n)
    <2>1. PICK k : k = n + 1  OBVIOUS
    <2>2. k \in 1 .. to /\ k # 1 /\ k - 1 = n  BY <1>0, <2>1
    <2>3. x[k] = pushed(x[k - 1], w, k - 1)  BY <2>2, <1>4
    <2> QED BY <2>1, <2>2, <2>3
  <1> USE DEF init, to
  <1> QED BY <1>1, <1>5, <1>6

LEMMA WalkLoop ==
    ASSUME NEW m, NEW path, Len(path) \in Nat
    PROVE  \E x : /\ walk_path(m, path) = x[Len(path) + 1] /\ x[1] = Ret(m, [dir |-> NULL, file |-> ROOT])
                  /\ \A n \in 1 .. Len(path) + 1 - 1 : x[n + 1] = enter(x[n], path, n)
  <1> DEFINE l == [op |-> "enter", path |-> path]
             to == Len(path) + 1
             init == Ret(m, [dir |-> NULL, file |-> ROOT])
             x[n \in 1 .. to] == IF n = 1 THEN init ELSE enter(x[n - 1], path, n - 1)
  <1>0. 1 \in Nat /\ to \in Nat /\ 1 <= to  OBVIOUS
  <1>1. walk_path(m, path) = x[to]  BY DEF walk_path, Loop
  <1>2. \A y, n : Body(l, y, n) = enter(y, path, n)  BY DEF Body
  <1> HIDE DEF init, to, l
  <1>3. \E y : y = [n \in 1 .. to |-> IF n = 1 THEN init ELSE enter(y[n - 1], path, n - 1)]
    <2>1. PICK y : IsLoop(l, init, 1, to, y)  BY <1>0, LoopExists
    <2>2. y = [n \in 1 .. to |-> IF n = 1 THEN init ELSE Body(l, y[n - 1], n - 1)]
      BY <2>1 DEF IsLoop
    <2>3. y = [n \in 1 .. to |-> IF n = 1 THEN init ELSE enter(y[n - 1], path, n - 1)]
      BY <2>2, <1>2
    <2> QED BY <2>3
  <1>4. x = [n \in 1 .. to |-> IF n = 1 THEN init ELSE enter(x[n - 1], path, n - 1)]
    BY <1>3
  <1> HIDE DEF x
  <1>5. x[1] = init
    <2>1. 1 \in 1 .. to  BY <1>0
    <2> QED BY <2>1, <1>4
  <1>6. ASSUME NEW n \in 1 .. to - 1 PROVE x[n + 1] = enter(x[n], path, n)
    <2>1. PICK k : k = n + 1  OBVIOUS
    <2>2. k \in 1 .. to /\ k # 1 /\ k - 1 = n  BY <1>0, <2>1
    <2>3. x[k] = enter(x[k - 1], path, k - 1)  BY <2>2, <1>4
    <2> QED BY <2>1, <2>2, <2>3
  <1> USE DEF init, to
  <1> QED BY <1>1, <1>5, <1>6

-----------------------------------------------------------------------------
(* What blocks hold *)

LEMMA Sizes ==
    /\ NBLOCK \in Nat /\ NBLOCK > 3 /\ NDIRECT \in Nat /\ NDIRECT > 0
    /\ NINDIRECT \in Nat /\ NDIRECT < NINDIRECT /\ FILE2BLK \in Nat /\ FILE2BLK > 0
    /\ Block = 0 .. NBLOCK - 1 /\ Data = 3 .. NBLOCK - 1 /\ SUPER = 1 /\ BITMAP = 2
    /\ NULL \notin Name /\ Data \subseteq Block /\ {0} \cup Data \subseteq Block
    /\ 0 \notin Data /\ SUPER \in Block /\ BITMAP \in Block
    /\ SUPER \notin Data /\ BITMAP \notin Data
  BY SizesAssumption DEF Block, Data, SUPER, BITMAP

\* c is a content of block b.
Fits(b, c) == c = [kind |-> c.kind, v |-> c.v] /\ c.kind \in Kinds(b) /\ c.v \in Values(c.kind)
AllFit(B)  == \A b \in Block : Fits(b, B[b])

LEMMA FitsNotNull ==
    ASSUME NEW b \in Block
    PROVE  ~Fits(b, NULL)
  <1> SUFFICES ASSUME Fits(b, NULL) PROVE FALSE  OBVIOUS
  <1>1. PICK k, v : NULL = [kind |-> k, v |-> v] /\ k \in Kinds(b) /\ v \in Values(k)
    BY DEF Fits
  <1>2. NULL \in [kind : {k}, v : Values(k)]  BY <1>1
  <1> QED BY <1>1, <1>2, NullAssumption DEF Content

\* Kind by kind.
LEMMA FitsFacts ==
    ASSUME NEW b \in Block, NEW c, Fits(b, c)
    PROVE  /\ c.kind \in {"data", "dir", "index", "super", "bitmap"}
           /\ c.kind = "data" => c.v \in {0, 1}
           /\ c.kind = "dir" => b \in Data /\ c.v \in [1 .. FILE2BLK -> FileRec]
           /\ c.kind = "index" => b \in Data /\ c.v \in [NDIRECT .. NINDIRECT - 1 -> {0} \cup Data]
           /\ c.kind = "super" => b = SUPER /\ c.v \in [{1} -> FileRec]
           /\ c.kind = "bitmap" => b = BITMAP /\ c.v \in SUBSET Data
           /\ b = SUPER => c.kind = "super"
           /\ b = BITMAP => c.kind = "bitmap"
           /\ b = 0 => c.kind = "data"
           /\ c = [kind |-> c.kind, v |-> c.v]
  <1>1. /\ c.kind \in Kinds(b) /\ c.v \in Values(c.kind) /\ c = [kind |-> c.kind, v |-> c.v]
    BY DEF Fits
  <1>2. /\ c.kind \in {"data", "dir", "index", "super", "bitmap"}
        /\ c.kind \in {"dir", "index"} => b \in Data
        /\ c.kind = "super" => b = SUPER
        /\ c.kind = "bitmap" => b = BITMAP
        /\ b = SUPER => c.kind = "super"
        /\ b = BITMAP => c.kind = "bitmap"
        /\ b = 0 => c.kind = "data"
    BY <1>1, Sizes DEF Kinds
  <1>3. CASE c.kind = "data"  BY <1>1, <1>2, <1>3 DEF Values
  <1>4. CASE c.kind = "dir"  BY <1>1, <1>2, <1>4 DEF Values
  <1>5. CASE c.kind = "index"  BY <1>1, <1>2, <1>5 DEF Values
  <1>6. CASE c.kind = "super"  BY <1>1, <1>2, <1>6 DEF Values
  <1>7. CASE c.kind = "bitmap"  BY <1>1, <1>2, <1>7 DEF Values
  <1> QED BY <1>2, <1>3, <1>4, <1>5, <1>6, <1>7

\* Contents that are made.
LEMMA FitsMade ==
    ASSUME NEW b \in Data
    PROVE  /\ Fits(b, ZeroBlock) /\ Fits(b, Text)
           /\ \A v \in [1 .. FILE2BLK -> FileRec] : Fits(b, [kind |-> "dir", v |-> v])
           /\ \A v \in [NDIRECT .. NINDIRECT - 1 -> {0} \cup Data] : Fits(b, [kind |-> "index", v |-> v])
  BY Sizes DEF Fits, Kinds, Values, ZeroBlock, Text

LEMMA FitsSuper == \A v \in [{1} -> FileRec] : Fits(SUPER, [kind |-> "super", v |-> v])
  BY Sizes DEF Fits, Kinds, Values
LEMMA FitsBitmap == \A v \in SUBSET Data : Fits(BITMAP, [kind |-> "bitmap", v |-> v])
  BY Sizes DEF Fits, Kinds, Values

LEMMA RecFacts ==
    ASSUME NEW rec \in FileRec
    PROVE  /\ rec.name \in Name \cup {NULL} /\ rec.size \in 0 .. NINDIRECT + 1
           /\ rec.type \in {"REG", "DIR"}
           /\ rec.direct \in [0 .. NDIRECT - 1 -> {0} \cup Data] /\ rec.indirect \in {0} \cup Data
           /\ \A s \in 0 .. NINDIRECT + 1 :
                 /\ [rec EXCEPT !.size = s] \in FileRec
                 /\ [rec EXCEPT !.size = s, !.indirect = 0] \in FileRec
           /\ \A s \in Name \cup {NULL} : [rec EXCEPT !.name = s] \in FileRec
           /\ \A s \in {"REG", "DIR"} : [rec EXCEPT !.type = s] \in FileRec
           /\ \A n \in 0 .. NDIRECT - 1, s \in {0} \cup Data : [rec EXCEPT !.direct[n] = s] \in FileRec
           /\ \A s \in {0} \cup Data : [rec EXCEPT !.indirect = s] \in FileRec
  BY DEF FileRec

LEMMA NoFileRec == NoFile \in FileRec
  BY Sizes DEF NoFile, FileRec

\* An empty block of File structures or of block numbers.
LEMMA EmptyFits ==
    ASSUME NEW b \in Data, NEW kind \in {"dir", "index"}
    PROVE  Fits(b, Empty(kind)) /\ Empty(kind).kind = kind
  <1>1. CASE kind = "dir"
    <2>1. [j \in 1 .. FILE2BLK |-> NoFile] \in [1 .. FILE2BLK -> FileRec]  BY NoFileRec
    <2> QED BY <1>1, <2>1, FitsMade DEF Empty
  <1>2. CASE kind = "index"
    <2>1. [n \in NDIRECT .. NINDIRECT - 1 |-> 0] \in [NDIRECT .. NINDIRECT - 1 -> {0} \cup Data]
      OBVIOUS
    <2> QED BY <1>2, <2>1, FitsMade DEF Empty
  <1> QED BY <1>1, <1>2

-----------------------------------------------------------------------------
(* What blocks say *)

Js == 0 .. FILE2BLK
Fs == 1 .. FILE2BLK
Ns == 0 .. NINDIRECT
Is == 0 .. NINDIRECT - 1

\* Only the block itself matters.
LEMMA Local ==
    ASSUME NEW B, NEW C, NEW b, B[b] = C[b]
    PROVE  /\ \A j, n : PtrAt(B, b, j, n) = PtrAt(C, b, j, n)
           /\ \A j : SizeAt(B, b, j) = SizeAt(C, b, j) /\ NameAt(B, b, j) = NameAt(C, b, j)
  BY DEF PtrAt, SizeAt, NameAt

LEMMA ViewTypes ==
    ASSUME NEW B, AllFit(B), NEW b \in Block, NEW j \in Js, NEW n \in Ns
    PROVE  /\ PtrAt(B, b, j, n) \in {0} \cup Data
           /\ PtrAt(B, b, j, n) \in Block
           /\ SizeAt(B, b, j) \in 0 .. NINDIRECT + 1
           /\ j \in Fs => NameAt(B, b, j) \in Name \cup {NULL}
  <1>1. Fits(b, B[b])  BY DEF AllFit
  <1>2. CASE B[b].kind \in {"dir", "super"} /\ j \in DOMAIN B[b].v
    <2>0. PICK c : c = B[b]  OBVIOUS
    <2>1. B[b].v[j] \in FileRec
      <3>1. c.kind = "dir" => c.v \in [1 .. FILE2BLK -> FileRec]  BY <1>1, <2>0, FitsFacts
      <3>2. c.kind = "super" => c.v \in [{1} -> FileRec]  BY <1>1, <2>0, FitsFacts
      <3>3. c.v[j] \in FileRec  BY <3>1, <3>2, <1>2, <2>0
      <3> QED BY <3>3, <2>0
    <2>2. /\ B[b].v[j].size \in 0 .. NINDIRECT + 1 /\ B[b].v[j].indirect \in {0} \cup Data
          /\ B[b].v[j].direct \in [0 .. NDIRECT - 1 -> {0} \cup Data]
          /\ B[b].v[j].name \in Name \cup {NULL}
      BY <2>1, RecFacts
    <2>3. PtrAt(B, b, j, n) \in {0} \cup Data
      <3>1. CASE n < NDIRECT  BY <3>1, <1>2, <2>2, Sizes DEF PtrAt, Ns
      <3>2. CASE ~(n < NDIRECT)  BY <3>2, <1>2, <2>2, Sizes DEF PtrAt
      <3> QED BY <3>1, <3>2
    <2> QED BY <2>2, <2>3, <1>2, Sizes DEF SizeAt, NameAt
  <1>3. CASE ~(B[b].kind \in {"dir", "super"} /\ j \in DOMAIN B[b].v)
    <2>1. PtrAt(B, b, j, n) \in {0} \cup Data
      <3>1. CASE B[b].kind = "index"
        <4>1. B[b].v \in [NDIRECT .. NINDIRECT - 1 -> {0} \cup Data]  BY <1>1, <3>1, FitsFacts
        <4> QED BY <4>1, <3>1 DEF PtrAt
      <3>2. CASE B[b].kind # "index"  BY <3>2, <1>3 DEF PtrAt
      <3> QED BY <3>1, <3>2
    <2>2. SizeAt(B, b, j) = 0  BY <1>3 DEF SizeAt
    <2>3. j \in Fs => B[b].kind # "dir"  BY <1>1, <1>3, FitsFacts DEF Fs
    <2> QED BY <2>1, <2>2, <2>3, Sizes DEF NameAt
  <1> QED BY <1>2, <1>3

\* Block 0 says nothing, nor does a block of data or of zeros.
LEMMA Nothing ==
    ASSUME NEW B, NEW b \in Block, Fits(b, B[b]),
           B[b].kind \in {"data", "bitmap"} \/ IsZero(B[b]) \/ b = 0
    PROVE  /\ \A j \in Js, n \in Ns : PtrAt(B, b, j, n) = 0
           /\ \A j \in Js : SizeAt(B, b, j) = 0 /\ (j \in Fs => NameAt(B, b, j) = NULL)
  <1>1. CASE B[b].kind \in {"data", "bitmap"} \/ b = 0
    <2>1. B[b].kind \in {"data", "bitmap"}  BY <1>1, FitsFacts
    <2> QED BY <2>1 DEF PtrAt, SizeAt, NameAt
  <1>2. CASE IsZero(B[b]) /\ B[b].kind \notin {"data", "bitmap"}
    <2>1. B[b] = Empty(B[b].kind)  BY <1>2 DEF IsZero
    <2>2. CASE B[b].kind = "dir"
      <3>1. B[b] = [kind |-> "dir", v |-> [j \in 1 .. FILE2BLK |-> NoFile]]
        BY <2>1, <2>2 DEF Empty
      <3>2. DOMAIN B[b].v = Fs /\ \A j \in Fs : B[b].v[j] = NoFile  BY <3>1 DEF Fs
      <3>3. ASSUME NEW j, NEW n \in Ns PROVE PtrAt(B, b, j, n) = 0
        BY <2>2, <3>2, Sizes DEF PtrAt, NoFile, Ns
      <3>4. \A j \in Js : SizeAt(B, b, j) = 0 /\ (j \in Fs => NameAt(B, b, j) = NULL)
        BY <2>2, <3>2 DEF SizeAt, NameAt, NoFile
      <3> QED BY <3>3, <3>4
    <2>3. CASE B[b].kind # "dir"
      <3>1. B[b].kind = "index" /\ B[b].v = [n \in NDIRECT .. NINDIRECT - 1 |-> 0]
        <4>1. B[b].kind # "dir" => Empty(B[b].kind)
                  = [kind |-> "index", v |-> [n \in NDIRECT .. NINDIRECT - 1 |-> 0]]
          BY DEF Empty
        <4>2. B[b] = [kind |-> "index", v |-> [n \in NDIRECT .. NINDIRECT - 1 |-> 0]]
          BY <4>1, <2>1, <2>3
        <4> QED BY <4>2
      <3> QED BY <3>1 DEF PtrAt, SizeAt, NameAt
    <2> QED BY <2>2, <2>3
  <1> QED BY <1>1, <1>2

\* The j-th File of a block is set to rec.
RecPut(B, C, b, j, rec) ==
    /\ Fits(b, C[b]) /\ C[b].kind = B[b].kind /\ DOMAIN C[b].v = DOMAIN B[b].v
    /\ C[b].v[j] = rec
    /\ \A i \in DOMAIN B[b].v : i # j => C[b].v[i] = B[b].v[i]
    /\ \A n \in Ns : PtrAt(C, b, j, n) = IF n < NDIRECT THEN rec.direct[n]
                                         ELSE IF n = NINDIRECT THEN rec.indirect ELSE 0
    /\ SizeAt(C, b, j) = rec.size
    /\ NameAt(C, b, j) = IF B[b].kind = "dir" THEN rec.name ELSE NULL
    /\ \A i \in Js, n \in Ns : i # j => PtrAt(C, b, i, n) = PtrAt(B, b, i, n)
    /\ \A i \in Js : i # j => SizeAt(C, b, i) = SizeAt(B, b, i)
    /\ \A i \in Fs : i # j => NameAt(C, b, i) = NameAt(B, b, i)

LEMMA RecView ==
    ASSUME NEW B, NEW C, NEW b \in Block, NEW j, NEW rec \in FileRec, Fits(b, B[b]),
           B[b].kind \in {"dir", "super"}, j \in DOMAIN B[b].v,
           C[b] = [B[b] EXCEPT !.v[j] = rec]
    PROVE  RecPut(B, C, b, j, rec)
  <1> DEFINE v == [B[b].v EXCEPT ![j] = rec]
  <1>1. B[b] = [kind |-> B[b].kind, v |-> B[b].v]  BY DEF Fits
  <1>2. C[b] = [kind |-> B[b].kind, v |-> v]  BY <1>1
  <1>3. CASE B[b].kind = "dir"
    <2>1. b \in Data /\ B[b].v \in [1 .. FILE2BLK -> FileRec]  BY <1>3, FitsFacts
    <2>2. v \in [1 .. FILE2BLK -> FileRec]  BY <2>1
    <2>3. Fits(b, C[b])
      <3>1. Fits(b, [kind |-> "dir", v |-> v])  BY <2>1, <2>2, FitsMade
      <3> QED BY <3>1, <1>2, <1>3
    <2>4. v[j] = rec /\ \A i \in DOMAIN B[b].v : i # j => v[i] = B[b].v[i]  BY <2>1
    <2>5. DOMAIN v = Fs /\ DOMAIN B[b].v = Fs  BY <2>1 DEF Fs
    <2> HIDE DEF v
    <2>6. C[b].kind = "dir" /\ C[b].v = v /\ B[b].kind = "dir"  BY <1>2, <1>3
    <2>7. \A n \in Ns : PtrAt(C, b, j, n) = IF n < NDIRECT THEN rec.direct[n]
                                             ELSE IF n = NINDIRECT THEN rec.indirect ELSE 0
      BY <2>4, <2>5, <2>6 DEF PtrAt
    <2>8. \A i \in Js, n \in Ns : i # j => PtrAt(C, b, i, n) = PtrAt(B, b, i, n)
      BY <2>4, <2>5, <2>6 DEF PtrAt
    <2>9. /\ SizeAt(C, b, j) = rec.size /\ NameAt(C, b, j) = rec.name
          /\ \A i \in Js : i # j => SizeAt(C, b, i) = SizeAt(B, b, i)
      BY <2>4, <2>5, <2>6 DEF SizeAt, NameAt
    <2>10. \A i \in Fs : i # j => NameAt(C, b, i) = NameAt(B, b, i)
      BY <2>4, <2>5, <2>6 DEF NameAt
    <2>11. /\ C[b].v[j] = rec /\ DOMAIN C[b].v = DOMAIN B[b].v
           /\ \A i \in DOMAIN B[b].v : i # j => C[b].v[i] = B[b].v[i]
      BY <2>4, <2>5, <2>6
    <2> QED BY <2>3, <2>6, <2>7, <2>8, <2>9, <2>10, <2>11 DEF RecPut
  <1>4. CASE B[b].kind = "super"
    <2>1. b = SUPER /\ B[b].v \in [{1} -> FileRec]  BY <1>4, FitsFacts
    <2>2. v \in [{1} -> FileRec]  BY <2>1
    <2>3. Fits(b, C[b])  BY <1>2, <1>4, <2>1, <2>2, FitsSuper
    <2>4. v[j] = rec /\ \A i \in DOMAIN B[b].v : i # j => v[i] = B[b].v[i]  BY <2>1
    <2>5. DOMAIN v = {1} /\ DOMAIN B[b].v = {1}  BY <2>1
    <2> HIDE DEF v
    <2> QED BY <1>2, <1>4, <2>3, <2>4, <2>5 DEF PtrAt, SizeAt, NameAt, RecPut
  <1> QED BY <1>3, <1>4

\* A number of an indirect block is set to p.
LEMMA IndexView ==
    ASSUME NEW B, NEW C, NEW b \in Block, NEW k \in NDIRECT .. NINDIRECT - 1,
           NEW p \in {0} \cup Data, Fits(b, B[b]), B[b].kind = "index",
           C[b] = [B[b] EXCEPT !.v[k] = p]
    PROVE  /\ Fits(b, C[b]) /\ C[b].kind = "index" /\ C[b].v[k] = p
           /\ PtrAt(C, b, 0, k) = p
           /\ \A j \in Js, n \in Ns : ~(j = 0 /\ n = k) => PtrAt(C, b, j, n) = PtrAt(B, b, j, n)
           /\ \A j \in Js : SizeAt(C, b, j) = SizeAt(B, b, j)
           /\ \A j \in Fs : NameAt(C, b, j) = NameAt(B, b, j)
  <1> DEFINE v == [B[b].v EXCEPT ![k] = p]
  <1>1. b \in Data /\ B[b].v \in [NDIRECT .. NINDIRECT - 1 -> {0} \cup Data]
        /\ B[b] = [kind |-> "index", v |-> B[b].v]
    BY FitsFacts
  <1>2. C[b] = [kind |-> "index", v |-> v] /\ v \in [NDIRECT .. NINDIRECT - 1 -> {0} \cup Data]
    BY <1>1
  <1>3. v[k] = p /\ \A n \in NDIRECT .. NINDIRECT - 1 : n # k => v[n] = B[b].v[n]  BY <1>1
  <1>4. Fits(b, C[b])
    <2>1. Fits(b, [kind |-> "index", v |-> v])  BY <1>1, <1>2, FitsMade
    <2> QED BY <2>1, <1>2
  <1> HIDE DEF v
  <1>5. C[b].kind = "index" /\ C[b].v = v /\ B[b].kind = "index"  BY <1>2
  <1>6. PtrAt(C, b, 0, k) = p  BY <1>5, <1>3 DEF PtrAt
  <1>7. ASSUME NEW j \in Js, NEW n \in Ns, ~(j = 0 /\ n = k)
        PROVE  PtrAt(C, b, j, n) = PtrAt(B, b, j, n)
    BY <1>5, <1>3, <1>7 DEF PtrAt
  <1>8. \A j : SizeAt(C, b, j) = SizeAt(B, b, j) /\ NameAt(C, b, j) = NameAt(B, b, j)
    BY <1>5 DEF SizeAt, NameAt
  <1> QED BY <1>3, <1>4, <1>5, <1>6, <1>7, <1>8

-----------------------------------------------------------------------------
(* Who has a block *)

\* The two parts of Owned: the block numbers, and the names.
PtrsOK(B, free) ==
    /\ \A b, c \in Block, j, k \in Js, n, i \in Ns :
          PtrAt(B, b, j, n) # 0 /\ PtrAt(B, b, j, n) = PtrAt(B, c, k, i) => b = c /\ j = k /\ n = i
    /\ \A b \in Block, j \in Js, n \in Ns : PtrAt(B, b, j, n) \notin free
NamesOK(B) ==
    /\ \A b \in Block, j, k, l \in Fs, n, i \in Is :
          NameIn(B, b, j, n, k) # NULL /\ NameIn(B, b, j, n, k) = NameIn(B, b, j, i, l)
              => n = i /\ k = l
    /\ \A b \in Block, j, k \in Fs, n \in Is :
          n >= SizeAt(B, b, j) => NameIn(B, b, j, n, k) = NULL

LEMMA OwnedParts == \A B, free : Owned(B, free) <=> PtrsOK(B, free) /\ NamesOK(B)
  BY DEF Owned, PtrsOK, NamesOK, Js, Fs, Ns, Is

\* No pointers change, but some may go, and other blocks may be used.
LEMMA PtrsShrink ==
    ASSUME NEW B, NEW C, NEW free, NEW less, PtrsOK(B, free),
           \A b \in Block, j \in Js, n \in Ns : PtrAt(C, b, j, n) \in {PtrAt(B, b, j, n), 0},
           less \subseteq free, 0 \notin less
    PROVE  PtrsOK(C, less)
  <1>1. ASSUME NEW b \in Block, NEW j \in Js, NEW n \in Ns PROVE PtrAt(C, b, j, n) \notin less
    BY DEF PtrsOK
  <1>2. ASSUME NEW b \in Block, NEW j \in Js, NEW n \in Ns, NEW c \in Block, NEW k \in Js,
               NEW i \in Ns, PtrAt(C, b, j, n) # 0, PtrAt(C, b, j, n) = PtrAt(C, c, k, i)
        PROVE  b = c /\ j = k /\ n = i
    <2>1. PtrAt(C, b, j, n) = PtrAt(B, b, j, n) /\ PtrAt(C, c, k, i) = PtrAt(B, c, k, i)
      BY <1>2
    <2> QED BY <2>1, <1>2 DEF PtrsOK
  <1> QED BY <1>1, <1>2 DEF PtrsOK

\* No place has block p.
Fresh(B, p) == \A b \in Block, j \in Js, n \in Ns : PtrAt(B, b, j, n) # p

\* A block that no one has is put into a place.
LEMMA PtrsLink ==
    ASSUME NEW B, NEW C, NEW free, PtrsOK(B, free), NEW p, Fresh(B, p), p \notin free,
           NEW b \in Block, NEW j \in Js, NEW n \in Ns, PtrAt(C, b, j, n) = p,
           \A c \in Block, k \in Js, i \in Ns :
               ~(c = b /\ k = j /\ i = n) => PtrAt(C, c, k, i) = PtrAt(B, c, k, i)
    PROVE  PtrsOK(C, free)
  <1>1. ASSUME NEW c \in Block, NEW k \in Js, NEW i \in Ns PROVE PtrAt(C, c, k, i) \notin free
    BY DEF PtrsOK
  <1>2. ASSUME NEW c \in Block, NEW k \in Js, NEW i \in Ns, NEW d \in Block, NEW l \in Js,
               NEW o \in Ns, PtrAt(C, c, k, i) # 0, PtrAt(C, c, k, i) = PtrAt(C, d, l, o)
        PROVE  c = d /\ k = l /\ i = o
    <2>1. CASE PtrAt(C, c, k, i) = p
      <3>1. c = b /\ k = j /\ i = n  BY <2>1 DEF Fresh
      <3>2. d = b /\ l = j /\ o = n  BY <2>1, <1>2 DEF Fresh
      <3> QED BY <3>1, <3>2
    <2>2. CASE PtrAt(C, c, k, i) # p
      <3>1. PtrAt(C, c, k, i) = PtrAt(B, c, k, i)  BY <2>2
      <3>2. PtrAt(C, d, l, o) = PtrAt(B, d, l, o)  BY <2>2, <1>2
      <3>3. PtrAt(B, c, k, i) # 0 /\ PtrAt(B, c, k, i) = PtrAt(B, d, l, o)
        BY <3>1, <3>2, <1>2
      <3> QED BY <3>3 DEF PtrsOK
    <2> QED BY <2>1, <2>2
  <1> QED BY <1>1, <1>2 DEF PtrsOK

\* A block is taken out of its place and freed.
LEMMA PtrsUnlink ==
    ASSUME NEW B, NEW C, NEW free, NEW more, PtrsOK(B, free), 0 \notin more,
           NEW b \in Block, NEW j \in Js, NEW n \in Ns, PtrAt(C, b, j, n) = 0,
           more \subseteq free \cup {PtrAt(B, b, j, n)},
           \A c \in Block, k \in Js, i \in Ns :
               ~(c = b /\ k = j /\ i = n) => PtrAt(C, c, k, i) = PtrAt(B, c, k, i)
    PROVE  PtrsOK(C, more)
  <1>1. ASSUME NEW c \in Block, NEW k \in Js, NEW i \in Ns PROVE PtrAt(C, c, k, i) \notin more
    <2>1. CASE c = b /\ k = j /\ i = n  BY <2>1
    <2>2. CASE ~(c = b /\ k = j /\ i = n)
      <3>1. PtrAt(C, c, k, i) = PtrAt(B, c, k, i)  BY <2>2
      <3>2. PtrAt(B, c, k, i) \notin free  BY DEF PtrsOK
      <3>3. PtrAt(B, c, k, i) = PtrAt(B, b, j, n) => PtrAt(B, b, j, n) = 0
        BY <2>2 DEF PtrsOK
      <3> QED BY <3>1, <3>2, <3>3
    <2> QED BY <2>1, <2>2
  <1>2. \A c \in Block, k \in Js, i \in Ns : PtrAt(C, c, k, i) \in {PtrAt(B, c, k, i), 0}
    OBVIOUS
  <1>3. PtrsOK(C, {})  BY <1>2, PtrsShrink
  <1> QED BY <1>1, <1>3 DEF PtrsOK

\* What a name is in from B to C: no name comes, and what has names keeps its size.
Keeps(B, C) ==
    \A b \in Block, j, k \in Fs, n \in Is :
        NameIn(C, b, j, n, k) # NULL =>
            /\ NameIn(C, b, j, n, k) = NameIn(B, b, j, n, k)
            /\ BlockAt(C, b, j, n) = BlockAt(B, b, j, n)
            /\ SizeAt(C, b, j) = SizeAt(B, b, j)

LEMMA KeepsRefl == \A B : Keeps(B, B)
  BY DEF Keeps
LEMMA KeepsTrans == \A A, B, C : Keeps(A, B) /\ Keeps(B, C) => Keeps(A, C)
  BY DEF Keeps
LEMMA KeepsNames ==
    ASSUME NEW B, NEW C, Keeps(B, C), NamesOK(B)
    PROVE  NamesOK(C)
  <1>1. ASSUME NEW b \in Block, NEW j \in Fs, NEW k \in Fs, NEW l \in Fs, NEW n \in Is, NEW i \in Is,
               NameIn(C, b, j, n, k) # NULL, NameIn(C, b, j, n, k) = NameIn(C, b, j, i, l)
        PROVE  n = i /\ k = l
    BY <1>1 DEF Keeps, NamesOK
  <1>2. ASSUME NEW b \in Block, NEW j \in Fs, NEW k \in Fs, NEW n \in Is,
               n >= SizeAt(C, b, j), NameIn(C, b, j, n, k) # NULL
        PROVE  FALSE
    BY <1>2 DEF Keeps, NamesOK
  <1> QED BY <1>1, <1>2 DEF NamesOK

\* c has no pointers and no names.
Blank(B, c) == /\ \A j \in Js, n \in Ns : PtrAt(B, c, j, n) = 0
               /\ \A j \in Fs : NameAt(B, c, j) = NULL

\* From B to C pointers go, or point to blank blocks; names go.
LEMMA Narrow ==
    ASSUME NEW B, NEW C, AllFit(B), AllFit(C),
           \A b \in Block, j \in Js, n \in Ns :
               PtrAt(C, b, j, n) = PtrAt(B, b, j, n) \/ Blank(C, PtrAt(C, b, j, n)),
           \A b \in Block, j \in Fs : NameAt(C, b, j) \in {NameAt(B, b, j), NULL},
           \A b \in Block, j \in Fs : \/ SizeAt(C, b, j) = SizeAt(B, b, j)
                                      \/ \A n \in Ns : PtrAt(C, b, j, n) = 0
    PROVE  Keeps(B, C)
  <1>0. Blank(C, 0) /\ 0 \in Block
    <2>1. 0 \in Block /\ Fits(0, C[0])  BY Sizes DEF AllFit
    <2>2. /\ \A i \in Js, o \in Ns : PtrAt(C, 0, i, o) = 0
          /\ \A i \in Js : i \in Fs => NameAt(C, 0, i) = NULL
      BY <2>1, Nothing
    <2> QED BY <2>1, <2>2 DEF Blank, Fs, Js
  <1> SUFFICES ASSUME NEW b \in Block, NEW j \in Fs, NEW k \in Fs, NEW n \in Is,
                      NameIn(C, b, j, n, k) # NULL
               PROVE  /\ NameIn(C, b, j, n, k) = NameIn(B, b, j, n, k)
                      /\ BlockAt(C, b, j, n) = BlockAt(B, b, j, n)
                      /\ SizeAt(C, b, j) = SizeAt(B, b, j)
    BY DEF Keeps
  <1>1. j \in Js /\ n \in Ns /\ NINDIRECT \in Ns /\ 0 \in Js
    BY Sizes DEF Js, Fs, Ns, Is
  <1> DEFINE p == BlockAt(C, b, j, n)
  <1>2. ~Blank(C, p)
    BY DEF Blank, NameIn
  <1>3. p = BlockAt(B, b, j, n) /\ p \in Block
    <2>1. CASE n < NDIRECT
      <3>1. p = PtrAt(C, b, j, n) /\ BlockAt(B, b, j, n) = PtrAt(B, b, j, n)
        BY <2>1 DEF BlockAt
      <3> QED BY <3>1, <1>1, <1>2, ViewTypes
    <2>2. CASE ~(n < NDIRECT)
      <3> DEFINE i == PtrAt(C, b, j, NINDIRECT)
      <3>1. p = PtrAt(C, i, 0, n) /\ BlockAt(B, b, j, n) = PtrAt(B, PtrAt(B, b, j, NINDIRECT), 0, n)
        BY <2>2 DEF BlockAt
      <3>2. i \in Block  BY <1>1, ViewTypes
      <3>3. ~Blank(C, i)
        <4>1. p # 0  BY <1>0, <1>2
        <4> HIDE DEF p
        <4> QED BY <4>1, <3>1, <1>1 DEF Blank
      <3>4. i = PtrAt(B, b, j, NINDIRECT)  BY <3>3, <1>1
      <3>5. PtrAt(C, i, 0, n) = PtrAt(B, i, 0, n) /\ PtrAt(C, i, 0, n) \in Block
        BY <3>1, <3>2, <1>1, <1>2, ViewTypes
      <3> QED BY <3>1, <3>4, <3>5
    <2> QED BY <2>1, <2>2
  <1>4. NameIn(C, b, j, n, k) = NameIn(B, b, j, n, k)
    <2> HIDE DEF p
    <2>1. NameAt(C, p, k) \in {NameAt(B, p, k), NULL}  BY <1>3
    <2> USE DEF p
    <2> QED BY <2>1, <1>3 DEF NameIn
  <1>5. SizeAt(C, b, j) = SizeAt(B, b, j)
    <2>1. SUFFICES ASSUME \A i \in Ns : PtrAt(C, b, j, i) = 0 PROVE FALSE  OBVIOUS
    <2>2. p = 0
      <3>1. CASE n < NDIRECT  BY <3>1, <2>1, <1>1 DEF BlockAt
      <3>2. CASE ~(n < NDIRECT)
        <4>1. PtrAt(C, b, j, NINDIRECT) = 0  BY <2>1, <1>1
        <4>2. PtrAt(C, 0, 0, n) = 0  BY <1>0, <1>1 DEF Blank
        <4> QED BY <3>2, <4>1, <4>2 DEF BlockAt
      <3> QED BY <3>1, <3>2
    <2> HIDE DEF p
    <2> QED BY <2>2, <1>2, <1>0
  <1> QED BY <1>3, <1>4, <1>5

-----------------------------------------------------------------------------
(* The state of the file system *)

Mem(m)  == [b \in Block |-> IF m.blk[b] # NULL THEN m.blk[b] ELSE m.disk[b]]
Free(m) == m.blk[BITMAP].v

IsState(m) == m = [disk |-> m.disk, freed |-> m.freed, blk |-> m.blk, dirty |-> m.dirty,
                   out |-> m.out, err |-> m.err, r |-> m.r, health |-> m.health]

\* What may be on its way to the disk.
Entry == UNION {UNION {{b} \X Content(k) : k \in Kinds(b)} : b \in Block}

\* The bitmaps on their way to the disk.
BitsAt(out) == {i \in 1 .. Len(out) : out[i][1] = BITMAP}

\* But for blocks that were given back, each bitmap has less than those before it: the
\* one on disk, those on their way and the one in memory.
Order(m) ==
    /\ Free(m) \subseteq m.disk[BITMAP].v \cup m.freed
    /\ \A i \in BitsAt(m.out) :
          /\ Free(m) \subseteq m.out[i][2].v \cup m.freed
          /\ m.out[i][2].v \subseteq m.disk[BITMAP].v \cup m.freed
          /\ \A k \in BitsAt(m.out) : k < i => m.out[i][2].v \subseteq m.out[k][2].v \cup m.freed

\* Block p was given back, or the disk has it marked when i - 1 writes are done.
Sure(m, p, i) == \/ p \in m.freed \/ p \notin m.disk[BITMAP].v
                 \/ \E k \in BitsAt(m.out) : k < i /\ p \notin m.out[k][2].v
SureNow(m, p) == Sure(m, p, Len(m.out) + 1)

\* So it is with what the disk, the writes and the memory name, each in its time.
PtrIn(e, j, n) == PtrAt([b \in Block |-> e[2]], e[1], j, n)
Marked(m) ==
    /\ \A b \in Block, j \in Js, n \in Ns : Sure(m, PtrAt(m.disk, b, j, n), 1)
    /\ \A i \in 1 .. Len(m.out), j \in Js, n \in Ns : Sure(m, PtrIn(m.out[i], j, n), i)
    /\ \A b \in Block, j \in Js, n \in Ns : SureNow(m, PtrAt(Mem(m), b, j, n))
Bits(m) == Order(m) /\ Marked(m)

\* What may be put into block b, or into a File.
Known(m, b, c) == \A j \in Js, n \in Ns : SureNow(m, PtrAt([a \in Block |-> c], b, j, n))
SureRec(m, rec) == /\ \A n \in 0 .. NDIRECT - 1 : SureNow(m, rec.direct[n])
                   /\ SureNow(m, rec.indirect)

\* All but the bitmaps and the block numbers.
Formed(m) ==
    /\ IsState(m) /\ m.health \in {"ok", "panic", "stale"}
    /\ DOMAIN m.disk = Block /\ AllFit(m.disk)
    /\ DOMAIN m.blk = Block /\ \A b \in Block : m.blk[b] # NULL => Fits(b, m.blk[b])
    /\ m.blk[SUPER] # NULL /\ m.blk[BITMAP] # NULL
    /\ m.dirty \subseteq {b \in Block : m.blk[b] # NULL}
    /\ m.out \in Seq(Entry) /\ \A i \in 1 .. Len(m.out) : m.blk[m.out[i][1]] # NULL
Shape(m) == Formed(m) /\ Bits(m)

LEMMA EntryFits ==
    /\ \A e \in Entry : e[1] \in Block /\ Fits(e[1], e[2]) /\ e = <<e[1], e[2]>>
    /\ \A b \in Block : \A c : Fits(b, c) => <<b, c>> \in Entry
  <1>1. ASSUME NEW e \in Entry PROVE e[1] \in Block /\ Fits(e[1], e[2]) /\ e = <<e[1], e[2]>>
    <2>1. PICK b \in Block : \E k \in Kinds(b) : e \in {b} \X Content(k)  BY DEF Entry
    <2>2. PICK k \in Kinds(b) : e \in {b} \X Content(k)  BY <2>1
    <2>3. e[1] = b /\ e[2] \in Content(k) /\ e = <<e[1], e[2]>>  BY <2>2
    <2> QED BY <2>3 DEF Content, Fits
  <1>2. ASSUME NEW b \in Block, NEW c, Fits(b, c) PROVE <<b, c>> \in Entry
    <2>1. c.kind \in Kinds(b) /\ c \in Content(c.kind)  BY <1>2 DEF Fits, Content
    <2>2. <<b, c>> \in {b} \X Content(c.kind)  BY <2>1
    <2> QED BY <2>1, <2>2 DEF Entry
  <1> QED BY <1>1, <1>2

LEMMA MemFits ==
    ASSUME NEW m, Formed(m)
    PROVE  /\ AllFit(Mem(m)) /\ DOMAIN Mem(m) = Block
           /\ \A b \in Block : m.blk[b] # NULL => Mem(m)[b] = m.blk[b] /\ Fits(b, m.blk[b])
           /\ Mem(m)[BITMAP] = m.blk[BITMAP] /\ Mem(m)[SUPER] = m.blk[SUPER]
           /\ Free(m) \subseteq Data /\ 0 \notin Free(m)
           /\ m.blk[BITMAP] = [kind |-> "bitmap", v |-> Free(m)]
  <1>1. /\ AllFit(Mem(m)) /\ DOMAIN Mem(m) = Block
        /\ \A b \in Block : m.blk[b] # NULL => Mem(m)[b] = m.blk[b] /\ Fits(b, m.blk[b])
    BY DEF Formed, Mem, AllFit
  <1>2. m.blk[BITMAP] # NULL /\ m.blk[SUPER] # NULL /\ BITMAP \in Block /\ SUPER \in Block
    BY Sizes DEF Formed
  <1>3. Fits(BITMAP, m.blk[BITMAP])  BY <1>1, <1>2
  <1>4. PICK c : c = m.blk[BITMAP]  OBVIOUS
  <1>5. c.kind = "bitmap" /\ c.v \in SUBSET Data /\ c = [kind |-> c.kind, v |-> c.v]
    BY <1>3, <1>4, <1>2, FitsFacts
  <1> QED BY <1>1, <1>2, <1>4, <1>5, Sizes DEF Free

\* What does not depend on the health and the answer.
Same(m, x) == /\ IsState(x) /\ x.disk = m.disk /\ x.freed = m.freed /\ x.blk = m.blk
              /\ x.dirty = m.dirty /\ x.out = m.out

LEMMA Answers ==
    ASSUME NEW m, IsState(m), NEW a
    PROVE  /\ Same(m, Ret(m, a)) /\ Ret(m, a).health = m.health
           /\ Ret(m, a).err = "OK" /\ Ret(m, a).r = a
           /\ Same(m, Err(m, a)) /\ Err(m, a).health = m.health
           /\ Err(m, a).err = a /\ Err(m, a).r = m.r
           /\ Same(m, Sick(m, a)) /\ Sick(m, a).err = "E_SICK"
           /\ a # "ok" => Sick(m, a).health # "ok"
           /\ Sick(m, a).health \in {m.health, a}
  <1>1. PICK d, g, b, y, o, e, r, h : m = [disk |-> d, freed |-> g, blk |-> b, dirty |-> y,
                                           out |-> o, err |-> e, r |-> r, health |-> h]
    BY DEF IsState
  <1>2. Ret(m, a) = [disk |-> d, freed |-> g, blk |-> b, dirty |-> y, out |-> o, err |-> "OK",
                     r |-> a, health |-> h]
    <2>1. PICK k : k = [m EXCEPT !.err = "OK"]  OBVIOUS
    <2>2. k = [disk |-> d, freed |-> g, blk |-> b, dirty |-> y, out |-> o, err |-> "OK", r |-> r,
               health |-> h]
      BY <1>1, <2>1
    <2>3. Ret(m, a) = [k EXCEPT !.r = a]  BY <2>1 DEF Ret
    <2> QED BY <2>2, <2>3
  <1>3. Err(m, a) = [disk |-> d, freed |-> g, blk |-> b, dirty |-> y, out |-> o, err |-> a,
                     r |-> r, health |-> h]
    BY <1>1 DEF Err
  <1>4. Sick(m, a) = [disk |-> d, freed |-> g, blk |-> b, dirty |-> y, out |-> o,
                      err |-> "E_SICK", r |-> r,
                      health |-> IF h = "ok" THEN a ELSE h]
    <2>1. PICK k : k = [m EXCEPT !.health = IF @ = "ok" THEN a ELSE @]  OBVIOUS
    <2>2. k = [disk |-> d, freed |-> g, blk |-> b, dirty |-> y, out |-> o, err |-> e, r |-> r,
               health |-> IF h = "ok" THEN a ELSE h]
      BY <1>1, <2>1
    <2>3. Sick(m, a) = [k EXCEPT !.err = "E_SICK"]  BY <2>1 DEF Sick
    <2> QED BY <2>2, <2>3
  <1>5. /\ Same(m, Ret(m, a)) /\ Ret(m, a).health = m.health
        /\ Ret(m, a).err = "OK" /\ Ret(m, a).r = a
    BY <1>1, <1>2 DEF Same, IsState
  <1>6. /\ Same(m, Err(m, a)) /\ Err(m, a).health = m.health
        /\ Err(m, a).err = a /\ Err(m, a).r = m.r
    BY <1>1, <1>3 DEF Same, IsState
  <1>7. /\ Same(m, Sick(m, a)) /\ Sick(m, a).err = "E_SICK"
        /\ a # "ok" => Sick(m, a).health # "ok"
        /\ Sick(m, a).health \in {m.health, a}
    BY <1>1, <1>4 DEF Same, IsState
  <1> QED BY <1>5, <1>6, <1>7

LEMMA ShapeAnswers ==
    ASSUME NEW m, Shape(m), NEW a
    PROVE  /\ Same(m, Ret(m, a)) /\ Ret(m, a).health = m.health
           /\ Ret(m, a).err = "OK" /\ Ret(m, a).r = a
           /\ Same(m, Err(m, a)) /\ Err(m, a).health = m.health
           /\ Err(m, a).err = a /\ Err(m, a).r = m.r
           /\ Same(m, Sick(m, a)) /\ Sick(m, a).err = "E_SICK"
           /\ a # "ok" => Sick(m, a).health # "ok"
           /\ Sick(m, a).health \in {m.health, a}
<1>1. IsState(m)
  BY DEF Shape, Formed
<1> QED BY <1>1, Answers

\* Nothing is written, and what is in memory is known.
LEMMA BitsKept ==
    ASSUME NEW m, Bits(m), NEW x, x.disk = m.disk, x.out = m.out, m.freed \subseteq x.freed,
           Free(x) \subseteq Free(m) \cup x.freed,
           \A b \in Block, j \in Js, n \in Ns : SureNow(m, PtrAt(Mem(x), b, j, n))
    PROVE  Bits(x)
  <1>1. \A p, i : Sure(m, p, i) => Sure(x, p, i)  BY DEF Sure
  <1>2. Order(x)  BY DEF Bits, Order
  <1>3. \A b \in Block, j \in Js, n \in Ns : Sure(x, PtrAt(x.disk, b, j, n), 1)
    BY <1>1 DEF Bits, Marked
  <1>4. \A i \in 1 .. Len(x.out), j \in Js, n \in Ns : Sure(x, PtrIn(x.out[i], j, n), i)
    BY <1>1 DEF Bits, Marked
  <1>5. \A b \in Block, j \in Js, n \in Ns : SureNow(x, PtrAt(Mem(x), b, j, n))
    BY <1>1 DEF SureNow
  <1> QED BY <1>2, <1>3, <1>4, <1>5 DEF Bits, Marked

LEMMA SameShape ==
    ASSUME NEW m, Shape(m), NEW x, Same(m, x), x.health \in {"ok", "panic", "stale"}
    PROVE  Shape(x) /\ Mem(x) = Mem(m) /\ Free(x) = Free(m)
  <1>1. Formed(x)  BY DEF Shape, Formed, Same
  <1>2. Mem(x) = Mem(m) /\ Free(x) = Free(m)  BY DEF Same, Mem, Free
  <1>3. x.disk = m.disk /\ x.out = m.out /\ x.freed = m.freed  BY DEF Same
  <1>4. \A b \in Block, j \in Js, n \in Ns : SureNow(m, PtrAt(Mem(x), b, j, n))
    BY <1>2 DEF Shape, Bits, Marked
  <1>5. Bits(m)  BY DEF Shape
  <1>6. Bits(x)  BY <1>2, <1>3, <1>4, <1>5, BitsKept
  <1> QED BY <1>1, <1>2, <1>6 DEF Shape

\* No bitmap has block 0.
LEMMA SureZero ==
    ASSUME NEW m, Formed(m), NEW i
    PROVE  Sure(m, 0, i)
  <1>1. BITMAP \in Block /\ Fits(BITMAP, m.disk[BITMAP])  BY Sizes DEF Formed, AllFit
  <1> PICK c : c = m.disk[BITMAP]  OBVIOUS
  <1>2. c.v \in SUBSET Data  BY <1>1, FitsFacts
  <1> QED BY <1>2, Sizes DEF Sure

LEMMA KnownBlank ==
    ASSUME NEW m, Shape(m), NEW b \in Block, NEW c, Fits(b, c), c.kind = "data" \/ IsZero(c)
    PROVE  Known(m, b, c)
  <1> DEFINE C == [a \in Block |-> c]
  <1>1. C[b] = c  OBVIOUS
  <1> HIDE DEF C
  <1>2. \A j \in Js, n \in Ns : PtrAt(C, b, j, n) = 0  BY <1>1, Nothing
  <1>3. SureNow(m, 0)  BY SureZero DEF SureNow, Shape
  <1> QED BY <1>2, <1>3 DEF Known, C

LEMMA KnownMem ==
    ASSUME NEW m, Shape(m), NEW b \in Block
    PROVE  Known(m, b, Mem(m)[b])
  <1> DEFINE C == [a \in Block |-> Mem(m)[b]]
  <1>1. C[b] = Mem(m)[b]  OBVIOUS
  <1> HIDE DEF C
  <1>2. \A j, n : PtrAt(C, b, j, n) = PtrAt(Mem(m), b, j, n)  BY <1>1, Local
  <1> QED BY <1>2 DEF Known, C, Shape, Bits, Marked

\* One block is put into memory; it is not the bitmap.
Put(m, x, b, c) ==
    /\ Shape(x) /\ x.disk = m.disk /\ x.freed = m.freed /\ x.dirty = m.dirty /\ x.out = m.out
    /\ x.err = m.err /\ x.r = m.r /\ x.health = m.health
    /\ x.blk[b] = c /\ c # NULL /\ \A a \in Block : a # b => x.blk[a] = m.blk[a]
    /\ Mem(x)[b] = c /\ \A a \in Block : a # b => Mem(x)[a] = Mem(m)[a]
    /\ Free(x) = Free(m)

LEMMA PutBlock ==
    ASSUME NEW m, Shape(m), NEW b \in Block, b # BITMAP, NEW c, Fits(b, c), Known(m, b, c),
           NEW x, x = [m EXCEPT !.blk[b] = c]
    PROVE  Put(m, x, b, c)
  <1>1. /\ IsState(x) /\ x.disk = m.disk /\ x.freed = m.freed /\ x.dirty = m.dirty /\ x.out = m.out
        /\ x.err = m.err /\ x.r = m.r /\ x.health = m.health
        /\ x.blk = [m.blk EXCEPT ![b] = c]
    BY DEF Shape, Formed, IsState
  <1>2. /\ DOMAIN x.blk = Block /\ x.blk[b] = c
        /\ \A a \in Block : a # b => x.blk[a] = m.blk[a]
    BY <1>1 DEF Shape, Formed
  <1>3. c # NULL  BY FitsNotNull
  <1>4. Free(x) = Free(m)  BY <1>2, Sizes DEF Free
  <1>5. Formed(x)
    <2>1. \A a \in Block : x.blk[a] # NULL => Fits(a, x.blk[a])  BY <1>2 DEF Shape, Formed
    <2>2. \A a \in Block : m.blk[a] # NULL => x.blk[a] # NULL  BY <1>2, <1>3
    <2>3. \A i \in 1 .. Len(m.out) : m.out[i][1] \in Block
      BY EntryFits DEF Shape, Formed
    <2> QED BY <1>1, <1>2, <2>1, <2>2, <2>3, Sizes DEF Shape, Formed
  <1>6. Mem(x)[b] = c /\ \A a \in Block : a # b => Mem(x)[a] = Mem(m)[a]
    BY <1>1, <1>2, <1>3 DEF Mem
  <1>7. Bits(x)
    <2>1. ASSUME NEW a \in Block, NEW j \in Js, NEW n \in Ns
          PROVE  SureNow(m, PtrAt(Mem(x), a, j, n))
      <3> DEFINE C == [d \in Block |-> c]
      <3>1. CASE a = b
        <4>1. C[b] = c  OBVIOUS
        <4> HIDE DEF C
        <4>2. PtrAt(Mem(x), b, j, n) = PtrAt(C, b, j, n)  BY <1>6, <4>1, Local
        <4> QED BY <3>1, <4>2 DEF Known, C
      <3>2. CASE a # b
        <4>1. Mem(x)[a] = Mem(m)[a]  BY <3>2, <1>6
        <4>2. PtrAt(Mem(x), a, j, n) = PtrAt(Mem(m), a, j, n)  BY <4>1, Local
        <4> QED BY <4>2 DEF Shape, Bits, Marked
      <3> QED BY <3>1, <3>2
    <2>2. Bits(m)  BY DEF Shape
    <2> QED BY <1>1, <1>4, <2>1, <2>2, BitsKept
  <1> QED BY <1>1, <1>2, <1>3, <1>4, <1>5, <1>6, <1>7 DEF Shape, Put

-----------------------------------------------------------------------------
(* Steps of the file system *)

\* What every operation keeps.
Steps(m, x) == /\ Shape(x) /\ x.disk = m.disk
               /\ \A b \in Block : m.blk[b] # NULL => x.blk[b] # NULL
               /\ x.health = "ok" => m.health = "ok"
\* And what those keep that set no name and no size.
Safe(m, x) == x.health = "ok" /\ PtrsOK(Mem(m), Free(m))
                  => PtrsOK(Mem(x), Free(x)) /\ Keeps(Mem(m), Mem(x))
Works(m, x) == Steps(m, x) /\ Safe(m, x)

LEMMA WorksTrans ==
    ASSUME NEW m, NEW x, NEW y
    PROVE  /\ Steps(m, x) /\ Steps(x, y) => Steps(m, y)
           /\ Works(m, x) /\ Works(x, y) => Works(m, y)
  <1>1. Steps(m, x) /\ Steps(x, y) => Steps(m, y)  BY DEF Steps
  <1>2. ASSUME Works(m, x), Works(x, y) PROVE Safe(m, y)
    BY <1>2, KeepsTrans DEF Works, Steps, Safe
  <1> QED BY <1>1, <1>2 DEF Works

LEMMA SameWorks ==
    ASSUME NEW m, Shape(m), NEW x, Same(m, x), x.health \in {"ok", "panic", "stale"},
           x.health = "ok" => m.health = "ok"
    PROVE  Works(m, x)
  BY SameShape, KeepsRefl DEF Works, Steps, Safe, Same

LEMMA AnswerWorks ==
    ASSUME NEW m, Shape(m), NEW a
    PROVE  Works(m, m) /\ Works(m, Ret(m, a)) /\ Works(m, Err(m, a))
           /\ (a \in {"panic", "stale"} => Works(m, Sick(m, a)))
  <1>1. IsState(m) /\ m.health \in {"ok", "panic", "stale"} /\ Same(m, m)
    BY DEF Shape, Formed, Same
  <1>2. Works(m, m)  BY <1>1, SameWorks
  <1>3. Works(m, Ret(m, a)) /\ Works(m, Err(m, a))  BY <1>1, Answers, SameWorks
  <1>4. ASSUME a \in {"panic", "stale"} PROVE Works(m, Sick(m, a))
    <2>1. Same(m, Sick(m, a)) /\ Sick(m, a).health # "ok" /\ Sick(m, a).health \in {m.health, a}
      BY <1>1, <1>4, Answers
    <2>2. Sick(m, a).health \in {"ok", "panic", "stale"}  BY <2>1, <1>1, <1>4
    <2> QED BY <2>1, <2>2, SameWorks
  <1> QED BY <1>2, <1>3, <1>4

\* f is a File in memory.
Loc(m, f) == f \in FilePos /\ m.blk[f[1]] # NULL /\ m.blk[f[1]].kind \in {"dir", "super"}

LEMMA LocFacts ==
    ASSUME NEW m, Shape(m), NEW f, Loc(m, f)
    PROVE  /\ f = <<f[1], f[2]>> /\ f[1] \in Block /\ f[1] # BITMAP /\ f[2] \in Fs /\ f[2] \in Js
           /\ f[2] \in DOMAIN m.blk[f[1]].v /\ FileAt(m, f) \in FileRec
           /\ Fits(f[1], m.blk[f[1]]) /\ Mem(m)[f[1]] = m.blk[f[1]] /\ f[1] \in Data \cup {SUPER}
           /\ \A n \in 0 .. NDIRECT - 1 : PtrAt(Mem(m), f[1], f[2], n) = FileAt(m, f).direct[n]
           /\ PtrAt(Mem(m), f[1], f[2], NINDIRECT) = FileAt(m, f).indirect
           /\ SizeAt(Mem(m), f[1], f[2]) = FileAt(m, f).size
           /\ m.blk[f[1]].kind = "dir" => NameAt(Mem(m), f[1], f[2]) = FileAt(m, f).name
  <1>1. /\ f = <<f[1], f[2]>> /\ f[1] \in Block /\ f[1] # BITMAP /\ f[2] \in Fs /\ f[2] \in Js
        /\ (f[1] \in Data /\ f[2] \in 1 .. FILE2BLK) \/ (f[1] = SUPER /\ f[2] = 1)
    <2>1. CASE f \in Data \X (1 .. FILE2BLK)
      <3>1. f = <<f[1], f[2]>> /\ f[1] \in Data /\ f[2] \in 1 .. FILE2BLK  BY <2>1
      <3>2. f[1] \in Block /\ f[1] # BITMAP  BY <3>1, Sizes
      <3>3. \A j \in 1 .. FILE2BLK : j \in Fs /\ j \in Js  BY Sizes DEF Fs, Js
      <3>4. f[2] \in Fs /\ f[2] \in Js  BY <3>1, <3>3
      <3> QED BY <3>1, <3>2, <3>4
    <2>2. CASE f = ROOT  BY <2>2, Sizes DEF ROOT, Fs, Js
    <2> QED BY <2>1, <2>2 DEF Loc, FilePos
  <1> PICK c : c = m.blk[f[1]]  OBVIOUS
  <1>2. c # NULL /\ c.kind \in {"dir", "super"}  BY DEF Loc
  <1>3. Fits(f[1], c) /\ Mem(m)[f[1]] = c  BY <1>1, <1>2, MemFits DEF Shape
  <1>4. f[2] \in DOMAIN c.v /\ c.v[f[2]] \in FileRec
    <2>1. CASE c.kind = "dir"
      <3>1. f[1] \in Data /\ c.v \in [1 .. FILE2BLK -> FileRec]  BY <1>1, <1>3, <2>1, FitsFacts
      <3>2. f[2] \in 1 .. FILE2BLK  BY <1>1 DEF Fs
      <3> QED BY <3>1, <3>2
    <2>2. CASE c.kind = "super"
      <3>1. f[1] = SUPER /\ c.v \in [{1} -> FileRec]  BY <1>1, <1>3, <2>2, FitsFacts
      <3>2. f[2] = 1  BY <3>1, <1>1, Sizes
      <3> QED BY <3>1, <3>2
    <2> QED BY <1>2, <2>1, <2>2
  <1>5. FileAt(m, f) = c.v[f[2]]  BY DEF FileAt
  <1>6. \A n \in 0 .. NDIRECT - 1 : PtrAt(Mem(m), f[1], f[2], n) = FileAt(m, f).direct[n]
    BY <1>2, <1>3, <1>4, <1>5, Sizes DEF PtrAt
  <1>7. PtrAt(Mem(m), f[1], f[2], NINDIRECT) = FileAt(m, f).indirect
    BY <1>2, <1>3, <1>4, <1>5, Sizes DEF PtrAt
  <1>8. /\ SizeAt(Mem(m), f[1], f[2]) = FileAt(m, f).size
        /\ m.blk[f[1]].kind = "dir" => NameAt(Mem(m), f[1], f[2]) = FileAt(m, f).name
    BY <1>2, <1>3, <1>4, <1>5 DEF SizeAt, NameAt
  <1> QED BY <1>1, <1>3, <1>4, <1>5, <1>6, <1>7, <1>8

LEMMA SureFile ==
    ASSUME NEW m, Shape(m), NEW f, Loc(m, f)
    PROVE  SureRec(m, FileAt(m, f))
  <1>1. /\ f[1] \in Block /\ f[2] \in Js /\ NINDIRECT \in Ns /\ \A n \in 0 .. NDIRECT - 1 : n \in Ns
        /\ \A n \in 0 .. NDIRECT - 1 : PtrAt(Mem(m), f[1], f[2], n) = FileAt(m, f).direct[n]
        /\ PtrAt(Mem(m), f[1], f[2], NINDIRECT) = FileAt(m, f).indirect
    BY LocFacts, Sizes DEF Ns
  <1>2. \A n \in Ns : SureNow(m, PtrAt(Mem(m), f[1], f[2], n))
    BY <1>1 DEF Shape, Bits, Marked
  <1> QED BY <1>1, <1>2 DEF SureRec

\* From m to x the File f becomes rec, and nothing else changes.
RecSet(m, x, f, rec) ==
    /\ \A n \in Ns : PtrAt(Mem(x), f[1], f[2], n) = IF n < NDIRECT THEN rec.direct[n]
                                                    ELSE IF n = NINDIRECT THEN rec.indirect ELSE 0
    /\ SizeAt(Mem(x), f[1], f[2]) = rec.size
    /\ NameAt(Mem(x), f[1], f[2]) = IF m.blk[f[1]].kind = "dir" THEN rec.name ELSE NULL
    /\ \A b \in Block, j \in Js : ~(b = f[1] /\ j = f[2]) =>
          /\ \A n \in Ns : PtrAt(Mem(x), b, j, n) = PtrAt(Mem(m), b, j, n)
          /\ SizeAt(Mem(x), b, j) = SizeAt(Mem(m), b, j)
          /\ j \in Fs => NameAt(Mem(x), b, j) = NameAt(Mem(m), b, j)

LEMMA SetFileOK ==
    ASSUME NEW m, Shape(m), NEW f, Loc(m, f), NEW rec \in FileRec, SureRec(m, rec),
           NEW x, x = SetFile(m, f, rec)
    PROVE  /\ Shape(x) /\ Steps(m, x) /\ x.disk = m.disk /\ x.dirty = m.dirty /\ x.out = m.out
           /\ x.err = m.err /\ x.r = m.r /\ x.health = m.health /\ Free(x) = Free(m)
           /\ \A a \in Block : a # f[1] => x.blk[a] = m.blk[a]
           /\ x.blk[f[1]].kind = m.blk[f[1]].kind /\ FileAt(x, f) = rec
           /\ \A g : Loc(m, g) => Loc(x, g) /\ (g # f => FileAt(x, g) = FileAt(m, g))
           /\ RecSet(m, x, f, rec)
  <1>0. /\ f = <<f[1], f[2]>> /\ f[1] \in Block /\ f[1] # BITMAP /\ f[2] \in Fs /\ f[2] \in Js
        /\ f[2] \in DOMAIN m.blk[f[1]].v /\ Fits(f[1], m.blk[f[1]]) /\ Mem(m)[f[1]] = m.blk[f[1]]
    BY LocFacts
  <1> DEFINE b == f[1]
             c == [m.blk[b] EXCEPT !.v[f[2]] = rec]
             B == [a \in Block |-> m.blk[b]]
             C == [a \in Block |-> c]
  <1>1. x = [m EXCEPT !.blk[b] = c]  BY DEF SetFile
  <1>2. B[b] = m.blk[b] /\ C[b] = c /\ C[b] = [B[b] EXCEPT !.v[f[2]] = rec]  BY <1>0
  <1>3. m.blk[b].kind \in {"dir", "super"} /\ m.blk[b] # NULL  BY DEF Loc
  <1> HIDE DEF c, B, C, b
  <1>4. b \in Block /\ Fits(b, B[b]) /\ B[b].kind \in {"dir", "super"} /\ f[2] \in DOMAIN B[b].v
    BY <1>0, <1>2, <1>3 DEF b
  <1>5. RecPut(B, C, b, f[2], rec)
    BY <1>2, <1>4, RecView
  <1>6. Put(m, x, b, c)
    <2>1. Fits(b, c) /\ b # BITMAP  BY <1>5, <1>2, <1>0 DEF b, RecPut
    <2>2. Known(m, b, c)
      <3>1. ASSUME NEW j \in Js, NEW n \in Ns PROVE SureNow(m, PtrAt(C, b, j, n))
        <4>1. CASE j = f[2]
          <5>1. SureNow(m, 0)  BY SureZero DEF SureNow, Shape
          <5>2. n < NDIRECT => n \in 0 .. NDIRECT - 1  BY Sizes DEF Ns
          <5> QED BY <4>1, <5>1, <5>2, <1>5 DEF RecPut, SureRec
        <4>2. CASE j # f[2]
          <5>1. PtrAt(C, b, j, n) = PtrAt(B, b, j, n)  BY <4>2, <1>5 DEF RecPut
          <5>2. Mem(m)[b] = B[b]  BY <1>0, <1>2 DEF b
          <5>3. PtrAt(B, b, j, n) = PtrAt(Mem(m), b, j, n)  BY <5>2, Local
          <5> QED BY <5>1, <5>3, <1>4 DEF Shape, Bits, Marked
        <4> QED BY <4>1, <4>2
      <3> QED BY <3>1 DEF Known, C
    <2> QED BY <2>1, <2>2, <1>1, <1>4, PutBlock
  <1>7. Steps(m, x)  BY <1>6 DEF Steps, Put
  <1>8. FileAt(x, f) = rec /\ x.blk[b].kind = m.blk[b].kind  BY <1>2, <1>5, <1>6 DEF FileAt, b, RecPut, Put
  <1>9. ASSUME NEW g, Loc(m, g) PROVE Loc(x, g) /\ (g # f => FileAt(x, g) = FileAt(m, g))
    <2>1. g \in FilePos /\ g = <<g[1], g[2]>> /\ g[1] \in Block /\ g[2] \in DOMAIN m.blk[g[1]].v
      BY <1>9, LocFacts DEF Loc
    <2>2. CASE g[1] = b
      <3>1. Loc(x, g)  BY <2>1, <2>2, <1>6, <1>8, <1>3 DEF Loc, Put
      <3>2. g # f => g[2] # f[2]  BY <2>1, <2>2, <1>0 DEF b
      <3>3. g # f => c.v[g[2]] = m.blk[b].v[g[2]]  BY <2>1, <2>2, <3>2, <1>2, <1>5 DEF RecPut
      <3> QED BY <3>1, <3>3, <2>2, <1>6 DEF FileAt, Put
    <2>3. CASE g[1] # b  BY <2>1, <2>3, <1>6, <1>9 DEF Loc, FileAt, Put
    <2> QED BY <2>2, <2>3
  <1>10. RecSet(m, x, f, rec)
    <2>1. /\ \A j, n : PtrAt(Mem(x), b, j, n) = PtrAt(C, b, j, n)
          /\ \A j : SizeAt(Mem(x), b, j) = SizeAt(C, b, j) /\ NameAt(Mem(x), b, j) = NameAt(C, b, j)
      BY <1>2, <1>6, Local DEF Put
    <2>2. /\ \A j, n : PtrAt(Mem(m), b, j, n) = PtrAt(B, b, j, n)
          /\ \A j : SizeAt(Mem(m), b, j) = SizeAt(B, b, j) /\ NameAt(Mem(m), b, j) = NameAt(B, b, j)
      <3>1. Mem(m)[b] = B[b]  BY <1>0, <1>2 DEF b
      <3> QED BY <3>1, Local
    <2>3. \A a \in Block : a # b =>
             /\ \A j, n : PtrAt(Mem(x), a, j, n) = PtrAt(Mem(m), a, j, n)
             /\ \A j : SizeAt(Mem(x), a, j) = SizeAt(Mem(m), a, j)
                       /\ NameAt(Mem(x), a, j) = NameAt(Mem(m), a, j)
      BY <1>6, Local DEF Put
    <2>4. B[b].kind = m.blk[b].kind  BY <1>2
    <2>5. /\ \A n \in Ns : PtrAt(Mem(x), b, f[2], n) = IF n < NDIRECT THEN rec.direct[n]
                                                 ELSE IF n = NINDIRECT THEN rec.indirect ELSE 0
          /\ SizeAt(Mem(x), b, f[2]) = rec.size
          /\ NameAt(Mem(x), b, f[2]) = IF m.blk[b].kind = "dir" THEN rec.name ELSE NULL
      BY <2>1, <2>4, <1>5 DEF RecPut
    <2>6. ASSUME NEW a \in Block, NEW j \in Js, ~(a = b /\ j = f[2])
          PROVE  /\ \A n \in Ns : PtrAt(Mem(x), a, j, n) = PtrAt(Mem(m), a, j, n)
                 /\ SizeAt(Mem(x), a, j) = SizeAt(Mem(m), a, j)
                 /\ j \in Fs => NameAt(Mem(x), a, j) = NameAt(Mem(m), a, j)
      <3>1. CASE a = b  BY <3>1, <2>6, <2>1, <2>2, <1>5 DEF RecPut
      <3>2. CASE a # b  BY <3>2, <2>3
      <3> QED BY <3>1, <3>2
    <2> QED BY <2>5, <2>6 DEF RecSet, b
  <1> QED BY <1>6, <1>7, <1>8, <1>9, <1>10 DEF b, Put

\* Same view: a block of zeros is taken for another kind, or a block is read.
SameView(m, x) ==
    \A b \in Block, j \in Js :
        /\ \A n \in Ns : PtrAt(Mem(x), b, j, n) = PtrAt(Mem(m), b, j, n)
        /\ SizeAt(Mem(x), b, j) = SizeAt(Mem(m), b, j)
        /\ j \in Fs => NameAt(Mem(x), b, j) = NameAt(Mem(m), b, j)

LEMMA SameViewSafe ==
    ASSUME NEW m, Shape(m), NEW x, Steps(m, x), SameView(m, x), Free(x) = Free(m)
    PROVE  Works(m, x)
  <1>1. Shape(x) /\ AllFit(Mem(m)) /\ AllFit(Mem(x)) /\ 0 \notin Free(m)
    BY MemFits DEF Steps, Shape
  <1>2. \A b \in Block, j \in Js, n \in Ns : PtrAt(Mem(x), b, j, n) = PtrAt(Mem(m), b, j, n)
    BY DEF SameView
  <1>3. ASSUME PtrsOK(Mem(m), Free(m)) PROVE PtrsOK(Mem(x), Free(x))
    BY <1>1, <1>2, <1>3, PtrsShrink
  <1>4. Keeps(Mem(m), Mem(x))
    <2>1. \A b \in Block, j \in Fs : j \in Js  BY DEF Fs, Js
    <2>2. \A b \in Block, j \in Fs : NameAt(Mem(x), b, j) \in {NameAt(Mem(m), b, j), NULL}
      BY <2>1 DEF SameView
    <2>3. \A b \in Block, j \in Fs : SizeAt(Mem(x), b, j) = SizeAt(Mem(m), b, j)
      BY <2>1 DEF SameView
    <2> QED BY <1>1, <1>2, <2>2, <2>3, Narrow
  <1> QED BY <1>3, <1>4 DEF Works, Safe


-----------------------------------------------------------------------------
(* Blocks *)

\* One request after another stops at the first that fails.
Chain(m, x) == Works(m, x) /\ (m.health = "ok" => x.health = "ok" \/ x.err = "E_SICK")

\* Nothing that the blocks say changes, and no block is given away.
View(m, x) == Chain(m, x) /\ SameView(m, x) /\ Free(x) = Free(m)

\* The File f is where and what it was.
KeepsFile(m, x, f) == Loc(x, f) /\ FileAt(x, f) = FileAt(m, f)

LEMMA ChainTrans ==
    ASSUME NEW m, NEW x, NEW y
    PROVE  /\ Chain(m, x) /\ OK(x) /\ Chain(x, y) => Chain(m, y)
           /\ View(m, x) /\ OK(x) /\ View(x, y) => View(m, y)
           /\ SameView(m, x) /\ SameView(x, y) => SameView(m, y)
  <1>1. Chain(m, x) /\ OK(x) /\ Chain(x, y) => Chain(m, y)  BY WorksTrans DEF Chain, OK
  <1>2. SameView(m, x) /\ SameView(x, y) => SameView(m, y)  BY DEF SameView
  <1> QED BY <1>1, <1>2 DEF View

LEMMA SameMemView ==
    ASSUME NEW m, NEW x, Mem(x) = Mem(m)
    PROVE  SameView(m, x)
  BY DEF SameView

LEMMA AnswerChain ==
    ASSUME NEW m, Shape(m), NEW a
    PROVE  /\ View(m, m) /\ (m.health = "ok" => View(m, Ret(m, a)) /\ View(m, Err(m, a)))
           /\ (a \in {"panic", "stale"} => View(m, Sick(m, a)) /\ ~OK(Sick(m, a)))
           /\ m.health # "ok" => View(m, Ret(m, a)) /\ View(m, Err(m, a))
           /\ Mem(Ret(m, a)) = Mem(m) /\ Mem(Err(m, a)) = Mem(m) /\ Mem(Sick(m, a)) = Mem(m)
           /\ \A f : Loc(m, f) => /\ KeepsFile(m, m, f) /\ KeepsFile(m, Ret(m, a), f)
                                  /\ KeepsFile(m, Err(m, a), f) /\ KeepsFile(m, Sick(m, a), f)
  <1>1. IsState(m) /\ m.health \in {"ok", "panic", "stale"}
    BY DEF Shape, Formed
  <1>2. /\ Same(m, Ret(m, a)) /\ Ret(m, a).health = m.health
        /\ Same(m, Err(m, a)) /\ Err(m, a).health = m.health
        /\ Same(m, Sick(m, a)) /\ Sick(m, a).err = "E_SICK"
    BY <1>1, Answers
  <1>3. /\ Mem(Ret(m, a)) = Mem(m) /\ Free(Ret(m, a)) = Free(m)
        /\ Mem(Err(m, a)) = Mem(m) /\ Free(Err(m, a)) = Free(m)
        /\ Mem(Sick(m, a)) = Mem(m) /\ Free(Sick(m, a)) = Free(m)
    BY <1>2 DEF Same, Mem, Free
  <1>4. /\ SameView(m, m) /\ SameView(m, Ret(m, a)) /\ SameView(m, Err(m, a))
        /\ SameView(m, Sick(m, a))
    BY <1>3, SameMemView
  <1>5. /\ Works(m, m) /\ Works(m, Ret(m, a)) /\ Works(m, Err(m, a))
        /\ (a \in {"panic", "stale"} => Works(m, Sick(m, a)))
    BY AnswerWorks
  <1>6. \A f : Loc(m, f) => /\ KeepsFile(m, m, f) /\ KeepsFile(m, Ret(m, a), f)
                            /\ KeepsFile(m, Err(m, a), f) /\ KeepsFile(m, Sick(m, a), f)
    BY <1>2 DEF Same, KeepsFile, Loc, FileAt
  <1> QED BY <1>2, <1>3, <1>4, <1>5, <1>6 DEF View, Chain, OK

\* What is in memory stays as it is.
Loaded(m, x) == /\ \A a \in Block : m.blk[a] # NULL => x.blk[a] = m.blk[a]
                /\ \A f : Loc(m, f) => KeepsFile(m, x, f)

LEMMA ReadBlock ==
    ASSUME NEW m, Shape(m), NEW b \in {0} \cup Data, NEW x, x = read_block(m, b)
    PROVE  /\ View(m, x) /\ Mem(x) = Mem(m) /\ Loaded(m, x) /\ x.dirty = m.dirty
           /\ OK(x) => x.r = b /\ x.blk[b] # NULL /\ b \notin Free(m)
           /\ m.health = "ok" /\ x.err # "OK" => x.err = "E_SICK"
  <1>0. b \in Block /\ b # BITMAP  BY Sizes
  <1>1. CASE b \in Free(m)
    <2>1. x = Sick(m, "panic")  BY <1>1, <1>0 DEF read_block, block_is_free, Free
    <2>2. IsState(m)  BY DEF Shape, Formed
    <2>3. Same(m, x) /\ x.err = "E_SICK" /\ ~OK(x)  BY <2>1, <2>2, Answers DEF OK
    <2> QED BY <2>1, <2>3, AnswerChain DEF Same, Loaded
  <1>2. CASE b \notin Free(m)
    <2> DEFINE c == Mem(m)[b]
               y == [m EXCEPT !.blk[b] = c]
    <2>1. Fits(b, c) /\ Known(m, b, c)  BY <1>0, MemFits, KnownMem DEF Shape, AllFit
    <2>2. x = Ret(y, b)
      <3>1. c = IF m.blk[b] = NULL THEN m.disk[b] ELSE m.blk[b]  BY <1>0 DEF Mem
      <3>2. [m EXCEPT !.blk[b] = IF @ = NULL THEN ide_read(m, b) ELSE @] = y
        BY <3>1 DEF ide_read
      <3> QED BY <3>2, <1>2, <1>0 DEF read_block, block_is_free, Free
    <2>3. y = [m EXCEPT !.blk[b] = c]  OBVIOUS
    <2> HIDE DEF c, y
    <2>4. Put(m, y, b, c)  BY <1>0, <2>1, <2>3, PutBlock
    <2>5. Same(y, x) /\ x.health = y.health /\ x.err = "OK" /\ x.r = b
      <3>1. IsState(y)  BY <2>4 DEF Put, Shape, Formed
      <3> QED BY <3>1, <2>2, Answers
    <2>6. Shape(x) /\ Mem(x) = Mem(y) /\ Free(x) = Free(y)
      <3>1. Shape(y) /\ y.health \in {"ok", "panic", "stale"}  BY <2>4 DEF Put, Shape, Formed
      <3> QED BY <3>1, <2>5, SameShape
    <2>7. Mem(x) = Mem(m)
      <3>1. \A a \in Block : Mem(y)[a] = Mem(m)[a]  BY <2>4 DEF Put, c
      <3>2. Mem(y) = [a \in Block |-> Mem(y)[a]] /\ Mem(m) = [a \in Block |-> Mem(m)[a]]
        BY DEF Mem
      <3>3. Mem(y) = Mem(m)  BY <3>1, <3>2
      <3> QED BY <3>3, <2>6
    <2>8. \A a \in Block : m.blk[a] # NULL => x.blk[a] = m.blk[a]
      BY <2>4, <2>5, <1>0 DEF Put, Same, c, Mem
    <2>9. Loaded(m, x)
      <3>1. ASSUME NEW f, Loc(m, f) PROVE KeepsFile(m, x, f)
        <4>1. f[1] \in Block /\ m.blk[f[1]] # NULL  BY <3>1, LocFacts DEF Loc
        <4>2. x.blk[f[1]] = m.blk[f[1]]  BY <4>1, <2>8
        <4> QED BY <3>1, <4>2 DEF KeepsFile, Loc, FileAt
      <3> QED BY <2>8, <3>1 DEF Loaded
    <2>10. Steps(m, x) /\ Free(x) = Free(m) /\ x.health = m.health /\ x.dirty = m.dirty
      BY <2>4, <2>5, <2>6, <2>8 DEF Put, Same, Steps
    <2>11. SameView(m, x)  BY <2>7, SameMemView
    <2>12. View(m, x)  BY <2>10, <2>11, SameViewSafe DEF View, Chain
    <2>13. x.blk[b] # NULL  BY <2>4, <2>5 DEF Put, Same
    <2> QED BY <1>2, <2>5, <2>7, <2>9, <2>10, <2>12, <2>13
  <1> QED BY <1>1, <1>2

\* A block is read for what it holds; a block of zeros is taken for what is asked for.
LEMMA ReadAsBlock ==
    ASSUME NEW m, Shape(m), NEW b \in Data, NEW kind \in {"dir", "index"},
           NEW x, x = ReadAs(m, b, kind)
    PROVE  /\ View(m, x)
           /\ \A a \in Block : a # b /\ m.blk[a] # NULL => x.blk[a] = m.blk[a]
           /\ OK(x) => x.r = b /\ x.blk[b] # NULL /\ x.blk[b].kind = kind
           /\ \A f : Loc(m, f) /\ (kind = "dir" \/ FileAt(m, f) # NoFile \/ f[1] # b)
                         => KeepsFile(m, x, f)
           /\ m.health = "ok" /\ x.err # "OK" => x.err = "E_SICK"
  <1> DEFINE y == read_block(m, b)
  <1>1. y = read_block(m, b)  OBVIOUS
  <1>2. x = IF OK(y) THEN IF y.blk[b].kind = kind THEN y
                          ELSE IF IsZero(y.blk[b]) THEN [y EXCEPT !.blk[b] = Empty(kind)]
                          ELSE Sick(y, "stale")
            ELSE y
    BY DEF ReadAs, Then
  <1>0. b \in Block /\ b # BITMAP /\ b \in {0} \cup Data  BY Sizes
  <1> HIDE DEF y
  <1>3. /\ View(m, y) /\ Loaded(m, y) /\ Mem(y) = Mem(m)
        /\ OK(y) => y.r = b /\ y.blk[b] # NULL
        /\ m.health = "ok" /\ y.err # "OK" => y.err = "E_SICK"
    BY <1>0, <1>1, ReadBlock
  <1>4. Shape(y)  BY <1>3 DEF View, Chain, Works, Steps
  <1>5. CASE ~OK(y) \/ y.blk[b].kind = kind
    <2>1. x = y  BY <1>2, <1>5
    <2> QED BY <2>1, <1>3, <1>5 DEF Loaded
  <1>6. CASE OK(y) /\ y.blk[b].kind # kind /\ ~IsZero(y.blk[b])
    <2>1. x = Sick(y, "stale")  BY <1>2, <1>6
    <2>2. Same(y, x) /\ x.err = "E_SICK"  BY <2>1, <1>4, ShapeAnswers
    <2>3. View(y, x) /\ ~OK(x)  BY <2>1, <1>4, AnswerChain
    <2>4. View(m, x)  BY <2>3, <1>3, <1>6, ChainTrans
    <2>5. \A a \in Block : m.blk[a] # NULL => x.blk[a] = m.blk[a]  BY <2>2, <1>3 DEF Same, Loaded
    <2>6. \A f : Loc(m, f) => KeepsFile(m, x, f)
      BY <2>2, <1>3 DEF Same, Loaded, KeepsFile, Loc, FileAt
    <2> QED BY <2>2, <2>3, <2>4, <2>5, <2>6
  <1>7. CASE OK(y) /\ y.blk[b].kind # kind /\ IsZero(y.blk[b])
    <2>1. x = [y EXCEPT !.blk[b] = Empty(kind)]  BY <1>2, <1>7
    <2>2. Fits(b, Empty(kind)) /\ Empty(kind).kind = kind  BY EmptyFits
    <2> DEFINE c == Empty(kind)
    <2> HIDE DEF c
    <2>3. x = [y EXCEPT !.blk[b] = c] /\ Fits(b, c) /\ c.kind = kind  BY <2>1, <2>2 DEF c
    <2>4. Put(y, x, b, c)
      <3>1. IsZero(c)
        <4>1. c = Empty(c.kind) /\ c.kind # "data"  BY <2>2 DEF c
        <4> QED BY <4>1 DEF IsZero
      <3>2. Known(y, b, c)  BY <3>1, <1>0, <1>4, <2>3, KnownBlank
      <3> QED BY <3>2, <1>0, <1>4, <2>3, PutBlock
    <2>5. Fits(b, y.blk[b]) /\ Mem(y)[b] = y.blk[b]
      BY <1>0, <1>3, <1>4, <1>7, MemFits DEF Shape
    <2>6. SameView(y, x)
      <3>1. /\ \A j \in Js, n \in Ns : PtrAt(Mem(y), b, j, n) = 0
            /\ \A j \in Js : SizeAt(Mem(y), b, j) = 0 /\ (j \in Fs => NameAt(Mem(y), b, j) = NULL)
        BY <1>0, <1>7, <2>5, Nothing
      <3>2. Mem(x)[b] = c /\ Fits(b, c) /\ IsZero(c)
        <4>1. c = Empty(c.kind) /\ c.kind # "data"  BY <2>2 DEF c
        <4>2. IsZero(c)  BY <4>1 DEF IsZero
        <4> QED BY <4>2, <2>3, <2>4 DEF Put
      <3>3. /\ \A j \in Js, n \in Ns : PtrAt(Mem(x), b, j, n) = 0
            /\ \A j \in Js : SizeAt(Mem(x), b, j) = 0 /\ (j \in Fs => NameAt(Mem(x), b, j) = NULL)
        BY <1>0, <3>2, Nothing
      <3>4. \A a \in Block : a # b =>
               /\ \A j, n : PtrAt(Mem(x), a, j, n) = PtrAt(Mem(y), a, j, n)
               /\ \A j : SizeAt(Mem(x), a, j) = SizeAt(Mem(y), a, j)
                         /\ NameAt(Mem(x), a, j) = NameAt(Mem(y), a, j)
        BY <2>4, Local DEF Put
      <3> QED BY <3>1, <3>3, <3>4 DEF SameView
    <2>7. Steps(y, x) /\ Free(x) = Free(y) /\ x.health = y.health /\ x.err = y.err /\ x.r = y.r
      BY <2>4 DEF Put, Steps
    <2>8. View(m, x)
      <3>1. View(y, x)  BY <1>4, <2>6, <2>7, SameViewSafe DEF View, Chain
      <3> QED BY <3>1, <1>3, <1>7, ChainTrans
    <2>9. \A a \in Block : a # b /\ m.blk[a] # NULL => x.blk[a] = m.blk[a]
      BY <1>3, <2>4 DEF Loaded, Put
    <2>10. x.blk[b] # NULL /\ x.blk[b].kind = kind /\ x.r = b /\ x.err = "OK"
      BY <2>3, <2>4, <2>7, <1>3, <1>7 DEF Put, OK
    <2>11. ASSUME NEW f, Loc(m, f), kind = "dir" \/ FileAt(m, f) # NoFile \/ f[1] # b
           PROVE  KeepsFile(m, x, f)
      <3>1. f[1] \in Block /\ m.blk[f[1]] # NULL /\ f[2] \in DOMAIN m.blk[f[1]].v /\ f[1] \in Data \cup {SUPER}
        BY <2>11, LocFacts DEF Loc
      <3>2. CASE f[1] = b
        <4>1. y.blk[b] = m.blk[b] /\ m.blk[b].kind \in {"dir", "super"}
          BY <3>1, <3>2, <2>11, <1>3 DEF Loaded, Loc
        <4>2. m.blk[b].kind # "super"
          <5>1. Fits(b, m.blk[b])  BY <2>5, <4>1
          <5> PICK d : d = m.blk[b]  OBVIOUS
          <5>2. d.kind = "super" => b = SUPER  BY <5>1, <1>0, FitsFacts
          <5> QED BY <5>2, Sizes
        <4>3. m.blk[b].kind = "dir" /\ kind # "dir"  BY <4>1, <4>2, <1>7
        <4>4. m.blk[b] = Empty("dir")  BY <4>1, <4>3, <1>7 DEF IsZero
        <4>5. FileAt(m, f) = NoFile
          <5>1. m.blk[b].v = [j \in 1 .. FILE2BLK |-> NoFile]  BY <4>4 DEF Empty
          <5> QED BY <5>1, <3>1, <3>2 DEF FileAt
        <4> QED BY <4>3, <4>5, <3>2, <2>11
      <3>3. CASE f[1] # b
        <4>1. x.blk[f[1]] = m.blk[f[1]]  BY <3>1, <3>3, <2>9
        <4> QED BY <4>1, <2>11 DEF KeepsFile, Loc, FileAt
      <3> QED BY <3>2, <3>3
    <2> QED BY <2>8, <2>9, <2>10, <2>11
  <1> QED BY <1>5, <1>6, <1>7

\* A block is handed to the disk.
LEMMA WriteBlock ==
    ASSUME NEW m, Shape(m), NEW b \in Block, m.blk[b] # NULL, NEW x, x = write_block(m, b)
    PROVE  /\ Shape(x) /\ x.disk = m.disk /\ x.freed = m.freed /\ x.blk = m.blk /\ x.dirty = m.dirty
           /\ x.err = m.err /\ x.r = m.r /\ x.health = m.health
           /\ Mem(x) = Mem(m) /\ Free(x) = Free(m) /\ Len(x.out) = Len(m.out) + 1
           /\ Len(x.out) \in 1 .. Len(x.out) /\ x.out[Len(x.out)] = <<b, m.blk[b]>>
  <1> DEFINE e == <<b, m.blk[b]>>
  <1>1. /\ IsState(x) /\ x.disk = m.disk /\ x.freed = m.freed /\ x.blk = m.blk /\ x.dirty = m.dirty
        /\ x.err = m.err /\ x.r = m.r /\ x.health = m.health /\ x.out = Append(m.out, e)
    BY DEF write_block, Shape, Formed, IsState
  <1>2. e \in Entry /\ e[1] = b /\ e[2] = m.blk[b]
    <2>1. Fits(b, m.blk[b])  BY DEF Shape, Formed
    <2> QED BY <2>1, EntryFits
  <1> HIDE DEF e
  <1>3. PICK o : o = m.out  OBVIOUS
  <1>4. PICK p : p = x.out  OBVIOUS
  <1>5. o \in Seq(Entry) /\ p = Append(o, e)  BY <1>1, <1>3, <1>4 DEF Shape, Formed
  <1>6. /\ p \in Seq(Entry) /\ Len(o) \in Nat /\ Len(p) = Len(o) + 1
        /\ \A i \in 1 .. Len(o) : p[i] = o[i]
        /\ p[Len(o) + 1] = e
    BY <1>2, <1>5
  <1>7. Formed(x)
    <2>1. \A i \in 1 .. Len(p) : x.blk[p[i][1]] # NULL
      <3> TAKE i \in 1 .. Len(p)
      <3>1. CASE i = Len(o) + 1  BY <3>1, <1>1, <1>2, <1>6
      <3>2. CASE i # Len(o) + 1
        <4>1. i \in 1 .. Len(o)  BY <3>2, <1>6
        <4> QED BY <4>1, <1>1, <1>3, <1>6 DEF Shape, Formed
      <3> QED BY <3>1, <3>2
    <2> QED BY <1>1, <1>4, <1>6, <2>1 DEF Shape, Formed
  <1>8. Free(x) = Free(m) /\ Mem(x) = Mem(m)  BY <1>1 DEF Free, Mem
  <1>9. \A k \in BitsAt(o) : k \in BitsAt(p) /\ p[k] = o[k] /\ k \in 1 .. Len(o)  BY <1>6 DEF BitsAt
  <1>10. ASSUME NEW k \in BitsAt(p), k \notin BitsAt(o)
         PROVE  k = Len(o) + 1 /\ p[k][2].v = Free(m)
    <2>1. k = Len(o) + 1  BY <1>6, <1>10 DEF BitsAt
    <2>2. b = BITMAP  BY <2>1, <1>2, <1>6 DEF BitsAt
    <2> QED BY <2>1, <2>2, <1>2, <1>6 DEF Free
  <1>11. Order(x)
    <2>1. Order(m)  BY DEF Shape, Bits
    <2>2. ASSUME NEW i \in BitsAt(p)
          PROVE  /\ Free(m) \subseteq p[i][2].v \cup m.freed
                 /\ p[i][2].v \subseteq m.disk[BITMAP].v \cup m.freed
      <3>1. CASE i \in BitsAt(o)  BY <3>1, <2>1, <1>3, <1>9 DEF Order
      <3>2. CASE i \notin BitsAt(o)  BY <3>2, <2>1, <1>10 DEF Order
      <3> QED BY <3>1, <3>2
    <2>3. ASSUME NEW i \in BitsAt(p), NEW k \in BitsAt(p), k < i
          PROVE  p[i][2].v \subseteq p[k][2].v \cup m.freed
      <3>1. i \in 1 .. Len(o) + 1 /\ k \in 1 .. Len(o) + 1  BY <1>6 DEF BitsAt
      <3>2. k \in BitsAt(o)  BY <2>3, <3>1, <1>6, <1>10
      <3>3. CASE i \in BitsAt(o)  BY <3>2, <3>3, <2>1, <2>3, <1>3, <1>9 DEF Order
      <3>4. CASE i \notin BitsAt(o)  BY <3>2, <3>4, <2>1, <1>3, <1>9, <1>10 DEF Order
      <3> QED BY <3>3, <3>4
    <2>4. x.disk = m.disk /\ x.freed = m.freed /\ x.out = p  BY <1>1, <1>4
    <2>5. Free(x) \subseteq x.disk[BITMAP].v \cup x.freed  BY <2>1, <2>4, <1>8 DEF Order
    <2>6. ASSUME NEW i \in BitsAt(x.out)
          PROVE  /\ Free(x) \subseteq x.out[i][2].v \cup x.freed
                 /\ x.out[i][2].v \subseteq x.disk[BITMAP].v \cup x.freed
      BY <2>2, <2>4, <1>8
    <2>7. \A i \in BitsAt(x.out) : \A k \in BitsAt(x.out) :
             k < i => x.out[i][2].v \subseteq x.out[k][2].v \cup x.freed
      BY <2>3, <2>4
    <2> QED BY <2>5, <2>6, <2>7 DEF Order
  <1>12. \A a, i : Sure(m, a, i) => Sure(x, a, i)
    BY <1>1, <1>3, <1>4, <1>9 DEF Sure
  <1>13. \A a : SureNow(m, a) => Sure(x, a, Len(o) + 1) /\ SureNow(x, a)
    <2> TAKE a
    <2> HAVE SureNow(m, a)
    <2>1. Sure(x, a, Len(o) + 1)  BY <1>3, <1>12 DEF SureNow
    <2>2. \A k \in BitsAt(p) : k < Len(o) + 1 => k < Len(p) + 1  BY <1>6 DEF BitsAt
    <2> QED BY <2>1, <2>2, <1>4 DEF Sure, SureNow
  <1>14. Marked(x)
    <2>1. Marked(m)  BY DEF Shape, Bits
    <2>2. ASSUME NEW i \in 1 .. Len(p), NEW j \in Js, NEW n \in Ns
          PROVE  Sure(x, PtrIn(p[i], j, n), i)
      <3>1. CASE i = Len(o) + 1
        <4> DEFINE C == [a \in Block |-> e[2]]
        <4>1. C[b] = Mem(m)[b]
          <5>1. Mem(m)[b] = m.blk[b]  BY MemFits DEF Shape
          <5> QED BY <5>1, <1>2
        <4>2. PtrIn(e, j, n) = PtrAt(C, b, j, n)  BY <1>2 DEF PtrIn
        <4> HIDE DEF C
        <4>3. PtrIn(e, j, n) = PtrAt(Mem(m), b, j, n)  BY <4>1, <4>2, Local
        <4>4. SureNow(m, PtrIn(e, j, n))  BY <4>3, <2>1 DEF Marked
        <4> QED BY <4>4, <3>1, <1>6, <1>13
      <3>2. CASE i # Len(o) + 1
        <4>1. i \in 1 .. Len(o) /\ p[i] = o[i]  BY <3>2, <1>6
        <4>2. Sure(m, PtrIn(o[i], j, n), i)  BY <4>1, <2>1, <1>3 DEF Marked
        <4> QED BY <4>1, <4>2, <1>12
      <3> QED BY <3>1, <3>2
    <2>3. \A a \in Block, j \in Js, n \in Ns : Sure(x, PtrAt(x.disk, a, j, n), 1)
      BY <2>1, <1>1, <1>12 DEF Marked
    <2>4. \A a \in Block, j \in Js, n \in Ns : SureNow(x, PtrAt(Mem(x), a, j, n))
      BY <2>1, <1>8, <1>13 DEF Marked
    <2> QED BY <2>2, <2>3, <2>4, <1>4 DEF Marked
  <1>15. Len(p) \in 1 .. Len(p) /\ p[Len(p)] = e  BY <1>6
  <1> USE DEF e
  <1> QED BY <1>1, <1>3, <1>4, <1>6, <1>7, <1>8, <1>11, <1>14, <1>15 DEF Shape, Bits

\* The bitmap says nothing about files.
LEMMA BitmapView ==
    ASSUME NEW m, Formed(m), NEW x, Formed(x),
           \A a \in Block : a # BITMAP => Mem(x)[a] = Mem(m)[a]
    PROVE  SameView(m, x)
  <1>1. Fits(BITMAP, Mem(m)[BITMAP]) /\ Fits(BITMAP, Mem(x)[BITMAP]) /\ BITMAP \in Block
    BY MemFits, Sizes DEF AllFit
  <1>2. Mem(m)[BITMAP].kind = "bitmap" /\ Mem(x)[BITMAP].kind = "bitmap"
    <2>1. /\ Mem(m)[BITMAP] = [kind |-> "bitmap", v |-> Free(m)]
          /\ Mem(x)[BITMAP] = [kind |-> "bitmap", v |-> Free(x)]
      BY MemFits
    <2> QED BY <2>1
  <1>3. /\ \A j \in Js, n \in Ns : PtrAt(Mem(m), BITMAP, j, n) = 0
        /\ \A j \in Js : SizeAt(Mem(m), BITMAP, j) = 0 /\ (j \in Fs => NameAt(Mem(m), BITMAP, j) = NULL)
    BY <1>1, <1>2, Nothing
  <1>4. /\ \A j \in Js, n \in Ns : PtrAt(Mem(x), BITMAP, j, n) = 0
        /\ \A j \in Js : SizeAt(Mem(x), BITMAP, j) = 0 /\ (j \in Fs => NameAt(Mem(x), BITMAP, j) = NULL)
    BY <1>1, <1>2, Nothing
  <1>5. \A a \in Block : a # BITMAP =>
           /\ \A j, n : PtrAt(Mem(x), a, j, n) = PtrAt(Mem(m), a, j, n)
           /\ \A j : SizeAt(Mem(x), a, j) = SizeAt(Mem(m), a, j)
                     /\ NameAt(Mem(x), a, j) = NameAt(Mem(m), a, j)
    BY Local
  <1> QED BY <1>3, <1>4, <1>5 DEF SameView

\* The bitmap is set to free; the blocks are what they were.
BitsSet(m, x, free) ==
    /\ Formed(x) /\ x.disk = m.disk /\ x.dirty = m.dirty /\ x.out = m.out
    /\ x.err = m.err /\ x.r = m.r /\ x.health = m.health
    /\ Free(x) = free /\ SameView(m, x)
    /\ \A a \in Block : a # BITMAP => x.blk[a] = m.blk[a] /\ Mem(x)[a] = Mem(m)[a]
    /\ \A f : Loc(m, f) => KeepsFile(m, x, f)

LEMMA SetBits ==
    ASSUME NEW m, Shape(m), NEW free \in SUBSET Data, NEW x,
           x = [m EXCEPT !.blk[BITMAP].v = free]
    PROVE  BitsSet(m, x, free) /\ x.freed = m.freed
  <1> DEFINE c == [kind |-> "bitmap", v |-> free]
  <1>1. m.blk[BITMAP] = [kind |-> "bitmap", v |-> Free(m)] /\ BITMAP \in Block
    BY MemFits, Sizes DEF Shape
  <1>2. [m.blk[BITMAP] EXCEPT !.v = free] = c  BY <1>1
  <1>3. /\ IsState(x) /\ x.disk = m.disk /\ x.dirty = m.dirty /\ x.out = m.out
        /\ x.err = m.err /\ x.r = m.r /\ x.health = m.health /\ x.freed = m.freed
        /\ x.blk = [m.blk EXCEPT ![BITMAP] = c]
    BY <1>2 DEF Shape, Formed, IsState
  <1>4. Fits(BITMAP, c) /\ c.v = free  BY FitsBitmap
  <1> HIDE DEF c
  <1>5. c # NULL  BY <1>1, <1>4, FitsNotNull
  <1>6. /\ DOMAIN x.blk = Block /\ x.blk[BITMAP] = c
        /\ \A a \in Block : a # BITMAP => x.blk[a] = m.blk[a]
    BY <1>1, <1>3 DEF Shape, Formed
  <1>7. Formed(x)
    <2>1. \A a \in Block : x.blk[a] # NULL => Fits(a, x.blk[a])
      BY <1>4, <1>6 DEF Shape, Formed
    <2>2. \A a \in Block : m.blk[a] # NULL => x.blk[a] # NULL  BY <1>5, <1>6
    <2>3. \A i \in 1 .. Len(m.out) : m.out[i][1] \in Block
      BY EntryFits DEF Shape, Formed
    <2> QED BY <1>1, <1>3, <1>5, <1>6, <2>1, <2>2, <2>3, Sizes DEF Shape, Formed
  <1>8. \A a \in Block : a # BITMAP => Mem(x)[a] = Mem(m)[a]  BY <1>3, <1>6 DEF Mem
  <1>9. SameView(m, x)  BY <1>7, <1>8, BitmapView DEF Shape
  <1>10. ASSUME NEW f, Loc(m, f) PROVE KeepsFile(m, x, f)
    <2>1. f[1] \in Block /\ f[1] # BITMAP  BY <1>10, LocFacts
    <2> QED BY <2>1, <1>6, <1>10 DEF KeepsFile, Loc, FileAt
  <1>11. Free(x) = free  BY <1>4, <1>6 DEF Free
  <1> QED BY <1>3, <1>6, <1>7, <1>8, <1>9, <1>10, <1>11 DEF BitsSet

\* A block may be marked as free only if it was given back.
LEMMA BitsSetKept ==
    ASSUME NEW m, Shape(m), NEW x, NEW free, BitsSet(m, x, free), m.freed \subseteq x.freed,
           free \subseteq Free(m) \cup x.freed
    PROVE  Shape(x)
  <1>1. Bits(m) /\ x.disk = m.disk /\ x.out = m.out /\ Free(x) \subseteq Free(m) \cup x.freed
    BY DEF Shape, BitsSet
  <1>2. \A b \in Block, j \in Js, n \in Ns : SureNow(m, PtrAt(Mem(x), b, j, n))
    BY DEF Shape, Bits, Marked, BitsSet, SameView
  <1>3. Bits(x)  BY <1>1, <1>2, BitsKept
  <1> QED BY <1>3 DEF Shape, BitsSet

\* What free_block may do: only the bitmap in memory gets larger.
LEMMA FreeBlock ==
    ASSUME NEW m, Shape(m), NEW b \in {0} \cup Data, NEW x, x = free_block(m, b)
    PROVE  /\ BitsSet(m, x, Free(m) \cup ({b} \ {0})) /\ Shape(x) /\ Steps(m, x)
  <1>1. CASE b = 0
    <2>1. x = m  BY <1>1 DEF free_block
    <2>2. SameView(m, m)  BY DEF SameView
    <2>3. \A f : Loc(m, f) => KeepsFile(m, m, f)  BY DEF KeepsFile
    <2> QED BY <1>1, <2>1, <2>2, <2>3 DEF BitsSet, Shape, Steps
  <1>2. CASE b # 0
    <2> DEFINE free == Free(m) \cup {b}
               y == [m EXCEPT !.blk[BITMAP].v = free]
    <2>1. x = [y EXCEPT !.freed = m.freed \cup {b}]
      <3>1. IsState(m)  BY DEF Shape, Formed
      <3> QED BY <3>1, <1>2 DEF free_block, Free, IsState
    <2>2. free \in SUBSET Data  BY <1>2, MemFits DEF Shape
    <2>3. free = Free(m) \cup ({b} \ {0}) /\ y = [m EXCEPT !.blk[BITMAP].v = free]  BY <1>2
    <2>4. free \subseteq Free(m) \cup (m.freed \cup {b})  OBVIOUS
    <2> HIDE DEF free, y
    <2>5. BitsSet(m, y, free)  BY <2>2, <2>3, SetBits
    <2>6. /\ IsState(x) /\ x.disk = y.disk /\ x.blk = y.blk /\ x.dirty = y.dirty /\ x.out = y.out
          /\ x.err = y.err /\ x.r = y.r /\ x.health = y.health /\ x.freed = m.freed \cup {b}
      BY <2>1, <2>5 DEF BitsSet, Formed, IsState
    <2>7. Mem(x) = Mem(y) /\ Free(x) = Free(y)  BY <2>6 DEF Mem, Free
    <2>8. BitsSet(m, x, free)
      <3>1. Formed(x)  BY <2>5, <2>6 DEF BitsSet, Formed
      <3>2. \A f : Loc(m, f) => KeepsFile(m, x, f)
        BY <2>5, <2>6 DEF BitsSet, KeepsFile, Loc, FileAt
      <3> QED BY <2>5, <2>6, <2>7, <3>1, <3>2 DEF BitsSet, SameView
    <2>9. Shape(x)  BY <2>4, <2>6, <2>8, BitsSetKept
    <2>10. \A a \in Block : m.blk[a] # NULL => x.blk[a] # NULL  BY <2>8 DEF BitsSet, Formed
    <2> QED BY <2>3, <2>8, <2>9, <2>10 DEF BitsSet, Shape, Steps
  <1> QED BY <1>1, <1>2

\* A number was found in the bitmap; it is handed to the disk without it.
LEMMA AllocNum ==
    ASSUME NEW m, Shape(m), NEW x, x = alloc_block_num(m)
    PROVE  /\ Steps(m, x) /\ SameView(m, x) /\ x.health = m.health
           /\ Free(x) \subseteq Free(m)
           /\ \A a \in Block : a # BITMAP => x.blk[a] = m.blk[a] /\ Mem(x)[a] = Mem(m)[a]
           /\ \A f : Loc(m, f) => KeepsFile(m, x, f)
           /\ x.err \in {"OK", "E_NO_DISK"}
           /\ x.err = "OK" => /\ x.r \in Free(m) /\ x.r \in Data /\ Free(x) = Free(m) \ {x.r}
                              /\ SureNow(x, x.r)
  <1>0. Free(m) \subseteq Data /\ IsState(m)  BY MemFits DEF Shape, Formed
  <1>1. CASE Free(m) = {}
    <2>1. x = Err(m, "E_NO_DISK")  BY <1>1 DEF alloc_block_num, Free
    <2>2. Same(m, x) /\ x.health = m.health /\ x.err = "E_NO_DISK"  BY <2>1, <1>0, Answers
    <2>3. View(m, x)  BY <2>1, AnswerChain
    <2> QED BY <2>2, <2>3, <1>0
        DEF View, Chain, Works, Same, KeepsFile, Loc, FileAt, Mem
  <1>2. CASE Free(m) # {}
    <2> DEFINE b == Min(Free(m))
               y == [m EXCEPT !.blk[BITMAP].v = Free(m) \ {b}]
               z == write_block(y, BITMAP)
    <2>1. b \in Free(m)
      <3>1. Free(m) \subseteq Nat  BY <1>0, Sizes
      <3> QED BY <3>1, <1>2, MinIn
    <2>2. x = Ret(z, b)  BY <1>2 DEF alloc_block_num, Free
    <2>3. y = [m EXCEPT !.blk[BITMAP].v = Free(m) \ {b}] /\ z = write_block(y, BITMAP)
      OBVIOUS
    <2> HIDE DEF b, y, z
    <2>4. Free(m) \ {b} \in SUBSET Data  BY <1>0
    <2>5. BitsSet(m, y, Free(m) \ {b}) /\ y.freed = m.freed  BY <2>3, <2>4, SetBits
    <2>6. /\ Shape(z) /\ z.disk = y.disk /\ z.blk = y.blk /\ z.health = y.health
          /\ Mem(z) = Mem(y) /\ Free(z) = Free(y)
          /\ Len(z.out) \in 1 .. Len(z.out) /\ z.out[Len(z.out)] = <<BITMAP, y.blk[BITMAP]>>
      <3>1. y.blk[BITMAP] # NULL /\ BITMAP \in Block  BY <2>5, Sizes DEF BitsSet, Formed
      <3>2. Shape(y)
        <4>1. m.freed \subseteq y.freed /\ Free(m) \ {b} \subseteq Free(m) \cup y.freed  BY <2>5
        <4> QED BY <4>1, <2>5, BitsSetKept
      <3> PICK a : a = BITMAP  OBVIOUS
      <3>3. a \in Block /\ y.blk[a] # NULL /\ z = write_block(y, a)
        BY <3>1, <2>3
      <3> QED BY <3>2, <3>3, WriteBlock
    <2>7. Same(z, x) /\ x.health = z.health /\ x.err = "OK" /\ x.r = b
      <3>1. IsState(z)  BY <2>6 DEF Shape, Formed
      <3> QED BY <3>1, <2>2, Answers
    <2>8. Shape(x) /\ Mem(x) = Mem(z) /\ Free(x) = Free(z)
      <3>1. z.health \in {"ok", "panic", "stale"}  BY <2>6 DEF Shape, Formed
      <3> QED BY <3>1, <2>6, <2>7, SameShape
    <2>9. Steps(m, x)
      <3>1. \A a \in Block : m.blk[a] # NULL => x.blk[a] # NULL
        BY <2>5, <2>6, <2>7 DEF BitsSet, Same, Formed
      <3> QED BY <3>1, <2>5, <2>6, <2>7, <2>8 DEF Steps, BitsSet, Same
    <2>10. SameView(m, x)  BY <2>5, <2>6, <2>8 DEF BitsSet, SameView
    <2>11. \A f : Loc(m, f) => KeepsFile(m, x, f)
      BY <2>5, <2>6, <2>7 DEF BitsSet, Same, KeepsFile, Loc, FileAt
    <2>12. \A a \in Block : a # BITMAP => x.blk[a] = m.blk[a] /\ Mem(x)[a] = Mem(m)[a]
      BY <2>5, <2>6, <2>7, <2>8 DEF BitsSet, Same
    <2>13. Free(x) = Free(m) \ {b} /\ x.health = m.health
      BY <2>5, <2>6, <2>7, <2>8 DEF BitsSet
    <2>14. SureNow(x, b)
      <3>1. PICK k, o : k = Len(o) /\ o = z.out  OBVIOUS
      <3>2. x.out = o /\ k \in 1 .. Len(o) /\ o[k] = <<BITMAP, y.blk[BITMAP]>>
        BY <3>1, <2>6, <2>7 DEF Same
      <3>3. k \in BitsAt(o)  BY <3>2 DEF BitsAt
      <3>4. o[k][2].v = Free(m) \ {b}  BY <3>2, <2>5 DEF BitsSet, Free
      <3>5. k < Len(o) + 1  BY <3>1, <3>2
      <3> QED BY <3>2, <3>3, <3>4, <3>5 DEF SureNow, Sure
    <2> QED BY <2>1, <2>7, <2>9, <2>10, <2>11, <2>12, <2>13, <2>14, <1>0
  <1> QED BY <1>1, <1>2

\* A block is had for a file, or none is left.
Given(m, x) ==
    /\ Chain(m, x)
    /\ m.health = "ok" => x.err \in {"OK", "E_NO_DISK", "E_SICK"}
    /\ \A a \in Block : a # BITMAP /\ ~(OK(x) /\ a = x.r) => x.blk[a] = m.blk[a]
    /\ OK(x) => /\ x.r \in Data /\ x.r \in Free(m) /\ x.r \notin Free(x) /\ Free(x) \subseteq Free(m)
                /\ x.blk[x.r] # NULL /\ x.blk[x.r].kind = "data" /\ Mem(x)[x.r].kind = "data"
                /\ SureNow(x, x.r)
                /\ PtrsOK(Mem(m), Free(m)) => Fresh(Mem(x), x.r)

LEMMA AllocBlock ==
    ASSUME NEW m, Shape(m), NEW x, x = alloc_block(m)
    PROVE  Given(m, x)
  <1> DEFINE y == alloc_block_num(m)
             c == IF y.blk[y.r] = NULL \/ IsZero(y.blk[y.r]) THEN ZeroBlock ELSE Text
  <1>1. y = alloc_block_num(m)  OBVIOUS
  <1>2. x = IF OK(y) THEN [y EXCEPT !.blk[y.r] = c] ELSE y  BY DEF alloc_block, Then
  <1>3. c \in {ZeroBlock, Text}  OBVIOUS
  <1> HIDE DEF y, c
  <1>4. /\ Steps(m, y) /\ SameView(m, y) /\ y.health = m.health
        /\ Free(y) \subseteq Free(m)
        /\ \A a \in Block : a # BITMAP => y.blk[a] = m.blk[a] /\ Mem(y)[a] = Mem(m)[a]
        /\ y.err \in {"OK", "E_NO_DISK"}
        /\ y.err = "OK" => /\ y.r \in Free(m) /\ y.r \in Data /\ Free(y) = Free(m) \ {y.r}
                           /\ SureNow(y, y.r)
    BY <1>1, AllocNum
  <1>5. /\ Shape(y) /\ AllFit(Mem(m)) /\ AllFit(Mem(y)) /\ 0 \notin Free(m)
    BY <1>4, MemFits DEF Steps, Shape
  <1>6. Safe(m, y)
    <2>1. \A b \in Block, j \in Js, n \in Ns : PtrAt(Mem(y), b, j, n) = PtrAt(Mem(m), b, j, n)
      BY <1>4 DEF SameView
    <2>2. PtrsOK(Mem(m), Free(m)) => PtrsOK(Mem(y), Free(y))
      BY <2>1, <1>4, <1>5, PtrsShrink
    <2>3. \A b \in Block, j \in Fs : j \in Js  BY DEF Fs, Js
    <2>4. Keeps(Mem(m), Mem(y))
      <3>1. \A b \in Block, j \in Fs : NameAt(Mem(y), b, j) \in {NameAt(Mem(m), b, j), NULL}
        BY <1>4, <2>3 DEF SameView
      <3>2. \A b \in Block, j \in Fs : SizeAt(Mem(y), b, j) = SizeAt(Mem(m), b, j)
        BY <1>4, <2>3 DEF SameView
      <3> QED BY <1>5, <2>1, <3>1, <3>2, Narrow
    <2> QED BY <2>2, <2>4 DEF Safe
  <1>7. CASE ~OK(y)
    <2>1. x = y  BY <1>2, <1>7
    <2>2. m.health = "ok" => y.err = "E_NO_DISK"  BY <1>4, <1>7 DEF OK
    <2> QED BY <2>1, <2>2, <1>4, <1>6, <1>7 DEF Given, Chain, Works
  <1>8. CASE OK(y)
    <2> DEFINE p == y.r
    <2>1. p \in Data /\ p \in Free(m) /\ p \in Block /\ p # BITMAP /\ Free(y) = Free(m) \ {p}
      BY <1>4, <1>8, Sizes DEF OK
    <2>2. Fits(p, c) /\ c.kind = "data"
      BY <1>3, <2>1, FitsMade DEF ZeroBlock, Text
    <2>3. x = [y EXCEPT !.blk[p] = c]  BY <1>2, <1>8
    <2>4. Put(y, x, p, c)
      <3>1. Known(y, p, c)  BY <1>5, <2>1, <2>2, KnownBlank
      <3> QED BY <3>1, <1>5, <2>1, <2>2, <2>3, PutBlock
    <2>0. SureNow(x, p)
      <3>1. SureNow(y, p)  BY <1>4, <1>8 DEF OK
      <3> QED BY <3>1, <2>4 DEF Put, SureNow, Sure
    <2> HIDE DEF p
    <2>5. Steps(y, x) /\ OK(x) /\ x.r = p /\ Free(x) = Free(m) \ {p}
      BY <2>1, <2>4, <1>8 DEF Put, Steps, OK, p
    <2>6. Shape(x) /\ AllFit(Mem(x))  BY <2>4, MemFits DEF Put, Shape
    <2>7. /\ \A j \in Js, n \in Ns : PtrAt(Mem(x), p, j, n) = 0
          /\ \A j \in Js : j \in Fs => NameAt(Mem(x), p, j) = NULL
      BY <2>1, <2>2, <2>4, Nothing DEF Put
    <2>8. \A a \in Block : a # p =>
             /\ \A j, n : PtrAt(Mem(x), a, j, n) = PtrAt(Mem(y), a, j, n)
             /\ \A j : SizeAt(Mem(x), a, j) = SizeAt(Mem(y), a, j)
                       /\ NameAt(Mem(x), a, j) = NameAt(Mem(y), a, j)
      BY <2>4, Local DEF Put
    <2>9. \A b \in Block, j \in Js, n \in Ns : PtrAt(Mem(x), b, j, n) \in {PtrAt(Mem(y), b, j, n), 0}
      BY <2>7, <2>8
    <2>10. Blank(Mem(x), 0)
      <3>1. Fits(0, Mem(x)[0]) /\ 0 \in Block  BY <2>6, Sizes DEF AllFit
      <3>2. /\ \A j \in Js, n \in Ns : PtrAt(Mem(x), 0, j, n) = 0
            /\ \A j \in Js : j \in Fs => NameAt(Mem(x), 0, j) = NULL
        BY <3>1, Nothing
      <3> QED BY <3>2 DEF Blank, Fs, Js
    <2>11. Safe(y, x)
      <3>1. PtrsOK(Mem(y), Free(y)) => PtrsOK(Mem(x), Free(x))
        <4>1. Free(x) \subseteq Free(y) /\ 0 \notin Free(x)  BY <1>5, <2>1, <2>5
        <4> QED BY <4>1, <2>9, PtrsShrink
      <3>2. \A b \in Block, j \in Js, n \in Ns :
               PtrAt(Mem(x), b, j, n) = PtrAt(Mem(y), b, j, n) \/ Blank(Mem(x), PtrAt(Mem(x), b, j, n))
        BY <2>9, <2>10
      <3>3. \A j \in Fs : j \in Js  BY DEF Fs, Js
      <3>4. \A b \in Block, j \in Fs : NameAt(Mem(x), b, j) \in {NameAt(Mem(y), b, j), NULL}
        BY <2>7, <2>8, <3>3
      <3>5. \A b \in Block, j \in Fs : \/ SizeAt(Mem(x), b, j) = SizeAt(Mem(y), b, j)
                                       \/ \A n \in Ns : PtrAt(Mem(x), b, j, n) = 0
        BY <2>7, <2>8, <3>3
      <3>6. Keeps(Mem(y), Mem(x))  BY <1>5, <2>6, <3>2, <3>4, <3>5, Narrow
      <3> QED BY <3>1, <3>6 DEF Safe
    <2>12. Chain(m, x)
      <3>1. Works(m, y) /\ Works(y, x)  BY <1>4, <1>6, <2>5, <2>11 DEF Works
      <3> QED BY <3>1, <2>5, WorksTrans DEF Chain, OK
    <2>13. ASSUME PtrsOK(Mem(m), Free(m)) PROVE Fresh(Mem(x), p)
      <3>1. \A b \in Block, j \in Js, n \in Ns : PtrAt(Mem(m), b, j, n) # p
        BY <2>1, <2>13 DEF PtrsOK
      <3>2. \A b \in Block, j \in Js, n \in Ns : PtrAt(Mem(y), b, j, n) # p
        BY <3>1, <1>4 DEF SameView
      <3>3. p # 0  BY <2>1, Sizes
      <3> QED BY <3>2, <3>3, <2>9 DEF Fresh
    <2>14. \A a \in Block : a # BITMAP /\ a # p => x.blk[a] = m.blk[a]
      BY <1>4, <2>4 DEF Put
    <2>15. x.blk[p] # NULL /\ x.blk[p].kind = "data" /\ Mem(x)[p].kind = "data"
      BY <2>2, <2>4 DEF Put
    <2> QED BY <2>0, <2>1, <2>5, <2>12, <2>13, <2>14, <2>15 DEF Given, OK
  <1> QED BY <1>7, <1>8

LEMMA AllocFor ==
    ASSUME NEW m, Shape(m), NEW f, Loc(m, f), NEW x, x = alloc_for(m, f)
    PROVE  Given(m, x) /\ KeepsFile(m, x, f) /\ (OK(x) => x.r # f[1])
  <1> DEFINE y == alloc_block(m)
  <1>1. y = alloc_block(m)  OBVIOUS
  <1>2. x = IF OK(y) /\ y.r = f[1] THEN Sick(m, "stale") ELSE y  BY DEF alloc_for
  <1> HIDE DEF y
  <1>3. Given(m, y)  BY <1>1, AllocBlock
  <1>4. f[1] \in Block /\ f[1] # BITMAP  BY LocFacts
  <1>5. CASE OK(y) /\ y.r = f[1]
    <2>1. x = Sick(m, "stale")  BY <1>2, <1>5
    <2>2. Same(m, x) /\ x.err = "E_SICK"  BY <2>1, ShapeAnswers
    <2>3. View(m, x) /\ ~OK(x) /\ KeepsFile(m, x, f)  BY <2>1, AnswerChain
    <2> QED BY <2>2, <2>3 DEF Given, Same, View
  <1>6. CASE ~(OK(y) /\ y.r = f[1])
    <2>1. x = y  BY <1>2, <1>6
    <2>2. x.blk[f[1]] = m.blk[f[1]]  BY <2>1, <1>3, <1>4, <1>6 DEF Given
    <2> QED BY <2>1, <2>2, <1>3, <1>6 DEF KeepsFile, Loc, FileAt
  <1> QED BY <1>5, <1>6

-----------------------------------------------------------------------------
(* The blocks of a file *)

\* Block n of the file f has a place.
Reach(m, f, n) ==
    /\ Loc(m, f) /\ n \in Is
    /\ n >= NDIRECT => LET i == FileAt(m, f).indirect
                       IN i \in Data /\ m.blk[i] # NULL /\ m.blk[i].kind = "index"

SameFile(m, x, f) == /\ Loc(x, f) /\ FileAt(x, f).size = FileAt(m, f).size
                     /\ FileAt(x, f).name = FileAt(m, f).name /\ FileAt(x, f).type = FileAt(m, f).type

LEMMA PtrFacts ==
    ASSUME NEW m, Shape(m), NEW f, NEW n, Reach(m, f, n)
    PROVE  Ptr(m, f, n) = BlockAt(Mem(m), f[1], f[2], n) /\ Ptr(m, f, n) \in {0} \cup Data
  <1>1. Loc(m, f) /\ n \in Is  BY DEF Reach
  <1>2. CASE n < NDIRECT
    <2>1. n \in 0 .. NDIRECT - 1  BY <1>1, <1>2, Sizes DEF Is
    <2>2. FileAt(m, f).direct \in [0 .. NDIRECT - 1 -> {0} \cup Data]
      BY <1>1, LocFacts, RecFacts
    <2>3. PtrAt(Mem(m), f[1], f[2], n) = FileAt(m, f).direct[n]  BY <1>1, <2>1, LocFacts
    <2> QED BY <1>2, <2>1, <2>2, <2>3 DEF Ptr, BlockAt
  <1>3. CASE ~(n < NDIRECT)
    <2> DEFINE i == FileAt(m, f).indirect
    <2>1. n \in NDIRECT .. NINDIRECT - 1 /\ n >= NDIRECT  BY <1>1, <1>3, Sizes DEF Is
    <2>2. i \in Data /\ m.blk[i] # NULL /\ m.blk[i].kind = "index"  BY <2>1 DEF Reach
    <2>3. i = PtrAt(Mem(m), f[1], f[2], NINDIRECT)  BY <1>1, LocFacts
    <2> HIDE DEF i
    <2>4. i \in Block  BY <2>2, Sizes
    <2>5. Mem(m)[i] = m.blk[i] /\ Fits(i, m.blk[i])  BY <2>2, <2>4, MemFits DEF Shape
    <2> PICK c : c = m.blk[i]  OBVIOUS
    <2>6. c.v \in [NDIRECT .. NINDIRECT - 1 -> {0} \cup Data]  BY <2>2, <2>4, <2>5, FitsFacts
    <2>7. PtrAt(Mem(m), i, 0, n) = c.v[n]  BY <2>1, <2>2, <2>5 DEF PtrAt
    <2>8. Ptr(m, f, n) = c.v[n]  BY <1>3 DEF Ptr, i
    <2> QED BY <1>3, <2>1, <2>3, <2>6, <2>7, <2>8 DEF BlockAt
  <1> QED BY <1>2, <1>3

\* From m to x only one place changes, that of block n of f, to p.
Placed(m, x, f, n, p, b, j, i) ==
    /\ b \in Block /\ j \in Js /\ i \in Ns /\ Mem(m)[b].kind # "data"
    /\ PtrAt(Mem(m), b, j, i) = Ptr(m, f, n) /\ PtrAt(Mem(x), b, j, i) = p
    /\ \A c \in Block, k \in Js, o \in Ns :
           ~(c = b /\ k = j /\ o = i) => PtrAt(Mem(x), c, k, o) = PtrAt(Mem(m), c, k, o)
SameNames(m, x) ==
    \A b \in Block, j \in Js : /\ SizeAt(Mem(x), b, j) = SizeAt(Mem(m), b, j)
                               /\ j \in Fs => NameAt(Mem(x), b, j) = NameAt(Mem(m), b, j)
PtrSet(m, x, f, n, p) ==
    /\ Steps(m, x) /\ x.err = m.err /\ x.r = m.r /\ x.health = m.health /\ Free(x) = Free(m)
    /\ \E b, j, i : Placed(m, x, f, n, p, b, j, i)
    /\ SameNames(m, x) /\ SameFile(m, x, f)
    /\ FileAt(x, f).indirect = FileAt(m, f).indirect
    /\ BlockAt(Mem(x), f[1], f[2], n) = p
    /\ \A o \in Is : o # n => BlockAt(Mem(x), f[1], f[2], o) = BlockAt(Mem(m), f[1], f[2], o)
    /\ \A a \in Block : m.blk[a] # NULL => x.blk[a].kind = m.blk[a].kind

LEMMA SetPtrOK ==
    ASSUME NEW m, Shape(m), NEW f, NEW n, Reach(m, f, n), NEW p \in {0} \cup Data, SureNow(m, p),
           NEW x, x = SetPtr(m, f, n, p)
    PROVE  PtrSet(m, x, f, n, p)
  <1>0. /\ Loc(m, f) /\ n \in Is /\ f[1] \in Block /\ f[1] # BITMAP /\ f[2] \in Fs /\ f[2] \in Js
        /\ FileAt(m, f) \in FileRec /\ n \in Ns /\ NINDIRECT \in Ns /\ n # NINDIRECT
        /\ Mem(m)[f[1]] = m.blk[f[1]] /\ m.blk[f[1]].kind \in {"dir", "super"}
    BY LocFacts, Sizes DEF Reach, Loc, Is, Ns
  <1>1. /\ FileAt(m, f).direct \in [0 .. NDIRECT - 1 -> {0} \cup Data]
        /\ PtrAt(Mem(m), f[1], f[2], NINDIRECT) = FileAt(m, f).indirect
    BY <1>0, RecFacts, LocFacts
  <1>2. CASE n < NDIRECT
    <2>1. n \in 0 .. NDIRECT - 1  BY <1>0, <1>2, Sizes DEF Is
    <2> DEFINE rec == [FileAt(m, f) EXCEPT !.direct[n] = p]
    <2>2. rec \in FileRec  BY <1>0, <2>1, RecFacts
    <2>3. x = SetFile(m, f, rec)  BY <1>2 DEF SetPtr
    <2>4. /\ rec.direct = [FileAt(m, f).direct EXCEPT ![n] = p] /\ rec.indirect = FileAt(m, f).indirect
          /\ rec.size = FileAt(m, f).size /\ rec.name = FileAt(m, f).name /\ rec.type = FileAt(m, f).type
      BY <1>0 DEF FileRec
    <2>5. /\ rec.direct[n] = p
          /\ \A o \in 0 .. NDIRECT - 1 : o # n => rec.direct[o] = FileAt(m, f).direct[o]
      BY <1>1, <2>1, <2>4
    <2>0. SureRec(m, rec)
      <3>1. SureRec(m, FileAt(m, f))  BY <1>0, SureFile
      <3> HIDE DEF rec
      <3> QED BY <3>1, <2>4, <2>5 DEF SureRec
    <2> HIDE DEF rec
    <2>6. /\ Shape(x) /\ Steps(m, x)
          /\ x.err = m.err /\ x.r = m.r /\ x.health = m.health /\ Free(x) = Free(m)
          /\ \A a \in Block : a # f[1] => x.blk[a] = m.blk[a]
          /\ x.blk[f[1]].kind = m.blk[f[1]].kind /\ FileAt(x, f) = rec
          /\ Loc(x, f) /\ RecSet(m, x, f, rec)
      BY <1>0, <2>0, <2>2, <2>3, SetFileOK
    <2>7. SameFile(m, x, f) /\ FileAt(x, f).indirect = FileAt(m, f).indirect
      BY <2>4, <2>6 DEF SameFile
    <2>8. Placed(m, x, f, n, p, f[1], f[2], n)
      <3>1. Mem(m)[f[1]].kind # "data"  BY <1>0
      <3>2. PtrAt(Mem(m), f[1], f[2], n) = Ptr(m, f, n)
        BY <1>0, <1>2, <2>1, LocFacts DEF Ptr
      <3>3. PtrAt(Mem(x), f[1], f[2], n) = p  BY <1>0, <1>2, <2>5, <2>6 DEF RecSet
      <3>4. ASSUME NEW o \in Ns, o # n
            PROVE  PtrAt(Mem(x), f[1], f[2], o) = PtrAt(Mem(m), f[1], f[2], o)
        <4>1. CASE o < NDIRECT
          <5>1. o \in 0 .. NDIRECT - 1  BY <4>1, Sizes DEF Ns
          <5>2. PtrAt(Mem(m), f[1], f[2], o) = FileAt(m, f).direct[o]  BY <1>0, <5>1, LocFacts
          <5> QED BY <4>1, <5>1, <5>2, <2>5, <2>6, <3>4 DEF RecSet
        <4>2. CASE ~(o < NDIRECT) /\ o # NINDIRECT
          <5>1. PtrAt(Mem(m), f[1], f[2], o) = 0
            BY <4>2, <1>0, LocFacts DEF PtrAt
          <5> QED BY <4>2, <5>1, <2>6 DEF RecSet
        <4>3. CASE o = NINDIRECT
          <5>1. ~(NINDIRECT < NDIRECT)  BY Sizes
          <5> QED BY <4>3, <5>1, <1>0, <1>1, <2>4, <2>6 DEF RecSet
        <4> QED BY <4>1, <4>2, <4>3
      <3> QED BY <3>1, <3>2, <3>3, <3>4, <1>0, <2>6 DEF Placed, RecSet
    <2>9. SameNames(m, x)
      <3>1. SizeAt(Mem(x), f[1], f[2]) = SizeAt(Mem(m), f[1], f[2])
        BY <1>0, <2>4, <2>6, LocFacts DEF RecSet
      <3>2. NameAt(Mem(x), f[1], f[2]) = NameAt(Mem(m), f[1], f[2])
        <4>1. CASE m.blk[f[1]].kind = "dir"
          <5>1. NameAt(Mem(m), f[1], f[2]) = FileAt(m, f).name  BY <1>0, <4>1, LocFacts
          <5> QED BY <5>1, <4>1, <2>4, <2>6 DEF RecSet
        <4>2. CASE m.blk[f[1]].kind # "dir"
          <5>1. NameAt(Mem(m), f[1], f[2]) = NULL  BY <1>0, <4>2 DEF NameAt
          <5> QED BY <5>1, <4>2, <2>6 DEF RecSet
        <4> QED BY <4>1, <4>2
      <3> QED BY <3>1, <3>2, <2>6 DEF SameNames, RecSet
    <2>10. BlockAt(Mem(x), f[1], f[2], n) = p  BY <1>2, <2>8 DEF BlockAt, Placed
    <2>11. ASSUME NEW o \in Is, o # n
           PROVE  BlockAt(Mem(x), f[1], f[2], o) = BlockAt(Mem(m), f[1], f[2], o)
      <3>1. o \in Ns /\ 0 \in Js /\ f[2] # 0  BY <1>0, Sizes DEF Is, Ns, Js, Fs
      <3>2. CASE o < NDIRECT  BY <3>1, <3>2, <1>0, <2>8, <2>11 DEF BlockAt, Placed
      <3>3. CASE ~(o < NDIRECT)
        <4> DEFINE i == FileAt(m, f).indirect
        <4>1. i = PtrAt(Mem(m), f[1], f[2], NINDIRECT) /\ i = PtrAt(Mem(x), f[1], f[2], NINDIRECT)
          BY <1>0, <1>1, <2>8 DEF Placed
        <4>2. i \in Block  BY <1>0, RecFacts, Sizes
        <4> HIDE DEF i
        <4>3. PtrAt(Mem(x), i, 0, o) = PtrAt(Mem(m), i, 0, o)
          BY <3>1, <4>2, <2>8 DEF Placed
        <4> QED BY <3>3, <4>1, <4>3 DEF BlockAt
      <3> QED BY <3>2, <3>3
    <2>12. \A a \in Block : m.blk[a] # NULL => x.blk[a].kind = m.blk[a].kind  BY <2>6
    <2> QED BY <2>6, <2>7, <2>8, <2>9, <2>10, <2>11, <2>12 DEF PtrSet
  <1>3. CASE ~(n < NDIRECT)
    <2> DEFINE i == FileAt(m, f).indirect
               c == [m.blk[i] EXCEPT !.v[n] = p]
    <2>1. n \in NDIRECT .. NINDIRECT - 1 /\ n >= NDIRECT  BY <1>0, <1>3, Sizes DEF Is
    <2>2. i \in Data /\ m.blk[i] # NULL /\ m.blk[i].kind = "index"  BY <2>1 DEF Reach
    <2>3. x = [m EXCEPT !.blk[i] = c]  BY <1>3 DEF SetPtr
    <2>4. i = PtrAt(Mem(m), f[1], f[2], NINDIRECT)  BY <1>1
    <2>5. FileAt(m, f).indirect = i /\ c = [m.blk[i] EXCEPT !.v[n] = p]  OBVIOUS
    <2> HIDE DEF i, c
    <2>6. i \in Block /\ i # BITMAP /\ f[1] # i /\ 0 \in Js  BY <1>0, <2>2, Sizes DEF Js
    <2>7. Mem(m)[i] = m.blk[i] /\ Fits(i, m.blk[i])  BY <2>2, <2>6, MemFits DEF Shape
    <2> DEFINE C == [a \in Block |-> c]
    <2>8. C[i] = c /\ C[i] = [Mem(m)[i] EXCEPT !.v[n] = p]  BY <2>5, <2>6, <2>7
    <2> HIDE DEF C
    <2>9. /\ Fits(i, C[i]) /\ C[i].kind = "index"
          /\ PtrAt(C, i, 0, n) = p
          /\ \A j \in Js, o \in Ns : ~(j = 0 /\ o = n) => PtrAt(C, i, j, o) = PtrAt(Mem(m), i, j, o)
          /\ \A j \in Js : SizeAt(C, i, j) = SizeAt(Mem(m), i, j)
          /\ \A j \in Fs : NameAt(C, i, j) = NameAt(Mem(m), i, j)
      <3> PICK B : B = Mem(m)  OBVIOUS
      <3>1. Fits(i, B[i]) /\ B[i].kind = "index" /\ C[i] = [B[i] EXCEPT !.v[n] = p]
        BY <2>2, <2>7, <2>8
      <3> QED BY <2>1, <2>6, <3>1, IndexView
    <2>10. Put(m, x, i, c)
      <3>1. Known(m, i, c)
        <4>1. \A j \in Js, o \in Ns : SureNow(m, PtrAt(C, i, j, o))
          BY <2>6, <2>9 DEF Shape, Bits, Marked
        <4> QED BY <4>1 DEF Known, C
      <3> QED BY <3>1, <2>3, <2>6, <2>8, <2>9, PutBlock
    <2>11. Steps(m, x) /\ x.err = m.err /\ x.r = m.r /\ x.health = m.health /\ Free(x) = Free(m)
      BY <2>10 DEF Put, Steps
    <2>12. x.blk[f[1]] = m.blk[f[1]]  BY <1>0, <2>6, <2>10 DEF Put
    <2>13. /\ Loc(x, f) /\ FileAt(x, f) = FileAt(m, f) /\ SameFile(m, x, f)
           /\ FileAt(x, f).indirect = FileAt(m, f).indirect
      BY <1>0, <2>12 DEF Loc, FileAt, SameFile
    <2>14. /\ \A j, o : PtrAt(Mem(x), i, j, o) = PtrAt(C, i, j, o)
           /\ \A j : SizeAt(Mem(x), i, j) = SizeAt(C, i, j) /\ NameAt(Mem(x), i, j) = NameAt(C, i, j)
      <3>1. Mem(x)[i] = C[i]  BY <2>8, <2>10 DEF Put
      <3> QED BY <3>1, Local
    <2>15. \A a \in Block : a # i =>
              /\ \A j, o : PtrAt(Mem(x), a, j, o) = PtrAt(Mem(m), a, j, o)
              /\ \A j : SizeAt(Mem(x), a, j) = SizeAt(Mem(m), a, j)
                        /\ NameAt(Mem(x), a, j) = NameAt(Mem(m), a, j)
      BY <2>10, Local DEF Put
    <2>16. Ptr(m, f, n) = PtrAt(Mem(m), i, 0, n)
      BY <1>3, <2>1, <2>2, <2>5, <2>7 DEF Ptr, PtrAt
    <2>17. Placed(m, x, f, n, p, i, 0, n)
      BY <1>0, <2>2, <2>6, <2>7, <2>9, <2>14, <2>15, <2>16 DEF Placed
    <2>18. SameNames(m, x)  BY <2>9, <2>14, <2>15 DEF SameNames
    <2>19. BlockAt(Mem(x), f[1], f[2], n) = p
      <3>1. PtrAt(Mem(x), f[1], f[2], NINDIRECT) = i  BY <1>0, <2>4, <2>6, <2>15
      <3>2. PtrAt(Mem(x), i, 0, n) = p  BY <2>9, <2>14
      <3> QED BY <1>3, <3>1, <3>2 DEF BlockAt
    <2>20. ASSUME NEW o \in Is, o # n
           PROVE  BlockAt(Mem(x), f[1], f[2], o) = BlockAt(Mem(m), f[1], f[2], o)
      <3>1. o \in Ns  BY Sizes DEF Is, Ns
      <3>2. CASE o < NDIRECT  BY <3>2, <1>0, <2>6, <2>15 DEF BlockAt
      <3>3. CASE ~(o < NDIRECT)
        <4>1. PtrAt(Mem(x), f[1], f[2], NINDIRECT) = i  BY <1>0, <2>4, <2>6, <2>15
        <4>2. PtrAt(Mem(x), i, 0, o) = PtrAt(Mem(m), i, 0, o)
          BY <3>1, <2>6, <2>9, <2>14, <2>20
        <4> QED BY <3>3, <4>1, <4>2, <2>4 DEF BlockAt
      <3> QED BY <3>2, <3>3
    <2>21. \A a \in Block : m.blk[a] # NULL => x.blk[a].kind = m.blk[a].kind
      BY <2>2, <2>8, <2>9, <2>10 DEF Put
    <2> QED BY <2>11, <2>13, <2>17, <2>18, <2>19, <2>20, <2>21 DEF PtrSet
  <1> QED BY <1>2, <1>3

\* A block that was had is put into a place.
LEMMA LinkSafe ==
    ASSUME NEW m, Shape(m), NEW x, Shape(x), Free(x) = Free(m), SameNames(m, x),
           NEW p \in Data, p \notin Free(m), Mem(m)[p].kind = "data",
           PtrsOK(Mem(m), Free(m)) => Fresh(Mem(m), p),
           NEW b \in Block, NEW j \in Js, NEW i \in Ns, Mem(m)[b].kind # "data",
           PtrAt(Mem(x), b, j, i) = p,
           \A c \in Block, k \in Js, o \in Ns :
               ~(c = b /\ k = j /\ o = i) => PtrAt(Mem(x), c, k, o) = PtrAt(Mem(m), c, k, o)
    PROVE  Safe(m, x)
  <1>1. AllFit(Mem(m)) /\ AllFit(Mem(x)) /\ p \in Block /\ b # p  BY MemFits, Sizes DEF Shape
  <1>2. ASSUME PtrsOK(Mem(m), Free(m)) PROVE PtrsOK(Mem(x), Free(x))
    BY <1>2, PtrsLink
  <1>3. Blank(Mem(x), p)
    <2>1. Fits(p, Mem(m)[p])  BY <1>1 DEF AllFit
    <2>2. /\ \A k \in Js, o \in Ns : PtrAt(Mem(m), p, k, o) = 0
          /\ \A k \in Js : k \in Fs => NameAt(Mem(m), p, k) = NULL
      BY <1>1, <2>1, Nothing
    <2>3. \A k \in Js, o \in Ns : PtrAt(Mem(x), p, k, o) = 0  BY <2>2, <1>1
    <2>4. \A k \in Fs : NameAt(Mem(x), p, k) = NULL
      BY <2>2, <1>1 DEF SameNames, Fs, Js
    <2> QED BY <2>3, <2>4 DEF Blank
  <1>4. \A k \in Fs : k \in Js  BY DEF Fs, Js
  <1>5. \A c \in Block, k \in Js, o \in Ns :
           PtrAt(Mem(x), c, k, o) = PtrAt(Mem(m), c, k, o) \/ Blank(Mem(x), PtrAt(Mem(x), c, k, o))
    BY <1>3
  <1>6. \A c \in Block, k \in Fs : /\ NameAt(Mem(x), c, k) \in {NameAt(Mem(m), c, k), NULL}
                                   /\ SizeAt(Mem(x), c, k) = SizeAt(Mem(m), c, k)
    BY <1>4 DEF SameNames
  <1>7. Keeps(Mem(m), Mem(x))  BY <1>1, <1>5, <1>6, Narrow
  <1> QED BY <1>2, <1>7 DEF Safe

\* A block is taken out of its place and freed.
LEMMA UnlinkSafe ==
    ASSUME NEW m, Shape(m), NEW x, Shape(x), SameNames(m, x),
           NEW b \in Block, NEW j \in Js, NEW i \in Ns, PtrAt(Mem(x), b, j, i) = 0,
           Free(x) = Free(m) \cup ({PtrAt(Mem(m), b, j, i)} \ {0}),
           \A c \in Block, k \in Js, o \in Ns :
               ~(c = b /\ k = j /\ o = i) => PtrAt(Mem(x), c, k, o) = PtrAt(Mem(m), c, k, o)
    PROVE  Safe(m, x)
  <1>1. AllFit(Mem(m)) /\ AllFit(Mem(x)) /\ 0 \notin Free(x)  BY MemFits DEF Shape
  <1>2. ASSUME PtrsOK(Mem(m), Free(m)) PROVE PtrsOK(Mem(x), Free(x))
    <2>1. Free(x) \subseteq Free(m) \cup {PtrAt(Mem(m), b, j, i)}  OBVIOUS
    <2> QED BY <1>1, <1>2, <2>1, PtrsUnlink
  <1>3. Blank(Mem(x), 0)
    <2>1. Fits(0, Mem(x)[0]) /\ 0 \in Block  BY <1>1, Sizes DEF AllFit
    <2>2. /\ \A k \in Js, o \in Ns : PtrAt(Mem(x), 0, k, o) = 0
          /\ \A k \in Js : k \in Fs => NameAt(Mem(x), 0, k) = NULL
      BY <2>1, Nothing
    <2> QED BY <2>2 DEF Blank, Fs, Js
  <1>4. \A k \in Fs : k \in Js  BY DEF Fs, Js
  <1>5. \A c \in Block, k \in Js, o \in Ns :
           PtrAt(Mem(x), c, k, o) = PtrAt(Mem(m), c, k, o) \/ Blank(Mem(x), PtrAt(Mem(x), c, k, o))
    BY <1>3
  <1>6. \A c \in Block, k \in Fs : /\ NameAt(Mem(x), c, k) \in {NameAt(Mem(m), c, k), NULL}
                                   /\ SizeAt(Mem(x), c, k) = SizeAt(Mem(m), c, k)
    BY <1>4 DEF SameNames
  <1>7. Keeps(Mem(m), Mem(x))  BY <1>1, <1>5, <1>6, Narrow
  <1> QED BY <1>2, <1>7 DEF Safe

\* What the walk to block n of f leaves.
Walked(m, x, f, n, alloc) ==
    /\ Chain(m, x) /\ SameFile(m, x, f)
    /\ OK(x) => Reach(x, f, n) /\ (n >= NDIRECT => FileAt(x, f).indirect \notin Free(x))
    /\ m.health = "ok" /\ alloc => x.err \in {"OK", "E_NO_DISK", "E_INVAL", "E_SICK"}
    /\ n >= NINDIRECT => x.err # "OK" /\ (m.health = "ok" => x.err = "E_INVAL")
    /\ ~alloc => View(m, x) /\ KeepsFile(m, x, f)

LEMMA SameFileFacts ==
    /\ \A m, x, f : KeepsFile(m, x, f) => SameFile(m, x, f)
    /\ \A m, x, y, f : SameFile(m, x, f) /\ SameFile(x, y, f) => SameFile(m, y, f)
    /\ \A m, x, y, f : KeepsFile(m, x, f) /\ KeepsFile(x, y, f) => KeepsFile(m, y, f)
  BY DEF KeepsFile, SameFile

LEMMA FileBlockWalk ==
    ASSUME NEW m, Shape(m), NEW f, Loc(m, f), NEW n \in Nat, NEW alloc \in BOOLEAN,
           NEW x, x = file_block_walk(m, f, n, alloc)
    PROVE  Walked(m, x, f, n, alloc)
  <1>0. IsState(m) /\ NINDIRECT \in Nat /\ NDIRECT \in Nat /\ NDIRECT < NINDIRECT
    BY Sizes DEF Shape, Formed
  <1>1. CASE n < NDIRECT
    <2>1. x = Ret(m, 0)  BY <1>1 DEF file_block_walk
    <2>2. x.err = "OK"  BY <2>1, <1>0, Answers
    <2>3. View(m, x) /\ KeepsFile(m, x, f)  BY <2>1, AnswerChain
    <2>4. Reach(x, f, n)  BY <1>0, <1>1, <2>3, Sizes DEF Reach, KeepsFile, Is
    <2>5. ~(n >= NINDIRECT) /\ ~(n >= NDIRECT)  BY <1>0, <1>1
    <2> QED BY <2>2, <2>3, <2>4, <2>5, SameFileFacts DEF Walked, View
  <1>2. CASE ~(n < NDIRECT) /\ n >= NINDIRECT
    <2>1. x = Err(m, "E_INVAL")  BY <1>2 DEF file_block_walk
    <2>2. x.err = "E_INVAL"  BY <2>1, <1>0, Answers
    <2>3. View(m, x) /\ KeepsFile(m, x, f)  BY <2>1, AnswerChain
    <2> QED BY <2>2, <2>3, SameFileFacts DEF Walked, View, OK
  <1>3. CASE ~(n < NDIRECT) /\ ~(n >= NINDIRECT)
    <2>0. n \in Is  BY <1>3, <1>0 DEF Is
    <2> DEFINE i == FileAt(m, f).indirect
    <2>00. FileAt(m, f) \in FileRec /\ i \in {0} \cup Data  BY LocFacts, RecFacts
    <2>1. CASE i # 0
      <3>1. x = ReadAs(m, i, "index") /\ i \in Data  BY <1>3, <2>1, <2>00 DEF file_block_walk
      <3>2. FileAt(m, f) # NoFile  BY <2>1 DEF NoFile
      <3> HIDE DEF i
      <3>3. /\ View(m, x)
            /\ OK(x) => x.r = i /\ x.blk[i] # NULL /\ x.blk[i].kind = "index"
            /\ KeepsFile(m, x, f)
            /\ m.health = "ok" /\ x.err # "OK" => x.err = "E_SICK"
        BY <3>1, <3>2, ReadAsBlock
      <3>4. OK(x) => i \notin Free(x)
        <4>1. OK(x) => OK(read_block(m, i))  BY <3>1 DEF ReadAs, Then
        <4>2. i \in {0} \cup Data  BY <3>1
        <4>3. OK(read_block(m, i)) => i \notin Free(m)  BY <4>2, ReadBlock
        <4> QED BY <4>1, <4>3, <3>3 DEF View
      <3>5. OK(x) => Reach(x, f, n) /\ FileAt(x, f).indirect \notin Free(x)
        BY <2>0, <3>1, <3>3, <3>4 DEF Reach, KeepsFile, i
      <3> QED BY <1>3, <3>3, <3>5, SameFileFacts DEF Walked, View
    <2>2. CASE i = 0 /\ ~alloc
      <3>1. x = Err(m, "E_NOT_FOUND")  BY <1>3, <2>2 DEF file_block_walk
      <3>2. x.err = "E_NOT_FOUND"  BY <3>1, <1>0, Answers
      <3>3. View(m, x) /\ KeepsFile(m, x, f)  BY <3>1, AnswerChain
      <3> QED BY <1>3, <2>2, <3>2, <3>3, SameFileFacts DEF Walked, View, OK
    <2>3. CASE i = 0 /\ alloc
      <3> DEFINE y == alloc_for(m, f)
                 rec == [FileAt(y, f) EXCEPT !.indirect = y.r]
                 z == SetFile(y, f, rec)
      <3>1. x = IF OK(y) THEN ReadAs(z, y.r, "index") ELSE y
        BY <1>3, <2>3 DEF file_block_walk, Then
      <3>2. y = alloc_for(m, f) /\ rec = [FileAt(y, f) EXCEPT !.indirect = y.r] /\ z = SetFile(y, f, rec)
        OBVIOUS
      <3> HIDE DEF y, rec, z
      <3>3. Given(m, y) /\ KeepsFile(m, y, f) /\ (OK(y) => y.r # f[1])  BY <3>2, AllocFor
      <3>4. Shape(y) /\ Loc(y, f)  BY <3>3 DEF Given, Chain, Works, Steps, KeepsFile
      <3>5. CASE ~OK(y)
        <4>1. x = y  BY <3>1, <3>5
        <4>2. m.health = "ok" => x.err \in {"E_NO_DISK", "E_SICK"}
          BY <4>1, <3>3, <3>5 DEF Given, Chain, OK
        <4> QED BY <4>1, <4>2, <1>3, <2>3, <3>3, <3>5, SameFileFacts DEF Walked, Given
      <3>6. CASE OK(y)
        <4> DEFINE p == y.r
        <4>1. /\ p \in Data /\ p \in Free(m) /\ p \notin Free(y)
              /\ y.blk[p] # NULL /\ y.blk[p].kind = "data" /\ Mem(y)[p].kind = "data" /\ p # f[1]
              /\ PtrsOK(Mem(m), Free(m)) => Fresh(Mem(y), p)
              /\ SureNow(y, p)
          BY <3>3, <3>6 DEF Given
        <4>2. rec \in FileRec
          <5>1. FileAt(y, f) \in FileRec  BY <3>4, LocFacts
          <5> QED BY <5>1, <4>1, <3>2, RecFacts
        <4>3. /\ rec.direct = FileAt(y, f).direct /\ rec.indirect = p
              /\ rec.size = FileAt(y, f).size /\ rec.name = FileAt(y, f).name
              /\ rec.type = FileAt(y, f).type
          <5>1. FileAt(y, f) \in FileRec  BY <3>4, LocFacts
          <5> QED BY <5>1, <3>2 DEF FileRec
        <4> HIDE DEF p
        <4>0. SureRec(y, rec)
          <5>1. SureRec(y, FileAt(y, f))  BY <3>4, SureFile
          <5> QED BY <5>1, <4>1, <4>3 DEF SureRec
        <4>4. /\ Shape(z) /\ Steps(y, z)
              /\ z.err = y.err /\ z.r = y.r /\ z.health = y.health /\ Free(z) = Free(y)
              /\ \A a \in Block : a # f[1] => z.blk[a] = y.blk[a]
              /\ FileAt(z, f) = rec /\ Loc(z, f) /\ RecSet(y, z, f, rec)
          BY <3>2, <3>4, <4>0, <4>2, SetFileOK
        <4>5. /\ f[1] \in Block /\ f[2] \in Js /\ f[2] \in Fs /\ NINDIRECT \in Ns /\ p \in Block
              /\ Mem(y)[f[1]].kind \in {"dir", "super"} /\ y.blk[f[1]].kind \in {"dir", "super"}
              /\ Mem(y)[f[1]] = y.blk[f[1]]
          BY <3>4, <4>1, LocFacts, Sizes DEF Loc, Ns
        <4>6. ASSUME NEW o \in Ns, o # NINDIRECT
              PROVE  PtrAt(Mem(z), f[1], f[2], o) = PtrAt(Mem(y), f[1], f[2], o)
          <5>1. CASE o < NDIRECT
            <6>1. o \in 0 .. NDIRECT - 1  BY <5>1, Sizes DEF Ns
            <6>2. PtrAt(Mem(y), f[1], f[2], o) = FileAt(y, f).direct[o]  BY <3>4, <6>1, LocFacts
            <6> QED BY <5>1, <6>2, <4>3, <4>4 DEF RecSet
          <5>2. CASE ~(o < NDIRECT)
            <6>1. PtrAt(Mem(y), f[1], f[2], o) = 0
              BY <5>2, <4>5, <4>6, <3>4, LocFacts DEF PtrAt
            <6> QED BY <5>2, <6>1, <4>4, <4>6 DEF RecSet
          <5> QED BY <5>1, <5>2
        <4>7. PtrAt(Mem(z), f[1], f[2], NINDIRECT) = p
          BY <1>0, <4>3, <4>4, <4>5 DEF RecSet
        <4>8. \A c \in Block, k \in Js, o \in Ns :
                 ~(c = f[1] /\ k = f[2] /\ o = NINDIRECT) => PtrAt(Mem(z), c, k, o) = PtrAt(Mem(y), c, k, o)
          BY <4>4, <4>6 DEF RecSet
        <4>9. SameNames(y, z)
          <5>1. SizeAt(Mem(z), f[1], f[2]) = SizeAt(Mem(y), f[1], f[2])
            BY <3>4, <4>3, <4>4, LocFacts DEF RecSet
          <5>2. NameAt(Mem(z), f[1], f[2]) = NameAt(Mem(y), f[1], f[2])
            <6>1. CASE y.blk[f[1]].kind = "dir"
              <7>1. NameAt(Mem(y), f[1], f[2]) = FileAt(y, f).name  BY <3>4, <6>1, LocFacts
              <7> QED BY <7>1, <6>1, <4>3, <4>4 DEF RecSet
            <6>2. CASE y.blk[f[1]].kind # "dir"
              <7>1. NameAt(Mem(y), f[1], f[2]) = NULL  BY <4>5, <6>2 DEF NameAt
              <7> QED BY <7>1, <6>2, <4>4 DEF RecSet
            <6> QED BY <6>1, <6>2
          <5> QED BY <5>1, <5>2, <4>4 DEF SameNames, RecSet
        <4>10. ASSUME z.health = "ok", PtrsOK(Mem(m), Free(m))
               PROVE  PtrsOK(Mem(z), Free(z)) /\ Keeps(Mem(m), Mem(z))
          <5>1. PtrsOK(Mem(y), Free(y)) /\ Keeps(Mem(m), Mem(y)) /\ Fresh(Mem(y), p)
            BY <4>1, <4>4, <4>10, <3>3 DEF Given, Chain, Works, Safe
          <5>2. Safe(y, z)
            <6>1. Mem(y)[f[1]].kind # "data" /\ (PtrsOK(Mem(y), Free(y)) => Fresh(Mem(y), p))
              BY <5>1, <4>5
            <6> QED BY <3>4, <4>1, <4>4, <4>5, <4>7, <4>8, <4>9, <6>1, LinkSafe
          <5> QED BY <5>1, <5>2, <4>10, KeepsTrans DEF Safe
        <4>11. Chain(m, z) /\ OK(z)
          <5>1. Steps(m, z)  BY <3>3, <4>4, WorksTrans DEF Given, Chain, Works
          <5>2. OK(z)  BY <3>6, <4>4 DEF OK
          <5> QED BY <5>1, <5>2, <4>10 DEF Chain, Works, Safe, OK
        <4>12. x = ReadAs(z, p, "index")  BY <3>1, <3>6 DEF p
        <4>13. /\ View(z, x)
               /\ OK(x) => x.r = p /\ x.blk[p] # NULL /\ x.blk[p].kind = "index"
               /\ KeepsFile(z, x, f)
               /\ z.health = "ok" /\ x.err # "OK" => x.err = "E_SICK"
          BY <4>1, <4>4, <4>12, ReadAsBlock
        <4>14. OK(x) => Reach(x, f, n) /\ FileAt(x, f).indirect \notin Free(x)
          BY <2>0, <4>1, <4>3, <4>4, <4>13 DEF Reach, KeepsFile, View
        <4>15. Chain(m, x)  BY <4>11, <4>13, ChainTrans DEF View
        <4>16. SameFile(m, x, f)
          BY <3>3, <4>3, <4>4, <4>13 DEF KeepsFile, SameFile
        <4>17. x.err \in {"OK", "E_SICK"}  BY <4>11, <4>13 DEF OK
        <4> QED BY <1>3, <2>3, <4>14, <4>15, <4>16, <4>17 DEF Walked
      <3> QED BY <3>5, <3>6
    <2> QED BY <2>1, <2>2, <2>3
  <1> QED BY <1>1, <1>2, <1>3

\* What file_map_block leaves.
Mapped(m, x, f, n, alloc) ==
    /\ Chain(m, x) /\ SameFile(m, x, f)
    /\ OK(x) => x.r \in Data /\ x.r = BlockAt(Mem(x), f[1], f[2], n) /\ n \in Is
    /\ m.health = "ok" /\ alloc => x.err \in {"OK", "E_NO_DISK", "E_INVAL", "E_SICK"}
    /\ n >= NINDIRECT => x.err # "OK" /\ (m.health = "ok" => x.err = "E_INVAL")
    /\ ~alloc => View(m, x) /\ KeepsFile(m, x, f)

LEMMA FileMapBlock ==
    ASSUME NEW m, Shape(m), NEW f, Loc(m, f), NEW n \in Nat, NEW alloc \in BOOLEAN,
           NEW x, x = file_map_block(m, f, n, alloc)
    PROVE  Mapped(m, x, f, n, alloc)
  <1> DEFINE w == file_block_walk(m, f, n, alloc)
             a == alloc_for(w, f)
  <1>1. /\ w = file_block_walk(m, f, n, alloc) /\ a = alloc_for(w, f)
        /\ x = IF OK(w) THEN IF Ptr(w, f, n) # 0 THEN Ret(w, Ptr(w, f, n))
                             ELSE IF ~alloc THEN Err(w, "E_NOT_FOUND")
                             ELSE IF OK(a) THEN SetPtr(a, f, n, a.r) ELSE a
               ELSE w
    BY DEF file_map_block, Then
  <1> HIDE DEF w, a
  <1>2. Walked(m, w, f, n, alloc)  BY <1>1, FileBlockWalk
  <1>3. /\ Chain(m, w) /\ SameFile(m, w, f) /\ Loc(w, f) /\ Shape(w)
        /\ ~alloc => View(m, w) /\ KeepsFile(m, w, f)
    BY <1>2 DEF Walked, Chain, Works, Steps, SameFile
  <1>4. CASE ~OK(w)
    <2>1. x = w  BY <1>1, <1>4
    <2> QED BY <2>1, <1>2, <1>4 DEF Walked, Mapped
  <1>5. CASE OK(w)
    <2>1. Reach(w, f, n) /\ n \in Is /\ ~(n >= NINDIRECT)
      BY <1>2, <1>5, Sizes DEF Walked, Reach, Is
    <2>2. Ptr(w, f, n) = BlockAt(Mem(w), f[1], f[2], n) /\ Ptr(w, f, n) \in {0} \cup Data
      BY <1>3, <2>1, PtrFacts
    <2>3. w.health = "ok" /\ IsState(w)  BY <1>3, <1>5 DEF OK, Shape, Formed
    <2>4. CASE Ptr(w, f, n) # 0
      <3> PICK p : p = Ptr(w, f, n)  OBVIOUS
      <3>1. x = Ret(w, p)  BY <1>1, <1>5, <2>4
      <3>2. x.err = "OK" /\ x.r = p /\ Mem(x) = Mem(w)  BY <2>3, <3>1, <1>3, Answers, AnswerChain
      <3>3. View(w, x) /\ KeepsFile(w, x, f)  BY <3>1, <1>3, AnswerChain
      <3>4. Chain(m, x) /\ (~alloc => View(m, x))
        BY <3>3, <1>3, <1>5, ChainTrans DEF View
      <3>5. SameFile(m, x, f) /\ (~alloc => KeepsFile(m, x, f))
        BY <3>3, <1>3, SameFileFacts
      <3> QED BY <2>1, <2>2, <2>4, <3>2, <3>4, <3>5 DEF Mapped
    <2>5. CASE Ptr(w, f, n) = 0 /\ ~alloc
      <3>1. x = Err(w, "E_NOT_FOUND")  BY <1>1, <1>5, <2>5
      <3>2. x.err = "E_NOT_FOUND"  BY <2>3, <3>1, Answers
      <3>3. View(w, x) /\ KeepsFile(w, x, f)  BY <3>1, <1>3, AnswerChain
      <3>4. Chain(m, x) /\ (~alloc => View(m, x))
        BY <3>3, <1>3, <1>5, ChainTrans DEF View
      <3>5. SameFile(m, x, f) /\ (~alloc => KeepsFile(m, x, f))
        BY <3>3, <1>3, SameFileFacts
      <3> QED BY <2>1, <2>5, <3>2, <3>4, <3>5 DEF Mapped, OK
    <2>6. CASE Ptr(w, f, n) = 0 /\ alloc
      <3>1. x = IF OK(a) THEN SetPtr(a, f, n, a.r) ELSE a  BY <1>1, <1>5, <2>6
      <3>2. Given(w, a) /\ KeepsFile(w, a, f) /\ (OK(a) => a.r # f[1])  BY <1>1, <1>3, AllocFor
      <3>3. Chain(m, a) /\ SameFile(m, a, f) /\ Loc(a, f) /\ Shape(a)
        BY <3>2, <1>3, <1>5, ChainTrans, SameFileFacts DEF Given, KeepsFile, Chain, Works, Steps
      <3>4. CASE ~OK(a)
        <4>1. x = a  BY <3>1, <3>4
        <4>2. x.err \in {"E_NO_DISK", "E_SICK"}
          BY <4>1, <3>2, <3>4, <2>3 DEF Given, Chain, OK
        <4> QED BY <4>1, <4>2, <3>3, <2>1, <2>6, <3>4 DEF Mapped
      <3>5. CASE OK(a)
        <4> DEFINE p == a.r
        <4>1. /\ p \in Data /\ p \in Free(w) /\ p \notin Free(a) /\ p \in {0} \cup Data
              /\ Mem(a)[p].kind = "data"
              /\ PtrsOK(Mem(w), Free(w)) => Fresh(Mem(a), p)
              /\ SureNow(a, p)
          BY <3>2, <3>5 DEF Given
        <4>2. x = SetPtr(a, f, n, p)  BY <3>1, <3>5
        <4> HIDE DEF p
        <4>3. Reach(a, f, n)
          <5>1. ASSUME n >= NDIRECT
                PROVE  LET i == FileAt(a, f).indirect
                       IN i \in Data /\ a.blk[i] # NULL /\ a.blk[i].kind = "index"
            <6> DEFINE i == FileAt(w, f).indirect
            <6>1. i \in Data /\ w.blk[i] # NULL /\ w.blk[i].kind = "index" /\ i \notin Free(w)
              BY <5>1, <2>1, <1>2, <1>5 DEF Reach, Walked
            <6>2. i = FileAt(a, f).indirect  BY <3>2 DEF KeepsFile
            <6> HIDE DEF i
            <6>3. i \in Block /\ i # BITMAP /\ i # p  BY <6>1, <4>1, Sizes
            <6>4. a.blk[i] = w.blk[i]  BY <6>3, <3>2, <3>5 DEF Given, p
            <6> QED BY <6>1, <6>2, <6>4
          <5> QED BY <5>1, <3>3, <2>1 DEF Reach
        <4>4. PtrSet(a, x, f, n, p)  BY <3>3, <4>1, <4>2, <4>3, SetPtrOK
        <4>5. /\ Steps(a, x) /\ x.err = a.err /\ x.r = p /\ x.health = a.health
              /\ Shape(x) /\ Free(x) = Free(a) /\ SameNames(a, x) /\ SameFile(a, x, f)
              /\ BlockAt(Mem(x), f[1], f[2], n) = p
          BY <4>4 DEF PtrSet, Steps, p
        <4>6. ASSUME x.health = "ok", PtrsOK(Mem(m), Free(m))
              PROVE  PtrsOK(Mem(x), Free(x)) /\ Keeps(Mem(m), Mem(x))
          <5>1. PtrsOK(Mem(w), Free(w)) /\ Keeps(Mem(m), Mem(w))
            BY <4>6, <1>3, <2>3 DEF Chain, Works, Safe
          <5>2. PtrsOK(Mem(a), Free(a)) /\ Keeps(Mem(w), Mem(a)) /\ Fresh(Mem(a), p)
            BY <5>1, <4>1, <4>5, <4>6, <3>2 DEF Given, Chain, Works, Safe
          <5>3. PICK b, j, i : Placed(a, x, f, n, p, b, j, i)  BY <4>4 DEF PtrSet
          <5>4. Safe(a, x)
            BY <3>3, <4>1, <4>5, <5>2, <5>3, LinkSafe DEF Placed
          <5> QED BY <5>1, <5>2, <5>4, <4>6, KeepsTrans DEF Safe
        <4>7. Chain(m, x) /\ OK(x)
          <5>1. Steps(m, x)  BY <3>3, <4>5, WorksTrans DEF Chain, Works
          <5>2. OK(x)  BY <3>5, <4>5 DEF OK
          <5> QED BY <5>1, <5>2, <4>6 DEF Chain, Works, Safe, OK
        <4>8. SameFile(m, x, f)  BY <3>3, <4>5, SameFileFacts
        <4> QED BY <2>1, <2>6, <4>1, <4>5, <4>7, <4>8 DEF Mapped, OK
      <3> QED BY <3>4, <3>5
    <2> QED BY <2>4, <2>5, <2>6
  <1> QED BY <1>4, <1>5

\* Reading the blocks of one file again does not change what they are.
LEMMA SameBlocks ==
    ASSUME NEW m, Shape(m), NEW x, SameView(m, x), NEW b \in Block, NEW j \in Js, NEW n \in Is
    PROVE  /\ BlockAt(Mem(x), b, j, n) = BlockAt(Mem(m), b, j, n)
           /\ BlockAt(Mem(m), b, j, n) \in {0} \cup Data
           /\ \A k \in Fs : NameIn(Mem(x), b, j, n, k) = NameIn(Mem(m), b, j, n, k)
  <1>1. AllFit(Mem(m)) /\ n \in Ns /\ NINDIRECT \in Ns /\ 0 \in Js
    <2>1. AllFit(Mem(m))  BY MemFits DEF Shape
    <2>2. n \in Ns /\ NINDIRECT \in Ns /\ 0 \in Js  BY Sizes DEF Is, Ns, Js
    <2> QED BY <2>1, <2>2
  <1> DEFINE i == PtrAt(Mem(m), b, j, NINDIRECT)
             p == BlockAt(Mem(m), b, j, n)
  <1>2. i \in Block /\ PtrAt(Mem(m), i, 0, n) \in {0} \cup Data
        /\ PtrAt(Mem(m), b, j, n) \in {0} \cup Data
    BY <1>1, ViewTypes
  <1>3. p \in {0} \cup Data  BY <1>2 DEF BlockAt
  <1>4. BlockAt(Mem(x), b, j, n) = p
    <2>1. PtrAt(Mem(x), b, j, NINDIRECT) = i  BY <1>1 DEF SameView
    <2> HIDE DEF i
    <2>2. PtrAt(Mem(x), i, 0, n) = PtrAt(Mem(m), i, 0, n)  BY <1>1, <1>2 DEF SameView
    <2>3. PtrAt(Mem(x), b, j, n) = PtrAt(Mem(m), b, j, n)  BY <1>1 DEF SameView
    <2> QED BY <2>1, <2>2, <2>3 DEF BlockAt, i
  <1> HIDE DEF p
  <1>5. ASSUME NEW k \in Fs PROVE NameAt(Mem(x), p, k) = NameAt(Mem(m), p, k)
    <2>1. p \in Block /\ k \in Js  BY <1>3, Sizes DEF Fs, Js
    <2> QED BY <2>1 DEF SameView
  <1> QED BY <1>3, <1>4, <1>5 DEF p, NameIn

LEMMA FileGetBlock ==
    ASSUME NEW m, Shape(m), NEW f, Loc(m, f), NEW n \in Nat, NEW x, x = file_get_block(m, f, n)
    PROVE  Mapped(m, x, f, n, TRUE) /\ (OK(x) => x.blk[x.r] # NULL)
  <1> DEFINE y == file_map_block(m, f, n, TRUE)
  <1>1. y = file_map_block(m, f, n, TRUE) /\ x = IF OK(y) THEN read_block(y, y.r) ELSE y
    BY DEF file_get_block, Then
  <1> HIDE DEF y
  <1>2. Mapped(m, y, f, n, TRUE)  BY <1>1, FileMapBlock
  <1>3. CASE ~OK(y)
    <2>1. x = y  BY <1>1, <1>3
    <2> QED BY <2>1, <1>2, <1>3
  <1>4. CASE OK(y)
    <2>1. Shape(y) /\ y.r \in {0} \cup Data /\ Loc(y, f) /\ n \in Is /\ y.health = "ok"
      BY <1>2, <1>4 DEF Mapped, Chain, Works, Steps, SameFile, OK
    <2>2. x = read_block(y, y.r)  BY <1>1, <1>4
    <2> PICK b : b = y.r  OBVIOUS
    <2>3. /\ View(y, x) /\ Mem(x) = Mem(y) /\ Loaded(y, x)
          /\ OK(x) => x.r = b /\ x.blk[b] # NULL
          /\ y.health = "ok" /\ x.err # "OK" => x.err = "E_SICK"
      BY <2>1, <2>2, ReadBlock
    <2>4. Chain(m, x) /\ SameFile(m, x, f)
      BY <1>2, <1>4, <2>1, <2>3, ChainTrans, SameFileFacts DEF Mapped, View, Loaded
    <2>5. ~(n >= NINDIRECT)  BY <2>1, Sizes DEF Is
    <2>6. x.err \in {"OK", "E_SICK"}  BY <2>1, <2>3
    <2> QED BY <1>2, <1>4, <2>1, <2>3, <2>4, <2>5, <2>6 DEF Mapped
  <1> QED BY <1>3, <1>4

\* The n-th block of a directory, as one.
LEMMA DirBlockOK ==
    ASSUME NEW m, Shape(m), NEW f, Loc(m, f), NEW n \in Nat, NEW x, x = DirBlock(m, f, n)
    PROVE  Mapped(m, x, f, n, TRUE) /\ (OK(x) => x.blk[x.r] # NULL /\ x.blk[x.r].kind = "dir")
  <1> DEFINE y == file_get_block(m, f, n)
  <1>1. y = file_get_block(m, f, n) /\ x = IF OK(y) THEN ReadAs(y, y.r, "dir") ELSE y
    BY DEF DirBlock, Then
  <1> HIDE DEF y
  <1>2. Mapped(m, y, f, n, TRUE)  BY <1>1, FileGetBlock
  <1>3. CASE ~OK(y)
    <2>1. x = y  BY <1>1, <1>3
    <2> QED BY <2>1, <1>2, <1>3
  <1>4. CASE OK(y)
    <2> PICK b : b = y.r  OBVIOUS
    <2>1. /\ Shape(y) /\ b \in Data /\ Loc(y, f) /\ n \in Is /\ y.health = "ok"
          /\ b = BlockAt(Mem(y), f[1], f[2], n) /\ ~(n >= NINDIRECT)
      BY <1>2, <1>4, Sizes DEF Mapped, Chain, Works, Steps, SameFile, OK, Is
    <2>2. x = ReadAs(y, b, "dir")  BY <1>1, <1>4
    <2>3. /\ View(y, x)
          /\ OK(x) => x.r = b /\ x.blk[b] # NULL /\ x.blk[b].kind = "dir"
          /\ KeepsFile(y, x, f)
          /\ y.health = "ok" /\ x.err # "OK" => x.err = "E_SICK"
      BY <2>1, <2>2, ReadAsBlock
    <2>4. Chain(m, x) /\ SameFile(m, x, f)
      BY <1>2, <1>4, <2>3, ChainTrans, SameFileFacts DEF Mapped, View
    <2>5. x.err \in {"OK", "E_SICK"}  BY <2>1, <2>3
    <2>6. BlockAt(Mem(x), f[1], f[2], n) = b
      <3>1. f[1] \in Block /\ f[2] \in Js  BY <2>1, LocFacts
      <3> QED BY <3>1, <2>1, <2>3, SameBlocks DEF View
    <2> QED BY <2>1, <2>3, <2>4, <2>5, <2>6 DEF Mapped
  <1> QED BY <1>3, <1>4

\* Nothing changes but what is marked, read and handed to the disk.
Calm(m, x) == Works(m, x) /\ SameView(m, x) /\ Free(x) = Free(m)

LEMMA CalmFacts ==
    ASSUME NEW m, Shape(m), NEW x, NEW y
    PROVE  /\ View(m, x) => Calm(m, x)
           /\ Calm(m, m) /\ Calm(m, Ret(m, 0))
           /\ Calm(m, x) /\ Calm(x, y) => Calm(m, y)
  <1>1. View(m, x) => Calm(m, x)  BY DEF View, Chain, Calm
  <1>2. Calm(m, m) /\ Calm(m, Ret(m, 0))
    <2>1. SameView(m, m) /\ SameView(m, Ret(m, 0))  BY AnswerChain DEF View
    <2>2. Free(Ret(m, 0)) = Free(m)  BY ShapeAnswers DEF Same, Free
    <2> QED BY <2>1, <2>2, AnswerWorks DEF Calm
  <1>3. Calm(m, x) /\ Calm(x, y) => Calm(m, y)  BY WorksTrans, ChainTrans DEF Calm
  <1> QED BY <1>1, <1>2, <1>3

LEMMA DirtyBlock ==
    ASSUME NEW m, Shape(m), NEW b \in Block, NEW x, x = dirty_block(m, b)
    PROVE  View(m, x) /\ \A f : Loc(m, f) => KeepsFile(m, x, f)
  <1>1. CASE m.blk[b] = NULL
    <2>1. x = Err(m, "E_NOT_FOUND")  BY <1>1 DEF dirty_block
    <2> QED BY <2>1, AnswerChain
  <1>2. CASE m.blk[b] # NULL
    <2> DEFINE y == [m EXCEPT !.dirty = @ \cup {b}]
    <2>1. x = Ret(y, 0)  BY <1>2 DEF dirty_block
    <2>2. /\ IsState(y) /\ y.disk = m.disk /\ y.blk = m.blk /\ y.out = m.out /\ y.freed = m.freed
          /\ y.err = m.err /\ y.r = m.r /\ y.health = m.health /\ y.dirty = m.dirty \cup {b}
      <3>1. IsState(m)  BY DEF Shape, Formed
      <3> QED BY <3>1 DEF IsState
    <2> HIDE DEF y
    <2>4. Mem(y) = Mem(m) /\ Free(y) = Free(m)  BY <2>2 DEF Mem, Free
    <2>3. Shape(y)
      <3>1. Formed(y)  BY <1>2, <2>2 DEF Shape, Formed
      <3>2. Bits(m) /\ \A a \in Block, j \in Js, n \in Ns : SureNow(m, PtrAt(Mem(y), a, j, n))
        BY <2>4 DEF Shape, Bits, Marked
      <3>3. Bits(y)  BY <2>2, <2>4, <3>2, BitsKept
      <3> QED BY <3>1, <3>3 DEF Shape
    <2>5. View(m, y)
      <3>1. Steps(m, y) /\ SameView(m, y)  BY <2>2, <2>3, <2>4, SameMemView DEF Steps
      <3> QED BY <2>2, <2>4, <3>1, SameViewSafe DEF View, Chain
    <2>6. Same(y, x) /\ x.health = y.health  BY <2>1, <2>2, Answers
    <2>7. View(y, x)  BY <2>1, <2>3, AnswerChain
    <2>8. View(m, x)
      <3>1. SameView(m, x) /\ Works(m, x) /\ Free(x) = Free(m)
        BY <2>5, <2>7, WorksTrans, ChainTrans DEF View, Chain
      <3> QED BY <3>1, <2>2, <2>6 DEF View, Chain
    <2>9. \A f : Loc(m, f) => KeepsFile(m, x, f)
      BY <2>2, <2>6 DEF Same, KeepsFile, Loc, FileAt
    <2> QED BY <2>8, <2>9
  <1> QED BY <1>1, <1>2

LEMMA FlushBlock ==
    ASSUME NEW m, Shape(m), NEW f, Loc(m, f), NEW n \in Nat, NEW x, x = flush_block(m, f, n)
    PROVE  Calm(m, x) /\ KeepsFile(m, x, f)
  <1> DEFINE y == file_map_block(m, f, n, FALSE)
  <1>1. /\ y = file_map_block(m, f, n, FALSE)
        /\ x = IF OK(y) /\ y.r \in y.dirty THEN write_block(y, y.r) ELSE Ret(y, 0)
    BY DEF flush_block, flush_found
  <1> HIDE DEF y
  <1>2. Mapped(m, y, f, n, FALSE)  BY <1>1, FileMapBlock
  <1>3. Calm(m, y) /\ KeepsFile(m, y, f) /\ Shape(y)
    BY <1>2, CalmFacts DEF Mapped, Calm, Works, Steps
  <1>4. CASE OK(y) /\ y.r \in y.dirty
    <2> PICK b : b = y.r  OBVIOUS
    <2>1. x = write_block(y, b) /\ b \in Block /\ y.blk[b] # NULL
      BY <1>1, <1>3, <1>4 DEF Shape, Formed
    <2>2. /\ Shape(x) /\ x.disk = y.disk /\ x.blk = y.blk /\ x.health = y.health
          /\ Mem(x) = Mem(y) /\ Free(x) = Free(y)
      BY <1>3, <2>1, WriteBlock
    <2>3. Calm(y, x)
      <3>1. Steps(y, x) /\ SameView(y, x)  BY <2>2, SameMemView DEF Steps
      <3> QED BY <1>3, <2>2, <3>1, SameViewSafe DEF Calm
    <2>4. KeepsFile(y, x, f)  BY <1>3, <2>2 DEF KeepsFile, Loc, FileAt
    <2> QED BY <1>3, <2>3, <2>4, CalmFacts, SameFileFacts
  <1>5. CASE ~(OK(y) /\ y.r \in y.dirty)
    <2>1. x = Ret(y, 0)  BY <1>1, <1>5
    <2>2. Calm(y, x)  BY <2>1, <1>3, CalmFacts
    <2>3. KeepsFile(y, x, f)  BY <2>1, <1>3, AnswerChain DEF KeepsFile
    <2> QED BY <1>3, <2>2, <2>3, CalmFacts, SameFileFacts
  <1> QED BY <1>4, <1>5

LEMMA FileFlush ==
    ASSUME NEW m, Shape(m), NEW f, Loc(m, f), NEW x, x = file_flush(m, f)
    PROVE  Calm(m, x) /\ KeepsFile(m, x, f)
  <1> DEFINE size == FileAt(m, f).size
  <1>1. size \in Nat
    <2>1. FileAt(m, f) \in FileRec  BY LocFacts
    <2>2. size \in 0 .. NINDIRECT + 1  BY <2>1, RecFacts
    <2> QED BY <2>2, Sizes
  <1>2. PICK y : /\ file_flush(m, f) = y[size] /\ y[0] = m
                 /\ \A n \in 0 .. size - 1 : y[n + 1] = flush_block(y[n], f, n)
    BY <1>1, FlushLoop
  <1> HIDE DEF size
  <1> DEFINE S == {n \in Nat : Calm(m, y[n]) /\ KeepsFile(m, y[n], f)}
  <1>3. 0 \in S  BY <1>2, CalmFacts DEF KeepsFile
  <1>4. ASSUME NEW n \in 0 .. size - 1, n \in S PROVE n + 1 \in S
    <2>1. Calm(m, y[n]) /\ KeepsFile(m, y[n], f) /\ n \in Nat  BY <1>4
    <2>2. Shape(y[n]) /\ Loc(y[n], f)  BY <2>1 DEF Calm, Works, Steps, KeepsFile
    <2>3. y[n + 1] = flush_block(y[n], f, n)  BY <1>2
    <2>4. Calm(y[n], y[n + 1]) /\ KeepsFile(y[n], y[n + 1], f)  BY <2>1, <2>2, <2>3, FlushBlock
    <2>5. Calm(m, y[n + 1]) /\ KeepsFile(m, y[n + 1], f)
      BY <2>1, <2>4, CalmFacts, SameFileFacts
    <2> QED BY <2>1, <2>5
  <1> HIDE DEF S
  <1>5. \A n \in 0 .. size : n \in S  BY <1>1, <1>3, <1>4, Induction
  <1>6. size \in S  BY <1>1, <1>5
  <1> QED BY <1>2, <1>6 DEF S

LEMMA FsSync ==
    ASSUME NEW m, Shape(m), NEW x, x = fs_sync(m)
    PROVE  Calm(m, x)
  <1>1. PICK y : /\ fs_sync(m) = y[NBLOCK] /\ y[0] = m
                 /\ \A n \in 0 .. NBLOCK - 1 : y[n + 1] = sync_block(y[n], n)
    BY SyncLoop
  <1> DEFINE S == {n \in Nat : Calm(m, y[n])}
  <1>2. 0 \in S  BY <1>1, CalmFacts
  <1>3. ASSUME NEW n \in 0 .. NBLOCK - 1, n \in S PROVE n + 1 \in S
    <2>1. Calm(m, y[n]) /\ Shape(y[n]) /\ n \in Nat  BY <1>3 DEF Calm, Works, Steps
    <2> PICK a, b : a = y[n] /\ b = y[n + 1]  OBVIOUS
    <2>2. b = IF n \in a.dirty THEN write_block(a, n) ELSE a  BY <1>1 DEF sync_block
    <2>3. CASE n \in a.dirty
      <3>1. b = write_block(a, n) /\ n \in Block /\ a.blk[n] # NULL /\ Shape(a)
        BY <2>1, <2>2, <2>3 DEF Shape, Formed
      <3>2. /\ Shape(b) /\ b.disk = a.disk /\ b.blk = a.blk /\ b.health = a.health
            /\ Mem(b) = Mem(a) /\ Free(b) = Free(a)
        BY <3>1, WriteBlock
      <3>3. Steps(a, b) /\ SameView(a, b)  BY <3>2, SameMemView DEF Steps
      <3>4. Calm(a, b)  BY <2>1, <3>2, <3>3, SameViewSafe DEF Calm
      <3> QED BY <2>1, <3>4, CalmFacts
    <2>4. CASE n \notin a.dirty
      <3>1. y[n + 1] = y[n] /\ n + 1 \in Nat  BY <2>1, <2>2, <2>4
      <3> QED BY <2>1, <3>1
    <2> QED BY <2>3, <2>4
  <1> HIDE DEF S
  <1>4. \A n \in 0 .. NBLOCK : n \in S  BY <1>2, <1>3, Induction, Sizes
  <1>5. NBLOCK \in S  BY <1>4, Sizes
  <1> QED BY <1>1, <1>5 DEF S

LEMMA FileDirty ==
    ASSUME NEW m, Shape(m), NEW f, Loc(m, f), NEW n \in Nat, NEW x, x = file_dirty(m, f, n)
    PROVE  Calm(m, x)
  <1> DEFINE y == file_map_block(m, f, n, FALSE)
  <1>1. y = file_map_block(m, f, n, FALSE) /\ x = IF OK(y) THEN dirty_block(y, y.r) ELSE y
    BY DEF file_dirty, Then
  <1> HIDE DEF y
  <1>2. Mapped(m, y, f, n, FALSE)  BY <1>1, FileMapBlock
  <1>3. Calm(m, y) /\ Shape(y)
    BY <1>2, CalmFacts DEF Mapped, Calm, Works, Steps
  <1>4. CASE OK(y)
    <2>1. y.r \in Block  BY <1>2, <1>4, Sizes DEF Mapped
    <2>2. View(y, x)  BY <1>1, <1>3, <1>4, <2>1, DirtyBlock
    <2> QED BY <1>3, <2>2, CalmFacts
  <1>5. CASE ~OK(y)  BY <1>1, <1>3, <1>5
  <1> QED BY <1>4, <1>5

\* The end of a request.
LEMMA FlushDirOK ==
    ASSUME NEW m, Shape(m), NEW dir \in FilePos \cup {NULL}, dir # NULL => m.blk[dir[1]] # NULL,
           NEW x, x = FlushDir(m, dir)
    PROVE  Calm(m, x)
  <1>1. CASE m.health = "ok" /\ stale(m, dir)
    <2>1. x = Sick(m, "stale")  BY <1>1 DEF FlushDir
    <2> QED BY <2>1, AnswerChain, CalmFacts
  <1>2. CASE ~(m.health = "ok" /\ stale(m, dir)) /\ m.health = "ok" /\ dir # NULL
    <2> DEFINE y == file_flush(m, dir)
    <2>1. x = Ret(y, 0) /\ y = file_flush(m, dir)  BY <1>2 DEF FlushDir
    <2> HIDE DEF y
    <2>2. Loc(m, dir)  BY <1>2 DEF stale, Loc
    <2>3. Calm(m, y)  BY <2>1, <2>2, FileFlush
    <2>4. Calm(y, x)  BY <2>1, <2>3, CalmFacts DEF Calm, Works, Steps
    <2> QED BY <2>3, <2>4, CalmFacts
  <1>3. CASE ~(m.health = "ok" /\ stale(m, dir)) /\ ~(m.health = "ok" /\ dir # NULL)
    <2>1. x = Ret(m, 0)  BY <1>3 DEF FlushDir
    <2> QED BY <2>1, CalmFacts
  <1> QED BY <1>1, <1>2, <1>3

-----------------------------------------------------------------------------
(* Files get shorter and longer *)

\* What file_clear_block leaves.
Cleared(m, x, f, n) ==
    /\ Chain(m, x) /\ SameFile(m, x, f)
    /\ OK(x) => /\ n \in Is /\ FileAt(x, f).indirect = FileAt(m, f).indirect
                /\ BlockAt(Mem(x), f[1], f[2], n) = 0
                /\ \A o \in Is : o # n => BlockAt(Mem(x), f[1], f[2], o) = BlockAt(Mem(m), f[1], f[2], o)

LEMMA FileClearBlock ==
    ASSUME NEW m, Shape(m), NEW f, Loc(m, f), NEW n \in Nat, NEW x, x = file_clear_block(m, f, n)
    PROVE  Cleared(m, x, f, n)
  <1> DEFINE w == file_block_walk(m, f, n, FALSE)
             p == Ptr(w, f, n)
             y == free_block(w, p)
             z == SetPtr(y, f, n, 0)
  <1>1. /\ w = file_block_walk(m, f, n, FALSE) /\ p = Ptr(w, f, n) /\ y = free_block(w, p)
        /\ z = SetPtr(y, f, n, 0) /\ x = IF OK(w) THEN Ret(z, 0) ELSE w
    BY DEF file_clear_block, Then
  <1> HIDE DEF w, p, y, z
  <1>2. Walked(m, w, f, n, FALSE)  BY <1>1, FileBlockWalk
  <1>3. View(m, w) /\ KeepsFile(m, w, f) /\ Chain(m, w) /\ Loc(w, f) /\ Shape(w)
    BY <1>2 DEF Walked, View, Chain, Works, Steps, KeepsFile
  <1>4. CASE ~OK(w)
    <2>1. x = w  BY <1>1, <1>4
    <2> QED BY <2>1, <1>3, <1>4, SameFileFacts DEF Cleared
  <1>5. CASE OK(w)
    <2>1. Reach(w, f, n) /\ n \in Is  BY <1>2, <1>5 DEF Walked, Reach
    <2>2. p = BlockAt(Mem(w), f[1], f[2], n) /\ p \in {0} \cup Data
      BY <1>1, <1>3, <2>1, PtrFacts
    <2>3. BitsSet(w, y, Free(w) \cup ({p} \ {0})) /\ Shape(y) /\ Steps(w, y)
      BY <1>1, <1>3, <2>2, FreeBlock
    <2>4. KeepsFile(w, y, f) /\ Loc(y, f) /\ SameView(w, y)
      BY <1>3, <2>3 DEF BitsSet, KeepsFile
    <2>5. Reach(y, f, n) /\ Ptr(y, f, n) = p
      <3>1. CASE n < NDIRECT
        <4>1. ~(n >= NDIRECT)  BY <3>1, <2>1, Sizes DEF Is
        <4> QED BY <3>1, <4>1, <1>1, <2>1, <2>4 DEF Reach, Ptr, KeepsFile
      <3>2. CASE ~(n < NDIRECT)
        <4> DEFINE i == FileAt(w, f).indirect
        <4>1. n >= NDIRECT  BY <3>2, <2>1, Sizes DEF Is
        <4>2. i \in Data /\ w.blk[i] # NULL /\ w.blk[i].kind = "index"  BY <4>1, <2>1 DEF Reach
        <4>3. FileAt(y, f).indirect = i  BY <2>4 DEF KeepsFile
        <4>4. p = w.blk[i].v[n]  BY <1>1, <3>2 DEF Ptr
        <4> HIDE DEF i
        <4>5. y.blk[i] = w.blk[i]  BY <4>2, <2>3, Sizes DEF BitsSet
        <4> QED BY <3>2, <4>2, <4>3, <4>4, <4>5, <2>1, <2>4 DEF Reach, Ptr
      <3> QED BY <3>1, <3>2
    <2>6. PtrSet(y, z, f, n, 0)
      <3>1. SureNow(y, 0)  BY <2>3, SureZero DEF SureNow, Shape
      <3> QED BY <3>1, <1>1, <2>3, <2>5, SetPtrOK
    <2>7. /\ Steps(w, z) /\ Shape(z) /\ z.health = w.health /\ z.err = w.err
          /\ Free(z) = Free(w) \cup ({p} \ {0}) /\ SameNames(w, z)
          /\ Loc(z, f) /\ SameFile(w, z, f) /\ FileAt(z, f).indirect = FileAt(w, f).indirect
      <3>1. Steps(w, z)  BY <2>3, <2>6, WorksTrans DEF PtrSet
      <3>2. SameNames(w, z)  BY <2>4, <2>6 DEF PtrSet, SameView, SameNames
      <3>3. SameFile(w, z, f) /\ FileAt(z, f).indirect = FileAt(w, f).indirect
        BY <2>4, <2>6, SameFileFacts DEF PtrSet, KeepsFile
      <3> QED BY <2>3, <2>6, <3>1, <3>2, <3>3 DEF PtrSet, BitsSet, Steps, SameFile
    <2>8. Safe(w, z)
      <3>1. PICK b, j, i : Placed(y, z, f, n, 0, b, j, i)  BY <2>6 DEF PtrSet
      <3>2. b \in Block /\ j \in Js /\ i \in Ns /\ PtrAt(Mem(z), b, j, i) = 0  BY <3>1 DEF Placed
      <3>3. PtrAt(Mem(w), b, j, i) = p  BY <3>1, <3>2, <2>4, <2>5 DEF Placed, SameView
      <3>4. \A c \in Block, k \in Js, o \in Ns :
               ~(c = b /\ k = j /\ o = i) => PtrAt(Mem(z), c, k, o) = PtrAt(Mem(w), c, k, o)
        BY <3>1, <2>4 DEF Placed, SameView
      <3> QED BY <1>3, <2>7, <3>2, <3>3, <3>4, UnlinkSafe
    <2>9. x = Ret(z, 0)  BY <1>1, <1>5
    <2>10. x.err = "OK" /\ x.health = z.health /\ Mem(x) = Mem(z)
      BY <2>7, <2>9, Answers, AnswerChain DEF Shape, Formed
    <2>11. Works(z, x) /\ KeepsFile(z, x, f)  BY <2>7, <2>9, AnswerWorks, AnswerChain
    <2>12. Chain(m, x)
      <3>1. Works(m, x)  BY <1>3, <2>7, <2>8, <2>11, WorksTrans DEF Chain, Works
      <3> QED BY <3>1, <1>5, <2>7, <2>10 DEF Chain, OK
    <2>13. SameFile(m, x, f) /\ FileAt(x, f).indirect = FileAt(m, f).indirect
      BY <1>3, <2>7, <2>11, SameFileFacts DEF KeepsFile
    <2>14. BlockAt(Mem(x), f[1], f[2], n) = 0  BY <2>6, <2>10 DEF PtrSet
    <2>15. ASSUME NEW o \in Is, o # n
           PROVE  BlockAt(Mem(x), f[1], f[2], o) = BlockAt(Mem(m), f[1], f[2], o)
      <3>1. f[1] \in Block /\ f[2] \in Js  BY LocFacts
      <3>2. BlockAt(Mem(w), f[1], f[2], o) = BlockAt(Mem(m), f[1], f[2], o)
        BY <3>1, <1>3, SameBlocks DEF View
      <3>3. BlockAt(Mem(y), f[1], f[2], o) = BlockAt(Mem(w), f[1], f[2], o)
        BY <3>1, <1>3, <2>4, SameBlocks
      <3> QED BY <3>2, <3>3, <2>6, <2>10, <2>15 DEF PtrSet
    <2> QED BY <2>1, <2>12, <2>13, <2>14, <2>15 DEF Cleared
  <1> QED BY <1>4, <1>5

\* The blocks of f from size to n are cleared.
Emptied(m, x, f, size, n) ==
    /\ Works(m, x) /\ SameFile(m, x, f)
    /\ x.health = "ok" =>
          /\ FileAt(x, f).indirect = FileAt(m, f).indirect
          /\ \A o \in Is : BlockAt(Mem(x), f[1], f[2], o)
                               = IF size <= o /\ o < n THEN 0 ELSE BlockAt(Mem(m), f[1], f[2], o)

LEMMA ClearBlocks ==
    ASSUME NEW m, Shape(m), NEW f, Loc(m, f), NEW size \in Nat, size <= FileAt(m, f).size,
           NEW x, x = clear_blocks(m, f, size)
    PROVE  Emptied(m, x, f, size, FileAt(m, f).size)
  <1> DEFINE old == FileAt(m, f).size
  <1>1. old \in Nat
    <2>1. FileAt(m, f) \in FileRec  BY LocFacts
    <2>2. old \in 0 .. NINDIRECT + 1  BY <2>1, RecFacts
    <2> QED BY <2>2, Sizes
  <1>2. PICK y : /\ clear_blocks(m, f, size) = y[old] /\ y[size] = m
                 /\ \A n \in size .. old - 1 : y[n + 1] = clear_block(y[n], f, n)
    BY <1>1, ClearLoop
  <1>0. size <= old  OBVIOUS
  <1> HIDE DEF old
  <1> DEFINE S == {n \in Nat : Emptied(m, y[n], f, size, n)}
  <1>3. size \in S
    <2>1. Works(m, m) /\ SameFile(m, m, f)  BY AnswerWorks DEF SameFile
    <2>2. \A o \in Is : ~(size <= o /\ o < size)  BY DEF Is
    <2> QED BY <1>2, <2>1, <2>2 DEF Emptied
  <1>4. ASSUME NEW n \in size .. old - 1, n \in S PROVE n + 1 \in S
    <2>1. Emptied(m, y[n], f, size, n) /\ n \in Nat /\ size <= n  BY <1>4
    <2> PICK a, b, k : a = y[n] /\ b = y[n + 1] /\ k = n + 1  OBVIOUS
    <2>2. Emptied(m, a, f, size, n) /\ Shape(a) /\ Loc(a, f)
      BY <2>1 DEF Emptied, Works, Steps, SameFile
    <2> DEFINE c == file_clear_block(a, f, n)
    <2>3. c = file_clear_block(a, f, n) /\ b = IF OK(c) THEN c ELSE Sick(c, "panic")
      BY <1>2 DEF clear_block, panic_on
    <2> HIDE DEF c
    <2>4. Cleared(a, c, f, n)  BY <2>1, <2>2, <2>3, FileClearBlock
    <2>5. Shape(c) /\ Works(a, c) /\ SameFile(a, c, f)
      BY <2>4 DEF Cleared, Chain, Works, Steps
    <2>6. CASE ~OK(c)
      <3>1. b = Sick(c, "panic")  BY <2>3, <2>6
      <3>2. Works(c, b) /\ b.health # "ok" /\ SameFile(c, b, f)
        <4>1. IsState(c)  BY <2>5 DEF Shape, Formed
        <4>2. Loc(c, f)  BY <2>5 DEF SameFile
        <4> QED BY <3>1, <4>1, <4>2, <2>5, AnswerWorks, Answers, AnswerChain, SameFileFacts
      <3>3. Works(m, b) /\ SameFile(m, b, f)
        BY <2>2, <2>5, <3>2, WorksTrans, SameFileFacts DEF Emptied
      <3> QED BY <3>2, <3>3, <2>1 DEF Emptied
    <2>7. CASE OK(c)
      <3>1. b = c  BY <2>3, <2>7
      <3>2. Works(m, b) /\ SameFile(m, b, f)
        BY <2>2, <2>5, <3>1, WorksTrans, SameFileFacts DEF Emptied
      <3>3. a.health = "ok"  BY <2>5, <2>7 DEF Works, Steps, OK
      <3>4. FileAt(b, f).indirect = FileAt(m, f).indirect
        BY <2>2, <2>4, <2>7, <3>1, <3>3 DEF Emptied, Cleared
      <3>5. ASSUME NEW o \in Is
            PROVE  BlockAt(Mem(b), f[1], f[2], o)
                       = IF size <= o /\ o < k THEN 0 ELSE BlockAt(Mem(m), f[1], f[2], o)
        <4>1. o \in Nat /\ k = n + 1  BY DEF Is
        <4>2. CASE o = n
          <5>1. BlockAt(Mem(b), f[1], f[2], o) = 0  BY <4>2, <2>4, <2>7, <3>1 DEF Cleared
          <5>2. size <= o /\ o < k  BY <4>1, <4>2, <2>1
          <5> QED BY <5>1, <5>2
        <4>3. CASE o # n
          <5>1. BlockAt(Mem(b), f[1], f[2], o) = BlockAt(Mem(a), f[1], f[2], o)
            BY <4>3, <2>4, <2>7, <3>1 DEF Cleared
          <5>2. o < k <=> o < n  BY <4>1, <4>3, <2>1
          <5> QED BY <5>1, <5>2, <2>2, <3>3 DEF Emptied
        <4> QED BY <4>2, <4>3
      <3>6. Emptied(m, b, f, size, k) /\ k \in Nat  BY <2>1, <3>2, <3>4, <3>5 DEF Emptied
      <3> QED BY <3>6
    <2> QED BY <2>6, <2>7
  <1> HIDE DEF S
  <1>5. \A n \in size .. old : n \in S  BY <1>1, <1>3, <1>4, Induction
  <1>6. old \in S  BY <1>0, <1>1, <1>5
  <1> QED BY <1>2, <1>6 DEF S, old

\* Blocks and names agree before, and so they do after.
Sound(m, x) ==
    /\ Steps(m, x)
    /\ x.health = "ok" /\ Owned(Mem(m), Free(m)) => Owned(Mem(x), Free(x))

LEMMA SoundFacts ==
    /\ \A m, x : Works(m, x) => Sound(m, x)
    /\ \A m, x, y : Sound(m, x) /\ Sound(x, y) => Sound(m, y)
  <1>1. ASSUME NEW m, NEW x, Works(m, x) PROVE Sound(m, x)
    BY <1>1, OwnedParts, KeepsNames DEF Works, Safe, Sound
  <1>2. ASSUME NEW m, NEW x, NEW y, Sound(m, x), Sound(x, y) PROVE Sound(m, y)
    BY <1>2, WorksTrans DEF Sound, Steps
  <1> QED BY <1>1, <1>2

\* One file gets another size; what is past it has no names.
LEMMA SizeNames ==
    ASSUME NEW m, NEW x, NamesOK(Mem(m)), NEW f, f[1] \in Block, f[2] \in Fs,
           \A b \in Block, j, k \in Fs, n \in Is :
               NameIn(Mem(x), b, j, n, k) \in {NameIn(Mem(m), b, j, n, k), NULL},
           \A b \in Block, j \in Fs : ~(b = f[1] /\ j = f[2]) => SizeAt(Mem(x), b, j) = SizeAt(Mem(m), b, j),
           \A n \in Is, k \in Fs :
               n >= SizeAt(Mem(x), f[1], f[2]) => NameIn(Mem(x), f[1], f[2], n, k) = NULL
    PROVE  NamesOK(Mem(x))
  <1>1. ASSUME NEW b \in Block, NEW j \in Fs, NEW k \in Fs, NEW l \in Fs, NEW n \in Is, NEW i \in Is,
               NameIn(Mem(x), b, j, n, k) # NULL,
               NameIn(Mem(x), b, j, n, k) = NameIn(Mem(x), b, j, i, l)
        PROVE  n = i /\ k = l
    <2>1. /\ NameIn(Mem(x), b, j, n, k) = NameIn(Mem(m), b, j, n, k)
          /\ NameIn(Mem(x), b, j, i, l) = NameIn(Mem(m), b, j, i, l)
      BY <1>1
    <2> QED BY <2>1, <1>1 DEF NamesOK
  <1>2. ASSUME NEW b \in Block, NEW j \in Fs, NEW k \in Fs, NEW n \in Is, n >= SizeAt(Mem(x), b, j)
        PROVE  NameIn(Mem(x), b, j, n, k) = NULL
    <2>1. CASE b = f[1] /\ j = f[2]  BY <2>1, <1>2
    <2>2. CASE ~(b = f[1] /\ j = f[2])
      <3>1. NameIn(Mem(m), b, j, n, k) = NULL  BY <2>2, <1>2 DEF NamesOK
      <3> QED BY <3>1
    <2> QED BY <2>1, <2>2
  <1> QED BY <1>1, <1>2 DEF NamesOK

\* Block 0 has no files.
LEMMA NoName0 ==
    ASSUME NEW m, Shape(m)
    PROVE  /\ \A k \in Fs : NameAt(Mem(m), 0, k) = NULL
           /\ \A j \in Js, n \in Ns : PtrAt(Mem(m), 0, j, n) = 0
  <1>1. Fits(0, Mem(m)[0]) /\ 0 \in Block  BY MemFits, Sizes DEF Shape, AllFit
  <1>2. /\ \A j \in Js, n \in Ns : PtrAt(Mem(m), 0, j, n) = 0
        /\ \A j \in Js : j \in Fs => NameAt(Mem(m), 0, j) = NULL
    BY <1>1, Nothing
  <1> QED BY <1>2 DEF Fs, Js

\* A File gets another name, size or type.
FieldSet(m, x, f, rec) ==
    /\ Steps(m, x) /\ Shape(x) /\ Free(x) = Free(m)
    /\ x.err = m.err /\ x.r = m.r /\ x.health = m.health
    /\ \A b \in Block, j \in Js, n \in Ns : PtrAt(Mem(x), b, j, n) = PtrAt(Mem(m), b, j, n)
    /\ \A b \in Block, j \in Js, n \in Is : BlockAt(Mem(x), b, j, n) = BlockAt(Mem(m), b, j, n)
    /\ SizeAt(Mem(x), f[1], f[2]) = rec.size
    /\ NameAt(Mem(x), f[1], f[2]) = IF m.blk[f[1]].kind = "dir" THEN rec.name ELSE NULL
    /\ \A b \in Block, j \in Js : ~(b = f[1] /\ j = f[2]) =>
          /\ SizeAt(Mem(x), b, j) = SizeAt(Mem(m), b, j)
          /\ j \in Fs => NameAt(Mem(x), b, j) = NameAt(Mem(m), b, j)
    /\ FileAt(x, f) = rec
    /\ \A g : Loc(m, g) => Loc(x, g) /\ (g # f => FileAt(x, g) = FileAt(m, g))
    /\ \A a \in Block : m.blk[a] # NULL => x.blk[a].kind = m.blk[a].kind

LEMMA SetField ==
    ASSUME NEW m, Shape(m), NEW f, Loc(m, f), NEW rec \in FileRec,
           rec.direct = FileAt(m, f).direct, rec.indirect = FileAt(m, f).indirect,
           NEW x, x = SetFile(m, f, rec)
    PROVE  FieldSet(m, x, f, rec)
  <1>1. /\ Shape(x) /\ Steps(m, x)
        /\ x.err = m.err /\ x.r = m.r /\ x.health = m.health /\ Free(x) = Free(m)
        /\ \A a \in Block : a # f[1] => x.blk[a] = m.blk[a]
        /\ x.blk[f[1]].kind = m.blk[f[1]].kind /\ FileAt(x, f) = rec
        /\ \A g : Loc(m, g) => Loc(x, g) /\ (g # f => FileAt(x, g) = FileAt(m, g))
        /\ RecSet(m, x, f, rec)
    <2>1. SureRec(m, rec)  BY SureFile DEF SureRec
    <2> QED BY <2>1, SetFileOK
  <1>2. /\ f[1] \in Block /\ f[2] \in Js /\ Mem(m)[f[1]] = m.blk[f[1]]
        /\ m.blk[f[1]].kind \in {"dir", "super"} /\ f[2] \in DOMAIN m.blk[f[1]].v
        /\ PtrAt(Mem(m), f[1], f[2], NINDIRECT) = FileAt(m, f).indirect
        /\ \A n \in 0 .. NDIRECT - 1 : PtrAt(Mem(m), f[1], f[2], n) = FileAt(m, f).direct[n]
    BY LocFacts DEF Loc
  <1>3. ASSUME NEW n \in Ns PROVE PtrAt(Mem(x), f[1], f[2], n) = PtrAt(Mem(m), f[1], f[2], n)
    <2>1. CASE n < NDIRECT
      <3>1. n \in 0 .. NDIRECT - 1  BY <2>1, Sizes DEF Ns
      <3> QED BY <2>1, <3>1, <1>1, <1>2 DEF RecSet
    <2>2. CASE ~(n < NDIRECT) /\ n # NINDIRECT
      <3>1. PtrAt(Mem(m), f[1], f[2], n) = 0  BY <2>2, <1>2 DEF PtrAt
      <3> QED BY <2>2, <3>1, <1>1 DEF RecSet
    <2>3. CASE n = NINDIRECT
      <3>1. ~(NINDIRECT < NDIRECT)  BY Sizes
      <3> QED BY <2>3, <3>1, <1>1, <1>2 DEF RecSet
    <2> QED BY <2>1, <2>2, <2>3
  <1>4. \A b \in Block, j \in Js, n \in Ns : PtrAt(Mem(x), b, j, n) = PtrAt(Mem(m), b, j, n)
    BY <1>1, <1>3 DEF RecSet
  <1>5. ASSUME NEW b \in Block, NEW j \in Js, NEW n \in Is
        PROVE  BlockAt(Mem(x), b, j, n) = BlockAt(Mem(m), b, j, n)
    <2>1. AllFit(Mem(m))  BY MemFits DEF Shape
    <2>2. n \in Ns /\ NINDIRECT \in Ns /\ 0 \in Js  BY Sizes DEF Is, Ns, Js
    <2>3. PICK i : i = PtrAt(Mem(m), b, j, NINDIRECT)  OBVIOUS
    <2>4. i \in Block /\ i = PtrAt(Mem(x), b, j, NINDIRECT)  BY <2>1, <2>2, <2>3, <1>4, ViewTypes
    <2>5. PtrAt(Mem(x), i, 0, n) = PtrAt(Mem(m), i, 0, n)  BY <2>2, <2>4, <1>4
    <2> QED BY <2>2, <2>3, <2>4, <2>5, <1>4 DEF BlockAt
  <1>6. \A a \in Block : m.blk[a] # NULL => x.blk[a].kind = m.blk[a].kind  BY <1>1
  <1> QED BY <1>1, <1>4, <1>5, <1>6 DEF FieldSet, RecSet

\* The pointers stay, so do the blocks.
LEMMA FieldPtrs ==
    ASSUME NEW m, Shape(m), NEW x, NEW f, NEW rec, FieldSet(m, x, f, rec), PtrsOK(Mem(m), Free(m))
    PROVE  PtrsOK(Mem(x), Free(x))
  <1>1. 0 \notin Free(m)  BY MemFits DEF Shape
  <1>2. \A b \in Block, j \in Js, n \in Ns : PtrAt(Mem(x), b, j, n) = PtrAt(Mem(m), b, j, n)
    BY DEF FieldSet
  <1>3. Free(x) \subseteq Free(m) /\ 0 \notin Free(x)  BY <1>1 DEF FieldSet
  <1> QED BY <1>2, <1>3, PtrsShrink

\* The names stay where only a size or a type changes.
LEMMA FieldNames ==
    ASSUME NEW m, Shape(m), NEW f, Loc(m, f), NEW x, NEW rec, FieldSet(m, x, f, rec),
           rec.name = FileAt(m, f).name
    PROVE  \A b \in Block, j \in Fs, n \in Is, k \in Fs :
               NameIn(Mem(x), b, j, n, k) = NameIn(Mem(m), b, j, n, k)
  <1>1. f[1] \in Block /\ f[2] \in Fs /\ f[2] \in Js  BY LocFacts
  <1>2. \A k \in Fs : k \in Js  BY DEF Fs, Js
  <1>3. \A b \in Block, k \in Fs : NameAt(Mem(x), b, k) = NameAt(Mem(m), b, k)
    <2>1. NameAt(Mem(x), f[1], f[2]) = NameAt(Mem(m), f[1], f[2])
      <3>1. CASE m.blk[f[1]].kind = "dir"
        <4>1. NameAt(Mem(m), f[1], f[2]) = FileAt(m, f).name  BY <3>1, LocFacts
        <4> QED BY <4>1, <3>1 DEF FieldSet
      <3>2. CASE m.blk[f[1]].kind # "dir"
        <4>1. Mem(m)[f[1]] = m.blk[f[1]]  BY LocFacts
        <4>2. NameAt(Mem(m), f[1], f[2]) = NULL  BY <4>1, <3>2 DEF NameAt
        <4> QED BY <4>2, <3>2 DEF FieldSet
      <3> QED BY <3>1, <3>2
    <2> QED BY <2>1, <1>2 DEF FieldSet
  <1> TAKE b \in Block, j \in Fs, n \in Is, k \in Fs
  <1>4. PICK p : p = BlockAt(Mem(m), b, j, n)  OBVIOUS
  <1>5. p \in Block
    <2>1. SameView(m, m) /\ j \in Js  BY <1>2 DEF SameView
    <2> QED BY <2>1, <1>4, SameBlocks, Sizes
  <1>6. BlockAt(Mem(x), b, j, n) = p  BY <1>2, <1>4 DEF FieldSet
  <1> QED BY <1>3, <1>4, <1>5, <1>6 DEF NameIn

\* A File gets another size; what it has past it has no names.
LEMMA SetSizeOK ==
    ASSUME NEW m, Shape(m), NEW f, Loc(m, f), NEW size \in 0 .. NINDIRECT + 1,
           NEW x, x = SetSize(m, f, size)
    PROVE  /\ \E rec \in FileRec : FieldSet(m, x, f, rec) /\ rec.size = size
                  /\ rec.name = FileAt(m, f).name /\ rec.type = FileAt(m, f).type
           /\ (Owned(Mem(m), Free(m)) =>
                  \A n \in Is, k \in Fs : n >= size => NameIn(Mem(m), f[1], f[2], n, k) = NULL)
                      => Sound(m, x)
  <1> DEFINE rec == [FileAt(m, f) EXCEPT !.size = size]
  <1>0. FileAt(m, f) \in FileRec  BY LocFacts
  <1>1. rec \in FileRec  BY <1>0, RecFacts
  <1>2. /\ rec.direct = FileAt(m, f).direct /\ rec.indirect = FileAt(m, f).indirect
        /\ rec.size = size /\ rec.name = FileAt(m, f).name /\ rec.type = FileAt(m, f).type
    BY <1>0 DEF FileRec
  <1>3. x = SetFile(m, f, rec)  BY DEF SetSize
  <1> HIDE DEF rec
  <1>4. FieldSet(m, x, f, rec)  BY <1>1, <1>2, <1>3, SetField
  <1>5. ASSUME Owned(Mem(m), Free(m)) =>
                  \A n \in Is, k \in Fs : n >= size => NameIn(Mem(m), f[1], f[2], n, k) = NULL,
               Owned(Mem(m), Free(m))
        PROVE  Owned(Mem(x), Free(x))
    <2>1. PtrsOK(Mem(x), Free(x))  BY <1>4, <1>5, FieldPtrs, OwnedParts
    <2>2. f[1] \in Block /\ f[2] \in Fs /\ f[2] \in Js  BY LocFacts
    <2>3. \A k \in Fs : k \in Js  BY DEF Fs, Js
    <2>5. \A b \in Block, j \in Fs, n \in Is, k \in Fs :
             NameIn(Mem(x), b, j, n, k) = NameIn(Mem(m), b, j, n, k)
      BY <1>2, <1>4, FieldNames
    <2>6. SizeAt(Mem(x), f[1], f[2]) = size  BY <1>2, <1>4 DEF FieldSet
    <2>7. \A b \in Block, j \in Fs :
             ~(b = f[1] /\ j = f[2]) => SizeAt(Mem(x), b, j) = SizeAt(Mem(m), b, j)
      BY <2>3, <1>4 DEF FieldSet
    <2>8. \A n \in Is, k \in Fs :
             n >= SizeAt(Mem(x), f[1], f[2]) => NameIn(Mem(x), f[1], f[2], n, k) = NULL
      BY <2>2, <2>5, <2>6, <1>5
    <2>9. \A b \in Block, j, k \in Fs, n \in Is :
             NameIn(Mem(x), b, j, n, k) \in {NameIn(Mem(m), b, j, n, k), NULL}
      BY <2>5
    <2>10. NamesOK(Mem(x))  BY <1>5, <2>2, <2>7, <2>8, <2>9, SizeNames, OwnedParts
    <2> QED BY <2>1, <2>10, OwnedParts
  <1> QED BY <1>1, <1>2, <1>4, <1>5 DEF Sound, FieldSet

\* What is left of a file that was made shorter.
LEMMA FileTruncate ==
    ASSUME NEW m, Shape(m), NEW f, Loc(m, f), NEW size \in 0 .. NINDIRECT + 1,
           size <= FileAt(m, f).size, NEW x, x = file_truncate(m, f, size)
    PROVE  /\ Sound(m, x) /\ Loc(x, f)
           /\ FileAt(x, f).size = size /\ FileAt(x, f).name = FileAt(m, f).name
  <1> DEFINE c == clear_blocks(m, f, size)
             rec == FileAt(c, f)
             given == free_block(c, rec.indirect)
             old == FileAt(m, f).size
  <1>1. x = IF size > NDIRECT \/ c.health # "ok" THEN SetSize(c, f, size)
            ELSE SetFile(given, f, [rec EXCEPT !.size = size, !.indirect = 0])
    BY DEF file_truncate, shorten
  <1>2. /\ c = clear_blocks(m, f, size) /\ rec = FileAt(c, f) /\ given = free_block(c, rec.indirect)
        /\ old = FileAt(m, f).size
    OBVIOUS
  <1> HIDE DEF c, rec, given, old
  <1>3. size \in Nat /\ NINDIRECT \in Nat /\ NDIRECT \in Nat  BY Sizes
  <1>4. Emptied(m, c, f, size, old)  BY <1>2, <1>3, ClearBlocks
  <1>5. /\ Shape(c) /\ Loc(c, f) /\ Works(m, c) /\ rec \in FileRec
        /\ rec.size = old /\ rec.name = FileAt(m, f).name
    BY <1>2, <1>4, LocFacts DEF Emptied, Works, Steps, SameFile
  <1>6. /\ f[1] \in Block /\ f[2] \in Fs /\ f[2] \in Js /\ SizeAt(Mem(c), f[1], f[2]) = old
        /\ Mem(c)[f[1]] = c.blk[f[1]] /\ f[1] # BITMAP
        /\ c.blk[f[1]].kind \in {"dir", "super"} /\ f[2] \in DOMAIN c.blk[f[1]].v
        /\ PtrAt(Mem(c), f[1], f[2], NINDIRECT) = rec.indirect
        /\ \A n \in 0 .. NDIRECT - 1 : PtrAt(Mem(c), f[1], f[2], n) = rec.direct[n]
    BY <1>2, <1>5, LocFacts DEF Loc
  <1>7. old \in Nat
    <2>1. old \in 0 .. NINDIRECT + 1  BY <1>5, RecFacts
    <2> QED BY <2>1, <1>3
  <1>8. ASSUME c.health = "ok", NamesOK(Mem(c)), NEW n \in Is, NEW k \in Fs, n >= size
        PROVE  NameIn(Mem(c), f[1], f[2], n, k) = NULL
    <2>1. CASE n < old
      <3>1. BlockAt(Mem(c), f[1], f[2], n) = 0  BY <2>1, <1>4, <1>8 DEF Emptied
      <3> QED BY <3>1, <1>5, NoName0 DEF NameIn
    <2>2. CASE ~(n < old)
      <3>1. n >= old  BY <2>2, <1>7 DEF Is
      <3> QED BY <3>1, <1>6, <1>8 DEF NamesOK
    <2> QED BY <2>1, <2>2
  <1>9. CASE size > NDIRECT \/ c.health # "ok"
    <2>1. x = SetSize(c, f, size)  BY <1>1, <1>9
    <2>2. /\ \E r \in FileRec : FieldSet(c, x, f, r) /\ r.size = size
                  /\ r.name = FileAt(c, f).name /\ r.type = FileAt(c, f).type
          /\ (Owned(Mem(c), Free(c)) =>
                  \A n \in Is, k \in Fs : n >= size => NameIn(Mem(c), f[1], f[2], n, k) = NULL)
                      => Sound(c, x)
      BY <2>1, <1>5, SetSizeOK
    <2>3. PICK r \in FileRec : FieldSet(c, x, f, r) /\ r.size = size /\ r.name = FileAt(c, f).name
      BY <2>2
    <2>4. Loc(x, f) /\ FileAt(x, f).size = size /\ FileAt(x, f).name = FileAt(m, f).name
      BY <2>3, <1>2, <1>5 DEF FieldSet
    <2>5. Sound(m, x)
      <3>1. Sound(m, c)  BY <1>5, SoundFacts
      <3>2. CASE c.health = "ok"
        <4>1. Sound(c, x)  BY <1>8, <2>2, <3>2, OwnedParts
        <4> QED BY <3>1, <4>1, SoundFacts
      <3>3. CASE c.health # "ok"
        <4>1. Steps(c, x) /\ x.health # "ok"  BY <2>3, <3>3 DEF FieldSet
        <4> QED BY <4>1, <1>5, WorksTrans DEF Sound, Works
      <3> QED BY <3>2, <3>3
    <2> QED BY <2>4, <2>5
  <1>10. CASE ~(size > NDIRECT \/ c.health # "ok")
    <2> DEFINE rec2 == [rec EXCEPT !.size = size, !.indirect = 0]
    <2>1. x = SetFile(given, f, rec2)  BY <1>1, <1>10
    <2>2. rec2 \in FileRec  BY <1>5, RecFacts
    <2>3. /\ rec2.direct = rec.direct /\ rec2.indirect = 0 /\ rec2.size = size
          /\ rec2.name = rec.name
      BY <1>5 DEF FileRec
    <2> HIDE DEF rec2
    <2>4. rec.indirect \in {0} \cup Data  BY <1>5, RecFacts
    <2>5. BitsSet(c, given, Free(c) \cup ({rec.indirect} \ {0})) /\ Shape(given) /\ Steps(c, given)
      BY <1>2, <1>5, <2>4, FreeBlock
    <2>6. KeepsFile(c, given, f) /\ SameView(c, given) /\ Loc(given, f)
      BY <1>5, <2>5 DEF BitsSet, KeepsFile
    <2>7. /\ Shape(x) /\ Steps(given, x) /\ x.health = given.health /\ Free(x) = Free(given)
          /\ FileAt(x, f) = rec2 /\ Loc(x, f) /\ RecSet(given, x, f, rec2)
      <3>1. SureRec(given, rec2)
        <4>1. FileAt(given, f).direct = rec2.direct  BY <1>2, <2>3, <2>6 DEF KeepsFile
        <4>2. SureRec(given, FileAt(given, f))  BY <2>5, <2>6, SureFile
        <4>3. SureNow(given, 0)  BY <2>5, SureZero DEF SureNow, Shape
        <4> QED BY <4>1, <4>2, <4>3, <2>3 DEF SureRec
      <3> QED BY <3>1, <2>1, <2>2, <2>5, <2>6, SetFileOK
    <2>8. Steps(m, x)  BY <1>5, <2>5, <2>7, WorksTrans DEF Works
    <2>9. FileAt(x, f).size = size /\ FileAt(x, f).name = FileAt(m, f).name
      BY <2>3, <2>7, <1>5
    <2>10. ASSUME NEW n \in Ns, n # NINDIRECT
           PROVE  PtrAt(Mem(x), f[1], f[2], n) = PtrAt(Mem(c), f[1], f[2], n)
      <3>1. CASE n < NDIRECT
        <4>1. n \in 0 .. NDIRECT - 1  BY <3>1, <1>3 DEF Ns
        <4> QED BY <3>1, <4>1, <1>6, <2>3, <2>7 DEF RecSet
      <3>2. CASE ~(n < NDIRECT)
        <4>1. PtrAt(Mem(c), f[1], f[2], n) = 0  BY <3>2, <1>6, <2>10 DEF PtrAt
        <4> QED BY <3>2, <4>1, <2>7, <2>10 DEF RecSet
      <3> QED BY <3>1, <3>2
    <2>11. PtrAt(Mem(x), f[1], f[2], NINDIRECT) = 0
      <3>1. NINDIRECT \in Ns /\ ~(NINDIRECT < NDIRECT)  BY Sizes DEF Ns
      <3> QED BY <3>1, <2>3, <2>7 DEF RecSet
    <2>12. \A a \in Block, j \in Js, n \in Ns :
              ~(a = f[1] /\ j = f[2] /\ n = NINDIRECT) => PtrAt(Mem(x), a, j, n) = PtrAt(Mem(c), a, j, n)
      BY <2>6, <2>7, <2>10 DEF RecSet, SameView
    <2>13. ASSUME PtrsOK(Mem(c), Free(c)) PROVE PtrsOK(Mem(x), Free(x))
      <3>1. 0 \notin Free(x)  BY <2>7, MemFits DEF Shape
      <3>2. Free(x) \subseteq Free(c) \cup {PtrAt(Mem(c), f[1], f[2], NINDIRECT)}
        BY <1>6, <2>5, <2>7 DEF BitsSet
      <3>3. NINDIRECT \in Ns  BY Sizes DEF Ns
      <3> QED BY <3>1, <3>2, <3>3, <1>6, <2>11, <2>12, <2>13, PtrsUnlink
    <2>14. \A k \in Fs : k \in Js  BY DEF Fs, Js
    <2>15. \A a \in Block, k \in Fs : NameAt(Mem(x), a, k) = NameAt(Mem(c), a, k)
      <3>1. NameAt(Mem(x), f[1], f[2]) = NameAt(Mem(c), f[1], f[2])
        <4>1. given.blk[f[1]] = c.blk[f[1]]  BY <1>6, <2>5 DEF BitsSet
        <4>2. CASE c.blk[f[1]].kind = "dir"
          <5>1. NameAt(Mem(c), f[1], f[2]) = FileAt(c, f).name  BY <1>5, <4>2, LocFacts
          <5> QED BY <5>1, <4>1, <4>2, <1>2, <2>3, <2>7 DEF RecSet
        <4>3. CASE c.blk[f[1]].kind # "dir"
          <5>1. NameAt(Mem(c), f[1], f[2]) = NULL  BY <1>6, <4>3 DEF NameAt
          <5> QED BY <5>1, <4>1, <4>3, <2>7 DEF RecSet
        <4> QED BY <4>2, <4>3
      <3> QED BY <3>1, <2>6, <2>7, <2>14 DEF RecSet, SameView
    <2>16. ASSUME NEW a \in Block, NEW j \in Fs, NEW n \in Is, NEW k \in Fs
           PROVE  /\ NameIn(Mem(x), a, j, n, k) \in {NameIn(Mem(c), a, j, n, k), NULL}
      <3>1. n \in Ns /\ NINDIRECT \in Ns /\ 0 \in Js /\ n # NINDIRECT /\ j \in Js /\ f[2] # 0
        BY <1>6, <2>14, Sizes DEF Is, Ns, Js, Fs
      <3>2. PICK p : p = BlockAt(Mem(c), a, j, n)  OBVIOUS
      <3>3. p \in Block
        <4>1. SameView(c, c)  BY DEF SameView
        <4> QED BY <3>1, <3>2, <4>1, <1>5, SameBlocks, Sizes
      <3>4. BlockAt(Mem(x), a, j, n) \in {p, 0}
        <4>1. CASE n < NDIRECT  BY <3>1, <3>2, <4>1, <2>12 DEF BlockAt
        <4>2. CASE ~(n < NDIRECT) /\ a = f[1] /\ j = f[2]
          <5>1. PtrAt(Mem(x), 0, 0, n) = 0  BY <3>1, <2>7, NoName0
          <5> QED BY <4>2, <5>1, <2>11 DEF BlockAt
        <4>3. CASE ~(n < NDIRECT) /\ ~(a = f[1] /\ j = f[2])
          <5>1. PICK i : i = PtrAt(Mem(c), a, j, NINDIRECT)  OBVIOUS
          <5>2. i \in Block
            <6>1. AllFit(Mem(c))  BY <1>5, MemFits DEF Shape
            <6> QED BY <6>1, <3>1, <5>1, ViewTypes
          <5>3. PtrAt(Mem(x), a, j, NINDIRECT) = i  BY <3>1, <4>3, <5>1, <2>12
          <5>4. PtrAt(Mem(x), i, 0, n) = PtrAt(Mem(c), i, 0, n)  BY <3>1, <5>2, <2>12
          <5> QED BY <3>2, <4>3, <5>1, <5>3, <5>4 DEF BlockAt
        <4> QED BY <4>1, <4>2, <4>3
      <3>5. NameAt(Mem(x), p, k) = NameAt(Mem(c), p, k) /\ NameAt(Mem(x), 0, k) = NULL
        BY <3>3, <2>7, <2>15, NoName0
      <3> QED BY <3>2, <3>4, <3>5 DEF NameIn
    <2>17. ASSUME NamesOK(Mem(c)) PROVE NamesOK(Mem(x))
      <3>1. SizeAt(Mem(x), f[1], f[2]) = size  BY <2>3, <2>7 DEF RecSet
      <3>2. \A a \in Block, j \in Fs :
               ~(a = f[1] /\ j = f[2]) => SizeAt(Mem(x), a, j) = SizeAt(Mem(c), a, j)
        BY <2>6, <2>7, <2>14 DEF RecSet, SameView
      <3>3. \A n \in Is, k \in Fs :
               n >= SizeAt(Mem(x), f[1], f[2]) => NameIn(Mem(x), f[1], f[2], n, k) = NULL
        <4> TAKE n \in Is, k \in Fs
        <4> HAVE n >= SizeAt(Mem(x), f[1], f[2])
        <4>1. NameIn(Mem(c), f[1], f[2], n, k) = NULL  BY <3>1, <1>8, <1>10, <2>17
        <4> QED BY <4>1, <1>6, <2>16
      <3>4. \A a \in Block, j, k \in Fs, n \in Is :
               NameIn(Mem(x), a, j, n, k) \in {NameIn(Mem(c), a, j, n, k), NULL}
        BY <2>16
      <3> QED BY <3>2, <3>3, <3>4, <1>6, <2>17, SizeNames
    <2>18. ASSUME x.health = "ok", Owned(Mem(m), Free(m)) PROVE Owned(Mem(x), Free(x))
      <3>1. c.health = "ok"  BY <1>10
      <3>2. Owned(Mem(c), Free(c))  BY <1>5, <2>18, <3>1, SoundFacts DEF Sound
      <3> QED BY <3>2, <2>13, <2>17, OwnedParts
    <2> QED BY <2>7, <2>8, <2>9, <2>18 DEF Sound
  <1> QED BY <1>9, <1>10

LEMMA FileSetSize ==
    ASSUME NEW m, Shape(m), NEW f, Loc(m, f), NEW size \in 0 .. NINDIRECT + 1,
           NEW dir \in FilePos \cup {NULL}, dir # NULL => m.blk[dir[1]] # NULL,
           NEW x, x = file_set_size(m, dir, f, size)
    PROVE  Sound(m, x)
  <1> DEFINE y == IF FileAt(m, f).size > size THEN file_truncate(m, f, size) ELSE SetSize(m, f, size)
             old == FileAt(m, f).size
  <1>1. x = FlushDir(y, dir) /\ y = IF old > size THEN file_truncate(m, f, size) ELSE SetSize(m, f, size)
    BY DEF file_set_size
  <1>2. old = FileAt(m, f).size  OBVIOUS
  <1> HIDE DEF y, old
  <1>3. size \in Nat /\ old \in Nat
    <2>1. FileAt(m, f) \in FileRec  BY LocFacts
    <2>2. old \in 0 .. NINDIRECT + 1  BY <2>1, <1>2, RecFacts
    <2> QED BY <2>2, Sizes
  <1>4. Sound(m, y)
    <2>1. CASE old > size
      <3>1. y = file_truncate(m, f, size) /\ size <= FileAt(m, f).size  BY <2>1, <1>1, <1>2, <1>3
      <3> QED BY <3>1, FileTruncate
    <2>2. CASE ~(old > size)
      <3>1. y = SetSize(m, f, size)  BY <2>2, <1>1
      <3>2. SizeAt(Mem(m), f[1], f[2]) = old /\ f[1] \in Block /\ f[2] \in Fs  BY <1>2, LocFacts
      <3>3. \A n \in Is : n >= size => n >= old  BY <2>2, <1>3 DEF Is
      <3>4. Owned(Mem(m), Free(m)) =>
               \A n \in Is, k \in Fs : n >= size => NameIn(Mem(m), f[1], f[2], n, k) = NULL
        BY <3>2, <3>3, OwnedParts DEF NamesOK
      <3> QED BY <3>1, <3>4, SetSizeOK
    <2> QED BY <2>1, <2>2
  <1>5. Shape(y) /\ (dir # NULL => y.blk[dir[1]] # NULL)
    <2>1. Shape(y)  BY <1>4 DEF Sound, Steps
    <2>2. ASSUME dir # NULL PROVE dir[1] \in Block
      <3>1. CASE dir \in Data \X (1 .. FILE2BLK)  BY <3>1, Sizes
      <3>2. CASE dir = ROOT  BY <3>2, Sizes DEF ROOT
      <3> QED BY <3>1, <3>2, <2>2 DEF FilePos
    <2> QED BY <2>1, <2>2, <1>4 DEF Sound, Steps
  <1>6. Calm(y, x)  BY <1>1, <1>5, FlushDirOK
  <1> QED BY <1>4, <1>6, SoundFacts DEF Calm

-----------------------------------------------------------------------------
(* Directories *)

\* No File of the first n blocks of dir has the name.
Absent(m, dir, name, n) ==
    \A o \in Is, k \in Fs : o < n => NameIn(Mem(m), dir[1], dir[2], o, k) # name
NoName(m, dir, name) == \A o \in Is, k \in Fs : NameIn(Mem(m), dir[1], dir[2], o, k) # name

LEMMA StillAbsent ==
    ASSUME NEW m, NEW x, Works(m, x), x.health = "ok", PtrsOK(Mem(m), Free(m)),
           NEW dir, dir[1] \in Block, dir[2] \in Fs, NEW name, name # NULL
    PROVE  /\ \A n : Absent(m, dir, name, n) => Absent(x, dir, name, n)
           /\ NoName(m, dir, name) => NoName(x, dir, name)
  <1>1. Keeps(Mem(m), Mem(x))  BY DEF Works, Safe
  <1> QED BY <1>1 DEF Keeps, Absent, NoName

\* The File r of the directory dir.
Inside(m, dir, r) ==
    /\ Loc(m, r) /\ r[1] \in Data /\ m.blk[r[1]].kind = "dir"
    /\ \E n \in Is : n < SizeAt(Mem(m), dir[1], dir[2]) /\ r[1] = BlockAt(Mem(m), dir[1], dir[2], n)

\* What is known when i blocks were searched.
Looked(m, x, dir, name, i) ==
    /\ Chain(m, x) /\ SameFile(m, x, dir)
    /\ x.err \in {"OK", "E_NOT_FOUND", "E_NO_DISK", "E_INVAL", "E_SICK"}
    /\ x.err = "OK" => Inside(x, dir, x.r)
    /\ x.err = "E_NOT_FOUND" => /\ i <= NINDIRECT
                                /\ PtrsOK(Mem(m), Free(m)) /\ name # NULL => Absent(x, dir, name, i)

LEMMA ChainOn ==
    ASSUME NEW m, NEW x, NEW y, Chain(m, x), x.health = "ok", Chain(x, y)
    PROVE  Chain(m, y)
  BY WorksTrans DEF Chain

LEMMA LookOK ==
    ASSUME NEW m, Shape(m), m.health = "ok", NEW dir, NEW name, NEW i \in Nat,
           NEW x, Looked(m, x, dir, name, i), i < FileAt(m, dir).size, FileAt(m, dir).size \in Nat,
           NEW y, y = look(x, dir, name, i)
    PROVE  Looked(m, y, dir, name, i + 1)
  <1> DEFINE d  == DirBlock(x, dir, i)
             at == {j \in 1 .. FILE2BLK : d.blk[d.r].v[j].name = name}
  <1>1. y = IF x.err # "E_NOT_FOUND" THEN x ELSE IF ~OK(d) THEN d
            ELSE IF at = {} THEN Err(d, "E_NOT_FOUND") ELSE Ret(d, <<d.r, Min(at)>>)
    BY DEF look, look_in, Then
  <1>2. d = DirBlock(x, dir, i) /\ at = {j \in 1 .. FILE2BLK : d.blk[d.r].v[j].name = name}
    OBVIOUS
  <1> HIDE DEF d, at
  <1>3. CASE x.err # "E_NOT_FOUND"
    <2>1. y = x  BY <1>1, <1>3
    <2> QED BY <2>1, <1>3 DEF Looked
  <1>4. CASE x.err = "E_NOT_FOUND"
    <2>1. /\ Chain(m, x) /\ x.health = "ok" /\ Shape(x) /\ Loc(x, dir) /\ i <= NINDIRECT
          /\ SameFile(m, x, dir)
      BY <1>4 DEF Looked, Chain, Works, Steps, SameFile
    <2>2. Mapped(x, d, dir, i, TRUE) /\ (OK(d) => d.blk[d.r] # NULL /\ d.blk[d.r].kind = "dir")
      BY <1>2, <2>1, DirBlockOK
    <2>3. /\ Chain(m, d) /\ SameFile(m, d, dir) /\ Shape(d) /\ Loc(d, dir) /\ Chain(x, d)
          /\ d.err \in {"OK", "E_NO_DISK", "E_INVAL", "E_SICK"}
      BY <2>1, <2>2, ChainOn, SameFileFacts DEF Mapped, Chain, Works, Steps, SameFile
    <2>4. CASE ~OK(d)
      <3>1. y = d  BY <1>1, <1>4, <2>4
      <3>2. d.err # "OK"  BY <2>1, <2>3, <2>4 DEF Chain, OK
      <3> QED BY <2>3, <3>1, <3>2 DEF Looked
    <2>5. CASE OK(d)
      <3> PICK b : b = d.r  OBVIOUS
      <3>1. /\ b \in Data /\ b = BlockAt(Mem(d), dir[1], dir[2], i) /\ i \in Is
            /\ d.blk[b] # NULL /\ d.blk[b].kind = "dir" /\ d.health = "ok" /\ b \in Block
        BY <2>2, <2>5, Sizes DEF Mapped, OK
      <3>2. Mem(d)[b] = d.blk[b] /\ Fits(b, d.blk[b])  BY <2>3, <3>1, MemFits DEF Shape
      <3>3. /\ dir[1] \in Block /\ dir[2] \in Fs
            /\ SizeAt(Mem(d), dir[1], dir[2]) = FileAt(m, dir).size
        BY <2>3, LocFacts DEF SameFile
      <3>4. i + 1 <= NINDIRECT  BY <3>1, Sizes DEF Is
      <3>5. CASE at = {}
        <4>1. y = Err(d, "E_NOT_FOUND")  BY <1>1, <1>4, <2>5, <3>5
        <4>2. View(d, y) /\ KeepsFile(d, y, dir) /\ Mem(y) = Mem(d) /\ y.err = "E_NOT_FOUND"
          BY <4>1, <2>3, <3>1, AnswerChain, ShapeAnswers
        <4>3. Chain(m, y) /\ SameFile(m, y, dir)
          BY <4>2, <2>3, <3>1, ChainOn, SameFileFacts DEF View
        <4>4. ASSUME PtrsOK(Mem(m), Free(m)), name # NULL PROVE Absent(y, dir, name, i + 1)
          <5>1. Absent(x, dir, name, i)  BY <4>4, <1>4 DEF Looked
          <5>2. PtrsOK(Mem(x), Free(x))  BY <4>4, <2>1 DEF Chain, Works, Safe
          <5>3. Absent(d, dir, name, i)
            BY <4>4, <5>1, <5>2, <2>3, <3>1, <3>3, StillAbsent DEF Chain
          <5>4. ASSUME NEW k \in Fs PROVE NameIn(Mem(d), dir[1], dir[2], i, k) # name
            <6>1. NameIn(Mem(d), dir[1], dir[2], i, k) = d.blk[b].v[k].name
              BY <3>1, <3>2 DEF NameIn, NameAt
            <6>2. k \notin at /\ k \in 1 .. FILE2BLK  BY <3>5 DEF Fs
            <6> QED BY <6>1, <6>2, <1>2
          <5>5. \A o \in Is : o < i + 1 => o < i \/ o = i  BY DEF Is
          <5> QED BY <5>3, <5>4, <5>5, <4>2 DEF Absent
        <4> QED BY <3>4, <4>2, <4>3, <4>4 DEF Looked
      <3>6. CASE at # {}
        <4> DEFINE j == Min(at)
        <4>1. j \in at
          <5>1. at \subseteq Nat  BY <1>2
          <5> QED BY <5>1, <3>6, MinIn
        <4>2. j \in 1 .. FILE2BLK  BY <4>1, <1>2
        <4>3. y = Ret(d, <<b, j>>)  BY <1>1, <1>4, <2>5, <3>6
        <4> HIDE DEF j
        <4>4. /\ View(d, y) /\ KeepsFile(d, y, dir) /\ Mem(y) = Mem(d) /\ y.err = "OK"
              /\ y.r = <<b, j>> /\ y.blk = d.blk
          BY <4>3, <2>3, <3>1, AnswerChain, ShapeAnswers DEF Same
        <4>5. Chain(m, y) /\ SameFile(m, y, dir)
          BY <4>4, <2>3, <3>1, ChainOn, SameFileFacts DEF View
        <4> PICK r : r = <<b, j>>  OBVIOUS
        <4>6. r[1] = b /\ r \in FilePos  BY <3>1, <4>2 DEF FilePos
        <4>7. Inside(y, dir, r)
          <5>1. Loc(y, r)  BY <4>4, <4>6, <3>1 DEF Loc
          <5> QED BY <5>1, <4>4, <4>6, <3>1, <3>3 DEF Inside
        <4> QED BY <4>4, <4>5, <4>7 DEF Looked
      <3> QED BY <3>5, <3>6
    <2> QED BY <2>4, <2>5
  <1> QED BY <1>3, <1>4

LEMMA ScanOK ==
    ASSUME NEW m, Shape(m), m.health = "ok", NEW dir, Loc(m, dir), NEW name,
           NEW x, x = Scan(m, dir, name)
    PROVE  Looked(m, x, dir, name, FileAt(m, dir).size)
  <1> DEFINE size == FileAt(m, dir).size
  <1>1. size \in Nat
    <2>1. FileAt(m, dir) \in FileRec  BY LocFacts
    <2>2. size \in 0 .. NINDIRECT + 1  BY <2>1, RecFacts
    <2> QED BY <2>2, Sizes
  <1>2. PICK y : /\ Scan(m, dir, name) = y[size] /\ y[0] = Err(m, "E_NOT_FOUND")
                 /\ \A n \in 0 .. size - 1 : y[n + 1] = look(y[n], dir, name, n)
    BY <1>1, ScanLoop
  <1>0. size = FileAt(m, dir).size  OBVIOUS
  <1> HIDE DEF size
  <1> DEFINE S == {n \in Nat : Looked(m, y[n], dir, name, n)}
  <1>3. 0 \in S
    <2> PICK a : a = y[0]  OBVIOUS
    <2>1. a = Err(m, "E_NOT_FOUND")  BY <1>2
    <2>2. View(m, a) /\ KeepsFile(m, a, dir) /\ a.err = "E_NOT_FOUND"
      BY <2>1, AnswerChain, ShapeAnswers
    <2>3. Absent(a, dir, name, 0)  BY DEF Absent, Is
    <2>4. Looked(m, a, dir, name, 0)  BY <2>2, <2>3, SameFileFacts, Sizes DEF Looked, View
    <2> QED BY <2>4
  <1>4. ASSUME NEW n \in 0 .. size - 1, n \in S PROVE n + 1 \in S
    <2>1. Looked(m, y[n], dir, name, n) /\ n \in Nat /\ n < size  BY <1>1, <1>4
    <2>2. y[n + 1] = look(y[n], dir, name, n)  BY <1>2
    <2>3. Looked(m, y[n + 1], dir, name, n + 1)  BY <1>0, <1>1, <2>1, <2>2, LookOK
    <2> QED BY <2>1, <2>3
  <1> HIDE DEF S
  <1>5. \A n \in 0 .. size : n \in S  BY <1>1, <1>3, <1>4, Induction
  <1>6. size \in S  BY <1>1, <1>5
  <1> QED BY <1>0, <1>2, <1>6 DEF S

\* A File was found that is free.
FileHad(m, x, dir) ==
    /\ Sound(m, x) /\ (x.health = "ok" \/ x.err = "E_SICK")
    /\ x.err = "OK" => Loc(x, dir) /\ Inside(x, dir, x.r)
    /\ \A name : name # NULL /\ Owned(Mem(m), Free(m)) /\ x.health = "ok" /\ NoName(m, dir, name)
                     => NoName(x, dir, name)

LEMMA DirAllocFile ==
    ASSUME NEW m, Shape(m), m.health = "ok", NEW dir, Loc(m, dir), NEW x, x = dir_alloc_file(m, dir)
    PROVE  FileHad(m, x, dir)
<1> DEFINE s  == FileAt(m, dir).size
           w  == Scan(m, dir, NULL)
           y0 == SetSize(w, dir, s + 1)
           y1 == DirBlock(y0, dir, s)
<1>0. dir[1] \in Block /\ dir[2] \in Fs /\ s \in 0 .. NINDIRECT + 1
  BY LocFacts, RecFacts
<1>1. Looked(m, w, dir, NULL, s)
  BY ScanOK
<1>2. x = IF w.err # "E_NOT_FOUND" THEN w
          ELSE IF OK(y1) THEN Ret(y1, <<y1.r, 1>>) ELSE y1
  BY DEF dir_alloc_file, Then
<1>3. PICK n : n = s
  OBVIOUS
<1>4. PICK u : u = w
  OBVIOUS
<1>5. PICK v : v = SetSize(u, dir, n + 1)
  OBVIOUS
<1>6. PICK y : y = DirBlock(v, dir, n)
  OBVIOUS
<1>7. x = IF u.err # "E_NOT_FOUND" THEN u ELSE IF OK(y) THEN Ret(y, <<y.r, 1>>) ELSE y
  BY <1>2, <1>3, <1>4, <1>5, <1>6
<1>8. /\ Looked(m, u, dir, NULL, n) /\ n \in 0 .. NINDIRECT + 1 /\ FileAt(m, dir).size = n
  BY <1>0, <1>1, <1>3, <1>4
<1> HIDE DEF s, w, y0, y1
<1>9. Chain(m, u) /\ Sound(m, u) /\ Shape(u) /\ Loc(u, dir) /\ FileAt(u, dir).size = n
      /\ (u.health = "ok" \/ u.err = "E_SICK") /\ Works(m, u)
  BY <1>8, SoundFacts DEF Looked, Chain, Works, Steps, SameFile
<1>10. \A name : name # NULL /\ Owned(Mem(m), Free(m)) /\ u.health = "ok" /\ NoName(m, dir, name)
                     => NoName(u, dir, name)
  BY <1>9, <1>0, StillAbsent, OwnedParts
<1>11. CASE u.err # "E_NOT_FOUND"
  <2>1. x = u
    BY <1>7, <1>11
  <2>2. u.err = "OK" => Inside(u, dir, u.r)
    BY <1>8 DEF Looked
  <2> QED BY <2>1, <2>2, <1>9, <1>10 DEF FileHad
<1>12. CASE u.err = "E_NOT_FOUND"
  <2>0. u.health = "ok" /\ n <= NINDIRECT /\ n + 1 \in 0 .. NINDIRECT + 1 /\ n \in Nat
    BY <1>8, <1>9, <1>12, Sizes DEF Looked
  <2>1. PICK rec \in FileRec : FieldSet(u, v, dir, rec) /\ rec.size = n + 1 /\ rec.name = FileAt(u, dir).name
    BY <2>0, <1>5, <1>9, SetSizeOK
  <2>2. ASSUME Owned(Mem(u), Free(u)), NEW i \in Is, NEW k \in Fs, i >= n + 1
        PROVE  NameIn(Mem(u), dir[1], dir[2], i, k) = NULL
    <3>1. SizeAt(Mem(u), dir[1], dir[2]) = n
      BY <1>9, LocFacts
    <3>2. i >= n /\ i \in Nat
      BY <2>2, <2>0, Sizes DEF Is
    <3>3. NamesOK(Mem(u))
      BY <2>2, OwnedParts
    <3> QED BY <3>1, <3>2, <3>3, <1>0, <2>2 DEF NamesOK
  <2>3. Sound(u, v)
    BY <2>0, <2>2, <1>5, <1>9, SetSizeOK
  <2>4. Shape(v) /\ Loc(v, dir) /\ FileAt(v, dir) = rec /\ v.health = "ok"
    BY <2>1, <1>9, <2>0 DEF FieldSet
  <2>5. Mapped(v, y, dir, n, TRUE) /\ (OK(y) => y.blk[y.r] # NULL /\ y.blk[y.r].kind = "dir")
    BY <2>0, <2>4, <1>6, DirBlockOK
  <2>6. Chain(v, y) /\ Works(v, y) /\ Sound(v, y) /\ Shape(y) /\ (y.health = "ok" \/ y.err = "E_SICK")
    BY <2>4, <2>5, SoundFacts DEF Mapped, Chain, Works, Steps
  <2>7. Works(y, Ret(y, <<y.r, 1>>)) /\ Mem(Ret(y, <<y.r, 1>>)) = Mem(y) /\ Ret(y, <<y.r, 1>>).health = y.health
        /\ Ret(y, <<y.r, 1>>).r = <<y.r, 1>> /\ Ret(y, <<y.r, 1>>).blk = y.blk /\ Works(y, y)
        /\ (\A g : Loc(y, g) => Loc(Ret(y, <<y.r, 1>>), g))
    BY <2>6, AnswerWorks, AnswerChain, ShapeAnswers DEF Same, Loc, KeepsFile
  <2>8. Sound(y, x) /\ Mem(x) = Mem(y) /\ x.health = y.health /\ x.blk = y.blk
        /\ (\A g : Loc(y, g) => Loc(x, g))
    BY <1>7, <1>12, <2>7, SoundFacts
  <2>9. Sound(m, x)
    BY <2>8, <2>6, <2>3, <1>9, SoundFacts
  <2>10. x.health = "ok" \/ x.err = "E_SICK"
    BY <1>7, <1>12, <2>6, <2>7 DEF OK
  <2>11. ASSUME x.err = "OK" PROVE Loc(x, dir) /\ Inside(x, dir, x.r)
    <3>1. OK(y) /\ x = Ret(y, <<y.r, 1>>) /\ x.r = <<y.r, 1>>
      BY <1>7, <1>12, <2>6, <2>7, <2>11 DEF OK
    <3>2. y.r \in Data /\ y.r = BlockAt(Mem(y), dir[1], dir[2], n) /\ n \in Is
          /\ Loc(y, dir) /\ FileAt(y, dir).size = rec.size
      BY <2>5, <2>4, <3>1 DEF Mapped, SameFile
    <3>3. Loc(x, dir) /\ SizeAt(Mem(x), dir[1], dir[2]) = n + 1
      BY <3>2, <2>1, <2>6, <2>8, LocFacts
    <3>4. x.r[1] = y.r /\ x.r[2] = 1 /\ x.r \in FilePos
      BY <3>1, <3>2, Sizes DEF FilePos
    <3>5. Loc(x, x.r) /\ x.blk[x.r[1]].kind = "dir"
      BY <3>4, <3>1, <2>5, <2>8 DEF Loc
    <3>6. n < n + 1
      BY <2>0
    <3> QED BY <3>2, <3>3, <3>4, <3>5, <3>6, <2>8 DEF Inside
  <2>12. ASSUME NEW name, name # NULL, Owned(Mem(m), Free(m)), x.health = "ok", NoName(m, dir, name)
         PROVE  NoName(x, dir, name)
    <3>1. y.health = "ok" /\ Owned(Mem(u), Free(u)) /\ NoName(u, dir, name)
      BY <2>12, <2>8, <1>9, <1>10, <2>0 DEF Sound
    <3>2. Owned(Mem(v), Free(v))
      BY <3>1, <2>3, <2>4 DEF Sound
    <3>3. NoName(v, dir, name)
      BY <3>1, <2>1, <1>9, <1>0, FieldNames DEF NoName
    <3>4. NoName(y, dir, name)
      BY <3>1, <3>2, <3>3, <2>6, <1>0, <2>12, StillAbsent, OwnedParts
    <3> QED BY <3>4, <2>8 DEF NoName
  <2> QED BY <2>9, <2>10, <2>11, <2>12 DEF FileHad
<1> QED BY <1>11, <1>12

\* A block is one block of one file.
LEMMA BlockUnique ==
    ASSUME NEW B, AllFit(B), NEW free, PtrsOK(B, free), NEW b \in Block, NEW c \in Block,
           NEW j \in Fs, NEW k \in Fs, NEW n \in Is, NEW i \in Is,
           BlockAt(B, b, j, n) # 0, BlockAt(B, b, j, n) = BlockAt(B, c, k, i)
    PROVE  b = c /\ j = k /\ n = i
<1>1. PICK p : p = PtrAt(B, b, j, NINDIRECT)
  OBVIOUS
<1>2. PICK q : q = PtrAt(B, c, k, NINDIRECT)
  OBVIOUS
<1>3. j \in Js /\ k \in Js /\ 0 \in Js /\ n \in Ns /\ i \in Ns /\ NINDIRECT \in Ns /\ j # 0 /\ k # 0
      /\ 0 \in Block
  BY Sizes DEF Js, Fs, Ns, Is
<1>4. p \in Block /\ q \in Block
  BY <1>1, <1>2, <1>3, ViewTypes
<1>5. PtrAt(B, 0, 0, n) = 0 /\ PtrAt(B, 0, 0, i) = 0
  BY <1>3, Nothing DEF AllFit
<1>6. BlockAt(B, b, j, n) = (IF n < NDIRECT THEN PtrAt(B, b, j, n) ELSE PtrAt(B, p, 0, n))
  BY <1>1 DEF BlockAt
<1>7. BlockAt(B, c, k, i) = (IF i < NDIRECT THEN PtrAt(B, c, k, i) ELSE PtrAt(B, q, 0, i))
  BY <1>2 DEF BlockAt
<1>8. ASSUME NEW a \in Block, NEW d \in Block, NEW o \in Js, NEW l \in Js, NEW s \in Ns, NEW t \in Ns,
             PtrAt(B, a, o, s) # 0, PtrAt(B, a, o, s) = PtrAt(B, d, l, t)
      PROVE  a = d /\ o = l /\ s = t
  BY <1>8 DEF PtrsOK
<1>9. BlockAt(B, b, j, n) # 0 /\ BlockAt(B, b, j, n) = BlockAt(B, c, k, i)
  OBVIOUS
<1>10. CASE n < NDIRECT /\ i < NDIRECT
  <2>1. PtrAt(B, b, j, n) # 0 /\ PtrAt(B, b, j, n) = PtrAt(B, c, k, i)
    BY <1>6, <1>7, <1>9, <1>10
  <2> QED BY <2>1, <1>3, <1>8
<1>11. CASE n < NDIRECT /\ ~(i < NDIRECT)
  <2>1. PtrAt(B, b, j, n) # 0 /\ PtrAt(B, b, j, n) = PtrAt(B, q, 0, i)
    BY <1>6, <1>7, <1>9, <1>11
  <2> QED BY <2>1, <1>3, <1>4, <1>8
<1>12. CASE ~(n < NDIRECT) /\ i < NDIRECT
  <2>1. PtrAt(B, p, 0, n) # 0 /\ PtrAt(B, p, 0, n) = PtrAt(B, c, k, i)
    BY <1>6, <1>7, <1>9, <1>12
  <2> QED BY <2>1, <1>3, <1>4, <1>8
<1>13. CASE ~(n < NDIRECT) /\ ~(i < NDIRECT)
  <2>1. PtrAt(B, p, 0, n) # 0 /\ PtrAt(B, p, 0, n) = PtrAt(B, q, 0, i)
    BY <1>6, <1>7, <1>9, <1>13
  <2>2. p = q /\ n = i
    BY <2>1, <1>3, <1>4, <1>8
  <2>3. p # 0
    BY <2>1, <1>5
  <2>4. PtrAt(B, b, j, NINDIRECT) # 0 /\ PtrAt(B, b, j, NINDIRECT) = PtrAt(B, c, k, NINDIRECT)
    BY <2>2, <2>3, <1>1, <1>2
  <2>5. b = c /\ j = k
    BY <2>4, <1>3, <1>8
  <2> QED BY <2>2, <2>5
<1> QED BY <1>10, <1>11, <1>12, <1>13
\* A File loses its name, or only its type changes.
LEMMA FieldKept ==
    ASSUME NEW m, Shape(m), NEW f, Loc(m, f), NEW x, NEW rec, FieldSet(m, x, f, rec),
           rec.size = FileAt(m, f).size, rec.name \in {FileAt(m, f).name, NULL}
    PROVE  Sound(m, x)
<1>1. /\ \A b \in Block, j \in Js, n \in Ns : PtrAt(Mem(x), b, j, n) = PtrAt(Mem(m), b, j, n)
      /\ Shape(x) /\ Steps(m, x)
  BY DEF FieldSet
<1>2. f[1] \in Block /\ f[2] \in Fs /\ f[2] \in Js /\ SizeAt(Mem(m), f[1], f[2]) = FileAt(m, f).size
      /\ NameAt(Mem(m), f[1], f[2]) = (IF m.blk[f[1]].kind = "dir" THEN FileAt(m, f).name ELSE NULL)
  BY LocFacts DEF NameAt
<1>3. ASSUME NEW b \in Block, NEW j \in Fs
      PROVE  /\ SizeAt(Mem(x), b, j) = SizeAt(Mem(m), b, j)
             /\ NameAt(Mem(x), b, j) \in {NameAt(Mem(m), b, j), NULL}
  <2>0. j \in Js
    BY Sizes DEF Js, Fs
  <2>1. CASE b = f[1] /\ j = f[2]
    BY <2>1, <1>2 DEF FieldSet
  <2>2. CASE ~(b = f[1] /\ j = f[2])
    BY <2>0, <2>2 DEF FieldSet
  <2> QED BY <2>1, <2>2
<1>4. AllFit(Mem(m)) /\ AllFit(Mem(x))
  BY <1>1, MemFits DEF Shape
<1>5. \A b \in Block, j \in Fs : SizeAt(Mem(x), b, j) = SizeAt(Mem(m), b, j)
  BY <1>3
<1>6. \A b \in Block, j \in Fs : NameAt(Mem(x), b, j) \in {NameAt(Mem(m), b, j), NULL}
  BY <1>3
<1>7. Keeps(Mem(m), Mem(x))
  BY <1>1, <1>4, <1>5, <1>6, Narrow
<1>8. ASSUME Owned(Mem(m), Free(m)) PROVE Owned(Mem(x), Free(x))
  BY <1>7, <1>8, OwnedParts, FieldPtrs, KeepsNames
<1> QED BY <1>1, <1>8 DEF Sound
\* A File of the directory dir gets a name that none of it has.
LEMMA NameSet ==
    ASSUME NEW m, Shape(m), NEW dir, Loc(m, dir), NEW r, Inside(m, dir, r), NEW name \in Name,
           NEW x, x = SetName(m, r, name)
    PROVE  /\ Steps(m, x) /\ x.err = m.err /\ x.r = m.r /\ x.health = m.health /\ Loc(x, r)
           /\ Owned(Mem(m), Free(m)) /\ NoName(m, dir, name) => Owned(Mem(x), Free(x))
<1>1. Loc(m, r) /\ r[1] \in Data /\ m.blk[r[1]].kind = "dir"
  BY DEF Inside
<1>2. PICK d \in Is : d < SizeAt(Mem(m), dir[1], dir[2]) /\ r[1] = BlockAt(Mem(m), dir[1], dir[2], d)
  BY DEF Inside
<1>3. PICK rec : rec = [FileAt(m, r) EXCEPT !.name = name]
  OBVIOUS
<1>4. FileAt(m, r) \in FileRec /\ r[1] \in Block /\ r[2] \in Fs /\ r[2] \in Js
      /\ SizeAt(Mem(m), r[1], r[2]) = FileAt(m, r).size
  BY <1>1, LocFacts
<1>5. rec \in FileRec /\ rec.direct = FileAt(m, r).direct /\ rec.indirect = FileAt(m, r).indirect
      /\ rec.size = FileAt(m, r).size /\ rec.name = name
  BY <1>3, <1>4, RecFacts DEF FileRec
<1>6. FieldSet(m, x, r, rec)
  BY <1>1, <1>3, <1>5, SetField DEF SetName
<1>7. dir[1] \in Block /\ dir[2] \in Fs /\ r[1] # 0 /\ AllFit(Mem(m))
  BY <1>1, LocFacts, MemFits, Sizes DEF Shape
<1>8. ASSUME Owned(Mem(m), Free(m)), NoName(m, dir, name) PROVE Owned(Mem(x), Free(x))
  <2>1. PtrsOK(Mem(x), Free(x)) /\ PtrsOK(Mem(m), Free(m)) /\ NamesOK(Mem(m)) /\ NoName(m, dir, name)
    BY <1>6, <1>8, OwnedParts, FieldPtrs
  <2>2. ASSUME NEW b \in Block, NEW j \in Fs
        PROVE  /\ SizeAt(Mem(x), b, j) = SizeAt(Mem(m), b, j)
               /\ NameAt(Mem(x), b, j) = IF b = r[1] /\ j = r[2] THEN name ELSE NameAt(Mem(m), b, j)
    <3>0. j \in Js
      BY Sizes DEF Js, Fs
    <3>1. CASE b = r[1] /\ j = r[2]
      BY <3>1, <1>1, <1>4, <1>5, <1>6 DEF FieldSet
    <3>2. CASE ~(b = r[1] /\ j = r[2])
      BY <3>0, <3>2, <1>6 DEF FieldSet
    <3> QED BY <3>1, <3>2
  <2>3. ASSUME NEW b \in Block, NEW j \in Fs, NEW n \in Is
        PROVE  /\ BlockAt(Mem(x), b, j, n) = BlockAt(Mem(m), b, j, n)
               /\ BlockAt(Mem(m), b, j, n) \in Block
               /\ BlockAt(Mem(m), b, j, n) = r[1] => b = dir[1] /\ j = dir[2] /\ n = d
    <3>0. j \in Js
      BY Sizes DEF Js, Fs
    <3>1. SameView(m, m) /\ BlockAt(Mem(m), b, j, n) \in {0} \cup Data
      BY <3>0, SameMemView, SameBlocks
    <3> QED BY <3>0, <3>1, <1>2, <1>6, <1>7, <2>1, BlockUnique, Sizes DEF FieldSet
  <2>4. ASSUME NEW b \in Block, NEW j \in Fs, NEW n \in Is, NEW k \in Fs
        PROVE  NameIn(Mem(x), b, j, n, k) = IF BlockAt(Mem(m), b, j, n) = r[1] /\ k = r[2] THEN name
                                            ELSE NameIn(Mem(m), b, j, n, k)
    BY <2>2, <2>3 DEF NameIn
  <2>5. \A o \in Is, k \in Fs : NameIn(Mem(m), dir[1], dir[2], o, k) # name
    BY <2>1 DEF NoName
  <2>6. ASSUME NEW b \in Block, NEW j \in Fs, NEW k \in Fs, NEW l \in Fs, NEW n \in Is, NEW i \in Is,
               NameIn(Mem(x), b, j, n, k) # NULL, NameIn(Mem(x), b, j, n, k) = NameIn(Mem(x), b, j, i, l)
        PROVE  n = i /\ k = l
    <3>1. CASE BlockAt(Mem(m), b, j, n) = r[1] /\ k = r[2]
      <4>1. NameIn(Mem(x), b, j, i, l) = name /\ b = dir[1] /\ j = dir[2] /\ n = d
        BY <3>1, <2>6, <2>4, <2>3
      <4>2. BlockAt(Mem(m), b, j, i) = r[1] /\ l = r[2]
        BY <4>1, <2>4, <2>5
      <4> QED BY <4>1, <4>2, <3>1, <2>3
    <3>2. CASE BlockAt(Mem(m), b, j, i) = r[1] /\ l = r[2]
      <4>1. NameIn(Mem(x), b, j, n, k) = name /\ b = dir[1] /\ j = dir[2] /\ i = d
        BY <3>2, <2>6, <2>4, <2>3
      <4>2. BlockAt(Mem(m), b, j, n) = r[1] /\ k = r[2]
        BY <4>1, <2>4, <2>5
      <4> QED BY <4>1, <4>2, <3>2, <2>3
    <3>3. CASE /\ ~(BlockAt(Mem(m), b, j, n) = r[1] /\ k = r[2])
               /\ ~(BlockAt(Mem(m), b, j, i) = r[1] /\ l = r[2])
      <4>1. NameIn(Mem(m), b, j, n, k) # NULL /\ NameIn(Mem(m), b, j, n, k) = NameIn(Mem(m), b, j, i, l)
        BY <3>3, <2>6, <2>4
      <4> QED BY <4>1, <2>1 DEF NamesOK
    <3> QED BY <3>1, <3>2, <3>3
  <2>7. ASSUME NEW b \in Block, NEW j \in Fs, NEW k \in Fs, NEW n \in Is, n >= SizeAt(Mem(x), b, j)
        PROVE  NameIn(Mem(x), b, j, n, k) = NULL
    <3>0. j \in Js /\ n \in Ns /\ n \in Nat
      BY Sizes DEF Js, Fs, Ns, Is
    <3>1. SizeAt(Mem(x), b, j) = SizeAt(Mem(m), b, j) /\ n >= SizeAt(Mem(m), b, j)
          /\ SizeAt(Mem(m), b, j) \in Nat
      BY <3>0, <2>2, <2>7, <1>7, ViewTypes
    <3>2. ~(BlockAt(Mem(m), b, j, n) = r[1] /\ k = r[2])
      BY <3>0, <3>1, <2>3, <1>2
    <3> QED BY <3>1, <3>2, <2>4, <2>1 DEF NamesOK
  <2>8. NamesOK(Mem(x))
    BY <2>6, <2>7 DEF NamesOK
  <2> QED BY <2>1, <2>8, OwnedParts
<1> QED BY <1>1, <1>6, <1>8 DEF FieldSet

LEMMA SizeNat ==
    ASSUME NEW m, Shape(m), NEW f, Loc(m, f)
    PROVE  FileAt(m, f).size \in 0 .. NINDIRECT + 1 /\ FileAt(m, f).size \in Nat
<1>1. PICK rec : rec = FileAt(m, f)
  OBVIOUS
<1>2. rec \in FileRec
  BY <1>1, LocFacts
<1>3. PICK s : s = rec.size
  OBVIOUS
<1>4. s \in 0 .. NINDIRECT + 1
  BY <1>2, <1>3, RecFacts
<1>5. s \in Nat
  BY <1>4, Sizes
<1> QED BY <1>1, <1>3, <1>4, <1>5
\* What is known when the walk along a path is at its i-th name.
Went(m, x, path, i) ==
    /\ Chain(m, x)
    /\ x.err = "OK" => /\ x.r = [dir |-> x.r.dir, file |-> x.r.file]
                       /\ Loc(x, x.r.file) /\ (x.r.dir = NULL \/ Loc(x, x.r.dir))
    /\ x.err = "E_NOT_FOUND" /\ x.r.dir # NULL =>
          /\ i = Len(path) + 1 /\ Len(path) > 0 /\ Loc(x, x.r.dir)
          /\ Owned(Mem(m), Free(m)) => NoName(x, x.r.dir, path[Len(path)])

\* A name that is not in the blocks of a directory is not past them either.
LEMMA AllAbsent ==
    ASSUME NEW m, Shape(m), NEW dir, Loc(m, dir), NEW name, name # NULL, Owned(Mem(m), Free(m)),
           NEW size, size = FileAt(m, dir).size, Absent(m, dir, name, size)
    PROVE  NoName(m, dir, name)
<1>1. dir[1] \in Block /\ dir[2] \in Fs /\ SizeAt(Mem(m), dir[1], dir[2]) = size /\ size \in Nat
  BY LocFacts, SizeNat
<1>2. NamesOK(Mem(m))
  BY OwnedParts
<1>3. ASSUME NEW o \in Is, NEW k \in Fs PROVE NameIn(Mem(m), dir[1], dir[2], o, k) # name
  <2>1. o \in Nat
    BY Sizes DEF Is
  <2>2. CASE o < size
    BY <2>2 DEF Absent
  <2>3. CASE o >= size
    BY <2>3, <1>1, <1>2 DEF NamesOK
  <2> QED BY <1>1, <2>1, <2>2, <2>3
<1> QED BY <1>3 DEF NoName
\* One name further.
LEMMA EnterOK ==
    ASSUME NEW m, Shape(m), m.health = "ok", NEW path \in Seq(Name), NEW i \in 1 .. Len(path),
           NEW x, Went(m, x, path, i), NEW z, z = enter(x, path, i)
    PROVE  Went(m, z, path, i + 1)
<1>0. Len(path) \in Nat /\ i \in Nat /\ path[i] \in Name /\ path[i] # NULL
      /\ (i = Len(path) => path[Len(path)] = path[i])
  BY Sizes
<1>1. Chain(m, x) /\ Shape(x) /\ (x.health = "ok" \/ x.err = "E_SICK")
  BY DEF Went, Chain, Works, Steps
<1>2. CASE ~OK(x)
  <2>1. z = x /\ x.err # "OK"
    BY <1>1, <1>2 DEF enter, OK
  <2>2. ~(x.err = "E_NOT_FOUND" /\ x.r.dir # NULL)
    BY <1>0 DEF Went
  <2> QED BY <1>1, <2>1, <2>2 DEF Went
<1>3. CASE OK(x)
  <2> DEFINE none == [dir |-> NULL, file |-> NULL]
  <2>1. x.err = "OK" /\ x.health = "ok"
    BY <1>3 DEF OK
  <2>2. PICK dir : dir = x.r.file
    OBVIOUS
  <2>3. Loc(x, dir)
    BY <2>1, <2>2 DEF Went
  <2>4. PICK name : name = path[i]
    OBVIOUS
  <2>5. PICK y : y = Scan(x, dir, name)
    OBVIOUS
  <2>6. PICK size : size = FileAt(x, dir).size
    OBVIOUS
  <2>7. Looked(x, y, dir, name, size)
    BY <1>1, <2>1, <2>3, <2>5, <2>6, ScanOK
  <2>8. PICK l : l = IF y.err = "E_NOT_FOUND" /\ i = Len(path) THEN [none EXCEPT !.dir = dir] ELSE none
    OBVIOUS
  <2>9. z = IF FileAt(x, dir).type # "DIR" THEN Err(Ret(x, none), "E_NOT_FOUND")
            ELSE IF OK(y) THEN Ret(y, [dir |-> dir, file |-> y.r])
            ELSE Err(Ret(y, l), y.err)
    BY <1>3, <2>2, <2>4, <2>5, <2>8 DEF enter, dir_lookup
  <2>10. /\ y.err \in {"OK", "E_NOT_FOUND", "E_NO_DISK", "E_INVAL", "E_SICK"} /\ Chain(x, y) /\ Shape(y)
         /\ (y.health = "ok" \/ y.err = "E_SICK") /\ SameFile(x, y, dir) /\ Loc(y, dir)
    BY <2>1, <2>7 DEF Looked, Chain, Works, Steps, SameFile
  <2>11. Chain(m, y)
    BY <1>1, <2>1, <2>10, ChainOn
  <2>12. CASE FileAt(x, dir).type # "DIR"
    <3>1. PICK a : a = Ret(x, none)
      OBVIOUS
    <3>2. Chain(x, a) /\ a.health = "ok" /\ a.r = none /\ Shape(a) /\ IsState(a)
      BY <3>1, <2>1, <1>1, AnswerChain, Answers DEF View, Chain, Works, Steps, Shape, Formed
    <3>3. z = Err(a, "E_NOT_FOUND")
      BY <2>9, <2>12, <3>1
    <3>4. Chain(a, z) /\ z.err = "E_NOT_FOUND" /\ z.r = none
      BY <3>2, <3>3, AnswerChain, Answers DEF View
    <3>5. Chain(m, z)
      BY <1>1, <2>1, <3>2, <3>4, ChainOn
    <3> QED BY <3>4, <3>5 DEF Went
  <2>13. CASE FileAt(x, dir).type = "DIR" /\ OK(y)
    <3>1. z = Ret(y, [dir |-> dir, file |-> y.r])
      BY <2>9, <2>13
    <3>2. Chain(y, z) /\ z.err = "OK" /\ z.r = [dir |-> dir, file |-> y.r]
          /\ (\A f : Loc(y, f) => Loc(z, f))
      BY <3>1, <2>10, <2>13, AnswerChain, Answers DEF View, Shape, Formed, KeepsFile, OK
    <3>3. Loc(y, y.r)
      BY <2>7, <2>13 DEF Looked, Inside, OK
    <3>4. Chain(m, z)
      BY <2>11, <3>2, <2>13, ChainOn DEF OK
    <3>5. z.r.dir = dir /\ z.r.file = y.r
      BY <3>2
    <3> QED BY <3>2, <3>3, <3>4, <3>5, <2>10 DEF Went
  <2>14. CASE FileAt(x, dir).type = "DIR" /\ ~OK(y)
    <3>1. PICK a : a = Ret(y, l)
      OBVIOUS
    <3>2. PICK e : e = y.err
      OBVIOUS
    <3>3. z = Err(a, e) /\ e # "OK"
      BY <2>9, <2>10, <2>14, <3>1, <3>2 DEF OK
    <3>4. Chain(m, z) /\ z.err = e /\ z.r = l /\ Mem(z) = Mem(y) /\ Free(z) = Free(y)
          /\ (\A f : Loc(y, f) => Loc(z, f)) /\ z.health = y.health
      <4>0. IsState(y)
        BY <2>10 DEF Shape, Formed
      <4>1. Same(y, a) /\ IsState(a) /\ a.health = y.health /\ a.r = l
        BY <4>0, <3>1, Answers DEF Same
      <4>2. Same(a, z) /\ z.health = a.health /\ z.r = l /\ z.err = e
        BY <4>1, <3>3, Answers
      <4>3. Same(y, z) /\ z.health = y.health
        BY <4>1, <4>2 DEF Same
      <4>4. z.health \in {"ok", "panic", "stale"}
        BY <4>3, <2>10 DEF Shape, Formed
      <4>5. Works(y, z) /\ Mem(z) = Mem(y) /\ Free(z) = Free(y)
        BY <4>3, <4>4, <2>10, SameWorks, SameShape
      <4>6. Works(m, z)
        BY <4>5, <2>11, WorksTrans DEF Chain
      <4>7. Chain(m, z)
        BY <4>6, <4>2, <4>3, <2>10, <3>2 DEF Chain
      <4>8. \A f : Loc(y, f) => Loc(z, f)
        BY <4>3 DEF Same, Loc
      <4> QED BY <4>2, <4>3, <4>5, <4>7, <4>8
    <3>5. ASSUME z.err = "E_NOT_FOUND", z.r.dir # NULL
          PROVE  /\ i + 1 = Len(path) + 1 /\ Len(path) > 0 /\ Loc(z, z.r.dir)
                 /\ Owned(Mem(m), Free(m)) => NoName(z, z.r.dir, path[Len(path)])
      <4>1. i = Len(path) /\ y.err = "E_NOT_FOUND" /\ z.r.dir = dir
        BY <3>4, <3>5, <2>8, <3>2
      <4>2. y.health = "ok" /\ name = path[Len(path)] /\ name # NULL
        BY <4>1, <2>10, <2>4, <1>0
      <4>3. ASSUME Owned(Mem(m), Free(m)) PROVE NoName(z, z.r.dir, path[Len(path)])
        <5>1. Owned(Mem(x), Free(x)) /\ Owned(Mem(y), Free(y))
          BY <4>3, <4>2, <1>1, <2>1, <2>10, SoundFacts DEF Chain, Sound
        <5>2. Absent(y, dir, name, size) /\ size = FileAt(y, dir).size
          BY <5>1, <4>1, <4>2, <2>6, <2>7, <2>10, OwnedParts DEF Looked, SameFile
        <5>3. NoName(y, dir, name)
          BY <5>1, <5>2, <4>2, <2>10, AllAbsent
        <5> QED BY <5>3, <4>1, <4>2, <3>4 DEF NoName
      <4> QED BY <4>1, <4>3, <1>0, <2>10, <3>4
    <3> QED BY <3>3, <3>4, <3>5 DEF Went
  <2> QED BY <2>12, <2>13, <2>14
<1> QED BY <1>2, <1>3
\* The walk along a path.
LEMMA WalkPath ==
    ASSUME NEW m, Shape(m), m.health = "ok", NEW path \in Seq(Name), NEW x, x = walk_path(m, path)
    PROVE  Went(m, x, path, Len(path) + 1)
<1>0. Len(path) \in Nat
  OBVIOUS
<1>1. PICK w : /\ walk_path(m, path) = w[Len(path) + 1] /\ w[1] = Ret(m, [dir |-> NULL, file |-> ROOT])
               /\ \A n \in 1 .. Len(path) + 1 - 1 : w[n + 1] = enter(w[n], path, n)
  BY <1>0, WalkLoop
<1>2. PICK l : l = Len(path) + 1
  OBVIOUS
<1>3. l \in Nat /\ l - 1 = Len(path) /\ 1 \in 1 .. l /\ l \in 1 .. l
  BY <1>0, <1>2
<1> DEFINE S == {n \in 1 .. l : Went(m, w[n], path, n)}
<1>4. 1 \in S
  <2>1. PICK r : r = [dir |-> NULL, file |-> ROOT]
    OBVIOUS
  <2>2. w[1] = Ret(m, r) /\ r.dir = NULL /\ r.file = ROOT
    BY <2>1, <1>1
  <2>3. Chain(m, w[1]) /\ w[1].err = "OK" /\ w[1].r = r /\ (\A f : Loc(m, f) => Loc(w[1], f))
    <3>1. PICK a : a = Ret(m, r)
      OBVIOUS
    <3>2. View(m, a) /\ a.err = "OK" /\ a.r = r /\ (\A f : Loc(m, f) => KeepsFile(m, a, f))
      BY <3>1, AnswerChain, ShapeAnswers
    <3> QED BY <2>2, <3>1, <3>2 DEF View, KeepsFile
  <2>4. Loc(m, ROOT)
    <3>1. m.blk[SUPER] # NULL /\ m.blk[SUPER].kind = "super"
      BY FitsFacts, Sizes DEF Shape, Formed
    <3>2. ROOT \in FilePos /\ ROOT[1] = SUPER
      BY DEF FilePos, ROOT
    <3> QED BY <3>1, <3>2 DEF Loc
  <2>5. Went(m, w[1], path, 1)
    BY <2>1, <2>2, <2>3, <2>4 DEF Went
  <2> QED BY <2>5, <1>3
<1>5. ASSUME NEW n \in 1 .. l - 1, n \in S PROVE n + 1 \in S
  <2>1. n \in 1 .. Len(path) /\ n \in 1 .. Len(path) + 1 - 1 /\ n + 1 \in 1 .. l
    BY <1>0, <1>2
  <2>2. w[n + 1] = enter(w[n], path, n)
    BY <1>1, <2>1
  <2>3. Went(m, w[n + 1], path, n + 1)
    BY <1>5, <2>1, <2>2, EnterOK
  <2> QED BY <2>1, <2>3
<1>6. \A n \in 1 .. l : n \in S
  <2> HIDE DEF S
  <2> QED BY <1>3, <1>4, <1>5, Induction
<1> QED BY <1>1, <1>2, <1>3, <1>6

\* A file is made: a free File of the directory gets its name.
LEMMA FileCreate ==
    ASSUME NEW m, Shape(m), m.health = "ok", NEW path \in Seq(Name), NEW z, z = file_create(m, path)
    PROVE  Sound(m, z) /\ (OK(z) => Loc(z, z.r))
<1>1. PICK w : w = walk_path(m, path)
  OBVIOUS
<1>2. PICK dir : dir = w.r.dir
  OBVIOUS
<1>3. PICK x : x = dir_alloc_file(w, dir)
  OBVIOUS
<1>4. PICK name : name = path[Len(path)]
  OBVIOUS
<1>5. z = IF w.err = "OK" THEN Err(w, "E_FILE_EXISTS")
          ELSE IF w.err # "E_NOT_FOUND" \/ dir = NULL THEN w
          ELSE IF x.err # "OK" THEN Err(x, "E_NOT_FOUND")
          ELSE SetName(x, x.r, name)
  BY <1>1, <1>2, <1>3, <1>4 DEF file_create, add_file
<1>6. Went(m, w, path, Len(path) + 1)
  BY <1>1, WalkPath
<1>7. Chain(m, w) /\ Shape(w) /\ Sound(m, w) /\ (w.health = "ok" \/ w.err = "E_SICK")
  BY <1>6, SoundFacts DEF Went, Chain, Works, Steps
<1>8. CASE w.err = "OK"
  <2>1. z = Err(w, "E_FILE_EXISTS")
    BY <1>5, <1>8
  <2>2. Works(w, z) /\ z.err = "E_FILE_EXISTS"
    BY <2>1, <1>7, AnswerWorks, ShapeAnswers
  <2> QED BY <2>2, <1>7, SoundFacts DEF OK
<1>9. CASE w.err # "OK" /\ (w.err # "E_NOT_FOUND" \/ dir = NULL)
  BY <1>5, <1>7, <1>9 DEF OK
<1>10. CASE w.err = "E_NOT_FOUND" /\ dir # NULL
  <2>1. /\ Len(path) > 0 /\ Loc(w, dir) /\ w.health = "ok"
        /\ Owned(Mem(m), Free(m)) => NoName(w, dir, name)
    BY <1>2, <1>4, <1>6, <1>7, <1>10 DEF Went
  <2>2. FileHad(w, x, dir)
    BY <2>1, <1>3, <1>7, DirAllocFile
  <2>3. Sound(w, x) /\ Shape(x) /\ Sound(m, x) /\ (x.health = "ok" \/ x.err = "E_SICK")
    BY <2>2, <1>7, SoundFacts DEF FileHad, Sound, Steps
  <2>4. name \in Name /\ name # NULL
    <3>1. Len(path) \in Nat /\ Len(path) \in 1 .. Len(path)
      BY <2>1
    <3> QED BY <3>1, <1>4, Sizes
  <2>5. CASE x.err # "OK"
    <3>1. z = Err(x, "E_NOT_FOUND")
      BY <1>5, <1>10, <2>5
    <3>2. Works(x, z) /\ z.err = "E_NOT_FOUND"
      BY <3>1, <2>3, AnswerWorks, ShapeAnswers
    <3> QED BY <3>2, <2>3, SoundFacts DEF OK
  <2>6. CASE x.err = "OK"
    <3>1. PICK r : r = x.r
      OBVIOUS
    <3>2. z = SetName(x, r, name)
      BY <1>5, <1>10, <2>6, <3>1
    <3>3. Loc(x, dir) /\ Inside(x, dir, r)
      BY <2>2, <2>6, <3>1 DEF FileHad
    <3>4. /\ Steps(x, z) /\ z.r = r /\ z.health = x.health /\ Loc(z, r)
          /\ Owned(Mem(x), Free(x)) /\ NoName(x, dir, name) => Owned(Mem(z), Free(z))
      BY <3>1, <3>2, <3>3, <2>3, <2>4, NameSet
    <3>5. Steps(m, z)
      BY <3>4, <2>3, WorksTrans DEF Sound
    <3>6. ASSUME z.health = "ok", Owned(Mem(m), Free(m)) PROVE Owned(Mem(z), Free(z))
      <4>1. Owned(Mem(w), Free(w)) /\ Owned(Mem(x), Free(x)) /\ NoName(w, dir, name)
        BY <3>4, <3>6, <2>1, <2>3, <1>7 DEF Sound
      <4>2. NoName(x, dir, name)
        BY <4>1, <3>4, <3>6, <2>2, <2>4 DEF FileHad
      <4> QED BY <4>1, <4>2, <3>4
    <3> QED BY <3>4, <3>5, <3>6 DEF Sound
  <2> QED BY <2>5, <2>6
<1> QED BY <1>8, <1>9, <1>10
\* A block of the directory is marked, or looked at.
LEMMA MarkOK ==
    ASSUME NEW m, Shape(m), NEW dir, Loc(m, dir), NEW f, NEW i \in Nat, NEW z, z = mark(m, dir, f, i)
    PROVE  Calm(m, z) /\ KeepsFile(m, z, dir)
<1>1. PICK x : x = file_map_block(m, dir, i, FALSE)
  OBVIOUS
<1>2. PICK y : y = read_block(x, x.r)
  OBVIOUS
<1>3. PICK d : d = dirty_block(y, y.r)
  OBVIOUS
<1>4. z = IF m.err # "OK" THEN m
          ELSE IF ~OK(x) THEN Err(x, "E_BREAK")
          ELSE IF ~OK(y) THEN Err(y, "E_BREAK")
          ELSE IF y.r = f[1] THEN Err(d, "E_BREAK") ELSE y
  BY <1>1, <1>2, <1>3 DEF mark, mark_found
<1>5. Mapped(m, x, dir, i, FALSE)
  BY <1>1, FileMapBlock
<1>6. Calm(m, x) /\ KeepsFile(m, x, dir) /\ Shape(x) /\ Loc(x, dir) /\ (OK(x) => x.r \in Data)
  BY <1>5, CalmFacts DEF Mapped, Calm, Works, Steps, KeepsFile
<1>7. \A a, g : Calm(m, a) /\ KeepsFile(m, a, dir) /\ Shape(a) /\ g = Err(a, "E_BREAK")
                   => Calm(m, g) /\ KeepsFile(m, g, dir)
  <2>1. ASSUME NEW a, NEW g, Calm(m, a), KeepsFile(m, a, dir), Shape(a), g = Err(a, "E_BREAK")
        PROVE  Calm(m, g) /\ KeepsFile(m, g, dir)
    <3>1. Works(a, g) /\ Mem(g) = Mem(a) /\ Same(a, g)
      BY <2>1, AnswerWorks, AnswerChain, ShapeAnswers
    <3>2. Free(g) = Free(a) /\ SameView(a, g)
      BY <3>1, SameMemView DEF Same, Free
    <3>3. Loc(a, dir)
      BY <2>1 DEF KeepsFile
    <3>4. KeepsFile(a, g, dir)
      BY <3>1, <3>3 DEF KeepsFile, Same, Loc, FileAt
    <3>5. Calm(a, g)
      BY <3>1, <3>2 DEF Calm
    <3> QED BY <3>4, <3>5, <2>1, CalmFacts, SameFileFacts
  <2> QED BY <2>1
<1>8. CASE m.err # "OK"
  BY <1>4, <1>8, CalmFacts DEF KeepsFile
<1>9. CASE m.err = "OK" /\ ~OK(x)
  BY <1>4, <1>6, <1>7, <1>9
<1>10. CASE m.err = "OK" /\ OK(x)
  <2>1. x.r \in Data /\ x.r \in {0} \cup Data /\ x.r \in Block
    BY <1>6, <1>10, Sizes
  <2>2. View(x, y) /\ Loaded(x, y) /\ (OK(y) => y.r = x.r)
    <3>1. PICK b : b = x.r
      OBVIOUS
    <3>2. b \in {0} \cup Data /\ y = read_block(x, b)
      BY <3>1, <2>1, <1>2
    <3>3. Shape(x)
      BY <1>6
    <3>4. View(x, y) /\ Loaded(x, y)
      BY <3>2, <3>3, ReadBlock
    <3>5. OK(y) => y.r = b
      BY <3>2, <3>3, ReadBlock
    <3> QED BY <3>1, <3>4, <3>5
  <2>3. Calm(m, y) /\ KeepsFile(m, y, dir) /\ Shape(y)
    BY <2>2, <1>6, CalmFacts, SameFileFacts DEF Loaded, Calm, Works, Steps
  <2>4. CASE ~OK(y)
    BY <1>4, <1>10, <2>3, <2>4, <1>7
  <2>5. CASE OK(y)
    <3>1. View(y, d) /\ \A g : Loc(y, g) => KeepsFile(y, d, g)
      BY <2>1, <2>2, <2>3, <2>5, <1>3, DirtyBlock
    <3>2. Calm(m, d) /\ KeepsFile(m, d, dir) /\ Shape(d)
      BY <3>1, <2>3, CalmFacts, SameFileFacts DEF KeepsFile, Calm, Works, Steps
    <3> QED BY <1>4, <1>10, <2>3, <2>5, <3>2, <1>7
  <2> QED BY <2>4, <2>5
<1> QED BY <1>8, <1>9, <1>10
\* All of them.
LEMMA MarkBlocks ==
    ASSUME NEW m, Shape(m), NEW dir, Loc(m, dir), NEW f, NEW z, z = mark_blocks(m, dir, f)
    PROVE  Calm(m, z)
<1>1. FileAt(m, dir).size \in Nat
  BY SizeNat
<1>2. PICK w : /\ mark_blocks(m, dir, f) = w[FileAt(m, dir).size] /\ w[0] = Ret(m, 0)
               /\ \A n \in 0 .. FileAt(m, dir).size - 1 : w[n + 1] = mark(w[n], dir, f, n)
  BY <1>1, MarkLoop
<1>3. PICK l : l = FileAt(m, dir).size
  OBVIOUS
<1>4. l \in Nat /\ l \in 0 .. l /\ 0 \in 0 .. l
  BY <1>1, <1>3
<1> DEFINE S == {n \in 0 .. l : Calm(m, w[n]) /\ Loc(w[n], dir)}
<1>5. 0 \in S
  <2>1. Calm(m, w[0]) /\ KeepsFile(m, w[0], dir)
    BY <1>2, CalmFacts, AnswerChain
  <2> QED BY <2>1, <1>4 DEF KeepsFile
<1>6. ASSUME NEW n \in 0 .. l - 1, n \in S PROVE n + 1 \in S
  <2>1. n \in Nat /\ n + 1 \in 0 .. l /\ n \in 0 .. FileAt(m, dir).size - 1
    BY <1>3, <1>4
  <2>2. w[n + 1] = mark(w[n], dir, f, n)
    BY <1>2, <2>1
  <2>3. Calm(m, w[n]) /\ Loc(w[n], dir) /\ Shape(w[n])
    BY <1>6 DEF Calm, Works, Steps
  <2>4. Calm(w[n], w[n + 1]) /\ KeepsFile(w[n], w[n + 1], dir)
    BY <2>1, <2>2, <2>3, MarkOK
  <2>5. Calm(m, w[n + 1]) /\ Loc(w[n + 1], dir)
    BY <2>3, <2>4, CalmFacts DEF KeepsFile
  <2> QED BY <2>1, <2>5
<1>7. \A n \in 0 .. l : n \in S
  <2> HIDE DEF S
  <2> QED BY <1>4, <1>5, <1>6, Induction
<1> QED BY <1>2, <1>3, <1>4, <1>7
\* A file is closed.
LEMMA FileClose ==
    ASSUME NEW m, Shape(m), NEW f, Loc(m, f), NEW dir \in FilePos \cup {NULL},
           dir # NULL => m.blk[dir[1]] # NULL, NEW z, z = file_close(m, dir, f)
    PROVE  Calm(m, z)
<1>1. PICK x : x = file_flush(m, f)
  OBVIOUS
<1>2. PICK y : y = IF dir = NULL \/ stale(x, dir) THEN x ELSE mark_blocks(x, dir, f)
  OBVIOUS
<1>3. z = FlushDir(y, dir)
  BY <1>1, <1>2 DEF file_close
<1>4. Calm(m, x) /\ Shape(x)
  BY <1>1, FileFlush DEF Calm, Works, Steps
<1>5. dir # NULL => dir \in FilePos /\ dir[1] \in Block
  BY Sizes DEF FilePos, ROOT
<1>6. dir # NULL => x.blk[dir[1]] # NULL
  BY <1>4, <1>5 DEF Calm, Works, Steps
<1>7. Calm(x, y) /\ Shape(y)
  <2>1. CASE dir = NULL \/ stale(x, dir)
    BY <2>1, <1>2, <1>4, CalmFacts
  <2>2. CASE ~(dir = NULL \/ stale(x, dir))
    <3>1. Loc(x, dir)
      BY <2>2, <1>5, <1>6 DEF Loc, stale
    <3>2. y = mark_blocks(x, dir, f)
      BY <2>2, <1>2
    <3> QED BY <3>1, <3>2, <1>4, MarkBlocks DEF Calm, Works, Steps
  <2> QED BY <2>1, <2>2
<1>8. dir # NULL => y.blk[dir[1]] # NULL
  BY <1>5, <1>6, <1>7 DEF Calm, Works, Steps
<1>9. Calm(y, z)
  BY <1>3, <1>7, <1>8, FlushDirOK
<1> QED BY <1>4, <1>7, <1>9, CalmFacts
\* A file is removed.
LEMMA FileRemove ==
    ASSUME NEW m, Shape(m), m.health = "ok", NEW path \in Seq(Name), NEW z, z = file_remove(m, path)
    PROVE  Sound(m, z)
<1>1. PICK w : w = walk_path(m, path)
  OBVIOUS
<1>2. PICK f : f = w.r.file
  OBVIOUS
<1>3. PICK dir : dir = w.r.dir
  OBVIOUS
<1>4. PICK x : x = file_truncate(w, f, 0)
  OBVIOUS
<1>5. PICK n : n = SetName(x, f, NULL)
  OBVIOUS
<1>6. PICK y : y = IF x.health # "ok" THEN x ELSE file_flush(n, f)
  OBVIOUS
<1>7. z = IF OK(w) THEN FlushDir(y, dir) ELSE w
  BY <1>1, <1>2, <1>3, <1>4, <1>5, <1>6 DEF file_remove, cut_file, Then
<1>8. Went(m, w, path, Len(path) + 1)
  BY <1>1, WalkPath
<1>9. Shape(w) /\ Sound(m, w)
  BY <1>8, SoundFacts DEF Went, Chain, Works, Steps
<1>10. CASE ~OK(w)
  BY <1>7, <1>9, <1>10
<1>11. CASE OK(w)
  <2>1. Loc(w, f) /\ (dir = NULL \/ Loc(w, dir))
    BY <1>2, <1>3, <1>8, <1>11 DEF Went, OK
  <2>2. 0 \in 0 .. NINDIRECT + 1 /\ 0 <= FileAt(w, f).size
    <3>1. PICK s : s = FileAt(w, f).size
      OBVIOUS
    <3>2. s \in Nat
      BY <2>1, <1>9, <3>1, SizeNat
    <3> QED BY <3>1, <3>2, Sizes
  <2>3. Sound(w, x) /\ Loc(x, f) /\ Shape(x)
    BY <2>1, <2>2, <1>4, <1>9, FileTruncate DEF Sound, Steps
  <2>4. Sound(x, y) /\ Shape(y)
    <3>1. CASE x.health # "ok"
      BY <3>1, <1>6, <2>3, AnswerWorks, SoundFacts
    <3>2. CASE x.health = "ok"
      <4>1. PICK rec : rec = [FileAt(x, f) EXCEPT !.name = NULL]
        OBVIOUS
      <4>2. FileAt(x, f) \in FileRec
        BY <2>3, LocFacts
      <4>3. rec \in FileRec /\ rec.direct = FileAt(x, f).direct /\ rec.indirect = FileAt(x, f).indirect
            /\ rec.size = FileAt(x, f).size /\ rec.name = NULL
        BY <4>1, <4>2, RecFacts DEF FileRec
      <4>4. FieldSet(x, n, f, rec)
        BY <4>1, <4>3, <2>3, <1>5, SetField DEF SetName
      <4>5. Sound(x, n) /\ Shape(n) /\ Loc(n, f)
        BY <4>3, <4>4, <2>3, FieldKept DEF FieldSet
      <4>6. Calm(n, y)
        BY <4>5, <3>2, <1>6, FileFlush
      <4> QED BY <4>5, <4>6, SoundFacts DEF Calm, Works, Steps
    <3> QED BY <3>1, <3>2
  <2>5. dir \in FilePos \cup {NULL} /\ (dir # NULL => dir[1] \in Block /\ w.blk[dir[1]] # NULL)
    BY <2>1, Sizes DEF Loc, FilePos, ROOT
  <2>6. dir # NULL => y.blk[dir[1]] # NULL
    BY <2>3, <2>4, <2>5 DEF Sound, Steps
  <2>7. Calm(y, z)
    BY <2>4, <2>5, <2>6, <1>7, <1>11, FlushDirOK
  <2> QED BY <2>3, <2>4, <2>7, <1>9, SoundFacts DEF Calm
<1> QED BY <1>10, <1>11
-----------------------------------------------------------------------------
(* The requests *)

\* Blocks and names agree until the power fails for the first time.
Server(x, b) == Shape(x) /\ (b = 0 /\ x.health = "ok" => Owned(Mem(x), Free(x)))

\* What the entries of the open table and the mappings lead to is in memory.
Open       == [dir : FilePos \cup {NULL}, file : FilePos \cup {NULL}]
InMem(x, f)  == f # NULL => x.blk[f[1]] # NULL
Tab(x, tab)  == /\ tab \in [FileId -> Open]
                /\ \A i \in FileId : InMem(x, tab[i].dir) /\ InMem(x, tab[i].file)
Maps(x, p)   == /\ p \in [Client -> [Is -> {0} \cup Data]]
                /\ \A c \in Client, n \in Is : p[c][n] # 0 => x.blk[p[c][n]] # NULL

LEMMA PosBlock == \A f \in FilePos : f[1] \in Block /\ f[1] \in Data \cup {SUPER}
BY Sizes DEF FilePos, ROOT
LEMMA Onward ==
    ASSUME NEW m, NEW x, Sound(m, x)
    PROVE  /\ \A b : Server(m, b) => Server(x, b)
           /\ \A tab : Tab(m, tab) => Tab(x, tab)
           /\ \A p : Maps(m, p) => Maps(x, p)
<1>1. Shape(x) /\ (\A b \in Block : m.blk[b] # NULL => x.blk[b] # NULL)
      /\ (x.health = "ok" => m.health = "ok")
  BY DEF Sound, Steps
<1>2. ASSUME NEW b, Server(m, b) PROVE Server(x, b)
  BY <1>1, <1>2 DEF Server, Sound
<1>3. ASSUME NEW f \in FilePos \cup {NULL}, InMem(m, f) PROVE InMem(x, f)
  BY <1>1, <1>3, PosBlock DEF InMem
<1>4. ASSUME NEW tab, Tab(m, tab) PROVE Tab(x, tab)
  <2>1. \A i \in FileId : tab[i].dir \in FilePos \cup {NULL} /\ tab[i].file \in FilePos \cup {NULL}
    BY <1>4 DEF Tab, Open
  <2> QED BY <2>1, <1>3, <1>4 DEF Tab
<1>5. ASSUME NEW p, Maps(m, p) PROVE Maps(x, p)
  <2>1. \A c \in Client, n \in Is : p[c][n] \in Block
    BY <1>5, Sizes DEF Maps
  <2> QED BY <2>1, <1>1, <1>5 DEF Maps
<1> QED BY <1>2, <1>4, <1>5
\* The end of a request.
LEMMA ServedOK ==
    ASSUME NEW m, NEW x, Sound(m, x), NEW z, z = [x EXCEPT !.err = "OK", !.r = 0]
    PROVE  Sound(m, z) /\ z.blk = x.blk
<1>1. IsState(x) /\ x.health \in {"ok", "panic", "stale"} /\ Shape(x)
  BY DEF Sound, Steps, Shape, Formed
<1>2. Same(x, z) /\ z.health = x.health
  BY <1>1 DEF IsState, Same
<1>3. Works(x, z)
  BY <1>1, <1>2, SameWorks
<1> QED BY <1>2, <1>3, SoundFacts DEF Same
-----------------------------------------------------------------------------
\* A file is opened.
LEMMA ServeOpen ==
    ASSUME NEW m, Shape(m), m.health = "ok", NEW path \in Seq(Name), NEW trunc \in BOOLEAN,
           NEW z, m = fs, z = serve_open(path, trunc)
    PROVE  /\ Sound(m, z)
           /\ OK(z) => /\ z.r \in Open /\ z.r.file # NULL /\ Loc(z, z.r.file)
                       /\ InMem(z, z.r.dir) /\ InMem(z, z.r.file)
<1>1. PICK w : w = walk_path(m, path)
  OBVIOUS
<1>2. PICK r : r = w.r
  OBVIOUS
<1>3. PICK t : t = file_set_size(w, r.dir, r.file, 0)
  OBVIOUS
<1>4. PICK x : x = IF trunc THEN Ret(t, r) ELSE w
  OBVIOUS
<1>5. z = IF OK(w) THEN (IF stale(x, r.file) THEN Sick(x, "stale") ELSE x) ELSE w
  BY <1>1, <1>2, <1>3, <1>4 DEF serve_open, file_open, Then
<1>6. Went(m, w, path, Len(path) + 1)
  BY <1>1, WalkPath
<1>7. Shape(w) /\ Sound(m, w)
  BY <1>6, SoundFacts DEF Went, Chain, Works, Steps
<1>8. CASE ~OK(w)
  BY <1>5, <1>7, <1>8
<1>9. CASE OK(w)
  <2>1. r = [dir |-> r.dir, file |-> r.file] /\ Loc(w, r.file) /\ (r.dir = NULL \/ Loc(w, r.dir))
    BY <1>2, <1>6, <1>9 DEF Went, OK
  <2>2. /\ r.file \in FilePos /\ r.dir \in FilePos \cup {NULL} /\ r \in Open
        /\ InMem(w, r.dir) /\ InMem(w, r.file)
    BY <2>1 DEF Loc, Open, InMem
  <2>3. Sound(w, x) /\ (OK(x) => x.r = r)
    <3>1. CASE trunc
      <4>1. Sound(w, t) /\ Shape(t)
        BY <2>1, <2>2, <1>3, <1>7, FileSetSize, Sizes DEF InMem, Sound, Steps
      <4>2. Works(t, Ret(t, r))
        BY <4>1, AnswerWorks
      <4>3. IsState(t)
        BY <4>1 DEF Shape, Formed
      <4>4. Ret(t, r).r = r
        BY <4>3, Answers
      <4> QED BY <3>1, <4>1, <4>2, <4>4, <1>4, SoundFacts
    <3>2. CASE ~trunc
      BY <3>2, <1>2, <1>4, <1>7, AnswerWorks, SoundFacts
    <3> QED BY <3>1, <3>2
  <2>4. Shape(x) /\ Sound(m, x)
    BY <2>3, <1>7, SoundFacts DEF Sound, Steps
  <2>5. CASE stale(x, r.file)
    <3>1. z = Sick(x, "stale")
      BY <2>5, <1>5, <1>9
    <3>2. Works(x, z)
      BY <3>1, <2>4, AnswerWorks
    <3>3. IsState(x)
      BY <2>4 DEF Shape, Formed
    <3>4. z.err = "E_SICK"
      BY <3>1, <3>3, Answers
    <3> QED BY <3>2, <3>4, <2>4, SoundFacts DEF OK
  <2>6. CASE ~stale(x, r.file)
    <3>1. z = x
      BY <2>6, <1>5, <1>9
    <3>2. InMem(x, r.dir) /\ InMem(x, r.file)
      BY <2>2, <2>3, PosBlock DEF InMem, Sound, Steps
    <3>3. r.file # NULL
      BY <2>2, NullAssumption
    <3>4. Loc(x, r.file)
      BY <2>2, <2>6, <3>2, <3>3 DEF Loc, stale, InMem
    <3> QED BY <3>1, <3>2, <3>3, <3>4, <2>2, <2>3, <2>4
  <2> QED BY <2>5, <2>6
<1> QED BY <1>8, <1>9
\* A client asks for a file that it has open.
LEMMA OpenLookup ==
    ASSUME NEW m, Shape(m), NEW c, NEW f \in FilePos \cup {NULL}, NEW dir \in FilePos \cup {NULL},
           m = fs, f = Opened(c).file, dir = Opened(c).dir, InMem(m, f), f # NULL, NEW z, z = open_lookup(c)
    PROVE  View(m, z) /\ (OK(z) => z = m /\ Loc(m, f))
<1>1. z = IF pageref(fd[c]) <= 1 THEN Err(m, "E_INVAL")
          ELSE IF stale(m, f) \/ stale(m, dir) THEN Sick(m, "stale") ELSE m
  BY DEF open_lookup
<1>2. View(m, Err(m, "E_INVAL")) /\ ~OK(Err(m, "E_INVAL")) /\ View(m, Sick(m, "stale"))
      /\ ~OK(Sick(m, "stale")) /\ View(m, m)
  <2>1. Err(m, "E_INVAL").err = "E_INVAL"
    BY ShapeAnswers
  <2>2. View(m, Err(m, "E_INVAL"))
    BY AnswerChain
  <2> QED BY <2>1, <2>2, AnswerChain DEF OK
<1>3. ~stale(m, f) => Loc(m, f)
  BY DEF stale, Loc, InMem
<1> QED BY <1>1, <1>2, <1>3
\* And something is done with it.
LEMMA Followed ==
    ASSUME NEW m, Shape(m), NEW c, NEW f \in FilePos \cup {NULL}, NEW dir \in FilePos \cup {NULL},
           m = fs, f = Opened(c).file, dir = Opened(c).dir, InMem(m, f), f # NULL,
           NEW x, Loc(m, f) => Sound(m, x), NEW z, NEW l, l = open_lookup(c), z = IF OK(l) THEN x ELSE l
    PROVE  Sound(m, z) /\ (OK(z) => Loc(m, f) /\ z = x)
<1>1. View(m, l) /\ (OK(l) => l = m /\ Loc(m, f))
  BY OpenLookup
<1>2. Sound(m, l)
  BY <1>1, SoundFacts DEF View, Chain
<1> QED BY <1>1, <1>2
LEMMA ServeMap ==
    ASSUME NEW m, Shape(m), NEW c, NEW f \in FilePos \cup {NULL}, NEW dir \in FilePos \cup {NULL},
           m = fs, f = Opened(c).file, dir = Opened(c).dir, InMem(m, f), f # NULL,
           NEW n \in Nat, NEW z, z = serve_map(c, n)
    PROVE  Sound(m, z) /\ (OK(z) => z.r \in Data /\ z.blk[z.r] # NULL)
<1>1. PICK l : l = open_lookup(c)
  OBVIOUS
<1>2. PICK x : x = file_get_block(m, f, n)
  OBVIOUS
<1>3. OK(l) => l = m /\ Loc(m, f)
  BY <1>1, OpenLookup
<1>4. Loc(m, f) => Mapped(m, x, f, n, TRUE) /\ (OK(x) => x.blk[x.r] # NULL) /\ Sound(m, x)
  BY <1>2, FileGetBlock, SoundFacts DEF Mapped, Chain
<1>5. z = IF OK(l) THEN x ELSE l
  BY <1>1, <1>2, <1>3 DEF serve_map, Then
<1>6. Sound(m, z) /\ (OK(z) => Loc(m, f) /\ z = x)
  BY <1>1, <1>4, <1>5, Followed
<1> QED BY <1>4, <1>6 DEF Mapped
LEMMA ServeSetSize ==
    ASSUME NEW m, Shape(m), NEW c, NEW f \in FilePos \cup {NULL}, NEW dir \in FilePos \cup {NULL},
           m = fs, f = Opened(c).file, dir = Opened(c).dir, InMem(m, f), f # NULL, InMem(m, dir),
           NEW size \in 0 .. NINDIRECT + 1, NEW z, z = serve_set_size(c, size)
    PROVE  Sound(m, z)
<1>1. PICK l : l = open_lookup(c)
  OBVIOUS
<1>2. PICK x : x = file_set_size(m, dir, f, size)
  OBVIOUS
<1>3. OK(l) => l = m /\ Loc(m, f)
  BY <1>1, OpenLookup
<1>4. Loc(m, f) => Sound(m, x)
  BY <1>2, FileSetSize DEF InMem
<1>5. z = IF OK(l) THEN x ELSE l
  BY <1>1, <1>2, <1>3 DEF serve_set_size, Then
<1> QED BY <1>1, <1>4, <1>5, Followed
LEMMA ServeDirty ==
    ASSUME NEW m, Shape(m), NEW c, NEW f \in FilePos \cup {NULL}, NEW dir \in FilePos \cup {NULL},
           m = fs, f = Opened(c).file, dir = Opened(c).dir, InMem(m, f), f # NULL,
           NEW n \in Nat, NEW z, z = serve_dirty(c, n)
    PROVE  Sound(m, z)
<1>1. PICK l : l = open_lookup(c)
  OBVIOUS
<1>2. PICK x : x = file_dirty(m, f, n)
  OBVIOUS
<1>3. OK(l) => l = m /\ Loc(m, f)
  BY <1>1, OpenLookup
<1>4. Loc(m, f) => Sound(m, x)
  BY <1>2, FileDirty, SoundFacts DEF Calm
<1>5. z = IF OK(l) THEN x ELSE l
  BY <1>1, <1>2, <1>3 DEF serve_dirty, Then
<1> QED BY <1>1, <1>4, <1>5, Followed
LEMMA ServeClose ==
    ASSUME NEW m, Shape(m), NEW c, NEW f \in FilePos \cup {NULL}, NEW dir \in FilePos \cup {NULL},
           m = fs, f = Opened(c).file, dir = Opened(c).dir, InMem(m, f), f # NULL, InMem(m, dir),
           NEW z, z = serve_close(c)
    PROVE  Sound(m, z)
<1>1. PICK l : l = open_lookup(c)
  OBVIOUS
<1>2. PICK x : x = file_close(m, dir, f)
  OBVIOUS
<1>3. OK(l) => l = m /\ Loc(m, f)
  BY <1>1, OpenLookup
<1>4. Loc(m, f) => Sound(m, x)
  BY <1>2, FileClose, SoundFacts DEF Calm, InMem
<1>5. z = IF OK(l) THEN x ELSE l
  BY <1>1, <1>2, <1>3 DEF serve_close, Then
<1> QED BY <1>1, <1>4, <1>5, Followed
LEMMA ServeRest ==
    ASSUME NEW m, Shape(m), m.health = "ok", m = fs, NEW path \in Seq(Name), NEW type \in {"REG", "DIR"}
    PROVE  /\ \A z : z = serve_remove(path) => Sound(m, z)
           /\ \A z : z = serve_sync => Sound(m, z)
           /\ \A z : z = serve_create(path, type) => Sound(m, z)
<1>1. ASSUME NEW z, z = serve_remove(path) PROVE Sound(m, z)
  BY <1>1, FileRemove DEF serve_remove
<1>2. ASSUME NEW z, z = serve_sync PROVE Sound(m, z)
  BY <1>2, FsSync, SoundFacts DEF serve_sync, Calm
<1>3. ASSUME NEW z, z = serve_create(path, type) PROVE Sound(m, z)
  <2>1. PICK w : w = file_create(m, path)
    OBVIOUS
  <2>2. PICK r : r = w.r
    OBVIOUS
  <2>3. PICK t : t = SetType(w, r, type)
    OBVIOUS
  <2>4. z = IF OK(w) THEN t ELSE w
    BY <1>3, <2>1, <2>2, <2>3 DEF serve_create, Then
  <2>5. Sound(m, w) /\ (OK(w) => Loc(w, r)) /\ Shape(w)
    BY <2>1, <2>2, FileCreate DEF Sound, Steps
  <2>6. ASSUME OK(w) PROVE Sound(w, t)
    <3>1. PICK rec : rec = [FileAt(w, r) EXCEPT !.type = type]
      OBVIOUS
    <3>2. FileAt(w, r) \in FileRec /\ Loc(w, r)
      BY <2>5, <2>6, LocFacts
    <3>3. rec \in FileRec /\ rec.direct = FileAt(w, r).direct /\ rec.indirect = FileAt(w, r).indirect
          /\ rec.size = FileAt(w, r).size /\ rec.name = FileAt(w, r).name
      BY <3>1, <3>2, RecFacts DEF FileRec
    <3>4. FieldSet(w, t, r, rec)
      BY <3>1, <3>2, <3>3, <2>3, <2>5, SetField DEF SetType
    <3> QED BY <3>2, <3>3, <3>4, <2>5, FieldKept
  <2> QED BY <2>4, <2>5, <2>6, SoundFacts
<1> QED BY <1>1, <1>2, <1>3
-----------------------------------------------------------------------------
(* The inductive invariant *)

\* What a client holds, and what it is about to do.
Fds == /\ offs \subseteq FileId /\ fd \in [Client -> FileId \cup {NULL}]
       /\ \A c \in Client : fd[c] # NULL => fd[c] \in offs /\ opentab[fd[c]].file # NULL
Ops == {"idle", "open", "create", "stat", "grow", "undo", "dirty", "close"}
Job == [op : Ops, n : Nat, to : 0 .. NINDIRECT + 1, old : 0 .. NINDIRECT + 1,
        path : Seq(Name) \cup {NULL}]
Busy(j, f) == /\ j \in Job
              /\ j.op \notin {"idle", "create"} => f # NULL
              /\ j.op = "create" => j.path \in Seq(Name)
Jobs == /\ job = [c \in Client |-> job[c]]
        /\ \A c \in Client : Busy(job[c], fd[c])
Sized == ffsize \in [FileId -> 0 .. NINDIRECT + 1]
Dirs == cwd \in [Client -> Seq(Name)]

IInv == /\ Server(fs, boots) /\ Tab(fs, opentab) /\ Maps(fs, map)
        /\ Fds /\ Jobs /\ Sized /\ Dirs /\ boots \in 0 .. MaxBoots

LEMMA Bounds ==
    /\ IsFiniteSet(Client) /\ MAXOPEN \in Nat /\ MaxCalls \in Nat /\ MaxBoots \in Nat
    /\ FileId \subseteq Nat /\ FileId = 0 .. MAXOPEN - 1
BY ServerAssumption DEF FileId
\* What is typed names a path.
LEMMA PathIn ==
    ASSUME NEW p \in Seq(Name), NEW w \in Word
    PROVE  cat2Path(p, w) \in Seq(Name)
<1>1. PICK s : s = w.segs
  OBVIOUS
<1>2. s \in Seq(Name \cup {".", ".."}) /\ Len(s) \in Nat
  BY <1>1, ServerAssumption
<1>3. PICK x : /\ cat2Path(p, w) = x[Len(w.segs) + 1] /\ x[1] = (IF w.abs THEN <<>> ELSE p)
               /\ \A n \in 1 .. Len(w.segs) + 1 - 1 : x[n + 1] = pushed(x[n], w, n)
  BY <1>1, <1>2, PathLoop
<1>4. PICK l : l = Len(s) + 1
  OBVIOUS
<1>5. l \in Nat /\ 1 \in 1 .. l /\ l \in 1 .. l /\ l - 1 = Len(s)
  BY <1>2, <1>4
<1> DEFINE S == {n \in 1 .. l : x[n] \in Seq(Name)}
<1>6. 1 \in S
  <2>1. <<>> \in Seq(Name)
    OBVIOUS
  <2>2. x[1] \in Seq(Name)
    BY <2>1, <1>3
  <2> QED BY <2>2, <1>5
<1>7. ASSUME NEW n \in 1 .. l - 1, n \in S PROVE n + 1 \in S
  <2>1. PICK q : q = x[n]
    OBVIOUS
  <2>2. PICK t : t = s[n]
    OBVIOUS
  <2>3. n \in 1 .. Len(s) /\ n + 1 \in 1 .. l /\ n \in 1 .. Len(w.segs) + 1 - 1
    BY <1>1, <1>2, <1>4, <1>5
  <2>4. q \in Seq(Name) /\ t \in Name \cup {".", ".."}
    BY <1>2, <1>7, <2>1, <2>2, <2>3
  <2>5. x[n + 1] = push(q, t)
    BY <1>1, <1>3, <2>1, <2>2, <2>3 DEF pushed
  <2>6. push(q, t) \in Seq(Name)
    <3>1. CASE t = "."
      BY <3>1, <2>4 DEF push
    <3>2. CASE t = ".."
      <4>1. push(q, t) = IF q = <<>> THEN q ELSE SubSeq(q, 1, Len(q) - 1)
        BY <3>2 DEF push
      <4>2. CASE q = <<>>
        BY <4>1, <4>2, <2>4
      <4>3. CASE q # <<>>
        <5>1. Len(q) \in Nat /\ Len(q) - 1 \in Int
          BY <2>4
        <5>2. \A i \in 1 .. Len(q) - 1 : q[i] \in Name
          BY <2>4
        <5> QED BY <4>1, <4>3, <5>1, <5>2, <2>4
      <4> QED BY <4>2, <4>3
    <3>3. CASE t \notin {".", ".."}
      <4>1. push(q, t) = Append(q, t) /\ t \in Name
        BY <3>3, <2>4 DEF push
      <4> QED BY <4>1, <2>4
    <3> QED BY <3>1, <3>2, <3>3
  <2> QED BY <2>3, <2>5, <2>6
<1>8. \A n \in 1 .. l : n \in S
  <2> HIDE DEF S
  <2> QED BY <1>5, <1>6, <1>7, Induction
<1> QED BY <1>1, <1>3, <1>4, <1>5, <1>8
\* The state of the server after a request.
LEMMA Answered ==
    ASSUME IInv, NEW x, Sound(fs, x), NEW c, NEW op, Served(c, x, op), boots' = boots
    PROVE  Server(fs', boots') /\ Tab(fs', opentab) /\ Maps(fs', map) /\ fs'.blk = x.blk
<1>1. PICK m : m = fs
  OBVIOUS
<1>2. PICK z : z = fs'
  OBVIOUS
<1>3. PICK b : b = boots
  OBVIOUS
<1>4. PICK t : t = opentab
  OBVIOUS
<1>5. PICK p : p = map
  OBVIOUS
<1>6. Sound(m, x)
  BY <1>1
<1>7. z = [x EXCEPT !.err = "OK", !.r = 0]
  BY <1>2 DEF Served
<1>8. Sound(m, z) /\ z.blk = x.blk
  BY <1>6, <1>7, ServedOK
<1>9. Server(m, b) /\ Tab(m, t) /\ Maps(m, p)
  BY <1>1, <1>3, <1>4, <1>5 DEF IInv
<1>10. Server(z, b) /\ Tab(z, t) /\ Maps(z, p)
  BY <1>8, <1>9, Onward
<1> QED BY <1>2, <1>3, <1>4, <1>5, <1>8, <1>10
\* The file a client has open.
LEMMA OpenedIn ==
    ASSUME IInv, NEW c \in Client, fd[c] # NULL
    PROVE  /\ fd[c] \in FileId /\ Shape(fs) /\ Opened(c).file # NULL
           /\ Opened(c).file \in FilePos \cup {NULL} /\ Opened(c).dir \in FilePos \cup {NULL}
           /\ InMem(fs, Opened(c).file) /\ InMem(fs, Opened(c).dir)
<1>1. fd[c] \in FileId /\ opentab[fd[c]].file # NULL
  BY DEF IInv, Fds
<1>2. opentab[fd[c]] \in Open /\ InMem(fs, opentab[fd[c]].file) /\ InMem(fs, opentab[fd[c]].dir)
  BY <1>1 DEF IInv, Tab
<1> QED BY <1>1, <1>2 DEF Opened, Open, IInv, Server
\* The first request of open().
LEMMA FsipcOpen ==
    ASSUME IInv, NEW c \in Client, NEW path \in Seq(Name), NEW trunc \in BOOLEAN,
           fsipc_open(c, path, trunc)
    PROVE  /\ Server(fs', boots') /\ Tab(fs', opentab') /\ Maps(fs', map') /\ Fds' /\ Sized' /\ Dirs'
           /\ boots' \in 0 .. MaxBoots
           /\ \A d \in Client : d # c => fd'[d] = fd[d]
           /\ fd'[c] # NULL => Found(c).size \in 0 .. NINDIRECT + 1
<1>1. PICK x : x = serve_open(path, trunc)
  OBVIOUS
<1>2. PICK i : i = Min(open_alloc)
  OBVIOUS
<1>3. /\ fs.health = "ok" /\ fd[c] = NULL /\ open_alloc # {} /\ Served(c, x, "none")
      /\ offs' = Alloced(i) /\ UNCHANGED <<map, cwd, boots>>
      /\ IF OK(x) THEN /\ opentab' = [opentab EXCEPT ![i] = x.r]
                       /\ ffsize' = [ffsize EXCEPT ![i] = FileAt(x, x.r.file).size]
                       /\ fd' = [fd EXCEPT ![c] = i]
         ELSE UNCHANGED <<opentab, ffsize, fd>>
  BY <1>1, <1>2 DEF fsipc_open, Opens, Ready
<1>4. i \in FileId
  <2>1. open_alloc \subseteq Nat /\ open_alloc \subseteq FileId
    BY Bounds DEF open_alloc
  <2>2. PICK T : T = open_alloc
    OBVIOUS
  <2>3. Min(T) \in T
    BY <1>3, <2>1, <2>2, MinIn
  <2> QED BY <1>2, <2>1, <2>2, <2>3
<1>5. /\ Sound(fs, x) /\ Shape(x)
      /\ OK(x) => /\ x.r \in Open /\ x.r.file # NULL /\ Loc(x, x.r.file)
                  /\ InMem(x, x.r.dir) /\ InMem(x, x.r.file)
  <2>1. PICK m : m = fs
    OBVIOUS
  <2>2. Shape(m) /\ m.health = "ok"
    BY <2>1, <1>3 DEF IInv, Server
  <2>3. /\ Sound(m, x)
        /\ OK(x) => /\ x.r \in Open /\ x.r.file # NULL /\ Loc(x, x.r.file)
                    /\ InMem(x, x.r.dir) /\ InMem(x, x.r.file)
    BY <2>1, <2>2, <1>1, ServeOpen
  <2> QED BY <2>1, <2>3 DEF Sound, Steps
<1>6. Server(fs', boots') /\ Tab(fs', opentab) /\ Maps(fs', map) /\ fs'.blk = x.blk
  BY <1>3, <1>5, Answered
<1>7. Maps(fs', map') /\ Dirs' /\ boots' \in 0 .. MaxBoots
  BY <1>3, <1>6 DEF IInv, Dirs
<1>8. offs' \subseteq FileId /\ i \in offs' /\ offs \subseteq offs'
  BY <1>3, <1>4 DEF Alloced, IInv, Fds
<1>9. CASE OK(x)
  <2>1. /\ opentab' = [opentab EXCEPT ![i] = x.r] /\ fd' = [fd EXCEPT ![c] = i]
        /\ ffsize' = [ffsize EXCEPT ![i] = FileAt(x, x.r.file).size]
    BY <1>3, <1>9
  <2>2. PICK f : f = x.r.file
    OBVIOUS
  <2>3. Loc(x, f) /\ FileAt(x, f).size \in 0 .. NINDIRECT + 1
    BY <1>5, <1>9, <2>2, SizeNat
  <2>4. PICK z : z = fs'
    OBVIOUS
  <2>5. InMem(z, x.r.dir) /\ InMem(z, x.r.file) /\ FileAt(z, f) = FileAt(x, f)
    BY <1>5, <1>6, <1>9, <2>4 DEF InMem, FileAt
  <2>6. Tab(fs', opentab')
    <3>1. Tab(z, opentab)
      BY <1>6, <2>4
    <3>2. opentab' \in [FileId -> Open]
      BY <2>1, <3>1, <1>4, <1>5, <1>9 DEF Tab
    <3>3. \A j \in FileId : InMem(z, opentab'[j].dir) /\ InMem(z, opentab'[j].file)
      BY <2>1, <2>5, <3>1, <1>4 DEF Tab
    <3> QED BY <3>2, <3>3, <2>4 DEF Tab
  <2>7. Fds'
    <3>1. fd' \in [Client -> FileId \cup {NULL}]
      BY <2>1, <1>4 DEF IInv, Fds
    <3>2. ASSUME NEW d \in Client, fd'[d] # NULL
          PROVE  fd'[d] \in offs' /\ opentab'[fd'[d]].file # NULL
      <4>1. CASE fd'[d] = i
        <5>1. opentab'[i] = x.r
          BY <2>1, <1>4 DEF IInv, Tab
        <5> QED BY <4>1, <5>1, <1>5, <1>8, <1>9
      <4>2. CASE fd'[d] # i
        <5>1. d # c /\ fd'[d] = fd[d]
          BY <4>2, <2>1 DEF IInv, Fds
        <5>2. fd[d] \in offs /\ opentab[fd[d]].file # NULL
          BY <5>1, <3>2 DEF IInv, Fds
        <5>3. opentab'[fd[d]] = opentab[fd[d]]
          BY <2>1, <4>2, <5>1, <5>2 DEF IInv, Tab, Fds
        <5> QED BY <5>1, <5>2, <5>3, <1>8
      <4> QED BY <4>1, <4>2
    <3> QED BY <3>1, <3>2, <1>8 DEF Fds
  <2>8. Sized'
    BY <2>1, <2>2, <2>3 DEF IInv, Sized
  <2>9. Found(c).size \in 0 .. NINDIRECT + 1
    <3>1. fd'[c] = i /\ opentab'[i] = x.r
      BY <2>1, <1>4 DEF IInv, Tab, Fds
    <3>2. Found(c) = FileAt(z, f)
      BY <3>1, <2>2, <2>4 DEF Found
    <3> QED BY <3>2, <2>3, <2>5
  <2>10. \A d \in Client : d # c => fd'[d] = fd[d]
    BY <2>1 DEF IInv, Fds
  <2> QED BY <1>6, <1>7, <2>6, <2>7, <2>8, <2>9, <2>10
<1>10. CASE ~OK(x)
  <2>1. UNCHANGED <<opentab, ffsize, fd>>
    BY <1>3, <1>10
  <2>2. Fds' /\ Sized'
    BY <2>1, <1>8 DEF IInv, Fds, Sized
  <2> QED BY <2>1, <2>2, <1>3, <1>6, <1>7
<1> QED BY <1>9, <1>10
-----------------------------------------------------------------------------
(* What a client is about to do *)

LEMMA BusyFacts ==
    /\ \A f : Busy(Idle, f)
    /\ \A f, s, r : f # NULL /\ s \in 0 .. NINDIRECT + 1
                        /\ r = [Idle EXCEPT !.op = "open", !.to = s] => Busy(r, f)
    /\ \A f, p, r : p \in Seq(Name) /\ r = [Idle EXCEPT !.op = "create", !.path = p] => Busy(r, f)
    /\ \A f, j, o, r : Busy(j, f) /\ f # NULL /\ o \in {"undo", "close"}
                           /\ r = [j EXCEPT !.op = o] => Busy(r, f)
    /\ \A f, j, n, r : Busy(j, f) /\ f # NULL /\ n \in Nat /\ j.op # "create"
                           /\ r = [j EXCEPT !.n = n] => Busy(r, f)
<1>0. 0 \in 0 .. NINDIRECT + 1 /\ 0 \in Nat /\ NULL \in Seq(Name) \cup {NULL}
      /\ \A k \in 0 .. NINDIRECT + 1 : k \in Nat
  BY Sizes
<1>2. ASSUME NEW o \in Ops, NEW n \in Nat, NEW s \in 0 .. NINDIRECT + 1,
             NEW k \in 0 .. NINDIRECT + 1, NEW p \in Seq(Name) \cup {NULL}
      PROVE  [op |-> o, n |-> n, to |-> s, old |-> k, path |-> p] \in Job
  BY <1>2 DEF Job
<1>3. \A f : Busy(Idle, f)
  BY <1>0, <1>2 DEF Busy, Ops, Idle
<1>4. ASSUME NEW f, NEW s \in 0 .. NINDIRECT + 1, NEW r, r = [Idle EXCEPT !.op = "open", !.to = s], f # NULL
      PROVE  Busy(r, f)
  <2>1. r = [op |-> "open", n |-> 0, to |-> s, old |-> 0, path |-> NULL]
    BY <1>4 DEF Idle
  <2>2. r \in Job
    BY <2>1, <1>0, <1>2, <1>4 DEF Ops
  <2> QED BY <2>1, <2>2, <1>4 DEF Busy
<1>5. ASSUME NEW f, NEW p \in Seq(Name), NEW r, r = [Idle EXCEPT !.op = "create", !.path = p]
      PROVE  Busy(r, f)
  <2>1. r = [op |-> "create", n |-> 0, to |-> 0, old |-> 0, path |-> p]
    BY <1>5 DEF Idle
  <2>2. r \in Job
    BY <2>1, <1>0, <1>2, <1>5 DEF Ops
  <2> QED BY <2>1, <2>2, <1>5 DEF Busy
<1>8. ASSUME NEW f, NEW j, Busy(j, f), f # NULL, NEW o \in {"undo", "close"}, NEW r, r = [j EXCEPT !.op = o]
      PROVE  Busy(r, f)
  <2>1. r = [op |-> o, n |-> j.n, to |-> j.to, old |-> j.old, path |-> j.path]
        /\ j.n \in Nat /\ j.to \in 0 .. NINDIRECT + 1 /\ j.old \in 0 .. NINDIRECT + 1
        /\ j.path \in Seq(Name) \cup {NULL}
    BY <1>8 DEF Busy, Job
  <2>2. r \in Job
    BY <2>1, <1>2, <1>8 DEF Ops
  <2> QED BY <2>1, <2>2, <1>8 DEF Busy
<1>9. ASSUME NEW f, NEW j, Busy(j, f), f # NULL, NEW n \in Nat, j.op # "create", NEW r, r = [j EXCEPT !.n = n]
      PROVE  Busy(r, f)
  <2>1. r = [op |-> j.op, n |-> n, to |-> j.to, old |-> j.old, path |-> j.path]
        /\ j.op \in Ops /\ j.to \in 0 .. NINDIRECT + 1 /\ j.old \in 0 .. NINDIRECT + 1
        /\ j.path \in Seq(Name) \cup {NULL}
    BY <1>9 DEF Busy, Job
  <2>2. r \in Job
    BY <2>1, <1>2, <1>9
  <2> QED BY <2>1, <2>2, <1>9 DEF Busy
<1> QED BY <1>3, <1>4, <1>5, <1>8, <1>9
LEMMA BusyStat ==
    ASSUME NEW f, f # NULL, NEW s \in 0 .. NINDIRECT + 1, NEW p \in Seq(Name) \cup {NULL},
           NEW o \in {"stat", "dirty", "close"}, NEW r, r = [Idle EXCEPT !.op = o, !.to = s, !.path = p]
    PROVE  Busy(r, f)
<1>1. r = [op |-> o, n |-> 0, to |-> s, old |-> 0, path |-> p]
  BY DEF Idle
<1>2. r \in Job
  <2>1. 0 \in 0 .. NINDIRECT + 1 /\ 0 \in Nat /\ o \in Ops
    BY Sizes DEF Ops
  <2> QED BY <1>1, <2>1 DEF Job
<1> QED BY <1>1, <1>2 DEF Busy
LEMMA BusyGrow ==
    ASSUME NEW f, f # NULL, NEW s \in 0 .. NINDIRECT + 1, NEW k \in 0 .. NINDIRECT + 1,
           NEW r, r = [Idle EXCEPT !.op = "grow", !.n = k, !.to = s, !.old = k]
    PROVE  Busy(r, f)
<1>1. r = [op |-> "grow", n |-> k, to |-> s, old |-> k, path |-> NULL]
  BY DEF Idle
<1>2. r \in Job
  <2>1. k \in Nat /\ "grow" \in Ops
    BY Sizes DEF Ops
  <2> QED BY <1>1, <2>1 DEF Job
<1> QED BY <1>1, <1>2 DEF Busy
\* One client goes on.
LEMMA JobSet ==
    ASSUME Jobs, NEW c \in Client, NEW j, job' = [job EXCEPT ![c] = j], Busy(j, fd'[c]),
           \A d \in Client : d # c => fd'[d] = fd[d]
    PROVE  Jobs'
<1>1. job' = [d \in Client |-> job'[d]] /\ job'[c] = j /\ \A d \in Client : d # c => job'[d] = job[d]
  BY DEF Jobs
<1>2. ASSUME NEW d \in Client PROVE Busy(job'[d], fd'[d])
  <2>1. CASE d = c
    BY <1>1, <2>1
  <2>2. CASE d # c
    BY <1>1, <2>2 DEF Jobs
  <2> QED BY <2>1, <2>2
<1> QED BY <1>1, <1>2 DEF Jobs
\* A client is done, its file is closed, and of what it had mapped it keeps pages.
LEMMA ClosedOK ==
    ASSUME IInv, NEW c \in Client, fd' = [fd EXCEPT ![c] = NULL], NEW pages,
           pages = [n \in Is |-> pages[n]], \A n \in Is : pages[n] \in {map[c][n], 0},
           map' = [map EXCEPT ![c] = pages],
           job' = [job EXCEPT ![c] = Idle], UNCHANGED <<offs, opentab>>
    PROVE  /\ Fds' /\ Jobs' /\ \A x : Maps(x, map) => Maps(x, map')
<1>1. Fds'
  <2>1. \A d \in Client : fd'[d] = IF d = c THEN NULL ELSE fd[d]
    BY DEF IInv, Fds
  <2>2. fd' \in [Client -> FileId \cup {NULL}]
    BY DEF IInv, Fds
  <2> QED BY <2>1, <2>2 DEF IInv, Fds
<1>2. \A d \in Client : d # c => fd'[d] = fd[d]
  BY DEF IInv, Fds
<1>3. Jobs'
  BY <1>2, BusyFacts, JobSet DEF IInv
<1>4. ASSUME NEW x, Maps(x, map) PROVE Maps(x, map')
  <2>1. pages \in [Is -> {0} \cup Data]
    BY <1>4 DEF Maps
  <2>2. map' \in [Client -> [Is -> {0} \cup Data]]
    BY <1>4, <2>1 DEF Maps
  <2>3. ASSUME NEW d \in Client, NEW n \in Is, map'[d][n] # 0 PROVE x.blk[map'[d][n]] # NULL
    <3>1. map'[d][n] \in {map[d][n], 0}
      BY <1>4 DEF Maps
    <3> QED BY <3>1, <1>4, <2>3 DEF Maps
  <2> QED BY <2>2, <2>3 DEF Maps
<1> QED BY <1>1, <1>3, <1>4
\* One page more is mapped.
LEMMA MapSet ==
    ASSUME NEW x, NEW p, Maps(x, p), NEW c \in Client, NEW n, NEW b \in Data, x.blk[b] # NULL,
           NEW q, q = [p EXCEPT ![c][n] = b]
    PROVE  Maps(x, q)
<1>1. q \in [Client -> [Is -> {0} \cup Data]]
  BY DEF Maps
<1>2. ASSUME NEW d \in Client, NEW k \in Is, q[d][k] # 0 PROVE x.blk[q[d][k]] # NULL
  <2>1. CASE d = c /\ k = n
    BY <2>1 DEF Maps
  <2>2. CASE ~(d = c /\ k = n)
    <3>1. q[d][k] = p[d][k]
      BY <2>2 DEF Maps
    <3> QED BY <3>1, <1>2 DEF Maps
  <2> QED BY <2>1, <2>2
<1> QED BY <1>1, <1>2 DEF Maps
-----------------------------------------------------------------------------
(* The steps of a client *)

LEMMA StepOpen ==
    ASSUME IInv, NEW c \in Client, NEW path \in Seq(Name)
    PROVE  /\ \A trunc \in BOOLEAN : open(c, path, trunc) => IInv'
           /\ openCreat(c, path) => IInv'
           /\ cd(c, path) => IInv'
<1>1. ASSUME NEW trunc \in BOOLEAN, fsipc_open(c, path, trunc), Jobs' PROVE IInv'
  BY <1>1, FsipcOpen DEF IInv
<1>2. ASSUME NEW trunc \in BOOLEAN, fsipc_open(c, path, trunc), NEW j,
             job' = [job EXCEPT ![c] = j], Busy(j, fd'[c])
      PROVE  Jobs'
  BY <1>2, FsipcOpen, JobSet DEF IInv
<1>3. ASSUME NEW trunc \in BOOLEAN, open(c, path, trunc) PROVE IInv'
  <2>1. PICK s : s = Found(c).size
    OBVIOUS
  <2>2. PICK j : j = IF fd'[c] = NULL \/ s = 0 THEN Idle ELSE [Idle EXCEPT !.op = "open", !.to = s]
    OBVIOUS
  <2>3. fsipc_open(c, path, trunc) /\ job' = [job EXCEPT ![c] = j]
    BY <1>3, <2>1, <2>2 DEF open
  <2>4. fd'[c] # NULL => s \in 0 .. NINDIRECT + 1
    BY <2>1, <2>3, FsipcOpen
  <2>5. Busy(j, fd'[c])
    BY <2>2, <2>4, BusyFacts
  <2> QED BY <2>3, <2>5, <1>1, <1>2
<1>4. ASSUME openCreat(c, path) PROVE IInv'
  <2>1. PICK j : j = IF fd'[c] # NULL THEN Idle ELSE [Idle EXCEPT !.op = "create", !.path = path]
    OBVIOUS
  <2>2. fsipc_open(c, path, FALSE) /\ job' = [job EXCEPT ![c] = j]
    BY <1>4, <2>1 DEF openCreat
  <2>3. Busy(j, fd'[c])
    BY <2>1, BusyFacts
  <2> QED BY <2>2, <2>3, <1>1, <1>2
<1>5. ASSUME cd(c, path) PROVE IInv'
  <2>1. PICK s : s = Found(c).size
    OBVIOUS
  <2>2. PICK q : q = IF Found(c).type = "DIR" THEN path ELSE NULL
    OBVIOUS
  <2>3. PICK o : o = IF s = 0 THEN "close" ELSE "stat"
    OBVIOUS
  <2>4. PICK j : j = IF fd'[c] = NULL THEN Idle ELSE [Idle EXCEPT !.op = o, !.to = s, !.path = q]
    OBVIOUS
  <2>5. fsipc_open(c, path, FALSE) /\ job' = [job EXCEPT ![c] = j]
    BY <1>5, <2>1, <2>2, <2>3, <2>4 DEF cd, stat
  <2>6. (fd'[c] # NULL => s \in 0 .. NINDIRECT + 1) /\ q \in Seq(Name) \cup {NULL}
        /\ o \in {"stat", "dirty", "close"}
    BY <2>1, <2>2, <2>3, <2>5, FsipcOpen
  <2>7. Busy(j, fd'[c])
    <3>1. PICK f : f = fd'[c]
      OBVIOUS
    <3>2. CASE f = NULL
      BY <2>4, <3>1, <3>2, BusyFacts
    <3>3. CASE f # NULL
      <4>1. j = [Idle EXCEPT !.op = o, !.to = s, !.path = q] /\ s \in 0 .. NINDIRECT + 1
        BY <2>4, <2>6, <3>1, <3>3
      <4>2. Busy(j, f)
        BY <4>1, <2>6, <3>3, BusyStat
      <4> QED BY <4>2, <3>1
    <3> QED BY <3>2, <3>3
  <2> QED BY <2>5, <2>7, <1>1, <1>2
<1> QED BY <1>3, <1>4, <1>5
\* What closing a file begins with.
LEMMA ClosingBusy ==
    ASSUME IInv, NEW c \in Client, fd[c] # NULL, NEW q \in Seq(Name) \cup {NULL}
    PROVE  Busy(Closing(fd[c], q), fd[c])
<1>1. PICK s : s = ffsize[fd[c]]
  OBVIOUS
<1>2. PICK o : o = IF s = 0 THEN "close" ELSE "dirty"
  OBVIOUS
<1>3. s \in 0 .. NINDIRECT + 1 /\ o \in {"stat", "dirty", "close"}
  BY <1>1, <1>2 DEF IInv, Sized, Fds
<1>4. Closing(fd[c], q) = [Idle EXCEPT !.op = o, !.to = s, !.path = q]
  BY <1>1, <1>2 DEF Closing
<1> QED BY <1>3, <1>4, BusyStat
LEMMA StepMap ==
    ASSUME IInv, NEW c \in Client, NEW op, fsipc_map(c, op)
    PROVE  IInv'
<1>1. PICK n : n = job[c].n
  OBVIOUS
<1>2. PICK x : x = serve_map(c, n)
  OBVIOUS
<1>3. PICK j : j = job[c]
  OBVIOUS
<1>4. PICK g : g = IF OK(x) /\ j.n + 1 < j.to THEN NextBlock(j)
                   ELSE IF OK(x) /\ op = "stat" THEN Closing(fd[c], j.path)
                   ELSE IF OK(x) \/ op # "grow" THEN Idle
                   ELSE [j EXCEPT !.op = "undo"]
  OBVIOUS
<1>5. /\ job[c].op = op /\ op \in {"open", "stat", "grow"} /\ Served(c, x, "none")
      /\ map' = (IF OK(x) THEN [map EXCEPT ![c][n] = x.r] ELSE map)
      /\ UNCHANGED <<offs, opentab, ffsize, fd, cwd, calls, boots>>
  BY <1>1, <1>2 DEF fsipc_map, May
<1>6. job' = [job EXCEPT ![c] = g]
  <2>1. job' = [job EXCEPT ![c] =
                  IF OK(x) /\ @.n + 1 < @.to THEN NextBlock(@)
                  ELSE IF OK(x) /\ op = "stat" THEN Closing(fd[c], @.path)
                  ELSE IF OK(x) \/ op # "grow" THEN Idle
                  ELSE [@ EXCEPT !.op = "undo"]]
    BY <1>1, <1>2 DEF fsipc_map
  <2>2. job' = [job EXCEPT ![c] =
                  IF OK(x) /\ j.n + 1 < j.to THEN NextBlock(j)
                  ELSE IF OK(x) /\ op = "stat" THEN Closing(fd[c], j.path)
                  ELSE IF OK(x) \/ op # "grow" THEN Idle
                  ELSE [j EXCEPT !.op = "undo"]]
    BY <2>1, <1>3
  <2> QED BY <2>2, <1>4
<1>7. fd[c] # NULL /\ Busy(j, fd[c]) /\ n \in Nat /\ j.op # "create" /\ j.n = n
      /\ j.path \in Seq(Name) \cup {NULL}
  BY <1>1, <1>3, <1>5 DEF IInv, Jobs, Busy, Job
<1>8. Sound(fs, x) /\ (OK(x) => x.r \in Data /\ x.blk[x.r] # NULL)
  <2>1. PICK m : m = fs
    OBVIOUS
  <2>2. PICK f : f = Opened(c).file
    OBVIOUS
  <2>3. PICK dir : dir = Opened(c).dir
    OBVIOUS
  <2>4. Shape(m) /\ f \in FilePos \cup {NULL} /\ dir \in FilePos \cup {NULL} /\ InMem(m, f) /\ f # NULL
    BY <1>7, <2>1, <2>2, <2>3, OpenedIn
  <2>5. Sound(m, x) /\ (OK(x) => x.r \in Data /\ x.blk[x.r] # NULL)
    BY <1>2, <1>7, <2>1, <2>2, <2>3, <2>4, ServeMap
  <2> QED BY <2>1, <2>5
<1>9. Server(fs', boots') /\ Tab(fs', opentab) /\ Maps(fs', map) /\ fs'.blk = x.blk
  BY <1>5, <1>8, Answered
<1>10. Maps(fs', map')
  <2>1. PICK z : z = fs'
    OBVIOUS
  <2>2. PICK p : p = map
    OBVIOUS
  <2>3. PICK q : q = map'
    OBVIOUS
  <2>4. CASE OK(x)
    <3>1. PICK b : b = x.r
      OBVIOUS
    <3>2. b \in Data /\ z.blk[b] # NULL /\ q = [p EXCEPT ![c][n] = b] /\ Maps(z, p)
      BY <1>5, <1>8, <1>9, <2>1, <2>2, <2>3, <2>4, <3>1
    <3> QED BY <3>2, <2>1, <2>3, MapSet
  <2>5. CASE ~OK(x)
    BY <2>5, <1>5, <1>9
  <2> QED BY <2>4, <2>5
<1>11. Busy(g, fd'[c])
  <2>1. fd'[c] = fd[c] /\ n + 1 \in Nat
    BY <1>5, <1>7
  <2>2. Busy(NextBlock(j), fd[c])
    <3>1. NextBlock(j) = [j EXCEPT !.n = n + 1]
      BY <1>7 DEF NextBlock
    <3> QED BY <3>1, <2>1, <1>7, BusyFacts
  <2>3. Busy(Closing(fd[c], j.path), fd[c])
    BY <1>7, ClosingBusy
  <2>4. Busy(Idle, fd[c]) /\ (\A r : r = [j EXCEPT !.op = "undo"] => Busy(r, fd[c]))
    BY <1>7, BusyFacts
  <2> QED BY <1>4, <2>1, <2>2, <2>3, <2>4
<1>12. Jobs'
  BY <1>5, <1>6, <1>11, JobSet DEF IInv
<1> QED BY <1>5, <1>9, <1>10, <1>12 DEF IInv, Fds, Sized, Dirs
LEMMA StepTruncate ==
    ASSUME IInv, NEW c \in Client, NEW size \in 0 .. NINDIRECT, ftruncate(c, size)
    PROVE  IInv'
<1>1. PICK x : x = serve_set_size(c, size)
  OBVIOUS
<1>2. PICK old : old = ffsize[fd[c]]
  OBVIOUS
<1>3. PICK j : j = IF size <= old THEN Idle
                   ELSE [Idle EXCEPT !.op = "grow", !.n = old, !.to = size, !.old = old]
  OBVIOUS
<1>4. /\ fd[c] # NULL /\ Served(c, x, "none") /\ ffsize' = [ffsize EXCEPT ![fd[c]] = size]
      /\ map' = [map EXCEPT ![c] = [n \in DOMAIN @ |-> IF n >= size THEN 0 ELSE @[n]]]
      /\ job' = [job EXCEPT ![c] = j]
      /\ UNCHANGED <<offs, opentab, fd, cwd, boots>>
  BY <1>1, <1>2, <1>3 DEF ftruncate
<1>5. size \in 0 .. NINDIRECT + 1 /\ old \in 0 .. NINDIRECT + 1
  BY <1>2, <1>4, Sizes DEF IInv, Sized, Fds
<1>6. Sound(fs, x)
  <2>1. PICK m : m = fs
    OBVIOUS
  <2>2. PICK f : f = Opened(c).file
    OBVIOUS
  <2>3. PICK dir : dir = Opened(c).dir
    OBVIOUS
  <2>4. Shape(m) /\ f \in FilePos \cup {NULL} /\ dir \in FilePos \cup {NULL} /\ InMem(m, f) /\ f # NULL
        /\ InMem(m, dir)
    BY <1>4, <2>1, <2>2, <2>3, OpenedIn
  <2>5. Sound(m, x)
    BY <1>1, <1>5, <2>1, <2>2, <2>3, <2>4, ServeSetSize
  <2> QED BY <2>1, <2>5
<1>7. Server(fs', boots') /\ Tab(fs', opentab) /\ Maps(fs', map)
  BY <1>4, <1>6, Answered
<1>8. Maps(fs', map')
  <2>1. PICK z : z = fs'
    OBVIOUS
  <2>2. PICK p : p = map
    OBVIOUS
  <2>3. PICK q : q = map'
    OBVIOUS
  <2>4. Maps(z, p) /\ q = [p EXCEPT ![c] = [n \in DOMAIN p[c] |-> IF n >= size THEN 0 ELSE p[c][n]]]
    BY <1>4, <1>7, <2>1, <2>2, <2>3
  <2>5. PICK g : g = [n \in Is |-> IF n >= size THEN 0 ELSE p[c][n]]
    OBVIOUS
  <2>6. q = [p EXCEPT ![c] = g] /\ g \in [Is -> {0} \cup Data]
        /\ \A n \in Is : g[n] # 0 => g[n] = p[c][n]
    BY <2>4, <2>5 DEF Maps
  <2>7. \A d \in Client : q[d] = IF d = c THEN g ELSE p[d]
    BY <2>4, <2>6 DEF Maps
  <2>8. q \in [Client -> [Is -> {0} \cup Data]]
    BY <2>4, <2>6 DEF Maps
  <2>9. \A d \in Client, n \in Is : q[d][n] # 0 => z.blk[q[d][n]] # NULL
    BY <2>4, <2>6, <2>7 DEF Maps
  <2>10. Maps(z, q)
    BY <2>8, <2>9 DEF Maps
  <2> QED BY <2>1, <2>3, <2>10
<1>9. Busy(j, fd'[c])
  <2>1. PICK f : f = fd[c]
    OBVIOUS
  <2>2. Busy(j, f)
    <3>1. CASE size <= old
      BY <3>1, <1>3, BusyFacts
    <3>2. CASE ~(size <= old)
      <4>1. j = [Idle EXCEPT !.op = "grow", !.n = old, !.to = size, !.old = old] /\ f # NULL
        BY <3>2, <1>3, <1>4, <2>1
      <4> QED BY <4>1, <1>5, BusyGrow
    <3> QED BY <3>1, <3>2
  <2> QED BY <1>4, <2>1, <2>2
<1>10. Jobs'
  BY <1>4, <1>9, JobSet DEF IInv
<1>11. Sized'
  BY <1>4, <1>5 DEF IInv, Sized
<1> QED BY <1>4, <1>7, <1>8, <1>10, <1>11 DEF IInv, Fds, Dirs
LEMMA StepUndo ==
    ASSUME IInv, NEW c \in Client, Undo(c)
    PROVE  IInv'
<1>1. PICK old : old = job[c].old
  OBVIOUS
<1>2. PICK x : x = serve_set_size(c, old)
  OBVIOUS
<1>3. /\ job[c].op = "undo" /\ Served(c, x, "none") /\ job' = [job EXCEPT ![c] = Idle]
      /\ UNCHANGED <<offs, opentab, ffsize, fd, map, cwd, calls, boots>>
  BY <1>1, <1>2 DEF Undo, May, Done
<1>4. fd[c] # NULL /\ old \in 0 .. NINDIRECT + 1
  BY <1>1, <1>3 DEF IInv, Jobs, Busy, Job
<1>5. Sound(fs, x)
  <2>1. PICK m : m = fs
    OBVIOUS
  <2>2. PICK f : f = Opened(c).file
    OBVIOUS
  <2>3. PICK dir : dir = Opened(c).dir
    OBVIOUS
  <2>4. Shape(m) /\ f \in FilePos \cup {NULL} /\ dir \in FilePos \cup {NULL} /\ InMem(m, f) /\ f # NULL
        /\ InMem(m, dir)
    BY <1>4, <2>1, <2>2, <2>3, OpenedIn
  <2>5. Sound(m, x)
    BY <1>2, <1>4, <2>1, <2>2, <2>3, <2>4, ServeSetSize
  <2> QED BY <2>1, <2>5
<1>6. Server(fs', boots') /\ Tab(fs', opentab) /\ Maps(fs', map)
  BY <1>3, <1>5, Answered
<1>7. Jobs'
  BY <1>3, BusyFacts, JobSet DEF IInv
<1> QED BY <1>3, <1>6, <1>7 DEF IInv, Fds, Sized, Dirs
\* A client stores into a page that it has mapped: nothing that blocks say changes.
LEMMA StoreOK ==
    ASSUME NEW m, Shape(m), NEW b \in Data, m.blk[b] # NULL,
           m.blk[b].kind = "data" \/ IsZero(m.blk[b]), NEW x, x = [m EXCEPT !.blk[b] = Text]
    PROVE  Works(m, x)
<1>1. b \in Block /\ b # BITMAP /\ Fits(b, Text)
  BY Sizes, FitsMade
<1>2. Put(m, x, b, Text)
  <2>1. Known(m, b, Text)
    BY <1>1, KnownBlank DEF Text
  <2> QED BY <1>1, <2>1, PutBlock
<1>3. Steps(m, x) /\ Free(x) = Free(m)
  BY <1>2 DEF Put, Steps
<1>4. Fits(b, Mem(m)[b]) /\ Mem(m)[b] = m.blk[b] /\ Mem(x)[b] = Text
  BY <1>1, <1>2, MemFits DEF Shape, Put
<1>5. Text.kind = "data"
  BY DEF Text
<1>6. /\ \A j \in Js, n \in Ns : PtrAt(Mem(m), b, j, n) = 0 /\ PtrAt(Mem(x), b, j, n) = 0
      /\ \A j \in Js : /\ SizeAt(Mem(m), b, j) = 0 /\ SizeAt(Mem(x), b, j) = 0
                       /\ j \in Fs => NameAt(Mem(m), b, j) = NULL /\ NameAt(Mem(x), b, j) = NULL
  <2>1. PICK B : B = Mem(m)
    OBVIOUS
  <2>2. PICK C : C = Mem(x)
    OBVIOUS
  <2>3. Fits(b, B[b]) /\ (B[b].kind \in {"data", "bitmap"} \/ IsZero(B[b]) \/ b = 0)
    BY <1>4, <2>1
  <2>4. Fits(b, C[b]) /\ (C[b].kind \in {"data", "bitmap"} \/ IsZero(C[b]) \/ b = 0)
    BY <1>1, <1>4, <1>5, <2>2
  <2>5. /\ \A j \in Js, n \in Ns : PtrAt(B, b, j, n) = 0
        /\ \A j \in Js : SizeAt(B, b, j) = 0 /\ (j \in Fs => NameAt(B, b, j) = NULL)
    BY <1>1, <2>3, Nothing
  <2>6. /\ \A j \in Js, n \in Ns : PtrAt(C, b, j, n) = 0
        /\ \A j \in Js : SizeAt(C, b, j) = 0 /\ (j \in Fs => NameAt(C, b, j) = NULL)
    BY <1>1, <2>4, Nothing
  <2> QED BY <2>1, <2>2, <2>5, <2>6
<1>7. SameView(m, x)
  <2>1. ASSUME NEW a \in Block, NEW j \in Js
        PROVE  /\ \A n \in Ns : PtrAt(Mem(x), a, j, n) = PtrAt(Mem(m), a, j, n)
               /\ SizeAt(Mem(x), a, j) = SizeAt(Mem(m), a, j)
               /\ j \in Fs => NameAt(Mem(x), a, j) = NameAt(Mem(m), a, j)
    <3>1. CASE a = b
      BY <3>1, <1>6
    <3>2. CASE a # b
      <4>1. Mem(x)[a] = Mem(m)[a]
        BY <3>2, <1>2 DEF Put
      <4> QED BY <4>1, Local
    <3> QED BY <3>1, <3>2
  <2> QED BY <2>1 DEF SameView
<1> QED BY <1>3, <1>7, SameViewSafe
LEMMA StepStore ==
    ASSUME IInv, NEW c \in Client, NEW n \in Is, store(c, n)
    PROVE  IInv'
<1>1. PICK b : b = map[c][n]
  OBVIOUS
<1>2. PICK m : m = fs
  OBVIOUS
<1>3. PICK z : z = fs'
  OBVIOUS
<1>4. /\ b # 0 /\ UNCHANGED <<clients, calls, boots>>
      /\ z = IF m.blk[b].kind = "data" \/ IsZero(m.blk[b]) THEN [m EXCEPT !.blk[b] = Text]
             ELSE Sick(m, "stale")
  BY <1>1, <1>2, <1>3 DEF store
<1>5. Server(m, boots) /\ Tab(m, opentab) /\ Maps(m, map) /\ Shape(m)
  BY <1>2 DEF IInv, Server
<1>6. b \in Data /\ m.blk[b] # NULL
  BY <1>1, <1>4, <1>5 DEF Maps
<1>7. Sound(m, z)
  BY <1>4, <1>5, <1>6, StoreOK, AnswerWorks, SoundFacts
<1>8. Server(z, boots) /\ Tab(z, opentab) /\ Maps(z, map)
  BY <1>5, <1>7, Onward
<1> QED BY <1>3, <1>4, <1>8 DEF IInv, clients, Fds, Jobs, Sized, Dirs
LEMMA StepClose ==
    ASSUME IInv, NEW c \in Client, close(c)
    PROVE  IInv'
<1>1. PICK j : j = Closing(fd[c], NULL)
  OBVIOUS
<1>2. /\ fd[c] # NULL /\ job' = [job EXCEPT ![c] = j]
      /\ UNCHANGED <<fs, offs, opentab, ffsize, fd, map, cwd, boots, last>>
  BY <1>1 DEF close
<1>3. Busy(j, fd'[c])
  BY <1>1, <1>2, ClosingBusy
<1>4. Jobs'
  BY <1>2, <1>3, JobSet DEF IInv
<1> QED BY <1>2, <1>4 DEF IInv, Fds, Sized, Dirs
LEMMA StepDirty ==
    ASSUME IInv, NEW c \in Client, fsipc_dirty(c)
    PROVE  IInv'
<1>1. PICK n : n = job[c].n
  OBVIOUS
<1>2. PICK x : x = serve_dirty(c, n)
  OBVIOUS
<1>3. PICK j : j = job[c]
  OBVIOUS
<1>4. PICK g : g = IF j.n + 1 < j.to THEN NextBlock(j) ELSE [j EXCEPT !.op = "close"]
  OBVIOUS
<1>5. /\ job[c].op = "dirty" /\ Served(c, x, "none")
      /\ OK(x) => UNCHANGED <<fd, map, cwd>>
      /\ ~OK(x) => Closed(c, map[c])
      /\ UNCHANGED <<offs, opentab, ffsize, calls, boots>>
  BY <1>1, <1>2 DEF fsipc_dirty, May
<1>6. OK(x) => job' = [job EXCEPT ![c] = g]
  <2>1. OK(x) => job' = [job EXCEPT ![c] = IF @.n + 1 < @.to THEN NextBlock(@)
                                           ELSE [@ EXCEPT !.op = "close"]]
    BY <1>1, <1>2 DEF fsipc_dirty
  <2>2. OK(x) => job' = [job EXCEPT ![c] = IF j.n + 1 < j.to THEN NextBlock(j)
                                           ELSE [j EXCEPT !.op = "close"]]
    BY <2>1, <1>3
  <2> QED BY <2>2, <1>4
<1>7. fd[c] # NULL /\ Busy(j, fd[c]) /\ n \in Nat /\ j.op # "create" /\ j.n = n
      /\ job[c].path \in Seq(Name) \cup {NULL}
  BY <1>1, <1>3, <1>5 DEF IInv, Jobs, Busy, Job
<1>8. Sound(fs, x)
  <2>1. PICK m : m = fs
    OBVIOUS
  <2>2. PICK f : f = Opened(c).file
    OBVIOUS
  <2>3. PICK dir : dir = Opened(c).dir
    OBVIOUS
  <2>4. Shape(m) /\ f \in FilePos \cup {NULL} /\ dir \in FilePos \cup {NULL} /\ InMem(m, f) /\ f # NULL
    BY <1>7, <2>1, <2>2, <2>3, OpenedIn
  <2>5. Sound(m, x)
    BY <1>2, <1>7, <2>1, <2>2, <2>3, <2>4, ServeDirty
  <2> QED BY <2>1, <2>5
<1>9. Server(fs', boots') /\ Tab(fs', opentab) /\ Maps(fs', map)
  BY <1>5, <1>8, Answered
<1>10. CASE OK(x)
  <2>1. Busy(g, fd'[c])
    <3>1. NextBlock(j) = [j EXCEPT !.n = n + 1] /\ n + 1 \in Nat
      BY <1>7 DEF NextBlock
    <3>2. PICK f : f = fd[c]
      OBVIOUS
    <3>3. Busy(j, f) /\ f # NULL
      BY <1>7, <3>2
    <3>4. Busy(NextBlock(j), f)
      BY <3>1, <3>3, <1>7, BusyFacts
    <3>5. \A r : r = [j EXCEPT !.op = "close"] => Busy(r, f)
      BY <3>3, BusyFacts
    <3> QED BY <3>2, <3>4, <3>5, <1>4, <1>5, <1>10
  <2>2. Jobs'
    BY <2>1, <1>5, <1>6, <1>10, JobSet DEF IInv
  <2> QED BY <2>2, <1>5, <1>9, <1>10 DEF IInv, Fds, Sized, Dirs
<1>11. CASE ~OK(x)
  <2>1. /\ fd' = [fd EXCEPT ![c] = NULL] /\ map' = [map EXCEPT ![c] = map[c]]
        /\ job' = [job EXCEPT ![c] = Idle] /\ cwd' = sys_set_rpath(c, job[c].path)
    BY <1>5, <1>11 DEF Closed, Done
  <2>2. Fds' /\ Jobs' /\ \A y : Maps(y, map) => Maps(y, map')
    <3>1. PICK p : p = map[c]
      OBVIOUS
    <3>2. p = [i \in Is |-> p[i]]
      BY <3>1 DEF IInv, Maps
    <3> QED BY <2>1, <3>1, <3>2, <1>5, ClosedOK
  <2>3. Dirs'
    BY <2>1, <1>7 DEF IInv, Dirs, sys_set_rpath
  <2>4. Maps(fs', map')
    BY <2>2, <1>9
  <2> QED BY <2>2, <2>3, <2>4, <1>5, <1>9 DEF IInv, Sized
<1> QED BY <1>10, <1>11
LEMMA StepCloseRequest ==
    ASSUME IInv, NEW c \in Client, fsipc_close(c)
    PROVE  IInv'
<1>1. PICK x : x = serve_close(c)
  OBVIOUS
<1>2. /\ job[c].op = "close" /\ Served(c, x, "close")
      /\ Closed(c, [n \in DOMAIN map[c] |-> IF n < job[c].to THEN 0 ELSE map[c][n]])
      /\ UNCHANGED <<offs, opentab, ffsize, calls, boots>>
  BY <1>1 DEF fsipc_close, May
<1>3. fd[c] # NULL /\ job[c].path \in Seq(Name) \cup {NULL}
  BY <1>2 DEF IInv, Jobs, Busy, Job
<1>4. Sound(fs, x)
  <2>1. PICK m : m = fs
    OBVIOUS
  <2>2. PICK f : f = Opened(c).file
    OBVIOUS
  <2>3. PICK dir : dir = Opened(c).dir
    OBVIOUS
  <2>4. Shape(m) /\ f \in FilePos \cup {NULL} /\ dir \in FilePos \cup {NULL} /\ InMem(m, f) /\ f # NULL
        /\ InMem(m, dir)
    BY <1>3, <2>1, <2>2, <2>3, OpenedIn
  <2>5. Sound(m, x)
    BY <1>1, <2>1, <2>2, <2>3, <2>4, ServeClose
  <2> QED BY <2>1, <2>5
<1>5. Server(fs', boots') /\ Tab(fs', opentab) /\ Maps(fs', map)
  BY <1>2, <1>4, Answered
<1>6. PICK p : p = [n \in DOMAIN map[c] |-> IF n < job[c].to THEN 0 ELSE map[c][n]]
  OBVIOUS
<1>7. /\ fd' = [fd EXCEPT ![c] = NULL] /\ map' = [map EXCEPT ![c] = p]
      /\ job' = [job EXCEPT ![c] = Idle] /\ cwd' = sys_set_rpath(c, job[c].path)
      /\ Fds' /\ Jobs' /\ \A y : Maps(y, map) => Maps(y, map')
  <2>1. /\ fd' = [fd EXCEPT ![c] = NULL] /\ map' = [map EXCEPT ![c] = p]
        /\ job' = [job EXCEPT ![c] = Idle] /\ cwd' = sys_set_rpath(c, job[c].path)
    BY <1>2, <1>6 DEF Closed, Done
  <2>2. DOMAIN map[c] = Is
    BY DEF IInv, Maps
  <2>3. p = [i \in Is |-> p[i]] /\ \A i \in Is : p[i] \in {map[c][i], 0}
    BY <1>6, <2>2
  <2> QED BY <1>2, <2>1, <2>3, ClosedOK
<1>8. Dirs'
  BY <1>3, <1>7 DEF IInv, Dirs, sys_set_rpath
<1>9. Maps(fs', map')
  BY <1>5, <1>7
<1> QED BY <1>2, <1>5, <1>7, <1>8, <1>9 DEF IInv, Sized
LEMMA StepRequest ==
    ASSUME IInv, NEW c \in Client, NEW path \in Seq(Name)
    PROVE  /\ remove(c, path) => IInv'
           /\ create(c, path) => IInv'
           /\ sync(c) => IInv'
<1>1. PICK m : m = fs
  OBVIOUS
<1>2. ASSUME NEW x, Sound(m, x), NEW op, Served(c, x, op), UNCHANGED <<clients, boots>>
      PROVE  IInv'
  <2>1. UNCHANGED <<offs, opentab, ffsize, fd, map, cwd, job, boots>>
    BY <1>2 DEF clients
  <2>2. Server(fs', boots') /\ Tab(fs', opentab) /\ Maps(fs', map)
    BY <1>1, <1>2, <2>1, Answered
  <2> QED BY <2>1, <2>2 DEF IInv, Fds, Jobs, Sized, Dirs
<1>3. m.health = "ok" => Shape(m)
  BY <1>1 DEF IInv, Server
<1>4. ASSUME remove(c, path) PROVE IInv'
  <2>1. PICK x : x = serve_remove(path)
    OBVIOUS
  <2>2. m.health = "ok" /\ Served(c, x, "none") /\ UNCHANGED <<clients, boots>>
    BY <1>1, <1>4, <2>1 DEF remove, Ready
  <2>3. Sound(m, x)
    BY <1>1, <1>3, <2>1, <2>2, ServeRest
  <2> QED BY <2>2, <2>3, <1>2
<1>5. ASSUME create(c, path) PROVE IInv'
  <2>1. PICK x : x = serve_create(path, "DIR")
    OBVIOUS
  <2>2. m.health = "ok" /\ Served(c, x, "none") /\ UNCHANGED <<clients, boots>>
    BY <1>1, <1>5, <2>1 DEF create, Ready
  <2>3. Sound(m, x)
    BY <1>1, <1>3, <2>1, <2>2, ServeRest
  <2> QED BY <2>2, <2>3, <1>2
<1>6. ASSUME sync(c) PROVE IInv'
  <2>1. PICK x : x = serve_sync
    OBVIOUS
  <2>2. m.health = "ok" /\ Served(c, x, "sync") /\ UNCHANGED <<clients, boots>>
    BY <1>1, <1>6, <2>1 DEF sync, Ready
  <2>3. Sound(m, x)
    BY <1>1, <1>3, <2>1, <2>2, ServeRest
  <2> QED BY <2>2, <2>3, <1>2
<1> QED BY <1>4, <1>5, <1>6
LEMMA StepCreateRequest ==
    ASSUME IInv, NEW c \in Client, fsipc_create(c)
    PROVE  IInv'
<1>1. PICK m : m = fs
  OBVIOUS
<1>2. PICK p : p = job[c].path
  OBVIOUS
<1>3. PICK x : x = serve_create(p, "REG")
  OBVIOUS
<1>4. /\ m.health = "ok" /\ job[c].op = "create" /\ Served(c, x, "none")
      /\ job' = [job EXCEPT ![c] = Idle] /\ UNCHANGED <<offs, opentab, ffsize, fd, map, cwd, calls, boots>>
  BY <1>1, <1>2, <1>3 DEF fsipc_create, May, Ready, Done
<1>5. p \in Seq(Name)
  BY <1>2, <1>4 DEF IInv, Jobs, Busy
<1>6. Shape(m)
  BY <1>1 DEF IInv, Server
<1>7. Sound(m, x)
  BY <1>1, <1>3, <1>4, <1>5, <1>6, ServeRest
<1>8. Server(fs', boots') /\ Tab(fs', opentab) /\ Maps(fs', map)
  BY <1>1, <1>4, <1>7, Answered
<1>9. Jobs'
  BY <1>4, BusyFacts, JobSet DEF IInv
<1> QED BY <1>4, <1>8, <1>9 DEF IInv, Fds, Sized, Dirs
LEMMA StepFork ==
    ASSUME IInv, NEW c \in Client, NEW d \in Client, fork(c, d)
    PROVE  IInv'
<1>1. /\ job[d].op = "idle" /\ fd' = [fd EXCEPT ![d] = fd[c]] /\ map' = [map EXCEPT ![d] = map[c]]
      /\ cwd' = [cwd EXCEPT ![d] = cwd[c]] /\ UNCHANGED <<fs, offs, opentab, ffsize, job, boots, last>>
  BY DEF fork, May
<1>2. Fds'
  <2>1. \A e \in Client : fd'[e] = IF e = d THEN fd[c] ELSE fd[e]
    BY <1>1 DEF IInv, Fds
  <2>2. fd' \in [Client -> FileId \cup {NULL}]
    BY <1>1 DEF IInv, Fds
  <2> QED BY <2>1, <2>2, <1>1 DEF IInv, Fds
<1>3. Jobs'
  <2>1. ASSUME NEW e \in Client PROVE Busy(job[e], fd'[e])
    <3>1. CASE e = d
      BY <3>1, <1>1 DEF IInv, Jobs, Busy
    <3>2. CASE e # d
      <4>1. fd'[e] = fd[e]
        BY <3>2, <1>1 DEF IInv, Fds
      <4> QED BY <4>1 DEF IInv, Jobs
    <3> QED BY <3>1, <3>2
  <2> QED BY <2>1, <1>1 DEF IInv, Jobs
<1>4. Maps(fs', map')
  <2>1. PICK p : p = map
    OBVIOUS
  <2>2. PICK q : q = map'
    OBVIOUS
  <2>3. PICK x : x = fs
    OBVIOUS
  <2>4. Maps(x, p) /\ q = [p EXCEPT ![d] = p[c]]
    BY <1>1, <2>1, <2>2, <2>3 DEF IInv
  <2>5. \A e \in Client : q[e] = IF e = d THEN p[c] ELSE p[e]
    BY <2>4 DEF Maps
  <2>6. q \in [Client -> [Is -> {0} \cup Data]]
    BY <2>4 DEF Maps
  <2>7. Maps(x, q)
    BY <2>4, <2>5, <2>6 DEF Maps
  <2> QED BY <1>1, <2>2, <2>3, <2>7
<1>5. Dirs'
  BY <1>1 DEF IInv, Dirs
<1> QED BY <1>1, <1>2, <1>3, <1>4, <1>5 DEF IInv, Sized
LEMMA StepDie ==
    ASSUME IInv, NEW c \in Client, Die(c)
    PROVE  IInv'
<1>1. /\ fd' = [fd EXCEPT ![c] = NULL] /\ map' = [map EXCEPT ![c] = NoMap] /\ job' = [job EXCEPT ![c] = Idle]
      /\ UNCHANGED <<fs, offs, opentab, ffsize, cwd, calls, boots, last>>
  BY DEF Die, Done
<1>2. Fds' /\ Jobs' /\ \A x : Maps(x, map) => Maps(x, map')
  <2>1. NoMap = [n \in Is |-> NoMap[n]] /\ \A n \in Is : NoMap[n] \in {map[c][n], 0}
    BY DEF NoMap, Is
  <2> QED BY <1>1, <2>1, ClosedOK
<1>3. Maps(fs', map')
  BY <1>1, <1>2 DEF IInv
<1> QED BY <1>1, <1>2, <1>3 DEF IInv, Sized, Dirs
-----------------------------------------------------------------------------
(* The disk *)

\* The first block that was handed to the disk is there: what is in memory is as it was.
LEMMA WriteOK ==
    ASSUME NEW m, Shape(m), m.out # <<>>, NEW x,
           x = [m EXCEPT !.disk[m.out[1][1]] = m.out[1][2], !.out = Tail(@)]
    PROVE  Shape(x) /\ x.blk = m.blk /\ x.health = m.health /\ Mem(x) = Mem(m) /\ Free(x) = Free(m)
<1>1. PICK o : o = m.out
  OBVIOUS
<1>2. PICK b : b = o[1][1]
  OBVIOUS
<1>3. PICK v : v = o[1][2]
  OBVIOUS
<1>4. o \in Seq(Entry) /\ o # <<>> /\ Len(o) \in Nat /\ Len(o) > 0 /\ 1 \in 1 .. Len(o)
  BY <1>1 DEF Shape, Formed
<1>5. o[1] \in Entry
  BY <1>4
<1>6. b \in Block /\ Fits(b, v) /\ m.blk[b] # NULL
  BY <1>1, <1>2, <1>3, <1>4, <1>5, EntryFits DEF Shape, Formed
<1>7. /\ IsState(x) /\ x.blk = m.blk /\ x.health = m.health /\ x.dirty = m.dirty
      /\ x.out = Tail(o) /\ x.disk = [m.disk EXCEPT ![b] = v] /\ x.freed = m.freed
  BY <1>1, <1>2, <1>3 DEF Shape, Formed, IsState
<1>8. DOMAIN m.disk = Block /\ AllFit(m.disk)
  BY DEF Shape, Formed
<1>9. DOMAIN x.disk = Block /\ x.disk[b] = v /\ \A a \in Block : a # b => x.disk[a] = m.disk[a]
  BY <1>6, <1>7, <1>8
<1>10. AllFit(x.disk)
  BY <1>6, <1>8, <1>9 DEF AllFit
<1>11. PICK t : t = Tail(o)
  OBVIOUS
<1>12. t \in Seq(Entry) /\ Len(t) = Len(o) - 1 /\ Len(t) \in Nat
       /\ \A i \in 1 .. Len(t) : t[i] = o[i + 1] /\ i + 1 \in 1 .. Len(o)
  BY <1>4, <1>11
<1>13. Formed(x)
  <2>1. \A i \in 1 .. Len(t) : x.blk[t[i][1]] # NULL
    BY <1>1, <1>7, <1>12 DEF Shape, Formed
  <2> QED BY <2>1, <1>7, <1>9, <1>10, <1>11, <1>12 DEF Shape, Formed
<1>14. Mem(x) = Mem(m)
  BY <1>6, <1>7, <1>9 DEF Mem
<1>15. Free(x) = Free(m)
  BY <1>7 DEF Free
<1>16. Order(m) /\ Marked(m)
  BY DEF Shape, Bits
<1>17. /\ BitsAt(o) \subseteq 1 .. Len(o) /\ BitsAt(t) \subseteq 1 .. Len(t)
       /\ \A i \in 1 .. Len(t) : i \in BitsAt(t) <=> i + 1 \in BitsAt(o)
       /\ 1 \in BitsAt(o) <=> b = BITMAP
  BY <1>2, <1>4, <1>12 DEF BitsAt
<1>18. /\ b = BITMAP => x.disk[BITMAP].v = o[1][2].v
       /\ b # BITMAP => x.disk[BITMAP] = m.disk[BITMAP]
  BY <1>3, <1>9, Sizes
<1>19. Order(x)
  <2>1. Free(x) \subseteq x.disk[BITMAP].v \cup x.freed
    BY <1>1, <1>7, <1>15, <1>16, <1>17, <1>18 DEF Order
  <2>2. ASSUME NEW i \in BitsAt(t)
        PROVE  /\ Free(x) \subseteq t[i][2].v \cup x.freed
               /\ t[i][2].v \subseteq x.disk[BITMAP].v \cup x.freed
               /\ \A k \in BitsAt(t) : k < i => t[i][2].v \subseteq t[k][2].v \cup x.freed
    <3>1. PICK l : l = i + 1
      OBVIOUS
    <3>2. i \in 1 .. Len(t) /\ i \in Nat /\ l \in BitsAt(o) /\ t[i] = o[l] /\ 1 < l
      BY <1>12, <1>17, <3>1
    <3>3. Free(x) \subseteq t[i][2].v \cup x.freed
      BY <3>2, <1>1, <1>7, <1>15, <1>16 DEF Order
    <3>4. t[i][2].v \subseteq x.disk[BITMAP].v \cup x.freed
      BY <3>2, <1>1, <1>7, <1>16, <1>17, <1>18 DEF Order
    <3>5. ASSUME NEW k \in BitsAt(t), k < i PROVE t[i][2].v \subseteq t[k][2].v \cup x.freed
      <4>1. PICK h : h = k + 1
        OBVIOUS
      <4>2. k \in 1 .. Len(t) /\ h \in BitsAt(o) /\ t[k] = o[h] /\ h < l
        BY <1>12, <1>17, <3>1, <3>2, <3>5, <4>1
      <4> QED BY <3>2, <4>2, <1>1, <1>7, <1>16 DEF Order
    <3> QED BY <3>3, <3>4, <3>5
  <2>3. x.out = t
    BY <1>7, <1>11
  <2>4. ASSUME NEW i \in BitsAt(x.out)
        PROVE  /\ Free(x) \subseteq x.out[i][2].v \cup x.freed
               /\ x.out[i][2].v \subseteq x.disk[BITMAP].v \cup x.freed
               /\ \A k \in BitsAt(x.out) : k < i => x.out[i][2].v \subseteq x.out[k][2].v \cup x.freed
    BY <2>2, <2>3
  <2> QED BY <2>1, <2>4 DEF Order
<1>20. ASSUME NEW p, NEW i \in Nat, NEW l, l = i + 1, Sure(m, p, l) PROVE Sure(x, p, i)
  <2>1. CASE p \in m.freed
    BY <2>1, <1>7 DEF Sure
  <2>2. CASE p \notin m.disk[BITMAP].v /\ p \notin m.freed
    BY <2>2, <1>1, <1>16, <1>17, <1>18 DEF Order, Sure
  <2>3. CASE \E k \in BitsAt(o) : k < l /\ p \notin o[k][2].v
    <3>1. PICK k \in BitsAt(o) : k < l /\ p \notin o[k][2].v
      BY <2>3
    <3>2. CASE k = 1
      BY <3>1, <3>2, <1>17, <1>18 DEF Sure
    <3>3. CASE k # 1
      <4>1. PICK h : h = k - 1
        OBVIOUS
      <4>2. h \in 1 .. Len(t) /\ h + 1 = k /\ h < i
        BY <3>1, <3>3, <4>1, <1>17, <1>4, <1>12, <1>20
      <4>3. h \in BitsAt(t) /\ t[h] = o[k]
        BY <4>2, <3>1, <1>12, <1>17
      <4> QED BY <4>2, <4>3, <3>1, <1>7, <1>11 DEF Sure
    <3> QED BY <3>2, <3>3
  <2> QED BY <2>1, <2>2, <2>3, <1>1, <1>20 DEF Sure
<1>21. Marked(x)
  <2>1. ASSUME NEW p, Sure(m, p, 1) PROVE Sure(x, p, 1)
    <3>1. Sure(m, p, 2)
      BY <2>1 DEF Sure, BitsAt
    <3> QED BY <3>1, <1>20
  <2>2. ASSUME NEW a \in Block, NEW j \in Js, NEW n \in Ns PROVE Sure(x, PtrAt(x.disk, a, j, n), 1)
    <3>1. CASE a # b
      <4>1. PtrAt(x.disk, a, j, n) = PtrAt(m.disk, a, j, n)
        BY <3>1, <1>9, Local
      <4> QED BY <4>1, <2>1, <1>16 DEF Marked
    <3>2. CASE a = b
      <4>1. PICK C : C = [d \in Block |-> v]
        OBVIOUS
      <4>2. PICK D : D = x.disk
        OBVIOUS
      <4>3. PtrAt(x.disk, b, j, n) = PtrAt(C, b, j, n)
        <5>1. D[b] = C[b]
          BY <4>1, <4>2, <1>6, <1>9
        <5>2. PtrAt(D, b, j, n) = PtrAt(C, b, j, n)
          BY <5>1, Local
        <5> QED BY <5>2, <4>2
      <4>4. PtrIn(o[1], j, n) = PtrAt(C, b, j, n)
        BY <4>1, <1>2, <1>3 DEF PtrIn
      <4>5. Sure(m, PtrIn(o[1], j, n), 1)
        BY <1>1, <1>4, <1>16 DEF Marked
      <4> QED BY <3>2, <4>3, <4>4, <4>5, <2>1
    <3> QED BY <3>1, <3>2
  <2>3. ASSUME NEW i \in 1 .. Len(t), NEW j \in Js, NEW n \in Ns PROVE Sure(x, PtrIn(t[i], j, n), i)
    <3>1. PICK l : l = i + 1
      OBVIOUS
    <3>2. l \in 1 .. Len(o) /\ t[i] = o[l] /\ i \in Nat
      BY <3>1, <1>12
    <3>3. Sure(m, PtrIn(o[l], j, n), l)
      BY <3>2, <1>1, <1>16 DEF Marked
    <3> QED BY <3>1, <3>2, <3>3, <1>20
  <2>4. ASSUME NEW a \in Block, NEW j \in Js, NEW n \in Ns PROVE SureNow(x, PtrAt(Mem(x), a, j, n))
    <3>1. Sure(m, PtrAt(Mem(x), a, j, n), Len(o) + 1)
      BY <1>1, <1>14, <1>16 DEF Marked, SureNow
    <3>2. Sure(x, PtrAt(Mem(x), a, j, n), Len(o))
      BY <3>1, <1>4, <1>20
    <3>3. Len(x.out) + 1 = Len(o)
      BY <1>4, <1>7, <1>11, <1>12
    <3> QED BY <3>2, <3>3 DEF SureNow
  <2> QED BY <2>2, <2>3, <2>4, <1>7, <1>11 DEF Marked
<1> QED BY <1>7, <1>13, <1>14, <1>15, <1>19, <1>21 DEF Shape, Bits
LEMMA StepDisk ==
    ASSUME IInv, DiskWrite
    PROVE  IInv'
<1>1. PICK m : m = fs
  OBVIOUS
<1>2. PICK x : x = fs'
  OBVIOUS
<1>3. m.out # <<>> /\ UNCHANGED <<clients, calls, boots>>
      /\ x = [m EXCEPT !.disk[m.out[1][1]] = m.out[1][2], !.out = Tail(@)]
  BY <1>1, <1>2 DEF DiskWrite
<1>4. Server(m, boots) /\ Tab(m, opentab) /\ Maps(m, map) /\ Shape(m)
  BY <1>1 DEF IInv, Server
<1>5. Shape(x) /\ x.blk = m.blk /\ x.health = m.health /\ Mem(x) = Mem(m) /\ Free(x) = Free(m)
  BY <1>3, <1>4, WriteOK
<1>6. Server(x, boots) /\ Tab(x, opentab) /\ Maps(x, map)
  BY <1>4, <1>5 DEF Server, Tab, Maps, InMem
<1> QED BY <1>2, <1>3, <1>6 DEF IInv, clients, Fds, Jobs, Sized, Dirs
\* The state after a start.
LEMMA BootedOK ==
    ASSUME NEW d, DOMAIN d = Block, AllFit(d), NEW g, NEW x, x = Booted(d, g),
           \A b \in Block, j \in Js, n \in Ns :
               PtrAt(d, b, j, n) \in g \/ PtrAt(d, b, j, n) \notin d[BITMAP].v
    PROVE  Shape(x) /\ Free(x) = d[BITMAP].v /\ x.health = "ok" /\ \A b \in Block : Mem(x)[b] = d[b]
<1>1. PICK k : k = [b \in Block |-> IF b \in {SUPER, BITMAP} THEN d[b] ELSE NULL]
  OBVIOUS
<1>2. /\ x = [disk |-> d, freed |-> g, blk |-> k, dirty |-> {}, out |-> <<>>, err |-> "OK", r |-> 0,
               health |-> "ok"]
  BY <1>1 DEF Booted
<1>3. \A b \in Block : d[b] # NULL /\ Fits(b, d[b])
  BY FitsNotNull DEF AllFit
<1>4. k[SUPER] = d[SUPER] /\ k[BITMAP] = d[BITMAP] /\ DOMAIN k = Block
      /\ \A b \in Block : k[b] # NULL => k[b] = d[b]
  BY <1>1, Sizes
<1>5. IsState(x) /\ x.disk = d /\ x.freed = g /\ x.blk = k /\ x.dirty = {} /\ x.out = <<>>
      /\ x.health = "ok"
  BY <1>2 DEF IsState
<1>6. <<>> \in Seq(Entry) /\ Len(<<>>) = 0
  OBVIOUS
<1>7. Formed(x)
  BY <1>3, <1>4, <1>5, <1>6, Sizes DEF Formed
<1>8. Free(x) = d[BITMAP].v
  BY <1>4, <1>5 DEF Free
<1>9. BitsAt(x.out) = {}
  BY <1>5, <1>6 DEF BitsAt
<1>10. \A b \in Block : Mem(x)[b] = d[b]
  BY <1>4, <1>5 DEF Mem
<1>11. Bits(x)
  <2>1. Order(x)
    BY <1>5, <1>8, <1>9 DEF Order
  <2>2. \A i : \A b \in Block, j \in Js, n \in Ns : Sure(x, PtrAt(d, b, j, n), i)
    BY <1>5 DEF Sure
  <2>3. \A b \in Block, j \in Js, n \in Ns : SureNow(x, PtrAt(Mem(x), b, j, n))
    <3>1. PICK C : C = Mem(x)
      OBVIOUS
    <3>2. ASSUME NEW b \in Block PROVE \A j, n : PtrAt(C, b, j, n) = PtrAt(d, b, j, n)
      BY <3>1, <1>10, Local
    <3> QED BY <3>1, <3>2, <2>2 DEF SureNow
  <2>4. 1 .. Len(x.out) = {}
    BY <1>5
  <2> QED BY <2>1, <2>2, <2>3, <2>4, <1>5 DEF Bits, Marked
<1> QED BY <1>5, <1>7, <1>8, <1>10, <1>11 DEF Shape
\* What the clients and the table hold after a start: nothing.
LEMMA Started ==
    ASSUME NEW x, offs' = {}, fd' = [c \in Client |-> NULL], map' = [c \in Client |-> NoMap],
           opentab' = [i \in FileId |-> NoFd], ffsize' = [i \in FileId |-> 0], cwd' = StartDir,
           job' = [c \in Client |-> Idle]
    PROVE  Tab(x, opentab') /\ Maps(x, map') /\ Fds' /\ Jobs' /\ Sized' /\ Dirs'
<1>1. NoFd \in Open /\ NoFd.dir = NULL /\ NoFd.file = NULL
  BY DEF NoFd, Open
<1>2. Tab(x, opentab')
  BY <1>1 DEF Tab, InMem
<1>3. NoMap \in [Is -> {0} \cup Data] /\ \A n \in Is : NoMap[n] = 0
  BY DEF NoMap, Is
<1>4. Maps(x, map')
  BY <1>3 DEF Maps
<1>5. Fds'
  BY DEF Fds
<1>6. Jobs'
  BY BusyFacts DEF Jobs
<1>7. Sized'
  BY Sizes DEF Sized
<1>8. Dirs'
  <2>1. <<>> \in Seq(Name)
    OBVIOUS
  <2> QED BY <2>1 DEF Dirs, StartDir
<1> QED BY <1>2, <1>4, <1>5, <1>6, <1>7, <1>8
LEMMA StepReboot ==
    ASSUME IInv, Reboot
    PROVE  IInv'
<1>1. PICK d : d = fs.disk
  OBVIOUS
<1>2. PICK x : x = fs'
  OBVIOUS
<1>3. /\ boots < MaxBoots /\ boots' = boots + 1 /\ x = Booted(d, fs.freed)
      /\ offs' = {} /\ fd' = [c \in Client |-> NULL] /\ map' = [c \in Client |-> NoMap]
      /\ opentab' = [i \in FileId |-> NoFd] /\ ffsize' = [i \in FileId |-> 0] /\ cwd' = StartDir
      /\ job' = [c \in Client |-> Idle]
  BY <1>1, <1>2 DEF Reboot
<1>4. DOMAIN d = Block /\ AllFit(d)
  BY <1>1 DEF IInv, Server, Shape, Formed
<1>5. Shape(x)
  <2>1. ASSUME NEW b \in Block, NEW j \in Js, NEW n \in Ns
        PROVE  PtrAt(d, b, j, n) \in fs.freed \/ PtrAt(d, b, j, n) \notin d[BITMAP].v
    <3>1. Sure(fs, PtrAt(d, b, j, n), 1)
      BY <1>1 DEF IInv, Server, Shape, Bits, Marked
    <3>2. ~\E k \in BitsAt(fs.out) : k < 1
      BY DEF BitsAt
    <3> QED BY <3>1, <3>2, <1>1 DEF Sure
  <2> QED BY <2>1, <1>3, <1>4, BootedOK
<1>6. boots' \in 0 .. MaxBoots /\ boots' # 0
  BY <1>3, Bounds DEF IInv
<1>7. Server(x, boots')
  BY <1>5, <1>6 DEF Server
<1>8. Tab(x, opentab') /\ Maps(x, map') /\ Fds' /\ Jobs' /\ Sized' /\ Dirs'
  BY <1>3, Started
<1> QED BY <1>2, <1>6, <1>7, <1>8 DEF IInv
LEMMA InitInv ==
    ASSUME Init
    PROVE  IInv
<1>1. PICK x : x = fs
  OBVIOUS
<1>2. /\ x = Booted(Disk, {}) /\ offs = {} /\ fd = [c \in Client |-> NULL] /\ map = [c \in Client |-> NoMap]
      /\ opentab = [i \in FileId |-> NoFd] /\ ffsize = [i \in FileId |-> 0] /\ cwd = StartDir
      /\ job = [c \in Client |-> Idle] /\ boots = 0
  BY <1>1 DEF Init
<1>3. DOMAIN Disk = Block /\ AllFit(Disk)
  <2>1. ASSUME NEW b \in Block PROVE Fits(b, Disk[b])
    <3>1. Disk[b].kind \in Kinds(b) /\ Disk[b] \in Content(Disk[b].kind)
      BY DiskAssumption
    <3>2. PICK c : c = Disk[b]
      OBVIOUS
    <3>3. c \in [kind : {c.kind}, v : Values(c.kind)] /\ c.kind \in Kinds(b)
      BY <3>1, <3>2 DEF Content
    <3>4. Fits(b, c)
      BY <3>3 DEF Fits
    <3> QED BY <3>2, <3>4
  <2>2. DOMAIN Disk = Block
    BY DiskAssumption
  <2> QED BY <2>1, <2>2 DEF AllFit
<1>4. Shape(x) /\ Free(x) = Disk[BITMAP].v /\ \A b \in Block : Mem(x)[b] = Disk[b]
  <2>1. PtrsOK(Disk, Disk[BITMAP].v)
    BY DiskAssumption, OwnedParts
  <2> QED BY <2>1, <1>2, <1>3, BootedOK DEF PtrsOK
<1>5. Owned(Mem(x), Free(x))
  <2>1. PICK C : C = Mem(x)
    OBVIOUS
  <2>2. PICK free : free = Disk[BITMAP].v
    OBVIOUS
  <2>3. PtrsOK(Disk, free) /\ NamesOK(Disk)
    BY <2>2, DiskAssumption, OwnedParts
  <2>4. AllFit(C) /\ \A b \in Block : Disk[b] = C[b]
    BY <2>1, <1>4, MemFits DEF Shape
  <2>5. 0 \notin free
    BY <1>4, <2>2, MemFits DEF Shape
  <2>6. ASSUME NEW b \in Block
        PROVE  /\ \A j, n : PtrAt(C, b, j, n) = PtrAt(Disk, b, j, n)
               /\ \A j : SizeAt(C, b, j) = SizeAt(Disk, b, j) /\ NameAt(C, b, j) = NameAt(Disk, b, j)
    BY <2>4, Local
  <2>7. PtrsOK(C, free)
    <3>1. \A b \in Block, j \in Js, n \in Ns : PtrAt(C, b, j, n) \in {PtrAt(Disk, b, j, n), 0}
      BY <2>6
    <3> QED BY <3>1, <2>3, <2>5, PtrsShrink
  <2>8. Keeps(Disk, C)
    <3>1. \A b \in Block, j \in Js, n \in Ns :
             PtrAt(C, b, j, n) = PtrAt(Disk, b, j, n) \/ Blank(C, PtrAt(C, b, j, n))
      BY <2>6
    <3>2. \A b \in Block, j \in Fs : NameAt(C, b, j) \in {NameAt(Disk, b, j), NULL}
      BY <2>6
    <3>3. \A b \in Block, j \in Fs : SizeAt(C, b, j) = SizeAt(Disk, b, j) \/ \A n \in Ns : PtrAt(C, b, j, n) = 0
      BY <2>6
    <3> QED BY <3>1, <3>2, <3>3, <1>3, <2>4, Narrow
  <2> QED BY <2>1, <2>2, <2>3, <2>7, <2>8, <1>4, KeepsNames, OwnedParts
<1>6. Server(fs, boots)
  BY <1>1, <1>4, <1>5 DEF Server
<1>7. NoFd \in Open /\ NoFd.dir = NULL /\ NoFd.file = NULL
  BY DEF NoFd, Open
<1>8. Tab(fs, opentab)
  BY <1>2, <1>7 DEF Tab, InMem
<1>9. Maps(fs, map)
  <2>1. NoMap \in [Is -> {0} \cup Data] /\ \A n \in Is : NoMap[n] = 0
    BY DEF NoMap, Is
  <2> QED BY <2>1, <1>2 DEF Maps
<1>10. Fds
  BY <1>2 DEF Fds
<1>11. Jobs
  BY <1>2, BusyFacts DEF Jobs
<1>12. Sized
  BY <1>2, Sizes DEF Sized
<1>13. Dirs
  <2>1. <<>> \in Seq(Name)
    OBVIOUS
  <2> QED BY <2>1, <1>2 DEF Dirs, StartDir
<1>14. boots \in 0 .. MaxBoots
  BY <1>2, Bounds
<1> QED BY <1>6, <1>8, <1>9, <1>10, <1>11, <1>12, <1>13, <1>14 DEF IInv
LEMMA NextInv ==
    ASSUME IInv, [Next]_vars
    PROVE  IInv'
<1>1. CASE UNCHANGED vars
  BY <1>1 DEF vars, IInv, Fds, Jobs, Sized, Dirs
<1>2. ASSUME NEW c \in Client, NEW w \in Word, NEW p, p = PathOf(c, w),
             \/ open(c, p, TRUE) \/ open(c, p, FALSE) \/ openCreat(c, p) \/ cd(c, p)
             \/ remove(c, p) \/ create(c, p)
      PROVE  IInv'
  <2>1. PICK q : q = cwd[c]
    OBVIOUS
  <2>2. q \in Seq(Name)
    BY <2>1 DEF IInv, Dirs
  <2>3. p = cat2Path(q, w)
    BY <1>2, <2>1 DEF PathOf
  <2>4. p \in Seq(Name)
    BY <2>2, <2>3, PathIn
  <2> QED BY <1>2, <2>4, StepOpen, StepRequest
<1>3. ASSUME NEW c \in Client,
             \/ fsipc_map(c, "open") \/ fsipc_map(c, "stat") \/ fsipc_map(c, "grow") \/ Undo(c)
             \/ \E size \in 0 .. NINDIRECT : ftruncate(c, size)
             \/ \E n \in 0 .. NINDIRECT - 1 : store(c, n)
             \/ close(c) \/ fsipc_dirty(c) \/ fsipc_close(c) \/ fsipc_create(c) \/ sync(c) \/ Die(c)
             \/ \E d \in Client : fork(c, d)
      PROVE  IInv'
  <2>1. CASE fsipc_map(c, "open") \/ fsipc_map(c, "stat") \/ fsipc_map(c, "grow") \/ Undo(c)
    BY <2>1, StepMap, StepUndo
  <2>2. CASE \E size \in 0 .. NINDIRECT : ftruncate(c, size)
    BY <2>2, StepTruncate
  <2>3. CASE \E n \in 0 .. NINDIRECT - 1 : store(c, n)
    BY <2>3, StepStore DEF Is
  <2>4. CASE close(c) \/ fsipc_dirty(c) \/ fsipc_close(c) \/ fsipc_create(c) \/ Die(c)
    BY <2>4, StepClose, StepDirty, StepCloseRequest, StepCreateRequest, StepDie
  <2>5. CASE sync(c)
    <3>1. <<>> \in Seq(Name)
      OBVIOUS
    <3> QED BY <3>1, <2>5, StepRequest
  <2>6. CASE \E d \in Client : fork(c, d)
    BY <2>6, StepFork
  <2> QED BY <1>3, <2>1, <2>2, <2>3, <2>4, <2>5, <2>6
<1>4. CASE Next
  <2>1. CASE DiskWrite \/ Reboot
    BY <2>1, StepDisk, StepReboot
  <2>2. CASE ~(DiskWrite \/ Reboot)
    <3>1. PICK c \in Client :
             \/ \E p \in {PathOf(c, w) : w \in Word} :
                   \/ open(c, p, TRUE) \/ open(c, p, FALSE) \/ openCreat(c, p) \/ cd(c, p)
                   \/ remove(c, p) \/ create(c, p)
             \/ fsipc_map(c, "open") \/ fsipc_map(c, "stat") \/ fsipc_map(c, "grow") \/ Undo(c)
             \/ \E size \in 0 .. NINDIRECT : ftruncate(c, size)
             \/ \E n \in 0 .. NINDIRECT - 1 : store(c, n)
             \/ close(c) \/ fsipc_dirty(c) \/ fsipc_close(c) \/ fsipc_create(c) \/ sync(c) \/ Die(c)
             \/ \E d \in Client : fork(c, d)
      BY <1>4, <2>2 DEF Next
    <3>2. CASE \E p \in {PathOf(c, w) : w \in Word} :
                   \/ open(c, p, TRUE) \/ open(c, p, FALSE) \/ openCreat(c, p) \/ cd(c, p)
                   \/ remove(c, p) \/ create(c, p)
      <4>1. PICK w \in Word : LET p == PathOf(c, w) IN
                   \/ open(c, p, TRUE) \/ open(c, p, FALSE) \/ openCreat(c, p) \/ cd(c, p)
                   \/ remove(c, p) \/ create(c, p)
        BY <3>2
      <4> QED BY <4>1, <1>2
    <3>3. CASE \/ fsipc_map(c, "open") \/ fsipc_map(c, "stat") \/ fsipc_map(c, "grow") \/ Undo(c)
               \/ \E size \in 0 .. NINDIRECT : ftruncate(c, size)
               \/ \E n \in 0 .. NINDIRECT - 1 : store(c, n)
               \/ close(c) \/ fsipc_dirty(c) \/ fsipc_close(c) \/ fsipc_create(c) \/ sync(c) \/ Die(c)
               \/ \E d \in Client : fork(c, d)
      BY <3>3, <1>3
    <3> QED BY <3>1, <3>2, <3>3
  <2> QED BY <2>1, <2>2
<1> QED BY <1>1, <1>4
\* The inductive invariant: what is in memory is well formed, and, until the power fails
\* for the first time, every block belongs to one file or is free (fs/fs.c, fs/serv.c).
THEOREM FileServerInv == Spec => []IInv
<1>1. Init => IInv
  BY InitInv
<1>2. IInv /\ [Next]_vars => IInv'
  BY NextInv
<1> QED BY <1>1, <1>2, PTL DEF Spec
-----------------------------------------------------------------------------
(* The properties of the runs *)

\* A place that holds a File.
IsFile(B, f) == /\ f = <<f[1], f[2]>> /\ f[1] \in Block /\ f[2] \in Fs
                /\ B[f[1]].kind = "dir" \/ f = ROOT
LEMMA FileView ==
    ASSUME NEW B, AllFit(B), NEW f, IsFile(B, f)
    PROVE  /\ File(B, f) \in FileRec
           /\ File(B, f).name \in Name \cup {NULL}
           /\ File(B, f).indirect = PtrAt(B, f[1], f[2], NINDIRECT)
           /\ B[f[1]].kind = "dir" => File(B, f).name = NameAt(B, f[1], f[2])
           /\ \A n \in Is : BlockOf(B, f, n) \in {0} \cup Data
<1>1. PICK b : b = f[1]
  OBVIOUS
<1>2. PICK j : j = f[2]
  OBVIOUS
<1>3. PICK c : c = B[b]
  OBVIOUS
<1>4. f = <<b, j>> /\ b \in Block /\ j \in Fs /\ (c.kind = "dir" \/ f = ROOT)
  BY <1>1, <1>2, <1>3 DEF IsFile
<1>5. Fits(b, c)
  BY <1>3, <1>4 DEF AllFit
<1>6. c.kind \in {"dir", "super"} /\ j \in DOMAIN c.v /\ c.v[j] \in FileRec
  <2>1. CASE c.kind = "dir"
    BY <2>1, <1>4, <1>5, FitsFacts DEF Fs
  <2>2. CASE f = ROOT
    <3>1. b = SUPER /\ j = 1
      BY <2>2, <1>4 DEF ROOT
    <3> QED BY <3>1, <1>5, <1>4, FitsFacts
  <2> QED BY <2>1, <2>2, <1>4
<1>7. PICK rec : rec = c.v[j]
  OBVIOUS
<1>8. File(B, f) = rec /\ rec \in FileRec
  BY <1>1, <1>2, <1>3, <1>6, <1>7 DEF File
<1>9. rec.name \in Name \cup {NULL}
  BY <1>8, RecFacts
<1>10. PtrAt(B, b, j, NINDIRECT) = rec.indirect
  BY <1>3, <1>6, <1>7, Sizes DEF PtrAt
<1>11. c.kind = "dir" => NameAt(B, b, j) = rec.name
  BY <1>3, <1>7 DEF NameAt
<1>12. ASSUME NEW n \in Is PROVE BlockOf(B, f, n) \in {0} \cup Data
  <2>1. n \in Ns /\ NINDIRECT \in Ns /\ j \in Js /\ 0 \in Js
    BY <1>4, Sizes DEF Is, Ns, Fs, Js
  <2>2. PtrAt(B, b, j, n) \in {0} \cup Data /\ PtrAt(B, b, j, NINDIRECT) \in Block
    BY <1>4, <2>1, ViewTypes
  <2>3. PtrAt(B, PtrAt(B, b, j, NINDIRECT), 0, n) \in {0} \cup Data
    BY <2>1, <2>2, ViewTypes
  <2> QED BY <2>2, <2>3, <1>1, <1>2 DEF BlockOf, BlockAt
<1> QED BY <1>1, <1>2, <1>3, <1>8, <1>9, <1>10, <1>11, <1>12

\* The Files in directories are in their blocks.
LEMMA EntryView ==
    ASSUME NEW B, AllFit(B), NEW dirs, \A f \in dirs : IsFile(B, f), NEW e \in Entries(B, dirs)
    PROVE  /\ IsFile(B, e) /\ B[e[1]].kind = "dir"
           /\ \E f \in dirs, n \in Is, k \in Fs : e = <<BlockOf(B, f, n), k>>
<1>1. PICK f \in dirs : e \in {<<BlockOf(B, f, n), j>> : n \in 0 .. NINDIRECT - 1, j \in 1 .. FILE2BLK}
  BY DEF Entries, Within
<1>2. PICK n \in Is, k \in Fs : e = <<BlockOf(B, f, n), k>>
  BY <1>1 DEF Is, Fs
<1>3. e[1] = BlockOf(B, f, n) /\ e[2] = k /\ e[1] # 0 /\ B[e[1]].kind = "dir"
  BY <1>2 DEF Entries
<1>4. BlockOf(B, f, n) \in Block
  BY FileView, Sizes
<1>5. IsFile(B, e)
  BY <1>2, <1>3, <1>4 DEF IsFile
<1> QED BY <1>2, <1>3, <1>5

LEMMA FilesView ==
    ASSUME NEW B, AllFit(B)
    PROVE  \A f \in Files(B) : IsFile(B, f)
<1>1. IsFile(B, ROOT)
  BY Sizes DEF IsFile, ROOT, Fs
<1>2. \A e \in Entries(B, {ROOT}) : IsFile(B, e)
  BY <1>1, EntryView
<1>3. \A d \in Named(B, Entries(B, {ROOT})) : IsFile(B, d)
  BY <1>2 DEF Named
<1>4. \A e \in Entries(B, Named(B, Entries(B, {ROOT}))) : IsFile(B, e)
  BY <1>3, EntryView
<1> QED BY <1>1, <1>2, <1>4 DEF Files

\* A place of a file, as a place of the disk.
LEMMA PlaceView ==
    ASSUME NEW B, AllFit(B), NEW p \in Used(B)
    PROVE  \E b \in Block, j \in Fs, n \in Ns :
               /\ p = <<<<b, j>>, n, p[3]>> /\ p[3] # 0
               /\ p[3] = IF n \in Is THEN BlockAt(B, b, j, n) ELSE PtrAt(B, b, j, NINDIRECT)
               /\ n \notin Is => n = NINDIRECT
<1>1. p \in Places(B) /\ p[3] # 0
  BY DEF Used
<1>2. CASE p \in {<<f, n, BlockOf(B, f, n)>> : f \in Files(B), n \in 0 .. NINDIRECT - 1}
  <2>1. PICK f \in Files(B), n \in 0 .. NINDIRECT - 1 : p = <<f, n, BlockOf(B, f, n)>>
    BY <1>2
  <2>2. IsFile(B, f)
    BY FilesView
  <2>3. n \in Is /\ n \in Ns
    BY Sizes DEF Is, Ns
  <2>4. p[3] = BlockAt(B, f[1], f[2], n)
    BY <2>1 DEF BlockOf
  <2>5. f = <<f[1], f[2]>> /\ f[1] \in Block /\ f[2] \in Fs
    BY <2>2 DEF IsFile
  <2>6. p = <<<<f[1], f[2]>>, n, p[3]>>
    BY <2>1, <2>5
  <2> QED BY <2>3, <2>4, <2>5, <2>6, <1>1
<1>3. CASE p \in {<<f, NINDIRECT, File(B, f).indirect>> : f \in Files(B)}
  <2>1. PICK f \in Files(B) : p = <<f, NINDIRECT, File(B, f).indirect>>
    BY <1>3
  <2>2. IsFile(B, f)
    BY FilesView
  <2>3. NINDIRECT \notin Is /\ NINDIRECT \in Ns
    BY Sizes DEF Is, Ns
  <2>4. p[3] = PtrAt(B, f[1], f[2], NINDIRECT)
    BY <2>1, <2>2, FileView
  <2>5. f = <<f[1], f[2]>> /\ f[1] \in Block /\ f[2] \in Fs
    BY <2>2 DEF IsFile
  <2>6. p = <<<<f[1], f[2]>>, NINDIRECT, p[3]>>
    BY <2>1, <2>5
  <2> QED BY <2>3, <2>4, <2>5, <2>6, <1>1
<1> QED BY <1>1, <1>2, <1>3 DEF Places

\* A data block of a file is in a place that is not that of an indirect block.
LEMMA BlockPlace ==
    ASSUME NEW B, AllFit(B), NEW b \in Block, NEW j \in Fs, NEW n \in Is
    PROVE  \E c \in Block, k \in Js : BlockAt(B, b, j, n) = PtrAt(B, c, k, n) /\ n \in Ns /\ n # NINDIRECT
<1>1. n \in Ns /\ NINDIRECT \in Ns /\ j \in Js /\ 0 \in Js /\ n # NINDIRECT
  BY Sizes DEF Is, Ns, Fs, Js
<1>2. PtrAt(B, b, j, NINDIRECT) \in Block
  BY <1>1, ViewTypes
<1> QED BY <1>1, <1>2 DEF BlockAt

LEMMA PlacesApart ==
    ASSUME NEW B, AllFit(B), NEW free, PtrsOK(B, free), NEW p \in Used(B)
    PROVE  /\ p[3] \notin free
           /\ \A q \in Used(B) : p[3] = q[3] => p = q
<1>1. PICK b \in Block, j \in Fs, n \in Ns :
               /\ p = <<<<b, j>>, n, p[3]>> /\ p[3] # 0
               /\ p[3] = IF n \in Is THEN BlockAt(B, b, j, n) ELSE PtrAt(B, b, j, NINDIRECT)
               /\ n \notin Is => n = NINDIRECT
  BY PlaceView
<1>2. j \in Js /\ NINDIRECT \in Ns /\ NINDIRECT \notin Is
  BY Sizes DEF Is, Ns, Fs, Js
<1>3. n \in Is => \E c \in Block, k \in Js : BlockAt(B, b, j, n) = PtrAt(B, c, k, n) /\ n # NINDIRECT
  BY BlockPlace
<1>4. p[3] \notin free
  BY <1>1, <1>2, <1>3 DEF PtrsOK
<1>5. ASSUME NEW q \in Used(B), p[3] = q[3] PROVE p = q
  <2>1. PICK c \in Block, k \in Fs, i \in Ns :
               /\ q = <<<<c, k>>, i, q[3]>> /\ q[3] # 0
               /\ q[3] = IF i \in Is THEN BlockAt(B, c, k, i) ELSE PtrAt(B, c, k, NINDIRECT)
               /\ i \notin Is => i = NINDIRECT
    BY PlaceView
  <2>2. k \in Js
    BY DEF Fs, Js
  <2>3. i \in Is => \E d \in Block, l \in Js : BlockAt(B, c, k, i) = PtrAt(B, d, l, i) /\ i # NINDIRECT
    BY BlockPlace
  <2>4. CASE n \in Is /\ i \in Is
    <3>1. BlockAt(B, b, j, n) # 0 /\ BlockAt(B, b, j, n) = BlockAt(B, c, k, i)
      BY <1>1, <1>5, <2>1, <2>4
    <3>2. b = c /\ j = k /\ n = i
      BY <3>1, <2>4, BlockUnique
    <3> QED BY <3>2, <1>1, <1>5, <2>1
  <2>5. CASE n \notin Is /\ i \notin Is
    <3>1. PtrAt(B, b, j, NINDIRECT) # 0 /\ PtrAt(B, b, j, NINDIRECT) = PtrAt(B, c, k, NINDIRECT)
      BY <1>1, <1>5, <2>1, <2>5
    <3>2. b = c /\ j = k
      BY <3>1, <1>2, <2>2 DEF PtrsOK
    <3> QED BY <3>2, <1>1, <1>5, <2>1, <2>5
  <2>6. CASE n \in Is /\ i \notin Is
    <3>1. PICK d \in Block, l \in Js : BlockAt(B, b, j, n) = PtrAt(B, d, l, n) /\ n # NINDIRECT
      BY <2>6, <1>3
    <3>2. PtrAt(B, d, l, n) # 0 /\ PtrAt(B, d, l, n) = PtrAt(B, c, k, NINDIRECT)
      BY <3>1, <1>1, <1>5, <2>1, <2>6
    <3>3. n = NINDIRECT
      BY <3>2, <1>2, <2>2 DEF PtrsOK
    <3> QED BY <3>1, <3>3
  <2>7. CASE n \notin Is /\ i \in Is
    <3>1. PICK d \in Block, l \in Js : BlockAt(B, c, k, i) = PtrAt(B, d, l, i) /\ i # NINDIRECT
      BY <2>7, <2>3
    <3>2. PtrAt(B, d, l, i) # 0 /\ PtrAt(B, d, l, i) = PtrAt(B, b, j, NINDIRECT)
      BY <3>1, <1>1, <1>5, <2>1, <2>7
    <3>3. i = NINDIRECT
      BY <3>2, <1>2 DEF PtrsOK
    <3> QED BY <3>1, <3>3
  <2> QED BY <2>4, <2>5, <2>6, <2>7
<1> QED BY <1>4, <1>5

LEMMA NamesApart ==
    ASSUME NEW B, AllFit(B), NamesOK(B), NEW d \in Named(B, Files(B)) \cup {ROOT},
           NEW e \in Named(B, Entries(B, {d})), NEW f \in Named(B, Entries(B, {d})),
           File(B, e).name = File(B, f).name
    PROVE  e = f
<1>1. IsFile(B, d)
  <2>1. IsFile(B, ROOT)
    BY Sizes DEF IsFile, ROOT, Fs
  <2> QED BY <2>1, FilesView DEF Named
<1>2. \A g \in {d} : IsFile(B, g)
  BY <1>1
<1>3. e \in Entries(B, {d}) /\ f \in Entries(B, {d}) /\ File(B, e).name # NULL
  BY DEF Named
<1>4. IsFile(B, e) /\ B[e[1]].kind = "dir" /\ \E n \in Is, k \in Fs : e = <<BlockOf(B, d, n), k>>
  BY <1>2, <1>3, EntryView
<1>5. IsFile(B, f) /\ B[f[1]].kind = "dir" /\ \E n \in Is, k \in Fs : f = <<BlockOf(B, d, n), k>>
  BY <1>2, <1>3, EntryView
<1>6. PICK n \in Is, k \in Fs : e = <<BlockOf(B, d, n), k>>
  BY <1>4
<1>7. PICK i \in Is, l \in Fs : f = <<BlockOf(B, d, i), l>>
  BY <1>5
<1>8. File(B, e).name = NameAt(B, e[1], e[2]) /\ File(B, f).name = NameAt(B, f[1], f[2])
  BY <1>4, <1>5, FileView
<1>9. e[1] = BlockOf(B, d, n) /\ e[2] = k /\ f[1] = BlockOf(B, d, i) /\ f[2] = l
  BY <1>6, <1>7
<1>10. NameIn(B, d[1], d[2], n, k) = File(B, e).name /\ NameIn(B, d[1], d[2], i, l) = File(B, f).name
  BY <1>8, <1>9 DEF NameIn, BlockOf
<1>11. d[1] \in Block /\ d[2] \in Fs
  BY <1>1 DEF IsFile
<1>12. n = i /\ k = l
  BY <1>10, <1>11, <1>3 DEF NamesOK
<1> QED BY <1>6, <1>7, <1>12

LEMMA InvStoreSound ==
    ASSUME IInv
    PROVE  StoreSound
<1>1. PICK m : m = fs
  OBVIOUS
<1>2. PICK B : B = Mem(m)
  OBVIOUS
<1>3. InMemory = B
  BY <1>1, <1>2 DEF InMemory, Mem
<1>4. Shape(m) /\ Formed(m) /\ (boots = 0 /\ m.health = "ok" => Owned(B, Free(m)))
  BY <1>1, <1>2 DEF IInv, Server, Shape
<1>5. AllFit(B)
  BY <1>2, <1>4, MemFits
<1>6. TypeOK
  <2>1. /\ DOMAIN m.disk = Block /\ DOMAIN m.blk = Block
        /\ m.dirty \subseteq {b \in Block : m.blk[b] # NULL}
        /\ m.health \in {"ok", "panic", "stale"}
    BY <1>4 DEF Formed
  <2>2. /\ offs \subseteq FileId /\ fd \in [Client -> FileId \cup {NULL}]
        /\ \A c \in Client : fd[c] # NULL => fd[c] \in offs
        /\ ffsize \in [FileId -> 0 .. NINDIRECT + 1]
        /\ cwd \in [Client -> Seq(Name)]
        /\ boots \in 0 .. MaxBoots
    BY DEF IInv, Fds, Sized, Dirs
  <2>3. map \in [Client -> [0 .. NINDIRECT - 1 -> Block]]
    <3>1. map \in [Client -> [Is -> {0} \cup Data]]
      BY DEF IInv, Maps
    <3> QED BY <3>1, Sizes DEF Is
  <2>4. ASSUME NEW e \in Named(B, Files(B)) \ {ROOT} PROVE File(B, e).name \in Name
    <3>1. e \in Files(B) /\ File(B, e).name # NULL
      BY DEF Named
    <3>2. IsFile(B, e)
      BY <3>1, <1>5, FilesView
    <3>3. File(B, e).name \in Name \cup {NULL}
      BY <3>2, <1>5, FileView
    <3> QED BY <3>1, <3>3
  <2> QED BY <2>1, <2>2, <2>3, <2>4, <1>1, <1>3 DEF TypeOK
<1>7. ASSUME Healthy PROVE PtrsOK(B, Free(m)) /\ NamesOK(B)
  <2>1. Owned(B, Free(m))
    BY <1>1, <1>4, <1>7 DEF Healthy
  <2> QED BY <2>1, OwnedParts
<1>8. NoSharedBlock
  <2>1. ASSUME Healthy, NEW p \in Used(B), NEW q \in Used(B), p[3] = q[3] PROVE p = q
    BY <2>1, <1>5, <1>7, PlacesApart
  <2> QED BY <2>1, <1>3 DEF NoSharedBlock
<1>9. UsedMarked
  <2>1. ASSUME Healthy, NEW p \in Used(B) PROVE p[3] \notin Free(m)
    BY <2>1, <1>5, <1>7, PlacesApart
  <2> QED BY <2>1, <1>1, <1>3 DEF UsedMarked, Free
<1>10. UniqueNames
  <2>1. ASSUME Healthy, NEW d \in Named(B, Files(B)) \cup {ROOT},
               NEW e \in Named(B, Entries(B, {d})), NEW f \in Named(B, Entries(B, {d})),
               File(B, e).name = File(B, f).name
        PROVE  e = f
    BY <2>1, <1>5, <1>7, NamesApart
  <2>2. SUFFICES ASSUME Healthy, NEW d \in Named(InMemory, Files(InMemory)) \cup {ROOT},
                        NEW e \in Named(InMemory, Entries(InMemory, {d})),
                        NEW f \in Named(InMemory, Entries(InMemory, {d})),
                        File(InMemory, e).name = File(InMemory, f).name
                 PROVE  e = f
    BY DEF UniqueNames
  <2>3. d \in Named(B, Files(B)) \cup {ROOT} /\ e \in Named(B, Entries(B, {d}))
        /\ f \in Named(B, Entries(B, {d})) /\ File(B, e).name = File(B, f).name
    BY <1>3, <2>2
  <2> QED BY <2>1, <2>2, <2>3
<1> QED BY <1>6, <1>8, <1>9, <1>10 DEF StoreSound

LEMMA InvDiskMarked ==
    ASSUME IInv
    PROVE  DiskMarked
<1>1. Marked(fs)
  BY DEF IInv, Server, Shape, Bits
<1>2. ASSUME NEW p \in Pointers(OnDisk) PROVE p \in fs.freed \/ p \notin OnDisk[BITMAP].v
  <2>1. PICK b \in Block, j \in Js, n \in Ns : p = PtrAt(fs.disk, b, j, n)
    BY DEF Pointers, OnDisk, Js, Ns
  <2>2. Sure(fs, p, 1)
    BY <2>1, <1>1 DEF Marked
  <2>3. ~\E k \in BitsAt(fs.out) : k < 1
    BY DEF BitsAt
  <2> QED BY <2>2, <2>3 DEF Sure, OnDisk
<1> QED BY <1>2 DEF DiskMarked

\* A file id that a client holds is not taken by open_alloc.
LEMMA HeldNotFree ==
    ASSUME IInv, NEW d \in Client, fd[d] # NULL
    PROVE  fd[d] \notin open_alloc
<1>1. PICK i : i = fd[d]
  OBVIOUS
<1>2. i \in offs
  BY <1>1 DEF IInv, Fds
<1>3. PICK T : T = {c \in Client : fd[c] = i}
  OBVIOUS
<1>4. IsFiniteSet(T) /\ d \in T
  <2>1. T \subseteq Client /\ d \in T
    BY <1>1, <1>3
  <2> QED BY <2>1, Bounds, FS_Subset
<1>5. Cardinality(T) \in Nat /\ Cardinality(T) # 0
  <2>1. Cardinality(T) \in Nat
    BY <1>4, FS_CardinalityType
  <2>2. Cardinality(T) = 0 => T = {}
    BY <1>4, FS_EmptySet
  <2> QED BY <2>1, <2>2, <1>4
<1>6. pageref(i) = Cardinality(T) + 1
  BY <1>2, <1>3 DEF pageref
<1>7. ~(pageref(i) <= 1)
  <2>1. PICK k : k = Cardinality(T)
    OBVIOUS
  <2>2. k \in Nat /\ k # 0 /\ pageref(i) = k + 1
    BY <2>1, <1>5, <1>6
  <2> QED BY <2>2
<1> QED BY <1>1, <1>7 DEF open_alloc

LEMMA OpenKeeps ==
    ASSUME IInv, NEW c \in Client, NEW path, NEW trunc, fsipc_open(c, path, trunc),
           NEW d \in Client, fd[d] # NULL
    PROVE  opentab'[fd[d]] = opentab[fd[d]]
<1>1. PICK i : i = Min(open_alloc)
  OBVIOUS
<1>2. i \in open_alloc
  <2>1. PICK T : T = open_alloc
    OBVIOUS
  <2>2. T \subseteq Nat /\ T # {}
    BY <2>1, Bounds DEF open_alloc, fsipc_open
  <2>3. Min(T) \in T
    BY <2>2, MinIn
  <2> QED BY <1>1, <2>1, <2>3
<1>3. fd[d] # i
  BY <1>2, HeldNotFree
<1>4. opentab' = opentab \/ \E e : opentab' = [opentab EXCEPT ![i] = e]
  BY <1>1 DEF fsipc_open, Opens
<1>5. fd[d] \in FileId
  BY DEF IInv, Fds
<1>6. opentab \in [FileId -> Open]
  BY DEF IInv, Tab
<1>7. CASE opentab' = opentab
  BY <1>7
<1>8. ASSUME NEW e, opentab' = [opentab EXCEPT ![i] = e] PROVE opentab'[fd[d]] = opentab[fd[d]]
  BY <1>3, <1>5, <1>6, <1>8
<1> QED BY <1>4, <1>7, <1>8

LEMMA StepOpenStable ==
    ASSUME IInv, [Next]_vars, NEW d \in Client, fd[d] # NULL, fd'[d] = fd[d]
    PROVE  opentab'[fd[d]] = opentab[fd[d]]
<1>1. CASE \E c \in Client : \E p : \/ open(c, p, TRUE) \/ open(c, p, FALSE) \/ openCreat(c, p) \/ cd(c, p)
  <2>0. PICK c \in Client : \E p : open(c, p, TRUE) \/ open(c, p, FALSE) \/ openCreat(c, p) \/ cd(c, p)
    BY <1>1
  <2>1. PICK p : open(c, p, TRUE) \/ open(c, p, FALSE) \/ openCreat(c, p) \/ cd(c, p)
    BY <2>0
  <2>2. fsipc_open(c, p, TRUE) \/ fsipc_open(c, p, FALSE)
    BY <2>1 DEF open, openCreat, cd, stat
  <2> QED BY <2>2, OpenKeeps
<1>2. CASE Reboot
  <2>1. fd'[d] = NULL
    BY <1>2 DEF Reboot
  <2> QED BY <2>1
<1>3. CASE UNCHANGED opentab
  BY <1>3
<1>4. ASSUME NEW c \in Client, NEW p, remove(c, p) \/ create(c, p)
      PROVE  UNCHANGED opentab
  BY <1>4 DEF remove, create, clients
<1>5. ASSUME NEW c \in Client, NEW op, fsipc_map(c, op) PROVE UNCHANGED opentab
  BY <1>5 DEF fsipc_map
<1>6. ASSUME NEW c \in Client, NEW n, ftruncate(c, n) \/ store(c, n) PROVE UNCHANGED opentab
  BY <1>6 DEF ftruncate, store, clients
<1>7. ASSUME NEW c \in Client, Undo(c) \/ close(c) \/ fsipc_dirty(c) \/ fsipc_close(c)
                               \/ fsipc_create(c) \/ sync(c) \/ Die(c)
      PROVE  UNCHANGED opentab
  BY <1>7 DEF Undo, close, fsipc_dirty, fsipc_close, fsipc_create, sync, Die, clients
<1>8. ASSUME NEW c \in Client, NEW e \in Client, fork(c, e) PROVE UNCHANGED opentab
  BY <1>8 DEF fork
<1>9. DiskWrite => UNCHANGED opentab
  BY DEF DiskWrite, clients
<1>10. UNCHANGED vars => UNCHANGED opentab
  BY DEF vars
<1>11. CASE Next
  <2>1. CASE DiskWrite \/ Reboot
    BY <2>1, <1>2, <1>3, <1>9
  <2>2. CASE ~(DiskWrite \/ Reboot)
    <3>1. PICK c \in Client :
             \/ \E p \in {PathOf(c, w) : w \in Word} :
                   \/ open(c, p, TRUE) \/ open(c, p, FALSE) \/ openCreat(c, p) \/ cd(c, p)
                   \/ remove(c, p) \/ create(c, p)
             \/ fsipc_map(c, "open") \/ fsipc_map(c, "stat") \/ fsipc_map(c, "grow") \/ Undo(c)
             \/ \E size \in 0 .. NINDIRECT : ftruncate(c, size)
             \/ \E n \in 0 .. NINDIRECT - 1 : store(c, n)
             \/ close(c) \/ fsipc_dirty(c) \/ fsipc_close(c) \/ fsipc_create(c) \/ sync(c) \/ Die(c)
             \/ \E e \in Client : fork(c, e)
      BY <1>11, <2>2 DEF Next
    <3> QED BY <3>1, <1>1, <1>3, <1>4, <1>5, <1>6, <1>7, <1>8
  <2> QED BY <2>1, <2>2
<1> QED BY <1>3, <1>10, <1>11

\* Blocks, bitmap and directories agree after any requests of any clients, until a block
\* is first used for what it does not hold, the server panics or the power fails: no block
\* is in two files, none that is used is free, no directory has a name twice (fs/fs.c
\* 171-230, 355-480, 498-571, 700-743, 810-832).
THEOREM StoreSoundHolds == Spec => []StoreSound
<1>1. IInv => StoreSound
  BY InvStoreSound
<1> QED BY <1>1, FileServerInv, PTL

\* What the disk names and was never given back, the disk has marked as used: between any
\* two writes, after any power failures, and also once the server has used a block for
\* what it does not hold (fs/fs.c 86-104, 171-195, 209-225).
THEOREM DiskMarkedHolds == Spec => []DiskMarked
<1>1. IInv => DiskMarked
  BY InvDiskMarked
<1> QED BY <1>1, FileServerInv, PTL

\* A file id that a client keeps stays its file: open_alloc takes an entry only if the
\* server alone maps its page (fs/serv.c 74-105).
THEOREM OpenStableHolds == Spec => OpenStable
<1>1. ASSUME IInv, [Next]_vars
      PROVE  [\A c \in Client : fd[c] # NULL /\ fd'[c] = fd[c]
                                    => opentab'[fd[c]] = opentab[fd[c]]]_vars
  BY <1>1, StepOpenStable
<1> QED BY <1>1, FileServerInv, PTL DEF Spec, OpenStable
=============================================================================
