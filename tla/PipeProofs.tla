---------------------------- MODULE PipeProofs ----------------------------
(***************************************************************************)
(* Proofs about Pipe, for any number of processes and descriptor slots,    *)
(* any ring size and any bounds: types, the soundness of the               *)
(* reference-count test of _pipe_is_closed(), and the order of the bytes   *)
(* that pass through the ring.                                             *)
(***************************************************************************)
EXTENDS Pipe, Integers, FiniteSetTheorems, TLAPS

\* The slots fork() has copied so far: i counts Fd pages, then data pages.
Copied(p) ==
    LET c == th[p].child
        i == th[p].i
    IN  \A s \in Slot :
          /\ fd[c][s] = IF s < i THEN fd[p][s] ELSE "none"
          /\ s + NSlots < i => data[c][s] = data[p][s]

(***************************************************************************)
(* The envs that are not running yet: an unborn one has no pages, and an   *)
(* embryo belongs to exactly one forker.                                   *)
(***************************************************************************)
Families ==
    /\ \A p \in Proc : At(p, "unborn") => \A s \in Slot : fd[p][s] = "none"
    /\ \A p \in Proc : At(p, "fork") => At(th[p].child, "embryo") /\ Copied(p)
    /\ \A c \in Proc : At(c, "embryo") => \E p \in Proc : At(p, "fork") /\ th[p].child = c
    /\ \A p, q \in Proc : At(p, "fork") /\ At(q, "fork") /\ th[p].child = th[q].child => p = q

\* Whoever maps an Fd page in a slot maps the data page there too: close()
\* unmaps it last, dup() maps it first; a child is complete when it is born.
PagesPaired ==
    /\ \A p \in Proc : ~At(p, "embryo") =>
         \A s \in Slot : fd[p][s] # "none" => data[p][s]
    /\ \A p \in Proc : At(p, "dup") => data[p][th[p].to]
    /\ \A p \in Proc : At(p, "close") => fd[p][th[p].slot] = "none"

\* As long as nobody else has run, the counts read so far are still right.
CountsCurrent ==
    \A p \in Proc :
        /\ th[p].pc \in {"chk2", "chk3"} /\ ~th[p].stale
               => th[p].fdRef = pageref(FdMaps(th[p].op))
        /\ At(p, "chk3") /\ ~th[p].stale => th[p].pipeRef = pageref(DataMaps)

IInv == TypeOK /\ Families /\ PagesPaired /\ CountsCurrent

USE DEF fd_lookup

\* There are finitely many mappings, so pageref() is a number.
LEMMA MapsFinite ==
    /\ IsFiniteSet(Proc \X Slot)
    /\ \A k : IsFiniteSet(FdMaps(k)) /\ pageref(FdMaps(k)) \in Nat
    /\ IsFiniteSet(DataMaps) /\ pageref(DataMaps) \in Nat
  <1>1. IsFiniteSet(Slot)
    <2>1. 0 \in Int /\ NSlots - 1 \in Int  BY SlotAssumption
    <2> QED BY <2>1, FS_Interval DEF Slot
  <1>2. IsFiniteSet(Proc \X Slot)  BY <1>1, ProcAssumption, FS_Product
  <1>3. (\A k : FdMaps(k) \in SUBSET (Proc \X Slot)) /\ DataMaps \in SUBSET (Proc \X Slot)
    BY DEF FdMaps, DataMaps
  <1>4. \A k : IsFiniteSet(FdMaps(k))  BY <1>2, <1>3, FS_Subset
  <1>5. IsFiniteSet(DataMaps)  BY <1>2, <1>3, FS_Subset
  <1> QED BY <1>2, <1>4, <1>5, FS_CardinalityType DEF pageref

\* The two constant threads are threads.
LEMMA RestIsThread == Rest \in Thread /\ Unborn \in Thread
  <1>1. 0 \in Slot  BY SlotAssumption DEF Slot
  <1>2. Rest \in Thread  BY <1>1, ProcAssumption, BoundAssumption DEF Rest, Thread, PC, End
  <1>3. [Rest EXCEPT !.pc = "unborn"] \in Thread  BY <1>2 DEF Thread, PC
  <1> QED BY <1>2, <1>3 DEF Unborn

\* A step of p leaves every other thread where it is but for its stale flag.
LEMMA StepFacts ==
    ASSUME TypeOK, NEW p \in Proc, NEW t \in Thread, Step(p, t)
    PROVE  /\ th' \in [Proc -> Thread]
           /\ th'[p] = t
           /\ \A q \in Proc \ {p} : /\ th'[q].pc = th[q].pc
                                    /\ th'[q].child = th[q].child
                                    /\ th'[q].i = th[q].i
                                    /\ th'[q].to = th[q].to
                                    /\ th'[q].slot = th[q].slot
                                    /\ th'[q].op = th[q].op
                                    /\ th'[q].n = th[q].n
                                    /\ th'[q].byte = th[q].byte
                                    /\ th'[q].stale
  <1>1. th' = [q \in Proc |-> IF q = p THEN t ELSE [th[q] EXCEPT !.stale = TRUE]]
    BY DEF Step
  <1>2. \A q \in Proc : th[q] \in Thread  BY DEF TypeOK
  <1>3. \A x \in Thread : /\ [x EXCEPT !.stale = TRUE] \in Thread
                          /\ [x EXCEPT !.stale = TRUE].pc = x.pc
                          /\ [x EXCEPT !.stale = TRUE].child = x.child
                          /\ [x EXCEPT !.stale = TRUE].i = x.i
                          /\ [x EXCEPT !.stale = TRUE].to = x.to
                          /\ [x EXCEPT !.stale = TRUE].slot = x.slot
                          /\ [x EXCEPT !.stale = TRUE].op = x.op
                          /\ [x EXCEPT !.stale = TRUE].n = x.n
                          /\ [x EXCEPT !.stale = TRUE].byte = x.byte
                          /\ [x EXCEPT !.stale = TRUE].stale
    BY DEF Thread
  <1>4. \A q \in Proc \ {p} : th'[q] = [th[q] EXCEPT !.stale = TRUE]  BY <1>1
  <1>5. th'[p] = t  BY <1>1
  <1>6. \A q \in Proc : th'[q] \in Thread
    BY <1>2, <1>3, <1>4, <1>5
  <1>7. th' \in [Proc -> Thread]  BY <1>1, <1>6
  <1>8. ASSUME NEW q \in Proc \ {p}
        PROVE  /\ th'[q].pc = th[q].pc /\ th'[q].child = th[q].child
               /\ th'[q].i = th[q].i /\ th'[q].to = th[q].to
               /\ th'[q].slot = th[q].slot /\ th'[q].op = th[q].op
               /\ th'[q].n = th[q].n /\ th'[q].byte = th[q].byte /\ th'[q].stale
    <2>1. th[q] \in Thread /\ th'[q] = [th[q] EXCEPT !.stale = TRUE]  BY <1>2, <1>4
    <2> DEFINE x == th[q]
               y == th'[q]
    <2>2. x \in Thread /\ y = [x EXCEPT !.stale = TRUE]  BY <2>1
    <2> HIDE DEF x, y
    <2>3. y.pc = x.pc /\ y.child = x.child /\ y.i = x.i /\ y.to = x.to
          /\ y.slot = x.slot /\ y.op = x.op /\ y.n = x.n /\ y.byte = x.byte /\ y.stale
      BY <2>2, <1>3
    <2> QED BY <2>3 DEF x, y
  <1> QED BY <1>5, <1>7, <1>8

LEMMA InitIInv == Init => IInv
  <1> SUFFICES ASSUME Init PROVE IInv  OBVIOUS
  <1> USE SlotAssumption, ProcAssumption, RingAssumption, BoundAssumption
  <1>1. \A p \in Proc : th[p] = IF p = Creator THEN Rest ELSE Unborn  BY DEF Init
  <1>2. \A p \in Proc : th[p] \in Thread /\ th[p].pc \in {"idle", "unborn"}
                        /\ th[p].n = 0 /\ (th[p].pc = "unborn" => p # Creator)
    BY <1>1, RestIsThread DEF Rest, Unborn
  <1>3. TypeOK
    <2>1. fd \in [Proc -> [Slot -> End \cup {"none"}]] /\ data \in [Proc -> [Slot -> BOOLEAN]]
      BY DEF Init, Slot, End
    <2>2. th \in [Proc -> Thread]  BY <1>2 DEF Init
    <2> QED BY <2>1, <2>2 DEF Init, TypeOK
  <1>4. Families  BY <1>2 DEF Init, Families, At
  <1>5. PagesPaired
    <2>1. ASSUME NEW p \in Proc, NEW s \in Slot, fd[p][s] # "none" PROVE data[p][s]
      <3>1. p = Creator /\ s >= NSlots - 2  BY <2>1 DEF Init, Slot
      <3>2. data[p][s] = (p = Creator /\ s >= NSlots - 2)  BY DEF Init
      <3> QED BY <3>1, <3>2
    <2> QED BY <2>1, <1>2 DEF PagesPaired, At
  <1>7. CountsCurrent  BY <1>2 DEF CountsCurrent, At
  <1> QED BY <1>3, <1>4, <1>5, <1>7 DEF IInv

\* A step of a process that forks neither before nor after it and touches only
\* its own pages leaves the families as they are.
LEMMA FamiliesKept ==
    ASSUME IInv, NEW p \in Proc, NEW t \in Thread, Step(p, t),
           th[p].pc \notin {"unborn", "embryo", "fork"},
           t.pc \notin {"unborn", "embryo", "fork"},
           \A q \in Proc \ {p} : fd'[q] = fd[q] /\ data'[q] = data[q]
    PROVE  Families'
  <1>1. TypeOK /\ Families  BY DEF IInv
  <1>2. \A q \in Proc \ {p} : /\ th'[q].pc = th[q].pc
                              /\ th'[q].child = th[q].child
                              /\ th'[q].i = th[q].i
    BY <1>1, StepFacts
  <1>3. th'[p].pc = t.pc  BY <1>1, StepFacts
  <1>4. \A q \in Proc : At(q, "fork")' => q # p /\ At(q, "fork")
    BY <1>2, <1>3 DEF At
  <1>5. \A q \in Proc : At(q, "fork") => q # p /\ At(q, "fork")'
    BY <1>2 DEF At
  <1>6. \A c \in Proc : At(c, "embryo") <=> At(c, "embryo")'
    BY <1>2, <1>3 DEF At
  <1>7. \A q \in Proc : At(q, "fork") => th[q].child \in Proc
    BY <1>1 DEF TypeOK, Thread
  <1>8. ASSUME NEW q \in Proc, At(q, "fork")'
        PROVE  At(th[q].child, "embryo")' /\ Copied(q)'
    <2>1. At(q, "fork") /\ q # p /\ th'[q].child = th[q].child /\ th'[q].i = th[q].i
      BY <1>8, <1>4, <1>2
    <2>2. At(th[q].child, "embryo") /\ Copied(q) /\ th[q].child \in Proc
      BY <2>1, <1>7, <1>1 DEF Families
    <2>3. th[q].child # p  BY <2>2 DEF At
    <2>4. At(th[q].child, "embryo")'  BY <2>1, <2>2, <1>6
    <2>5. fd'[q] = fd[q] /\ data'[q] = data[q] /\ fd'[th[q].child] = fd[th[q].child]
          /\ data'[th[q].child] = data[th[q].child]
      BY <2>1, <2>2, <2>3
    <2>6. Copied(q)'  BY <2>1, <2>2, <2>5 DEF Copied
    <2> QED BY <2>4, <2>6
  <1>9. ASSUME NEW q \in Proc, At(q, "unborn")' PROVE \A s \in Slot : fd'[q][s] = "none"
    <2>1. q # p /\ At(q, "unborn")  BY <1>9, <1>2, <1>3 DEF At
    <2> QED BY <2>1, <1>1 DEF Families
  <1>10. ASSUME NEW c \in Proc, At(c, "embryo")'
         PROVE  \E q \in Proc : At(q, "fork")' /\ th'[q].child = c
    <2>1. PICK q \in Proc : At(q, "fork") /\ th[q].child = c  BY <1>10, <1>6, <1>1 DEF Families
    <2> QED BY <2>1, <1>5, <1>2
  <1>11. ASSUME NEW q \in Proc, NEW r \in Proc, At(q, "fork")', At(r, "fork")',
                th'[q].child = th'[r].child
         PROVE  q = r
    BY <1>11, <1>4, <1>2, <1>1 DEF Families
  <1> QED BY <1>8, <1>9, <1>10, <1>11, <1>2, <1>4 DEF Families

\* Likewise for the pairing of pages, if p keeps its own slots paired.
LEMMA PagesKept ==
    ASSUME IInv, NEW p \in Proc, NEW t \in Thread, Step(p, t),
           th[p].pc # "embryo",
           \A q \in Proc \ {p} : fd'[q] = fd[q] /\ data'[q] = data[q],
           \A s \in Slot : fd'[p][s] # "none" => data'[p][s],
           t.pc = "dup" => data'[p][t.to],
           t.pc = "close" => fd'[p][t.slot] = "none"
    PROVE  PagesPaired'
  <1>1. TypeOK /\ PagesPaired  BY DEF IInv
  <1>2. \A q \in Proc \ {p} : th'[q].pc = th[q].pc /\ th'[q].to = th[q].to
                              /\ th'[q].slot = th[q].slot
    BY <1>1, StepFacts
  <1>3. th'[p] = t  BY <1>1, StepFacts
  <1>4. ASSUME NEW q \in Proc, ~At(q, "embryo")', NEW s \in Slot, fd'[q][s] # "none"
        PROVE  data'[q][s]
    <2>1. CASE q = p  BY <2>1, <1>4
    <2>2. CASE q # p  BY <2>2, <1>4, <1>1, <1>2 DEF PagesPaired, At
    <2> QED BY <2>1, <2>2
  <1>5. ASSUME NEW q \in Proc, At(q, "dup")' PROVE data'[q][th'[q].to]
    <2>1. CASE q = p  BY <2>1, <1>5, <1>3 DEF At
    <2>2. CASE q # p  BY <2>2, <1>5, <1>1, <1>2 DEF PagesPaired, At
    <2> QED BY <2>1, <2>2
  <1>6. ASSUME NEW q \in Proc, At(q, "close")' PROVE fd'[q][th'[q].slot] = "none"
    <2>1. CASE q = p  BY <2>1, <1>6, <1>3 DEF At
    <2>2. CASE q # p  BY <2>2, <1>6, <1>1, <1>2 DEF PagesPaired, At
    <2> QED BY <2>1, <2>2
  <1> QED BY <1>4, <1>5, <1>6 DEF PagesPaired

\* A step makes the counts of everybody else stale; those of p must be right.
LEMMA CountsKept ==
    ASSUME IInv, NEW p \in Proc, NEW t \in Thread, Step(p, t),
           t.pc \in {"chk2", "chk3"} /\ ~t.stale => t.fdRef = pageref(FdMaps(t.op))',
           t.pc = "chk3" /\ ~t.stale => t.pipeRef = pageref(DataMaps)'
    PROVE  CountsCurrent'
  <1>1. TypeOK  BY DEF IInv
  <1>2. \A q \in Proc \ {p} : th'[q].stale
    BY <1>1, StepFacts
  <1>3. th'[p] = t  BY <1>1, StepFacts
  <1> QED BY <1>2, <1>3 DEF CountsCurrent, At

\* A step inside a call, or into one, that maps and unmaps nothing.
LEMMA QuietStep ==
    ASSUME IInv, NEW p \in Proc, NEW t \in Thread, Step(p, t), UNCHANGED <<fd, data>>,
           th[p].pc = "idle" \/ OnPipe(p),
           t.pc \in {"idle", "test", "get", "radv", "put", "wadv", "chk1", "chk2", "chk3"},
           t.pc \in {"chk2", "chk3"} /\ ~t.stale => t.fdRef = pageref(FdMaps(t.op)),
           t.pc = "chk3" /\ ~t.stale => t.pipeRef = pageref(DataMaps)
    PROVE  th' \in [Proc -> Thread] /\ Families' /\ PagesPaired' /\ CountsCurrent'
  <1>1. th[p].pc \notin {"unborn", "embryo", "fork"}  BY DEF OnPipe, Checking
  <1>2. Families'  BY <1>1, FamiliesKept
  <1>3. \A s \in Slot : fd[p][s] # "none" => data[p][s]
    BY <1>1 DEF IInv, PagesPaired, At
  <1>4. PagesPaired'  BY <1>1, <1>3, PagesKept
  <1>6. FdMaps(t.op)' = FdMaps(t.op) /\ DataMaps' = DataMaps  BY DEF FdMaps, DataMaps
  <1>7. CountsCurrent'
    <2>1. /\ pageref(FdMaps(t.op))' = pageref(FdMaps(t.op))
          /\ pageref(DataMaps)' = pageref(DataMaps)
      BY <1>6 DEF pageref
    <2> QED BY <2>1, CountsKept
  <1>8. TypeOK  BY DEF IInv
  <1> QED BY <1>2, <1>4, <1>7, <1>8, StepFacts

\* The steps of read(), write() and pipe_is_closed().
LEMMA CallStep ==
    ASSUME IInv, NEW p \in Proc, NEW s \in Slot, NEW n \in 1 .. MaxIO, Call(p, s, n)
    PROVE  IInv'
  <1> DEFINE t == [th[p] EXCEPT !.pc = "test", !.op = fd[p][s], !.slot = s, !.n = n, !.i = 0]
  <1>1. TypeOK  BY DEF IInv
  <1>2. t \in Thread /\ t.pc = "test"
    <2>1. th[p] \in Thread /\ fd[p][s] \in End /\ n \in 0 .. MaxIO
      BY <1>1, BoundAssumption DEF TypeOK, Call
    <2> QED BY <2>1 DEF Thread, PC
  <1>3. Step(p, t) /\ th[p].pc = "idle" /\ UNCHANGED <<fd, data, ringVars, dups>>
    BY DEF Call, At
  <1> HIDE DEF t
  <1>4. th' \in [Proc -> Thread] /\ Families' /\ PagesPaired' /\ CountsCurrent'
    BY <1>2, <1>3, QuietStep
  <1> QED BY <1>1, <1>3, <1>4 DEF IInv, TypeOK, ringVars

LEMMA IsClosedStep ==
    ASSUME IInv, NEW p \in Proc, NEW s \in Slot, pipe_is_closed(p, s)
    PROVE  IInv'
  <1> DEFINE t == [th[p] EXCEPT !.pc = "chk1", !.op = fd[p][s], !.slot = s, !.stale = FALSE]
  <1>1. TypeOK  BY DEF IInv
  <1>2. t \in Thread /\ t.pc = "chk1"
    <2>1. th[p] \in Thread /\ fd[p][s] \in End
      BY <1>1 DEF TypeOK, pipe_is_closed
    <2> QED BY <2>1 DEF Thread, PC
  <1>3. Step(p, t) /\ th[p].pc = "idle" /\ UNCHANGED <<fd, data, ringVars, dups>>
    BY DEF pipe_is_closed, At
  <1> HIDE DEF t
  <1>4. th' \in [Proc -> Thread] /\ Families' /\ PagesPaired' /\ CountsCurrent'
    BY <1>2, <1>3, QuietStep
  <1> QED BY <1>1, <1>3, <1>4 DEF IInv, TypeOK, ringVars

LEMMA CheckStep ==
    ASSUME IInv, NEW p \in Proc, ChkFd(p) \/ ChkPipe(p) \/ ChkRetry(p) \/ ChkDone(p)
    PROVE  IInv'
  <1>1. TypeOK /\ th[p] \in Thread  BY DEF IInv, TypeOK
  <1>2. PICK t \in Thread :
           /\ Step(p, t)
           /\ t.pc \in {"idle", "test", "chk1", "chk2", "chk3"}
           /\ t.pc \in {"chk2", "chk3"} /\ ~t.stale => t.fdRef = pageref(FdMaps(t.op))
           /\ t.pc = "chk3" /\ ~t.stale => t.pipeRef = pageref(DataMaps)
    <2>1. CASE ChkFd(p)
      <3> DEFINE x == [th[p] EXCEPT !.pc = "chk2", !.fdRef = pageref(FdMaps(th[p].op))]
      <3>1. /\ x \in Thread /\ x.pc = "chk2" /\ x.op = th[p].op
            /\ x.fdRef = pageref(FdMaps(th[p].op))
        BY <1>1, MapsFinite DEF Thread, PC
      <3>2. Step(p, x)  BY <2>1 DEF ChkFd
      <3> HIDE DEF x
      <3> QED BY <3>1, <3>2
    <2>2. CASE ChkPipe(p)
      <3> DEFINE x == [th[p] EXCEPT !.pc = "chk3", !.pipeRef = pageref(DataMaps)]
      <3>1. /\ x \in Thread /\ x.pc = "chk3" /\ x.op = th[p].op /\ x.stale = th[p].stale
            /\ x.fdRef = th[p].fdRef /\ x.pipeRef = pageref(DataMaps)
        BY <1>1, MapsFinite DEF Thread, PC
      <3>2. Step(p, x) /\ th[p].pc = "chk2"  BY <2>2 DEF ChkPipe, At
      <3>3. ~th[p].stale => th[p].fdRef = pageref(FdMaps(th[p].op))
        BY <3>2 DEF IInv, CountsCurrent
      <3> HIDE DEF x
      <3> QED BY <3>1, <3>2, <3>3
    <2>3. CASE ChkRetry(p)
      <3> DEFINE x == [th[p] EXCEPT !.pc = "chk1", !.stale = FALSE, !.fdRef = 0, !.pipeRef = 0]
      <3>1. x \in Thread /\ x.pc = "chk1"  BY <1>1 DEF Thread, PC
      <3>2. Step(p, x)  BY <2>3 DEF ChkRetry
      <3> HIDE DEF x
      <3> QED BY <3>1, <3>2
    <2>4. CASE ChkDone(p)
      <3> DEFINE x == [th[p] EXCEPT !.pc = "test", !.stale = TRUE, !.fdRef = 0, !.pipeRef = 0]
      <3>1. x \in Thread /\ x.pc = "test"  BY <1>1 DEF Thread, PC
      <3>2. Rest \in Thread /\ Rest.pc = "idle"  BY RestIsThread DEF Rest
      <3>3. Step(p, Rest) \/ Step(p, x)  BY <2>4 DEF ChkDone
      <3> HIDE DEF x
      <3> QED BY <3>1, <3>2, <3>3
    <2> QED BY <2>1, <2>2, <2>3, <2>4
  <1>3. OnPipe(p) /\ UNCHANGED <<fd, data, ringVars, dups>>
    BY DEF ChkFd, ChkPipe, ChkRetry, ChkDone, At, OnPipe, Checking
  <1>4. th' \in [Proc -> Thread] /\ Families' /\ PagesPaired' /\ CountsCurrent'
    BY <1>2, <1>3, QuietStep
  <1> QED BY <1>1, <1>3, <1>4 DEF IInv, TypeOK, ringVars

\* The next iteration, or the return.
LEMMA AdvancedIsThread ==
    ASSUME NEW p \in Proc, th[p] \in Thread
    PROVE  Advanced(p) \in Thread /\ Advanced(p).pc \in {"idle", "test"}
  <1>1. Rest \in Thread /\ Rest.pc = "idle"  BY RestIsThread DEF Rest
  <1>2. \A j \in Nat : /\ [th[p] EXCEPT !.pc = "test", !.i = j, !.byte = 0] \in Thread
                       /\ [th[p] EXCEPT !.pc = "test", !.i = j, !.byte = 0].pc = "test"
    BY DEF Thread, PC
  <1>3. th[p].i + 1 \in Nat  BY DEF Thread
  <1> QED BY <1>1, <1>2, <1>3 DEF Advanced

LEMMA TransferStep ==
    ASSUME IInv, NEW p \in Proc,
           Test(p) \/ Get(p) \/ AdvanceR(p) \/ Put(p) \/ AdvanceW(p)
    PROVE  IInv'
  <1>1. TypeOK /\ th[p] \in Thread  BY DEF IInv, TypeOK
  <1>2. PICK t \in Thread :
           Step(p, t) /\ t.pc \in {"idle", "test", "get", "radv", "put", "wadv", "chk1"}
    <2>1. CASE Test(p)
      <3> DEFINE pc == IF Stuck(p) THEN "chk1" ELSE IF th[p].op = "r" THEN "get" ELSE "put"
                 x == [th[p] EXCEPT !.pc = pc, !.stale = ~Stuck(p)]
      <3>1. Step(p, x)  BY <2>1 DEF Test
      <3>2. pc \in {"get", "put", "chk1"} /\ (~Stuck(p)) \in BOOLEAN
        BY Zenon
      <3> DEFINE st == ~Stuck(p)
      <3>3. \A b \in BOOLEAN : \A c \in {"get", "put", "chk1"} :
               /\ [th[p] EXCEPT !.pc = c, !.stale = b] \in Thread
               /\ [th[p] EXCEPT !.pc = c, !.stale = b].pc = c
        BY <1>1 DEF Thread, PC
      <3>4. st \in BOOLEAN /\ pc \in {"get", "put", "chk1"}  BY <3>2
      <3>5. x = [th[p] EXCEPT !.pc = pc, !.stale = st]  OBVIOUS
      <3> HIDE DEF pc, st, x
      <3>6. x \in Thread /\ x.pc \in {"get", "put", "chk1"}  BY <3>3, <3>4, <3>5
      <3> QED BY <3>1, <3>6
    <2>2. CASE Get(p)
      <3> DEFINE x == [th[p] EXCEPT !.pc = "radv", !.byte = buf[rpos % PIPE_SIZE]]
      <3>1. Step(p, x)  BY <2>2 DEF Get
      <3>2. buf[rpos % PIPE_SIZE] \in Nat
        <4>1. rpos \in Nat /\ buf \in [0 .. PIPE_SIZE - 1 -> Nat]
          BY <1>1, RingAssumption DEF TypeOK
        <4>2. \A y \in Nat : y % PIPE_SIZE \in 0 .. PIPE_SIZE - 1
          BY RingAssumption
        <4> QED BY <4>1, <4>2
      <3>3. x \in Thread /\ x.pc = "radv"  BY <1>1, <3>2 DEF Thread, PC
      <3> HIDE DEF x
      <3> QED BY <3>1, <3>3
    <2>3. CASE Put(p)
      <3> DEFINE x == [th[p] EXCEPT !.pc = "wadv"]
      <3>1. Step(p, x)  BY <2>3 DEF Put
      <3>2. x \in Thread /\ x.pc = "wadv"  BY <1>1 DEF Thread, PC
      <3> HIDE DEF x
      <3> QED BY <3>1, <3>2
    <2>4. CASE AdvanceR(p) \/ AdvanceW(p)
      BY <2>4, <1>1, AdvancedIsThread DEF AdvanceR, AdvanceW
    <2> QED BY <2>1, <2>2, <2>3, <2>4
  <1>3. OnPipe(p) /\ UNCHANGED <<fd, data, dups>>
    BY DEF Test, Get, AdvanceR, Put, AdvanceW, At, OnPipe, Checking, ringVars
  <1>4. th' \in [Proc -> Thread] /\ Families' /\ PagesPaired' /\ CountsCurrent'
    BY <1>2, <1>3, QuietStep
  <1>5. /\ buf' \in [0 .. PIPE_SIZE - 1 -> Nat]
        /\ rpos' \in 0 .. PosMod - 1 /\ wpos' \in 0 .. PosMod - 1
        /\ sent' \in Nat /\ taken' \in Nat
    <2>1. \A x \in 0 .. PosMod - 1 : (x + 1) % PosMod \in 0 .. PosMod - 1
      BY RingAssumption
    <2>2. CASE Test(p) \/ Get(p)
      BY <2>2, <1>1 DEF TypeOK, Test, Get, ringVars
    <2>3. CASE AdvanceR(p)  BY <2>1, <2>3, <1>1 DEF TypeOK, AdvanceR
    <2>4. CASE Put(p)
      <3>1. buf \in [0 .. PIPE_SIZE - 1 -> Nat] /\ sent + 1 \in Nat
        BY <1>1 DEF TypeOK
      <3>2. \A x : [buf EXCEPT ![x] = sent + 1] \in [0 .. PIPE_SIZE - 1 -> Nat]
        BY <3>1
      <3> QED BY <2>4, <3>2, <1>1 DEF TypeOK, Put
    <2>5. CASE AdvanceW(p)  BY <2>1, <2>5, <1>1 DEF TypeOK, AdvanceW
    <2> QED BY <2>2, <2>3, <2>4, <2>5
  <1> QED BY <1>1, <1>3, <1>4, <1>5 DEF IInv, TypeOK

\* A step of close() or dup(), which touches pages of the caller only.
LEMMA PagesStep ==
    ASSUME IInv, NEW p \in Proc, NEW t \in Thread, Step(p, t),
           th[p].pc \in {"idle", "close", "dup"}, t.pc \in {"idle", "close", "dup"},
           \A q \in Proc \ {p} : fd'[q] = fd[q] /\ data'[q] = data[q],
           \A s \in Slot : fd'[p][s] # "none" => data'[p][s],
           t.pc = "dup" => data'[p][t.to],
           t.pc = "close" => fd'[p][t.slot] = "none"
    PROVE  th' \in [Proc -> Thread] /\ Families' /\ PagesPaired' /\ CountsCurrent'
  <1>1. Families'  BY FamiliesKept
  <1>2. PagesPaired'  BY PagesKept
  <1>4. CountsCurrent'  BY CountsKept
  <1> QED BY <1>1, <1>2, <1>4, StepFacts DEF IInv

LEMMA CloseStep ==
    ASSUME IInv, NEW p \in Proc, (\E s \in Slot : CloseFd(p, s)) \/ CloseData(p)
    PROVE  IInv'
  <1>1. /\ TypeOK /\ th[p] \in Thread
        /\ th[p].pc # "embryo" => \A s \in Slot : fd[p][s] # "none" => data[p][s]
        /\ th[p].pc = "close" => fd[p][th[p].slot] = "none"
    BY DEF IInv, TypeOK, PagesPaired, At
  <1>2. CASE \E s \in Slot : CloseFd(p, s)
    <2>1. PICK s \in Slot : CloseFd(p, s)  BY <1>2
    <2> DEFINE t == [th[p] EXCEPT !.pc = "close", !.slot = s]
    <2>2. Step(p, t) /\ th[p].pc = "idle"  BY <2>1 DEF CloseFd, At
    <2>3. t \in Thread /\ t.pc = "close" /\ t.slot = s  BY <1>1 DEF Thread, PC
    <2>4. /\ fd' \in [Proc -> [Slot -> End \cup {"none"}]] /\ data' = data
          /\ \A q \in Proc \ {p} : fd'[q] = fd[q]
          /\ \A x \in Slot : fd'[p][x] # "none" => fd[p][x] # "none"
          /\ fd'[p][s] = "none"
      BY <2>1, <1>1 DEF CloseFd, TypeOK
    <2> HIDE DEF t
    <2>5. th' \in [Proc -> Thread] /\ Families' /\ PagesPaired' /\ CountsCurrent'
      BY <2>2, <2>3, <2>4, <1>1, PagesStep
    <2> QED BY <2>1, <2>4, <2>5, <1>1 DEF IInv, TypeOK, CloseFd, ringVars
  <1>3. CASE CloseData(p)
    <2> DEFINE s == th[p].slot
    <2>1. Step(p, Rest) /\ th[p].pc = "close" /\ s \in Slot
      BY <1>3, <1>1 DEF CloseData, At, Thread
    <2>2. Rest \in Thread /\ Rest.pc = "idle"  BY RestIsThread DEF Rest
    <2>3. data \in [Proc -> [Slot -> BOOLEAN]] /\ data' = [data EXCEPT ![p][s] = FALSE] /\ fd' = fd
      BY <1>3, <1>1 DEF CloseData, TypeOK
    <2>4. /\ data' \in [Proc -> [Slot -> BOOLEAN]]
          /\ \A q \in Proc \ {p} : data'[q] = data[q]
          /\ \A x \in Slot : x # s => data'[p][x] = data[p][x]
      BY <2>1, <2>3
    <2>5. ASSUME NEW x \in Slot, fd'[p][x] # "none" PROVE data'[p][x]
      <3>1. x # s /\ data[p][x]  BY <2>1, <2>3, <2>5, <1>1
      <3> QED BY <3>1, <2>4
    <2>6. th' \in [Proc -> Thread] /\ Families' /\ PagesPaired' /\ CountsCurrent'
      BY <2>1, <2>2, <2>3, <2>4, <2>5, PagesStep
    <2> QED BY <1>3, <2>3, <2>4, <2>6, <1>1 DEF IInv, TypeOK, CloseData, ringVars
  <1> QED BY <1>2, <1>3

LEMMA DupStep ==
    ASSUME IInv, NEW p \in Proc, (\E s, t \in Slot : DupData(p, s, t)) \/ DupFd(p)
    PROVE  IInv'
  <1>1. /\ TypeOK /\ th[p] \in Thread
        /\ th[p].pc # "embryo" => \A s \in Slot : fd[p][s] # "none" => data[p][s]
        /\ th[p].pc = "dup" => data[p][th[p].to]
    BY DEF IInv, TypeOK, PagesPaired, At
  <1>2. CASE \E s, t \in Slot : DupData(p, s, t)
    <2>1. PICK s \in Slot, to \in Slot : DupData(p, s, to)  BY <1>2
    <2> DEFINE t == [th[p] EXCEPT !.pc = "dup", !.slot = s, !.to = to]
    <2>2. Step(p, t) /\ th[p].pc = "idle"  BY <2>1 DEF DupData, At
    <2>3. t \in Thread /\ t.pc = "dup" /\ t.to = to  BY <1>1 DEF Thread, PC
    <2>4. data \in [Proc -> [Slot -> BOOLEAN]] /\ data' = [data EXCEPT ![p][to] = TRUE] /\ fd' = fd
      BY <2>1, <1>1 DEF DupData, TypeOK
    <2>5. /\ data' \in [Proc -> [Slot -> BOOLEAN]]
          /\ \A q \in Proc \ {p} : data'[q] = data[q]
          /\ data'[p][to]
          /\ \A x \in Slot : data[p][x] => data'[p][x]
      BY <2>4
    <2>6. dups' \in 0 .. MaxDups
      <3>1. dups < MaxDups /\ dups' = dups + 1  BY <2>1 DEF DupData
      <3>2. dups \in 0 .. MaxDups  BY <1>1 DEF TypeOK
      <3> QED BY <3>1, <3>2, BoundAssumption
    <2> HIDE DEF t
    <2>7. th' \in [Proc -> Thread] /\ Families' /\ PagesPaired' /\ CountsCurrent'
      BY <2>2, <2>3, <2>4, <2>5, <1>1, PagesStep
    <2> QED BY <2>1, <2>4, <2>5, <2>6, <2>7, <1>1 DEF IInv, TypeOK, DupData, ringVars
  <1>3. CASE DupFd(p)
    <2> DEFINE to == th[p].to
               k == fd[p][th[p].slot]
    <2>1. Step(p, Rest) /\ th[p].pc = "dup" /\ to \in Slot /\ k \in End \cup {"none"}
      BY <1>3, <1>1 DEF DupFd, At, Thread, TypeOK
    <2>2. Rest \in Thread /\ Rest.pc = "idle"  BY RestIsThread DEF Rest
    <2>3. /\ fd \in [Proc -> [Slot -> End \cup {"none"}]]
          /\ fd' = [fd EXCEPT ![p][to] = k] /\ data' = data
      BY <1>3, <1>1 DEF DupFd, TypeOK
    <2>4. data[p][to]  BY <2>1, <1>1
    <2> HIDE DEF to, k
    <2>5. /\ fd' \in [Proc -> [Slot -> End \cup {"none"}]]
          /\ \A q \in Proc \ {p} : fd'[q] = fd[q]
          /\ \A x \in Slot : x # to => fd'[p][x] = fd[p][x]
      BY <2>1, <2>3
    <2>6. ASSUME NEW x \in Slot, fd'[p][x] # "none" PROVE data'[p][x]
      <3>1. CASE x = to  BY <3>1, <2>3, <2>4
      <3>2. CASE x # to
        <4>1. fd[p][x] # "none"  BY <3>2, <2>5, <2>6
        <4> QED BY <4>1, <2>1, <2>3, <1>1
      <3> QED BY <3>1, <3>2
    <2>7. th' \in [Proc -> Thread] /\ Families' /\ PagesPaired' /\ CountsCurrent'
      BY <2>1, <2>2, <2>3, <2>5, <2>6, PagesStep
    <2> QED BY <1>3, <2>3, <2>5, <2>7, <1>1 DEF IInv, TypeOK, DupFd, ringVars
  <1> QED BY <1>2, <1>3

\* fork() begins: p and the child c change, nobody else but for the stale flag.
LEMMA ForkStep ==
    ASSUME IInv, NEW p \in Proc, NEW c \in Proc, Fork(p, c)
    PROVE  IInv'
  <1> DEFINE t == [th[p] EXCEPT !.pc = "fork", !.child = c, !.i = 0]
             e == [Rest EXCEPT !.pc = "embryo"]
  <1>1. TypeOK /\ th[p] \in Thread /\ th[p].pc = "idle" /\ th[c].pc = "unborn" /\ p # c
    BY DEF IInv, TypeOK, Fork, At
  <1>2. /\ t \in Thread /\ t.pc = "fork" /\ t.child = c /\ t.i = 0
        /\ e \in Thread /\ e.pc = "embryo"
    <2>1. Rest \in Thread  BY RestIsThread
    <2> QED BY <1>1, <2>1 DEF Thread, PC
  <1>3. /\ th' = [q \in Proc |-> IF q = p THEN t ELSE IF q = c THEN e
                                ELSE [th[q] EXCEPT !.stale = TRUE]]
        /\ UNCHANGED <<fd, data, ringVars, dups>>
    BY DEF Fork
  <1> HIDE DEF t, e
  <1>4. th'[p] = t /\ th'[c] = e  BY <1>1, <1>3
  <1>5. ASSUME NEW q \in Proc \ {p, c}
        PROVE  /\ th'[q] \in Thread /\ th'[q].pc = th[q].pc /\ th'[q].child = th[q].child
               /\ th'[q].i = th[q].i /\ th'[q].to = th[q].to
               /\ th'[q].slot = th[q].slot /\ th'[q].stale
    <2>1. th[q] \in Thread /\ th'[q] = [th[q] EXCEPT !.stale = TRUE]  BY <1>1, <1>3 DEF TypeOK
    <2> DEFINE x == th[q]
    <2>2. x \in Thread /\ th'[q] = [x EXCEPT !.stale = TRUE]  BY <2>1
    <2> HIDE DEF x
    <2>3. /\ th'[q] \in Thread /\ th'[q].pc = x.pc /\ th'[q].child = x.child
          /\ th'[q].i = x.i /\ th'[q].to = x.to /\ th'[q].slot = x.slot /\ th'[q].stale
      BY <2>2 DEF Thread
    <2> QED BY <2>3 DEF x
  <1>6. th' \in [Proc -> Thread]  BY <1>2, <1>3, <1>4, <1>5
  <1>7. Families'
    <2>1. Families /\ \A q \in Proc : th[q].child \in Proc  BY <1>1 DEF IInv, TypeOK, Thread
    <2>2. ASSUME NEW q \in Proc, At(q, "unborn")' PROVE \A s \in Slot : fd'[q][s] = "none"
      <3>1. q \notin {p, c} /\ At(q, "unborn")  BY <2>2, <1>2, <1>4, <1>5 DEF At
      <3> QED BY <3>1, <1>3, <2>1 DEF Families
    <2>3. ASSUME NEW q \in Proc, At(q, "fork")'
          PROVE  Copied(q)'
      <3>1. CASE q = p
        <4>1. \A s \in Slot : fd[c][s] = "none"  BY <1>1, <2>1 DEF Families, At
        <4>2. Copied(p)'
          BY <4>1, <1>2, <1>3, <1>4, SlotAssumption DEF Copied, Slot
        <4> QED BY <3>1, <4>2
      <3>2. CASE q # p
        <4>1. q \notin {p, c} /\ At(q, "fork")  BY <2>3, <3>2, <1>2, <1>4, <1>5 DEF At
        <4>2. At(th[q].child, "embryo") /\ Copied(q) /\ th[q].child \notin {p, c}
          BY <4>1, <2>1, <1>1 DEF Families, At
        <4>3. th'[q].child = th[q].child /\ th'[q].i = th[q].i
          BY <4>1, <1>5
        <4> QED BY <4>1, <4>2, <4>3, <1>3 DEF Copied
      <3> QED BY <3>1, <3>2
    <2>4. ASSUME NEW f \in Proc, At(f, "embryo")'
          PROVE  \E q \in Proc : At(q, "fork")' /\ th'[q].child = f
      <3>1. CASE f = c  BY <3>1, <1>2, <1>4 DEF At
      <3>2. CASE f # c
        <4>1. f \notin {p, c} /\ At(f, "embryo")  BY <2>4, <3>2, <1>2, <1>4, <1>5 DEF At
        <4>2. PICK q \in Proc : At(q, "fork") /\ th[q].child = f  BY <4>1, <2>1 DEF Families
        <4>3. q \notin {p, c}  BY <4>2, <1>1 DEF At
        <4> QED BY <4>2, <4>3, <1>5 DEF At
      <3> QED BY <3>1, <3>2
    <2>5. \A q \in Proc : At(q, "fork")' /\ q # p =>
            /\ q \notin {p, c} /\ At(q, "fork") /\ th'[q].child = th[q].child
            /\ th[q].child # c
      BY <1>1, <1>2, <1>4, <1>5, <2>1 DEF At, Families
    <2>6. ASSUME NEW q \in Proc, NEW r \in Proc, At(q, "fork")', At(r, "fork")',
                 th'[q].child = th'[r].child
          PROVE  q = r
      BY <2>6, <2>5, <2>1, <1>2, <1>4 DEF Families
    <2>7. ASSUME NEW q \in Proc, At(q, "fork")' PROVE th'[th'[q].child].pc = "embryo"
      <3>1. CASE q = p  BY <3>1, <1>2, <1>4
      <3>2. CASE q # p
        <4>1. th'[q].child = th[q].child  BY <2>5, <2>7, <3>2
        <4>2. At(th[q].child, "embryo") /\ th[q].child \notin {p, c} /\ th[q].child \in Proc
          BY <2>5, <2>7, <3>2, <2>1, <1>1 DEF Families, At
        <4> QED BY <4>1, <4>2, <1>5 DEF At
      <3> QED BY <3>1, <3>2
    <2> QED BY <2>2, <2>3, <2>4, <2>6, <2>7 DEF Families, At
  <1>8. PagesPaired'
    <2>1. PagesPaired  BY DEF IInv
    <2>2. \A q \in Proc : ~At(q, "embryo")' => ~At(q, "embryo")
      BY <1>1, <1>2, <1>4, <1>5 DEF At
    <2>3. \A q \in Proc : /\ At(q, "dup")' => At(q, "dup") /\ th'[q].to = th[q].to
                          /\ At(q, "close")' => At(q, "close") /\ th'[q].slot = th[q].slot
      BY <1>2, <1>4, <1>5 DEF At
    <2>4. ASSUME NEW q \in Proc, ~At(q, "embryo")', NEW s \in Slot, fd'[q][s] # "none"
          PROVE  data'[q][s]
      BY <2>4, <2>1, <2>2, <1>3 DEF PagesPaired
    <2>5. ASSUME NEW q \in Proc, At(q, "dup")' PROVE data'[q][th'[q].to]
      <3>1. At(q, "dup") /\ th'[q].to = th[q].to  BY <2>5, <2>3 DEF At
      <3>2. data[q][th[q].to]  BY <3>1, <2>1 DEF PagesPaired
      <3> QED BY <3>1, <3>2, <1>3
    <2>6. ASSUME NEW q \in Proc, At(q, "close")' PROVE fd'[q][th'[q].slot] = "none"
      BY <2>6, <2>1, <2>3, <1>3 DEF PagesPaired, At
    <2> QED BY <2>4, <2>5, <2>6 DEF PagesPaired
  <1>10. CountsCurrent'
    BY <1>2, <1>4, <1>5 DEF CountsCurrent, At
  <1> QED BY <1>1, <1>3, <1>6, <1>7, <1>8, <1>10 DEF IInv, TypeOK, ringVars

\* fork() copies one more page: only the embryo's pages change.
LEMMA ForkMapStep ==
    ASSUME IInv, NEW p \in Proc, ForkMap(p)
    PROVE  IInv'
  <1> DEFINE c == th[p].child
             i == th[p].i
             t == [th[p] EXCEPT !.i = i + 1]
  <1>1. /\ TypeOK /\ Families /\ th[p] \in Thread /\ th[p].pc = "fork"
        /\ c \in Proc /\ i \in Nat /\ i < 2 * NSlots
        /\ th[c].pc = "embryo" /\ Copied(p) /\ c # p
    BY DEF IInv, TypeOK, ForkMap, At, Thread, Families
  <1>2. t \in Thread /\ t.pc = "fork" /\ t.child = c /\ t.i = i + 1
    BY <1>1 DEF Thread
  <1>3. Step(p, t) /\ UNCHANGED <<ringVars, dups>>  BY DEF ForkMap
  <1>4. /\ fd \in [Proc -> [Slot -> End \cup {"none"}]] /\ data \in [Proc -> [Slot -> BOOLEAN]]
        /\ \/ i < NSlots /\ fd' = [fd EXCEPT ![c][i] = fd[p][i]] /\ data' = data
           \/ /\ i >= NSlots /\ fd' = fd
              /\ data' = [data EXCEPT ![c][i - NSlots] = data[p][i - NSlots]]
    BY <1>1, SlotAssumption DEF ForkMap, TypeOK
  <1> HIDE DEF t, c, i
  <1>5. /\ th' \in [Proc -> Thread] /\ th'[p] = t
        /\ \A q \in Proc \ {p} : /\ th'[q].pc = th[q].pc /\ th'[q].child = th[q].child
                                 /\ th'[q].i = th[q].i /\ th'[q].to = th[q].to
                                 /\ th'[q].slot = th[q].slot /\ th'[q].stale
    BY <1>1, <1>2, <1>3, StepFacts
  <1>6. \A q \in Proc : th'[q].pc = th[q].pc /\ th'[q].child = th[q].child
                      /\ th'[q].to = th[q].to /\ th'[q].slot = th[q].slot
    <2>1. th'[p].pc = th[p].pc /\ th'[p].child = th[p].child
      BY <1>1, <1>2, <1>5 DEF c
    <2>2. th'[p].to = th[p].to /\ th'[p].slot = th[p].slot
      BY <1>1, <1>5 DEF t, Thread
    <2> QED BY <2>1, <2>2, <1>5
  <1>7. /\ fd' \in [Proc -> [Slot -> End \cup {"none"}]]
        /\ data' \in [Proc -> [Slot -> BOOLEAN]]
        /\ \A q \in Proc \ {c} : fd'[q] = fd[q] /\ data'[q] = data[q]
    <2>1. CASE i < NSlots
      <3>1. i \in Slot  BY <1>1, <2>1, SlotAssumption DEF Slot
      <3>2. fd' = [fd EXCEPT ![c][i] = fd[p][i]] /\ data' = data
        BY <2>1, <1>1, <1>4, SlotAssumption
      <3>3. fd[p][i] \in End \cup {"none"}  BY <3>1, <1>4
      <3> QED BY <3>1, <3>2, <3>3, <1>1, <1>4
    <2>2. CASE i >= NSlots
      <3>1. i - NSlots \in Slot  BY <1>1, <2>2, SlotAssumption DEF Slot
      <3>2. fd' = fd /\ data' = [data EXCEPT ![c][i - NSlots] = data[p][i - NSlots]]
        BY <2>2, <1>1, <1>4, SlotAssumption
      <3>3. data[p][i - NSlots] \in BOOLEAN  BY <3>1, <1>4
      <3> HIDE DEF i
      <3> QED BY <3>1, <3>2, <3>3, <1>1, <1>4
    <2> QED BY <2>1, <2>2, <1>1, SlotAssumption
  <1>8. Copied(p)'
    <2> SUFFICES ASSUME NEW s \in Slot
                 PROVE  /\ fd'[c][s] = IF s < i + 1 THEN fd[p][s] ELSE "none"
                        /\ s + NSlots < i + 1 => data'[c][s] = data[p][s]
      BY <1>1, <1>2, <1>5, <1>7 DEF Copied
    <2>1. /\ fd[c][s] = IF s < i THEN fd[p][s] ELSE "none"
          /\ s + NSlots < i => data[c][s] = data[p][s]
      BY <1>1 DEF Copied, c, i
    <2>2. CASE i < NSlots
      <3>1. ~(s + NSlots < i + 1) /\ i \in Slot
        BY <2>2, <1>1, SlotAssumption DEF Slot
      <3>2. fd'[c][s] = IF s = i THEN fd[p][i] ELSE fd[c][s]
        BY <3>1, <2>2, <1>1, <1>4, SlotAssumption
      <3>3. s \in Nat  BY SlotAssumption DEF Slot
      <3> QED BY <3>1, <3>2, <3>3, <2>1, <1>1
    <2>3. CASE i >= NSlots
      <3>1. s < i /\ s < i + 1 /\ i - NSlots \in Slot /\ s \in Nat
        BY <2>3, <1>1, SlotAssumption DEF Slot
      <3>2. data'[c][s] = IF s = i - NSlots THEN data[p][i - NSlots] ELSE data[c][s]
        BY <3>1, <2>3, <1>1, <1>4, SlotAssumption
      <3>3. fd'[c][s] = fd[p][s]  BY <3>1, <2>1, <2>3, <1>1, <1>4, SlotAssumption
      <3>4. s + NSlots < i + 1 => s = i - NSlots \/ s + NSlots < i
        BY <3>1, <1>1, SlotAssumption
      <3>5. ASSUME s + NSlots < i + 1 PROVE data'[c][s] = data[p][s]
        BY <3>2, <3>4, <3>5, <2>1
      <3> QED BY <3>1, <3>3, <3>5
    <2> QED BY <2>2, <2>3, <1>1, SlotAssumption
  <1>9. Families'
    <2>1. ASSUME NEW q \in Proc, At(q, "unborn")' PROVE \A s \in Slot : fd'[q][s] = "none"
      <3>1. q # c /\ At(q, "unborn")  BY <2>1, <1>1, <1>6 DEF At
      <3> QED BY <3>1, <1>7, <1>1 DEF Families
    <2>2. ASSUME NEW q \in Proc, At(q, "fork")'
          PROVE  At(th[q].child, "embryo")' /\ Copied(q)'
      <3>1. At(q, "fork")  BY <2>2, <1>6 DEF At
      <3>2. At(th[q].child, "embryo") /\ Copied(q) /\ th[q].child \in Proc
        BY <3>1, <1>1 DEF Families, TypeOK, Thread
      <3>3. At(th[q].child, "embryo")'  BY <3>2, <1>6 DEF At
      <3>4. CASE q = p  BY <3>3, <3>4, <1>8
      <3>5. CASE q # p
        <4>1. th[q].child # c  BY <3>1, <3>5, <1>1 DEF Families, At, c
        <4>2. q # c  BY <3>1, <1>1 DEF At
        <4> QED BY <4>1, <4>2, <3>2, <3>3, <3>5, <1>5, <1>7 DEF Copied
      <3> QED BY <3>4, <3>5
    <2>3. ASSUME NEW f \in Proc, At(f, "embryo")'
          PROVE  \E q \in Proc : At(q, "fork")' /\ th'[q].child = f
      BY <2>3, <1>1, <1>6 DEF Families, At
    <2>4. ASSUME NEW q \in Proc, NEW r \in Proc, At(q, "fork")', At(r, "fork")',
                 th'[q].child = th'[r].child
          PROVE  q = r
      BY <2>4, <1>1, <1>6 DEF Families, At
    <2>5. ASSUME NEW q \in Proc, At(q, "fork")' PROVE th'[th'[q].child].pc = "embryo"
      BY <2>5, <2>2, <1>6 DEF At
    <2> QED BY <2>1, <2>2, <2>3, <2>4, <2>5 DEF Families, At
  <1>10. PagesPaired'
    <2>1. PagesPaired  BY DEF IInv
    <2>2. ASSUME NEW q \in Proc, ~At(q, "embryo")', NEW s \in Slot, fd'[q][s] # "none"
          PROVE  data'[q][s]
      BY <2>2, <2>1, <1>1, <1>6, <1>7 DEF PagesPaired, At
    <2>3. ASSUME NEW q \in Proc, At(q, "dup")' PROVE data'[q][th'[q].to]
      BY <2>3, <2>1, <1>1, <1>6, <1>7 DEF PagesPaired, At
    <2>4. ASSUME NEW q \in Proc, At(q, "close")' PROVE fd'[q][th'[q].slot] = "none"
      BY <2>4, <2>1, <1>1, <1>6, <1>7 DEF PagesPaired, At
    <2> QED BY <2>2, <2>3, <2>4 DEF PagesPaired
  <1>12. CountsCurrent'  BY <1>2, <1>3, CountsKept
  <1> QED BY <1>1, <1>3, <1>5, <1>7, <1>9, <1>10, <1>12 DEF IInv, TypeOK, ringVars

\* The child is born with exactly the pages of its parent.
LEMMA ForkDoneStep ==
    ASSUME IInv, NEW p \in Proc, ForkDone(p)
    PROVE  IInv'
  <1> DEFINE c == th[p].child
  <1>1. /\ TypeOK /\ Families /\ PagesPaired /\ th[p].pc = "fork" /\ th[p].i = 2 * NSlots
        /\ c \in Proc /\ th[c].pc = "embryo" /\ Copied(p) /\ c # p
        /\ UNCHANGED <<fd, data, ringVars, dups>>
    BY DEF IInv, TypeOK, ForkDone, At, Thread, Families
  <1>2. Rest \in Thread /\ Rest.pc = "idle"  BY RestIsThread DEF Rest
  <1>3. th' = [q \in Proc |-> IF q \in {p, c} THEN Rest ELSE [th[q] EXCEPT !.stale = TRUE]]
    BY DEF ForkDone
  <1> HIDE DEF c
  <1>4. th'[p] = Rest /\ th'[c] = Rest  BY <1>1, <1>3
  <1>5. ASSUME NEW q \in Proc \ {p, c}
        PROVE  /\ th'[q] \in Thread /\ th'[q].pc = th[q].pc /\ th'[q].child = th[q].child
               /\ th'[q].i = th[q].i /\ th'[q].to = th[q].to
               /\ th'[q].slot = th[q].slot /\ th'[q].stale
    <2>1. th[q] \in Thread /\ th'[q] = [th[q] EXCEPT !.stale = TRUE]  BY <1>1, <1>3 DEF TypeOK
    <2> DEFINE x == th[q]
    <2>2. x \in Thread /\ th'[q] = [x EXCEPT !.stale = TRUE]  BY <2>1
    <2> HIDE DEF x
    <2>3. /\ th'[q] \in Thread /\ th'[q].pc = x.pc /\ th'[q].child = x.child
          /\ th'[q].i = x.i /\ th'[q].to = x.to /\ th'[q].slot = x.slot /\ th'[q].stale
      BY <2>2 DEF Thread
    <2> QED BY <2>3 DEF x
  <1>6. th' \in [Proc -> Thread]  BY <1>2, <1>3, <1>4, <1>5
  <1>7. \A q \in Proc : th'[q].pc # "idle" => q \notin {p, c} /\ th'[q].pc = th[q].pc
    BY <1>2, <1>4, <1>5
  <1>8. Families'
    <2>1. \A q \in Proc : At(q, "fork")' =>
            /\ q # p /\ q # c /\ At(q, "fork") /\ Copied(q) /\ th'[q].child = th[q].child
            /\ th'[q].i = th[q].i /\ th[q].child \in Proc /\ th[q].child \notin {p, c}
            /\ At(th[q].child, "embryo")
      <3> SUFFICES ASSUME NEW q \in Proc, At(q, "fork")'
                   PROVE  /\ q # p /\ q # c /\ At(q, "fork") /\ Copied(q)
                          /\ th'[q].child = th[q].child /\ th'[q].i = th[q].i
                          /\ th[q].child \in Proc /\ th[q].child \notin {p, c}
                          /\ At(th[q].child, "embryo")
        OBVIOUS
      <3>1. q \notin {p, c} /\ At(q, "fork")  BY <1>7 DEF At
      <3>2. Copied(q) /\ At(th[q].child, "embryo") /\ th[q].child \in Proc
        BY <3>1, <1>1 DEF Families, TypeOK, Thread
      <3>3. th[q].child # c  BY <3>1, <1>1 DEF Families, At, c
      <3>4. th[q].child # p  BY <3>2, <1>1 DEF At
      <3> QED BY <3>1, <3>2, <3>3, <3>4, <1>5
    <2>2. ASSUME NEW q \in Proc, At(q, "unborn")' PROVE \A s \in Slot : fd'[q][s] = "none"
      <3>1. At(q, "unborn")  BY <2>2, <1>7 DEF At
      <3> QED BY <3>1, <1>1 DEF Families
    <2>3. ASSUME NEW q \in Proc, At(q, "fork")'
          PROVE  th'[th'[q].child].pc = "embryo" /\ Copied(q)'
      BY <2>1, <2>3, <1>1, <1>5 DEF At, Copied
    <2>4. ASSUME NEW f \in Proc, At(f, "embryo")'
          PROVE  \E q \in Proc : At(q, "fork")' /\ th'[q].child = f
      <3>1. f \notin {p, c} /\ At(f, "embryo")  BY <2>4, <1>7 DEF At
      <3>2. PICK q \in Proc : At(q, "fork") /\ th[q].child = f  BY <3>1, <1>1 DEF Families
      <3>3. q \notin {p, c}  BY <3>1, <3>2, <1>1 DEF At, c
      <3> QED BY <3>2, <3>3, <1>5 DEF At
    <2>5. ASSUME NEW q \in Proc, NEW r \in Proc, At(q, "fork")', At(r, "fork")',
                 th'[q].child = th'[r].child
          PROVE  q = r
      BY <2>5, <2>1, <1>1 DEF Families
    <2> QED BY <2>2, <2>3, <2>4, <2>5 DEF Families, At
  <1>9. PagesPaired'
    <2>1. ASSUME NEW q \in Proc, NEW s \in Slot, ~At(q, "embryo")', fd[q][s] # "none"
          PROVE  data[q][s]
      <3>1. fd[p][s] # "none" => data[p][s]  BY <1>1 DEF PagesPaired, At
      <3>2. fd[c][s] = fd[p][s] /\ data[c][s] = data[p][s]
        <4>1. s \in Nat /\ s < 2 * NSlots /\ s + NSlots < 2 * NSlots
          BY SlotAssumption DEF Slot
        <4> QED BY <4>1, <1>1 DEF Copied, c
      <3>3. CASE q \in {p, c}  BY <3>1, <3>2, <3>3, <2>1
      <3>4. CASE q \notin {p, c}  BY <3>4, <2>1, <1>1, <1>5 DEF PagesPaired, At
      <3> QED BY <3>3, <3>4
    <2>2. \A q \in Proc : /\ At(q, "dup")' => At(q, "dup") /\ th'[q].to = th[q].to
                          /\ At(q, "close")' => At(q, "close") /\ th'[q].slot = th[q].slot
      BY <1>5, <1>7 DEF At
    <2>3. ASSUME NEW q \in Proc, At(q, "dup")' PROVE data'[q][th'[q].to]
      <3>1. At(q, "dup") /\ th'[q].to = th[q].to  BY <2>3, <2>2 DEF At
      <3>2. data[q][th[q].to]  BY <3>1, <1>1 DEF PagesPaired
      <3> QED BY <3>1, <3>2, <1>1
    <2>4. ASSUME NEW q \in Proc, At(q, "close")' PROVE fd'[q][th'[q].slot] = "none"
      BY <2>4, <2>2, <1>1 DEF PagesPaired, At
    <2> QED BY <2>1, <2>3, <2>4, <1>1 DEF PagesPaired
  <1>11. CountsCurrent'
    BY <1>2, <1>4, <1>5 DEF CountsCurrent, At
  <1> QED BY <1>1, <1>6, <1>8, <1>9, <1>11 DEF IInv, TypeOK, ringVars

\* Every step of the specification preserves the invariant.
LEMMA NextIInv == IInv /\ [Next]_vars => IInv'
  <1> SUFFICES ASSUME IInv, [Next]_vars PROVE IInv'  OBVIOUS
  <1>1. CASE UNCHANGED vars
    <2>1. UNCHANGED <<fd, data, th, buf, rpos, wpos, sent, taken, dups>>
      BY <1>1 DEF vars, ringVars
    <2>2. TypeOK'  BY <2>1 DEF IInv, TypeOK
    <2>3. Families'  BY <2>1 DEF IInv, Families, Copied, At
    <2>4. PagesPaired'  BY <2>1 DEF IInv, PagesPaired, At
    <2>6. CountsCurrent'
      BY <2>1 DEF IInv, CountsCurrent, FdMaps, DataMaps, pageref, At
    <2> QED BY <2>2, <2>3, <2>4, <2>6 DEF IInv
  <1>2. CASE Next
    <2>1. PICK p \in Proc :
            \/ Advance(p)
            \/ Manage(p)
            \/ \E s \in Slot, n \in 1 .. MaxIO : Call(p, s, n)
            \/ \E s \in Slot : pipe_is_closed(p, s)
            \/ \E c \in Proc : Fork(p, c)
      BY <1>2 DEF Next
    <2>2. CASE Advance(p)
      BY <2>2, CloseStep, DupStep, ForkMapStep, ForkDoneStep, TransferStep, CheckStep DEF Advance
    <2>3. CASE Manage(p)  BY <2>3, CloseStep, DupStep DEF Manage
    <2>4. CASE \E s \in Slot, n \in 1 .. MaxIO : Call(p, s, n)  BY <2>4, CallStep
    <2>5. CASE \E s \in Slot : pipe_is_closed(p, s)  BY <2>5, IsClosedStep
    <2>6. CASE \E c \in Proc : Fork(p, c)  BY <2>6, ForkStep
    <2> QED BY <2>1, <2>2, <2>3, <2>4, <2>5, <2>6
  <1> QED BY <1>1, <1>2

\* The test is sound in every state of the invariant in which no fork() is half
\* way through a descriptor: the maps of the caller's end are then among the data
\* maps, so equal counts leave no map of the other end.
LEMMA InvClosed == IInv => ClosedUnlessForking
  <1> SUFFICES ASSUME IInv, NEW p \in Proc, Verdict(p), \A r \in Proc : ~HalfForked(r),
                      NEW q \in Proc, NEW s \in Slot, fd[q][s] = Other(th[p].op)
               PROVE  FALSE
    BY DEF ClosedUnlessForking, NoOther
  <1> DEFINE k == th[p].op
  <1>1. k \in End /\ Other(k) \in End /\ Other(k) # k
    BY DEF IInv, TypeOK, Thread, End, Other
  <1>2. ASSUME NEW r \in Proc, NEW u \in Slot, fd[r][u] # "none" PROVE data[r][u]
    <2>1. CASE ~At(r, "embryo")  BY <2>1, <1>2 DEF IInv, PagesPaired
    <2>2. CASE At(r, "embryo")
      <3>1. PICK f \in Proc : At(f, "fork") /\ th[f].child = r
        BY <2>2 DEF IInv, Families
      <3>2. ~HalfForked(f)  OBVIOUS
      <3> QED BY <3>1, <3>2, <1>2 DEF HalfForked
    <2> QED BY <2>1, <2>2
  <1>3. FdMaps(k) \in SUBSET DataMaps
    <2> SUFFICES ASSUME NEW m \in FdMaps(k) PROVE m \in DataMaps  OBVIOUS
    <2>1. m[1] \in Proc /\ m[2] \in Slot /\ m \in Proc \X Slot /\ fd[m[1]][m[2]] # "none"
      BY <1>1 DEF FdMaps, End
    <2> QED BY <2>1, <1>2 DEF DataMaps
  <1>4. pageref(FdMaps(k)) = pageref(DataMaps)
    BY DEF IInv, CountsCurrent, Verdict, Undisturbed, At, Closed
  <1>5. FdMaps(k) = DataMaps
    BY <1>3, <1>4, MapsFinite, FS_Subset DEF pageref
  <1>6. <<q, s>> \in DataMaps
    <2>1. data[q][s]  BY <1>1, <1>2 DEF End
    <2> QED BY <2>1 DEF DataMaps
  <1> QED BY <1>5, <1>6, <1>1 DEF FdMaps

\* Every reachable state satisfies the inductive invariant.
THEOREM PipeInvariant == Spec => []IInv
  <1>1. Init => IInv  BY InitIInv
  <1>2. IInv /\ [Next]_vars => IInv'  BY NextIInv
  <1> QED BY <1>1, <1>2, PTL DEF Spec

\* Types: whatever processes do with the pipe, its positions stay below the
\* width of their counters and no descriptor leaves its table.
THEOREM PipeTypeCorrect == Spec => []TypeOK
  <1>1. IInv => TypeOK  BY DEF IInv
  <1> QED BY <1>1, PipeInvariant, PTL

\* _pipe_is_closed() never reports a pipe closed whose other end is open in
\* some process, for any number of processes, slots, preemptions, close()s,
\* dup()s and fork()s, except while a fork() is between the two pages of a
\* descriptor.
THEOREM ClosedCorrect == Spec => []ClosedUnlessForking
  <1>1. IInv => ClosedUnlessForking  BY InvClosed
  <1> QED BY <1>1, PipeInvariant, PTL

-----------------------------------------------------------------------------
(* Remainders *)

\* The quotient and the remainder of a number are unique.
LEMMA ModUnique ==
    ASSUME NEW a \in Nat, NEW n \in Nat \ {0}, NEW q \in Int, NEW r \in 0 .. n - 1,
           a = n * q + r
    PROVE  a % n = r
  <1> DEFINE p == a \div n
             s == a % n
  <1>1. s \in 0 .. n - 1 /\ p \in Nat /\ a = n * p + s  OBVIOUS
  <1> HIDE DEF p, s
  <1>2. n * (q - p) = s - r  BY <1>1
  <1>3. CASE q - p >= 1
    <2>1. n * (q - p) >= n  BY <1>1, <1>3
    <2> QED BY <2>1, <1>1, <1>2
  <1>4. CASE q - p <= -1
    <2>1. n * (q - p) <= -n  BY <1>1, <1>4
    <2> QED BY <2>1, <1>1, <1>2
  <1>5. q = p  BY <1>1, <1>3, <1>4
  <1>6. s = r  BY <1>1, <1>5
  <1> QED BY <1>6 DEF s

\* A counter that wraps is the remainder of one that does not.
LEMMA ModNext ==
    ASSUME NEW a \in Nat, NEW n \in Nat \ {0}
    PROVE  ((a % n) + 1) % n = (a + 1) % n
  <1> DEFINE q == a \div n
             r == a % n
  <1>1. r \in 0 .. n - 1 /\ q \in Nat /\ a = n * q + r  OBVIOUS
  <1> HIDE DEF q, r
  <1>2. CASE r + 1 < n
    <2>1. a + 1 = n * q + (r + 1) /\ r + 1 = n * 0 + (r + 1)  BY <1>1
    <2>2. (a + 1) % n = r + 1  BY <1>1, <1>2, <2>1, ModUnique
    <2>3. (r + 1) % n = r + 1  BY <1>1, <1>2, <2>1, ModUnique
    <2> QED BY <2>2, <2>3 DEF r
  <1>3. CASE r + 1 = n
    <2>1. a + 1 = n * (q + 1) + 0 /\ r + 1 = n * 1 + 0  BY <1>1, <1>3
    <2>2. (a + 1) % n = 0  BY <1>1, <2>1, ModUnique
    <2>3. (r + 1) % n = 0  BY <1>1, <2>1, ModUnique
    <2> QED BY <2>2, <2>3 DEF r
  <1> QED BY <1>1, <1>2, <1>3

\* A counter that wraps at a multiple of the ring's size points to the same slot.
LEMMA ModMod ==
    ASSUME NEW a \in Nat, NEW m \in Nat \ {0}, NEW n \in Nat \ {0}, m % n = 0
    PROVE  (a % m) % n = a % n
  <1> DEFINE q == a \div m
             r == a % m
             p == r \div n
             s == r % n
             d == m \div n
  <1>1. r \in Nat /\ q \in Nat /\ a = m * q + r  OBVIOUS
  <1>2. s \in 0 .. n - 1 /\ p \in Nat /\ r = n * p + s  BY <1>1
  <1>3. d \in Nat /\ m = n * d  OBVIOUS
  <1> HIDE DEF q, r, p, s, d
  <1>4. m * q = n * (d * q)  BY <1>1, <1>3
  <1>5. a = n * (d * q + p) + s /\ d * q + p \in Int
    <2>1. d * q \in Int  BY <1>1, <1>3
    <2>2. n * (d * q + p) = n * (d * q) + n * p  BY <2>1, <1>2
    <2> QED BY <1>1, <1>2, <1>4, <2>1, <2>2
  <1>6. a % n = s  BY <1>2, <1>5, ModUnique
  <1> QED BY <1>6 DEF r, s

\* Two numbers less than n apart have different remainders.
LEMMA ModApart ==
    ASSUME NEW a \in Nat, NEW b \in Nat, NEW n \in Nat \ {0}, a < b, b - a < n
    PROVE  a % n # b % n
  <1> SUFFICES ASSUME a % n = b % n PROVE FALSE  OBVIOUS
  <1> DEFINE q == a \div n
             p == b \div n
             r == a % n
  <1>1. r \in 0 .. n - 1 /\ q \in Nat /\ a = n * q + r  OBVIOUS
  <1>2. p \in Nat /\ b = n * p + r  OBVIOUS
  <1> HIDE DEF q, p, r
  <1>3. n * (p - q) = b - a  BY <1>1, <1>2
  <1>4. CASE p - q >= 1
    <2>1. n * (p - q) >= n  BY <1>1, <1>2, <1>4
    <2> QED BY <2>1, <1>3
  <1>5. CASE p - q <= 0
    <2>1. n * (p - q) <= 0  BY <1>1, <1>2, <1>5
    <2> QED BY <2>1, <1>3
  <1> QED BY <1>1, <1>2, <1>4, <1>5

\* The distance of two counters that wrap, when it is less than a turn.
LEMMA ModDistance ==
    ASSUME NEW a \in Nat, NEW b \in Nat, NEW m \in Nat \ {0}, a <= b, b - a < m
    PROVE  ((b % m) + m - (a % m)) % m = b - a
  <1> DEFINE q == a \div m
             r == a % m
             p == b \div m
             s == b % m
  <1>1. r \in 0 .. m - 1 /\ q \in Nat /\ a = m * q + r  OBVIOUS
  <1>2. s \in 0 .. m - 1 /\ p \in Nat /\ b = m * p + s  OBVIOUS
  <1> HIDE DEF q, p, r, s
  <1>3. m * (p - q) = (b - a) + (r - s)  BY <1>1, <1>2
  <1>4. s + m - r = m * (1 - (p - q)) + (b - a)
    <2>1. m * (1 - (p - q)) = m - m * (p - q)  BY <1>1, <1>2
    <2> QED BY <2>1, <1>1, <1>2, <1>3
  <1>5. s + m - r \in Nat /\ b - a \in 0 .. m - 1 /\ 1 - (p - q) \in Int
    BY <1>1, <1>2
  <1>6. (s + m - r) % m = b - a  BY <1>4, <1>5, ModUnique
  <1> QED BY <1>6 DEF r, s

(***************************************************************************)
(* The bytes in the ring.  OneEach is the discipline of read() and write() *)
(* that Call states; InRing relates the positions, which wrap, to the      *)
(* history of all bytes, and says where the bytes not yet read are; Turn   *)
(* says what a thread in the middle of an access relies on.                *)
(***************************************************************************)
OneEach == \A p, q \in Proc, k \in End : Busy(p, k) /\ Busy(q, k) => p = q

InRing ==
    /\ rpos = taken % PosMod /\ wpos = sent % PosMod
    /\ taken <= sent /\ sent - taken <= PIPE_SIZE
    /\ \A k \in taken .. sent - 1 : buf[k % PIPE_SIZE] = k + 1

Turn(t, b, s, k) ==
    /\ t.n > 0 => t.pc \in {"chk1", "chk2", "chk3", "test", "get", "radv", "put", "wadv"}
    /\ t.pc \in {"test", "get", "radv", "put", "wadv"} => t.n > 0
    /\ t.pc \in {"get", "radv"} => t.op = "r" /\ k < s
    /\ t.pc = "radv" => t.byte = k + 1
    /\ t.pc \in {"put", "wadv"} => t.op = "w" /\ s - k < PIPE_SIZE
    /\ t.pc = "wadv" => b[s % PIPE_SIZE] = s + 1

Turns == \A p \in Proc : Turn(th[p], buf, sent, taken)

FlowInv == OneEach /\ InRing /\ Turns

\* What the state of the ring means, apart from how its positions are stored.
LEMMA RingFacts ==
    ASSUME TypeOK, InRing
    PROVE  /\ Empty <=> taken = sent
           /\ Full <=> sent - taken = PIPE_SIZE
           /\ rpos % PIPE_SIZE = taken % PIPE_SIZE
           /\ wpos % PIPE_SIZE = sent % PIPE_SIZE
           /\ (wpos + PosMod - rpos) % PosMod = sent - taken
  <1> USE RingAssumption
  <1>1. /\ taken \in Nat /\ sent \in Nat /\ taken <= sent /\ sent - taken <= PIPE_SIZE
        /\ sent - taken < PosMod /\ PosMod \in Nat \ {0} /\ PIPE_SIZE \in Nat \ {0}
        /\ rpos = taken % PosMod /\ wpos = sent % PosMod /\ PosMod % PIPE_SIZE = 0
    BY DEF TypeOK, InRing
  <1>2. (wpos + PosMod - rpos) % PosMod = sent - taken
    <2>1. ((sent % PosMod) + PosMod - (taken % PosMod)) % PosMod = sent - taken
      BY <1>1, ModDistance
    <2> QED BY <2>1, <1>1
  <1>3. rpos % PIPE_SIZE = taken % PIPE_SIZE
    <2>1. (taken % PosMod) % PIPE_SIZE = taken % PIPE_SIZE  BY <1>1, ModMod
    <2> QED BY <2>1, <1>1
  <1>4. wpos % PIPE_SIZE = sent % PIPE_SIZE
    <2>1. (sent % PosMod) % PIPE_SIZE = sent % PIPE_SIZE  BY <1>1, ModMod
    <2> QED BY <2>1, <1>1
  <1>5. taken # sent => rpos # wpos
    <2> SUFFICES ASSUME taken < sent PROVE taken % PosMod # sent % PosMod
      BY <1>1
    <2> QED BY <1>1, ModApart
  <1>6. taken = sent => rpos = wpos  BY <1>1
  <1> QED BY <1>2, <1>3, <1>4, <1>5, <1>6 DEF Empty, Full

\* A step that leaves the ring alone and takes p to t keeps the invariant, if
\* t may be where it is and is inside a call only when p was, or nobody is.
LEMMA FlowStep ==
    ASSUME TypeOK, FlowInv, NEW p \in Proc, NEW t \in Thread, Step(p, t),
           UNCHANGED ringVars, Turn(t, buf, sent, taken),
           t.n > 0 => Busy(p, t.op) \/ \A q \in Proc : ~Busy(q, t.op)
    PROVE  FlowInv'
  <1>1. /\ th'[p] = t
        /\ \A q \in Proc \ {p} : /\ th'[q].pc = th[q].pc /\ th'[q].op = th[q].op
                                 /\ th'[q].n = th[q].n /\ th'[q].byte = th[q].byte
    BY StepFacts
  <1>2. InRing'  BY DEF FlowInv, InRing, ringVars
  <1>3. Turns'
    <2> SUFFICES ASSUME NEW q \in Proc PROVE Turn(th'[q], buf, sent, taken)
      BY DEF Turns, ringVars
    <2>1. CASE q = p  BY <2>1, <1>1
    <2>2. CASE q # p  BY <2>2, <1>1 DEF FlowInv, Turns, Turn
    <2> QED BY <2>1, <2>2
  <1>4. \A q \in Proc \ {p}, k \in End : Busy(q, k)' <=> Busy(q, k)
    BY <1>1 DEF Busy, OnPipe, Checking, InCall
  <1>5. \A k \in End : Busy(p, k)' => Busy(p, k) \/ \A q \in Proc : ~Busy(q, k)
    <2> SUFFICES ASSUME NEW k \in End, Busy(p, k)'
                 PROVE  Busy(p, k) \/ \A q \in Proc : ~Busy(q, k)
      OBVIOUS
    <2>1. t.n > 0 /\ t.op = k  BY <1>1 DEF Busy, InCall
    <2> QED BY <2>1
  <1>6. OneEach'
    <2> SUFFICES ASSUME NEW x \in Proc, NEW y \in Proc, NEW k \in End,
                        Busy(x, k)', Busy(y, k)'
                 PROVE  x = y
      BY DEF OneEach
    <2> QED BY <1>4, <1>5 DEF FlowInv, OneEach
  <1> QED BY <1>2, <1>3, <1>6 DEF FlowInv

\* A step that leaves the ring alone and every thread where it is, or away from it,
\* keeps the invariant.
LEMMA FlowAway ==
    ASSUME TypeOK, FlowInv, UNCHANGED ringVars,
           \A q \in Proc : \/ /\ th'[q].pc = th[q].pc /\ th'[q].op = th[q].op
                             /\ th'[q].n = th[q].n /\ th'[q].byte = th[q].byte
                          \/ /\ th'[q].n = 0
                             /\ th'[q].pc \notin {"test", "get", "radv", "put", "wadv"}
    PROVE  FlowInv'
  <1>1. InRing'  BY DEF FlowInv, InRing, ringVars
  <1>2. Turns'
    <2> SUFFICES ASSUME NEW q \in Proc PROVE Turn(th'[q], buf, sent, taken)
      BY DEF Turns, ringVars
    <2>1. Turn(th[q], buf, sent, taken)  BY DEF FlowInv, Turns
    <2> QED BY <2>1 DEF Turn
  <1>3. \A q \in Proc, k \in End : Busy(q, k)' => Busy(q, k)
    BY DEF Busy, OnPipe, Checking, InCall
  <1>4. OneEach'  BY <1>3 DEF FlowInv, OneEach
  <1> QED BY <1>1, <1>2, <1>4 DEF FlowInv

LEMMA InitFlowInv == Init => FlowInv
  <1> SUFFICES ASSUME Init PROVE FlowInv  OBVIOUS
  <1>1. \A p \in Proc : th[p].n = 0 /\ th[p].pc \in {"idle", "unborn"}
    BY DEF Init, Rest, Unborn
  <1>2. OneEach  BY <1>1 DEF OneEach, Busy, InCall
  <1>3. InRing
    <2>1. 0 % PosMod = 0  BY RingAssumption
    <2> QED BY <2>1, RingAssumption DEF Init, InRing
  <1>4. Turns  BY <1>1 DEF Turns, Turn
  <1> QED BY <1>2, <1>3, <1>4 DEF FlowInv

(***************************************************************************)
(* The steps that leave the ring alone.                                    *)
(***************************************************************************)
LEMMA AwayFlow ==
    ASSUME TypeOK, FlowInv, NEW p \in Proc,
           \/ Manage(p) \/ CloseData(p) \/ DupFd(p) \/ ForkMap(p) \/ ForkDone(p)
           \/ \E c \in Proc : Fork(p, c)
    PROVE  FlowInv'
  <1> DEFINE Away(q) == /\ th'[q].n = 0
                        /\ th'[q].pc \notin {"test", "get", "radv", "put", "wadv"}
             Stays(q) == /\ th'[q].pc = th[q].pc /\ th'[q].op = th[q].op
                         /\ th'[q].n = th[q].n /\ th'[q].byte = th[q].byte
  <1>1. \A q \in Proc : th[q] \in Thread  BY DEF TypeOK
  <1>2. th[p].pc \in {"idle", "fork", "close", "dup"} => th[p].n = 0
    BY <1>1 DEF FlowInv, Turns, Turn, Thread
  <1>3. \A x \in Thread : /\ [x EXCEPT !.stale = TRUE].pc = x.pc
                          /\ [x EXCEPT !.stale = TRUE].op = x.op
                          /\ [x EXCEPT !.stale = TRUE].n = x.n
                          /\ [x EXCEPT !.stale = TRUE].byte = x.byte
    BY DEF Thread
  <1>4. Rest.n = 0 /\ Rest.pc = "idle"  BY DEF Rest
  <1>5. ASSUME NEW t, Step(p, t), t.n = 0, t.pc \in {"idle", "fork", "close", "dup"}
        PROVE  \A q \in Proc : Stays(q) \/ Away(q)
    <2>1. \A q \in Proc : th'[q] = IF q = p THEN t ELSE [th[q] EXCEPT !.stale = TRUE]
      BY <1>5 DEF Step
    <2> QED BY <2>1, <1>1, <1>3, <1>5
  <1>6. UNCHANGED ringVars /\ \A q \in Proc : Stays(q) \/ Away(q)
    <2>1. CASE \E s \in Slot : CloseFd(p, s)
      <3> PICK s \in Slot : CloseFd(p, s)  BY <2>1
      <3> DEFINE t == [th[p] EXCEPT !.pc = "close", !.slot = s]
      <3>1. t.n = 0 /\ t.pc = "close"  BY <1>1, <1>2 DEF Thread, CloseFd, At
      <3>2. Step(p, t) /\ UNCHANGED ringVars  BY DEF CloseFd
      <3> HIDE DEF t
      <3> QED BY <3>1, <3>2, <1>5
    <2>2. CASE \E s, u \in Slot : DupData(p, s, u)
      <3> PICK s \in Slot, u \in Slot : DupData(p, s, u)  BY <2>2
      <3> DEFINE t == [th[p] EXCEPT !.pc = "dup", !.slot = s, !.to = u]
      <3>1. t.n = 0 /\ t.pc = "dup"  BY <1>1, <1>2 DEF Thread, DupData, At
      <3>2. Step(p, t) /\ UNCHANGED ringVars  BY DEF DupData
      <3> HIDE DEF t
      <3> QED BY <3>1, <3>2, <1>5
    <2>3. CASE CloseData(p) \/ DupFd(p)
      <3>1. Step(p, Rest) /\ UNCHANGED ringVars  BY <2>3 DEF CloseData, DupFd
      <3> QED BY <3>1, <1>4, <1>5
    <2>4. CASE ForkMap(p)
      <3> DEFINE t == [th[p] EXCEPT !.i = th[p].i + 1]
      <3>1. t.n = 0 /\ t.pc = "fork"  BY <1>1, <1>2, <2>4 DEF Thread, ForkMap, At
      <3>2. Step(p, t) /\ UNCHANGED ringVars  BY <2>4 DEF ForkMap
      <3> HIDE DEF t
      <3> QED BY <3>1, <3>2, <1>5
    <2>5. CASE ForkDone(p)
      <3>1. UNCHANGED ringVars
            /\ \A q \in Proc : th'[q] = IF q \in {p, th[p].child} THEN Rest
                                        ELSE [th[q] EXCEPT !.stale = TRUE]
        BY <2>5 DEF ForkDone
      <3> QED BY <3>1, <1>1, <1>3, <1>4
    <2>6. CASE \E c \in Proc : Fork(p, c)
      <3> PICK c \in Proc : Fork(p, c)  BY <2>6
      <3> DEFINE t == [th[p] EXCEPT !.pc = "fork", !.child = c, !.i = 0]
                 u == [Rest EXCEPT !.pc = "embryo"]
      <3>1. t.n = 0 /\ t.pc = "fork"  BY <1>1, <1>2 DEF Thread, Fork, At
      <3>2. u.n = 0 /\ u.pc = "embryo"  BY DEF Rest
      <3>3. UNCHANGED ringVars
            /\ \A q \in Proc : th'[q] = IF q = p THEN t ELSE IF q = c THEN u
                                        ELSE [th[q] EXCEPT !.stale = TRUE]
        BY DEF Fork
      <3> HIDE DEF t, u
      <3>4. ASSUME NEW q \in Proc PROVE Stays(q) \/ Away(q)
        <4>1. CASE q \in {p, c}  BY <4>1, <3>1, <3>2, <3>3
        <4>2. CASE q \notin {p, c}  BY <4>2, <3>3, <1>1, <1>3
        <4> QED BY <4>1, <4>2
      <3> QED BY <3>3, <3>4
    <2> QED BY <2>1, <2>2, <2>3, <2>4, <2>5, <2>6 DEF Manage
  <1> HIDE DEF Away, Stays
  <1>7. \A q \in Proc : Stays(q) \/ Away(q)  BY <1>6
  <1> QED BY <1>6, <1>7, FlowAway DEF Away, Stays

(***************************************************************************)
(* The steps of a call that leave the ring alone.                          *)
(***************************************************************************)
LEMMA CallFlow ==
    ASSUME TypeOK, FlowInv, NEW p \in Proc, NEW s \in Slot, NEW n \in 1 .. MaxIO, Call(p, s, n)
    PROVE  FlowInv'
  <1> DEFINE t == [th[p] EXCEPT !.pc = "test", !.op = fd[p][s], !.slot = s, !.n = n, !.i = 0]
  <1>1. fd[p][s] \in End  BY DEF TypeOK, Call, End
  <1>2. t \in Thread /\ t.pc = "test" /\ t.n = n /\ t.op = fd[p][s] /\ n > 0
    <2>1. th[p] \in Thread /\ n \in 0 .. MaxIO /\ n > 0  BY BoundAssumption DEF TypeOK
    <2> QED BY <1>1, <2>1 DEF Thread, PC
  <1>3. Step(p, t) /\ UNCHANGED ringVars /\ \A q \in Proc : ~Busy(q, fd[p][s])
    BY DEF Call
  <1> HIDE DEF t
  <1>4. Turn(t, buf, sent, taken)  BY <1>2 DEF Turn
  <1> QED BY <1>2, <1>3, <1>4, FlowStep

LEMMA IsClosedFlow ==
    ASSUME TypeOK, FlowInv, NEW p \in Proc, NEW s \in Slot, pipe_is_closed(p, s)
    PROVE  FlowInv'
  <1> DEFINE t == [th[p] EXCEPT !.pc = "chk1", !.op = fd[p][s], !.slot = s, !.stale = FALSE]
  <1>1. fd[p][s] \in End  BY DEF TypeOK, pipe_is_closed, End
  <1>2. th[p] \in Thread /\ th[p].n = 0
    <2>1. th[p].pc = "idle" /\ th[p] \in Thread /\ Turn(th[p], buf, sent, taken)
      BY DEF pipe_is_closed, At, FlowInv, Turns, TypeOK
    <2> QED BY <2>1 DEF Turn, Thread
  <1>3. t \in Thread /\ t.pc = "chk1" /\ t.n = th[p].n
    BY <1>1, <1>2 DEF Thread, PC
  <1>4. Step(p, t) /\ UNCHANGED ringVars  BY DEF pipe_is_closed
  <1> HIDE DEF t
  <1>5. t.n = 0 /\ Turn(t, buf, sent, taken)  BY <1>2, <1>3 DEF Turn
  <1> QED BY <1>3, <1>4, <1>5, FlowStep

\* The test finds a byte to read, or room for one, or goes to the check.
LEMMA TestFlow ==
    ASSUME TypeOK, FlowInv, NEW p \in Proc, Test(p)
    PROVE  FlowInv'
  <1> DEFINE pc == IF Stuck(p) THEN "chk1" ELSE IF th[p].op = "r" THEN "get" ELSE "put"
             t == [th[p] EXCEPT !.pc = pc, !.stale = ~Stuck(p)]
  <1>1. th[p] \in Thread /\ th[p].n > 0 /\ th[p].pc = "test"
    BY DEF TypeOK, FlowInv, Turns, Turn, Test, At
  <1>2. Stuck(p) \in BOOLEAN  BY DEF Stuck, Empty, Full
  <1>3. t \in Thread /\ t.pc = pc /\ t.n = th[p].n /\ t.op = th[p].op
    BY <1>1, <1>2 DEF Thread, PC
  <1>4. Step(p, t) /\ UNCHANGED ringVars  BY DEF Test
  <1>5. Busy(p, th[p].op)  BY <1>1 DEF Busy, OnPipe, InCall
  <1>6. /\ Empty <=> taken = sent
        /\ Full <=> sent - taken = PIPE_SIZE
        /\ taken \in Nat /\ sent \in Nat /\ taken <= sent /\ sent - taken <= PIPE_SIZE
    BY RingFacts DEF FlowInv, TypeOK, InRing
  <1> HIDE DEF t
  <1>7. Turn(t, buf, sent, taken)
    <2>1. CASE Stuck(p)  BY <2>1, <1>1, <1>3 DEF Turn
    <2>2. CASE ~Stuck(p) /\ th[p].op = "r"
      <3>1. taken < sent  BY <2>2, <1>6 DEF Stuck
      <3> QED BY <2>2, <3>1, <1>1, <1>3 DEF Turn
    <2>3. CASE ~Stuck(p) /\ th[p].op # "r"
      <3>1. sent - taken < PIPE_SIZE  BY <2>3, <1>6, RingAssumption DEF Stuck
      <3>2. th[p].op = "w"  BY <2>3, <1>1 DEF Thread, End
      <3> QED BY <2>3, <3>1, <3>2, <1>1, <1>3 DEF Turn
    <2> QED BY <2>1, <2>2, <2>3
  <1> QED BY <1>3, <1>4, <1>5, <1>7, FlowStep

\* The check goes on, or ends in the test or out of the call.
LEMMA CheckFlow ==
    ASSUME TypeOK, FlowInv, NEW p \in Proc,
           ChkFd(p) \/ ChkPipe(p) \/ ChkRetry(p) \/ ChkDone(p)
    PROVE  FlowInv'
  <1>1. th[p] \in Thread /\ th[p].pc \in {"chk1", "chk2", "chk3"}
    BY DEF TypeOK, ChkFd, ChkPipe, ChkRetry, ChkDone, At
  <1>2. th[p].n > 0 => Busy(p, th[p].op)
    BY <1>1 DEF Busy, OnPipe, Checking, InCall
  <1>3. ASSUME NEW t \in Thread, Step(p, t), UNCHANGED ringVars,
               t.n = th[p].n, t.op = th[p].op,
               t.pc \in {"chk1", "chk2", "chk3"} \/ (t.pc = "test" /\ t.n > 0)
        PROVE  FlowInv'
    <2>1. Turn(t, buf, sent, taken)  BY <1>3 DEF Turn, Thread
    <2> QED BY <2>1, <1>2, <1>3, FlowStep
  <1>4. CASE ChkFd(p)
    <2> DEFINE t == [th[p] EXCEPT !.pc = "chk2", !.fdRef = pageref(FdMaps(th[p].op))]
    <2>1. pageref(FdMaps(th[p].op)) \in Nat  BY MapsFinite
    <2>2. t \in Thread /\ t.n = th[p].n /\ t.op = th[p].op /\ t.pc = "chk2"
      BY <1>1, <2>1 DEF Thread, PC
    <2>3. Step(p, t) /\ UNCHANGED ringVars  BY <1>4 DEF ChkFd
    <2> HIDE DEF t
    <2> QED BY <2>2, <2>3, <1>3
  <1>5. CASE ChkPipe(p)
    <2> DEFINE t == [th[p] EXCEPT !.pc = "chk3", !.pipeRef = pageref(DataMaps)]
    <2>1. pageref(DataMaps) \in Nat  BY MapsFinite
    <2>2. t \in Thread /\ t.n = th[p].n /\ t.op = th[p].op /\ t.pc = "chk3"
      BY <1>1, <2>1 DEF Thread, PC
    <2>3. Step(p, t) /\ UNCHANGED ringVars  BY <1>5 DEF ChkPipe
    <2> HIDE DEF t
    <2> QED BY <2>2, <2>3, <1>3
  <1>6. CASE ChkRetry(p)
    <2> DEFINE t == [th[p] EXCEPT !.pc = "chk1", !.stale = FALSE, !.fdRef = 0, !.pipeRef = 0]
    <2>1. t \in Thread /\ t.n = th[p].n /\ t.op = th[p].op /\ t.pc = "chk1"
      BY <1>1 DEF Thread, PC
    <2>2. Step(p, t) /\ UNCHANGED ringVars  BY <1>6 DEF ChkRetry
    <2> HIDE DEF t
    <2> QED BY <2>1, <2>2, <1>3
  <1>7. CASE ChkDone(p)
    <2>1. CASE Gives(p)
      <3>1. Step(p, Rest) /\ UNCHANGED ringVars  BY <1>7, <2>1 DEF ChkDone
      <3>2. Rest.n = 0 /\ Turn(Rest, buf, sent, taken)  BY DEF Rest, Turn
      <3> QED BY <3>1, <3>2, RestIsThread, FlowStep
    <2>2. CASE ~Gives(p)
      <3> DEFINE t == [th[p] EXCEPT !.pc = "test", !.stale = TRUE, !.fdRef = 0, !.pipeRef = 0]
      <3>1. t \in Thread /\ t.n = th[p].n /\ t.op = th[p].op /\ t.pc = "test"
        BY <1>1 DEF Thread, PC
      <3>2. Step(p, t) /\ UNCHANGED ringVars  BY <1>7, <2>2 DEF ChkDone
      <3>3. th[p].n > 0  BY <2>2 DEF Gives, InCall
      <3> HIDE DEF t
      <3> QED BY <3>1, <3>2, <3>3, <1>3
    <2> QED BY <2>1, <2>2
  <1> QED BY <1>4, <1>5, <1>6, <1>7

\* What is copied out is the oldest byte in the ring.
LEMMA GetFlow ==
    ASSUME TypeOK, FlowInv, NEW p \in Proc, Get(p)
    PROVE  FlowInv'
  <1> DEFINE b == buf[rpos % PIPE_SIZE]
             t == [th[p] EXCEPT !.pc = "radv", !.byte = b]
  <1>1. /\ th[p] \in Thread /\ th[p].n > 0 /\ th[p].pc = "get" /\ th[p].op = "r"
        /\ taken < sent /\ taken \in Nat /\ sent \in Nat
    BY DEF TypeOK, FlowInv, Turns, Turn, Get, At
  <1>2. b = taken + 1
    <2>1. rpos % PIPE_SIZE = taken % PIPE_SIZE  BY RingFacts DEF FlowInv
    <2>2. buf[taken % PIPE_SIZE] = taken + 1  BY <1>1 DEF FlowInv, InRing
    <2> QED BY <2>1, <2>2
  <1>3. Step(p, t) /\ UNCHANGED ringVars  BY DEF Get
  <1>7. b \in Nat  BY <1>1, <1>2
  <1> HIDE DEF b
  <1>4. t \in Thread /\ t.pc = "radv" /\ t.n = th[p].n /\ t.op = "r" /\ t.byte = taken + 1
    BY <1>1, <1>2, <1>7 DEF Thread, PC
  <1>5. Busy(p, "r")  BY <1>1 DEF Busy, OnPipe, InCall
  <1> HIDE DEF t
  <1>6. Turn(t, buf, sent, taken)  BY <1>1, <1>4 DEF Turn
  <1> QED BY <1>3, <1>4, <1>5, <1>6, FlowStep

(***************************************************************************)
(* The steps that change the ring: p, which is inside a call, goes on to t *)
(* of the same call or out of it; whoever else is inside one works on the  *)
(* other end.                                                              *)
(***************************************************************************)
LEMMA FlowTransfer ==
    ASSUME TypeOK, FlowInv, NEW p \in Proc, NEW t \in Thread, Step(p, t),
           Busy(p, th[p].op), t.n > 0 => t.op = th[p].op,
           InRing', Turn(t, buf', sent', taken'),
           \A q \in Proc : th[q].op # th[p].op /\ Turn(th[q], buf, sent, taken)
                               => Turn(th[q], buf', sent', taken')
    PROVE  FlowInv'
  <1>1. /\ th'[p] = t
        /\ \A q \in Proc \ {p} : /\ th'[q].pc = th[q].pc /\ th'[q].op = th[q].op
                                 /\ th'[q].n = th[q].n /\ th'[q].byte = th[q].byte
    BY StepFacts
  <1>2. th[p].op \in End /\ \A q \in Proc : th[q] \in Thread  BY DEF TypeOK, Thread
  <1>3. Turns'
    <2> SUFFICES ASSUME NEW q \in Proc PROVE Turn(th'[q], buf', sent', taken')
      BY DEF Turns
    <2>1. CASE q = p  BY <2>1, <1>1
    <2>2. CASE q # p /\ th[q].op # th[p].op
      <3>1. Turn(th[q], buf', sent', taken')  BY <2>2 DEF FlowInv, Turns
      <3> QED BY <2>2, <3>1, <1>1 DEF Turn
    <2>3. CASE q # p /\ th[q].op = th[p].op
      <3>1. ~Busy(q, th[q].op)  BY <2>3, <1>2 DEF FlowInv, OneEach
      <3>2. Turn(th[q], buf, sent, taken)  BY DEF FlowInv, Turns
      <3>3. th[q].n = 0  BY <3>1, <3>2, <1>2 DEF Busy, OnPipe, Checking, InCall, Turn, Thread
      <3>4. th[q].pc \notin {"test", "get", "radv", "put", "wadv"}  BY <3>2, <3>3 DEF Turn
      <3> QED BY <2>3, <3>3, <3>4, <1>1 DEF Turn
    <2> QED BY <2>1, <2>2, <2>3
  <1>4. \A q \in Proc, k \in End : Busy(q, k)' => Busy(q, k)
    <2>1. \A q \in Proc \ {p}, k \in End : Busy(q, k)' => Busy(q, k)
      BY <1>1 DEF Busy, OnPipe, Checking, InCall
    <2>2. \A k \in End : Busy(p, k)' => Busy(p, k)
      BY <1>1 DEF Busy, InCall
    <2> QED BY <2>1, <2>2
  <1>5. OneEach'  BY <1>4 DEF FlowInv, OneEach
  <1> QED BY <1>3, <1>5 DEF FlowInv

\* Where an advance leads: to the test again, or out of the call.
LEMMA AdvancedTurn ==
    ASSUME TypeOK, NEW p \in Proc, th[p].n > 0, NEW b, NEW s, NEW k
    PROVE  /\ Turn(Advanced(p), b, s, k)
           /\ Advanced(p).n > 0 => Advanced(p).op = th[p].op
  <1>1. th[p] \in Thread  BY DEF TypeOK
  <1>2. CASE th[p].i + 1 = th[p].n  BY <1>2 DEF Advanced, Rest, Turn
  <1>3. CASE th[p].i + 1 # th[p].n
    <2> DEFINE t == [th[p] EXCEPT !.pc = "test", !.i = th[p].i + 1, !.byte = 0]
    <2>1. t.pc = "test" /\ t.n = th[p].n /\ t.op = th[p].op  BY <1>1 DEF Thread
    <2>2. Advanced(p) = t  BY <1>3 DEF Advanced
    <2> HIDE DEF t
    <2> QED BY <2>1, <2>2 DEF Turn
  <1> QED BY <1>2, <1>3

\* A byte is taken.
LEMMA AdvanceRFlow ==
    ASSUME TypeOK, FlowInv, NEW p \in Proc, AdvanceR(p)
    PROVE  FlowInv'
  <1>1. /\ th[p] \in Thread /\ th[p].n > 0 /\ th[p].pc = "radv" /\ th[p].op = "r"
        /\ taken < sent /\ taken \in Nat /\ sent \in Nat
    BY DEF TypeOK, FlowInv, Turns, Turn, AdvanceR, At
  <1>2. /\ rpos' = (rpos + 1) % PosMod /\ taken' = taken + 1
        /\ Step(p, Advanced(p)) /\ UNCHANGED <<buf, wpos, sent>>
    BY DEF AdvanceR
  <1>3. InRing'
    <2>0. PosMod \in Nat \ {0} /\ PIPE_SIZE \in Nat \ {0}  BY RingAssumption
    <2>1. ((taken % PosMod) + 1) % PosMod = (taken + 1) % PosMod
      BY <1>1, <2>0, ModNext
    <2>2. rpos' = taken' % PosMod  BY <1>2, <2>1 DEF FlowInv, InRing
    <2>3. wpos' = sent' % PosMod  BY <1>2 DEF FlowInv, InRing
    <2>4. taken' <= sent' /\ sent' - taken' <= PIPE_SIZE
      BY <1>1, <1>2, <2>0 DEF FlowInv, InRing
    <2>5. ASSUME NEW k \in taken' .. sent' - 1 PROVE buf'[k % PIPE_SIZE] = k + 1
      <3>1. k \in taken .. sent - 1  BY <1>1, <1>2
      <3> QED BY <1>2, <3>1 DEF FlowInv, InRing
    <2> QED BY <2>2, <2>3, <2>4, <2>5 DEF InRing
  <1>4. Turn(Advanced(p), buf', sent', taken') /\ (Advanced(p).n > 0 => Advanced(p).op = th[p].op)
    BY <1>1, AdvancedTurn
  <1>5. \A q \in Proc : th[q].op # th[p].op /\ Turn(th[q], buf, sent, taken)
                            => Turn(th[q], buf', sent', taken')
    BY <1>1, <1>2, RingAssumption DEF Turn
  <1>6. Busy(p, th[p].op)  BY <1>1 DEF Busy, OnPipe, InCall
  <1>7. Advanced(p) \in Thread  BY <1>1, AdvancedIsThread
  <1> QED BY <1>2, <1>3, <1>4, <1>5, <1>6, <1>7, FlowTransfer

\* A byte is put behind those in the ring, into a slot that none of them has.
LEMMA PutFlow ==
    ASSUME TypeOK, FlowInv, NEW p \in Proc, Put(p)
    PROVE  FlowInv'
  <1> DEFINE t == [th[p] EXCEPT !.pc = "wadv"]
             j == sent % PIPE_SIZE
  <1>1. /\ th[p] \in Thread /\ th[p].n > 0 /\ th[p].pc = "put" /\ th[p].op = "w"
        /\ sent - taken < PIPE_SIZE /\ taken <= sent /\ taken \in Nat /\ sent \in Nat
    BY DEF TypeOK, FlowInv, Turns, Turn, InRing, Put, At
  <1>2. PIPE_SIZE \in Nat \ {0}  BY RingAssumption
  <1>3. /\ buf' = [buf EXCEPT ![j] = sent + 1]
        /\ Step(p, t) /\ UNCHANGED <<rpos, wpos, sent, taken>>
    <2>1. wpos % PIPE_SIZE = sent % PIPE_SIZE  BY RingFacts DEF FlowInv
    <2> QED BY <2>1 DEF Put
  <1>4. t \in Thread /\ t.pc = "wadv" /\ t.n = th[p].n /\ t.op = "w"
    BY <1>1 DEF Thread, PC
  <1> HIDE DEF t
  <1>5. j \in 0 .. PIPE_SIZE - 1 /\ DOMAIN buf = 0 .. PIPE_SIZE - 1
    BY <1>1, <1>2 DEF TypeOK
  <1>6. ASSUME NEW k \in taken .. sent - 1 PROVE buf'[k % PIPE_SIZE] = k + 1
    <2>1. k \in Nat /\ k < sent /\ sent - k < PIPE_SIZE  BY <1>1, <1>2
    <2>2. k % PIPE_SIZE # j  BY <1>1, <1>2, <2>1, ModApart
    <2>3. k % PIPE_SIZE \in 0 .. PIPE_SIZE - 1  BY <1>2, <2>1
    <2>4. buf[k % PIPE_SIZE] = k + 1  BY DEF FlowInv, InRing
    <2> HIDE DEF j
    <2> QED BY <1>3, <1>5, <2>2, <2>3, <2>4
  <1>7. InRing'
    BY <1>3, <1>6 DEF FlowInv, InRing
  <1>8. Turn(t, buf', sent', taken')
    <2>1. buf'[j] = sent + 1  BY <1>3, <1>5
    <2> QED BY <1>1, <1>3, <1>4, <2>1 DEF Turn
  <1>9. \A q \in Proc : th[q].op # th[p].op /\ Turn(th[q], buf, sent, taken)
                            => Turn(th[q], buf', sent', taken')
    BY <1>1, <1>3 DEF Turn
  <1>10. Busy(p, th[p].op)  BY <1>1 DEF Busy, OnPipe, InCall
  <1> QED BY <1>1, <1>3, <1>4, <1>7, <1>8, <1>9, <1>10, FlowTransfer

\* The byte put counts.
LEMMA AdvanceWFlow ==
    ASSUME TypeOK, FlowInv, NEW p \in Proc, AdvanceW(p)
    PROVE  FlowInv'
  <1>1. /\ th[p] \in Thread /\ th[p].n > 0 /\ th[p].pc = "wadv" /\ th[p].op = "w"
        /\ sent - taken < PIPE_SIZE /\ taken <= sent /\ taken \in Nat /\ sent \in Nat
        /\ buf[sent % PIPE_SIZE] = sent + 1
    BY DEF TypeOK, FlowInv, Turns, Turn, InRing, AdvanceW, At
  <1>2. /\ wpos' = (wpos + 1) % PosMod /\ sent' = sent + 1
        /\ Step(p, Advanced(p)) /\ UNCHANGED <<buf, rpos, taken>>
    BY DEF AdvanceW
  <1>3. InRing'
    <2>0. PosMod \in Nat \ {0} /\ PIPE_SIZE \in Nat \ {0}  BY RingAssumption
    <2>1. ((sent % PosMod) + 1) % PosMod = (sent + 1) % PosMod
      BY <1>1, <2>0, ModNext
    <2>2. wpos' = sent' % PosMod  BY <1>2, <2>1 DEF FlowInv, InRing
    <2>3. rpos' = taken' % PosMod  BY <1>2 DEF FlowInv, InRing
    <2>4. taken' <= sent' /\ sent' - taken' <= PIPE_SIZE
      BY <1>1, <1>2, <2>0
    <2>5. ASSUME NEW k \in taken' .. sent' - 1 PROVE buf'[k % PIPE_SIZE] = k + 1
      <3>1. k \in taken .. sent - 1 \/ k = sent  BY <1>1, <1>2
      <3>2. CASE k = sent  BY <3>2, <1>1, <1>2
      <3>3. CASE k \in taken .. sent - 1  BY <3>3, <1>2 DEF FlowInv, InRing
      <3> QED BY <3>1, <3>2, <3>3
    <2> QED BY <2>2, <2>3, <2>4, <2>5 DEF InRing
  <1>4. Turn(Advanced(p), buf', sent', taken') /\ (Advanced(p).n > 0 => Advanced(p).op = th[p].op)
    BY <1>1, AdvancedTurn
  <1>5. \A q \in Proc : th[q].op # th[p].op /\ Turn(th[q], buf, sent, taken)
                            => Turn(th[q], buf', sent', taken')
    BY <1>1, <1>2 DEF Turn
  <1>6. Busy(p, th[p].op)  BY <1>1 DEF Busy, OnPipe, InCall
  <1>7. Advanced(p) \in Thread  BY <1>1, AdvancedIsThread
  <1> QED BY <1>2, <1>3, <1>4, <1>5, <1>6, <1>7, FlowTransfer

LEMMA NextFlowInv == TypeOK /\ FlowInv /\ [Next]_vars => FlowInv'
  <1> SUFFICES ASSUME TypeOK, FlowInv, [Next]_vars PROVE FlowInv'  OBVIOUS
  <1>1. CASE UNCHANGED vars
    <2>1. UNCHANGED ringVars /\ UNCHANGED th  BY <1>1 DEF vars, ringVars
    <2> QED BY <2>1, FlowAway
  <1>2. CASE Next
    <2> PICK p \in Proc :
          \/ Advance(p)
          \/ Manage(p)
          \/ \E s \in Slot, n \in 1 .. MaxIO : Call(p, s, n)
          \/ \E s \in Slot : pipe_is_closed(p, s)
          \/ \E c \in Proc : Fork(p, c)
      BY <1>2 DEF Next
    <2>1. CASE Advance(p)
      BY <2>1, AwayFlow, TestFlow, CheckFlow, GetFlow, AdvanceRFlow, PutFlow, AdvanceWFlow
         DEF Advance
    <2>2. CASE Manage(p)  BY <2>2, AwayFlow
    <2>3. CASE \E s \in Slot, n \in 1 .. MaxIO : Call(p, s, n)  BY <2>3, CallFlow
    <2>4. CASE \E s \in Slot : pipe_is_closed(p, s)  BY <2>4, IsClosedFlow
    <2>5. CASE \E c \in Proc : Fork(p, c)  BY <2>5, AwayFlow
    <2> QED BY <2>1, <2>2, <2>3, <2>4, <2>5
  <1> QED BY <1>1, <1>2

\* Every reachable state satisfies the invariant of the ring.
THEOREM FlowInvariant == Spec => []FlowInv
  <1>1. Init => FlowInv  BY InitFlowInv
  <1>2. TypeOK /\ FlowInv /\ [Next]_vars => FlowInv'  BY NextFlowInv
  <1> QED BY <1>1, <1>2, PipeTypeCorrect, PTL DEF Spec

\* pipe_read() copies the bytes out in the order pipe_write() put them in, none
\* lost and none twice, for any size of the ring and any width of the positions
\* that is a multiple of it, however reads, writes, closes and forks interleave.
THEOREM FifoCorrect == Spec => []FifoOrder
  <1>1. FlowInv => FifoOrder  BY DEF FlowInv, Turns, Turn, FifoOrder, At
  <1> QED BY <1>1, FlowInvariant, PTL

\* The positions of a pipe, which wrap, always tell how many bytes are in it.
THEOREM RingCorrect == Spec => []RingBound
  <1>1. TypeOK /\ FlowInv => RingBound  BY RingFacts DEF FlowInv, InRing, RingBound
  <1> QED BY <1>1, FlowInvariant, PipeTypeCorrect, PTL
=============================================================================
