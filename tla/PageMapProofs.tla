--------------------------- MODULE PageMapProofs ---------------------------
(***************************************************************************)
(* Invariance proofs for PageMap, for any number of envs, pages, virtual   *)
(* pages and address space ids, in the behaviours where no page has as     *)
(* many mappings as pp_ref can count (Unwrapped).                          *)
(***************************************************************************)
EXTENDS PageMap, FiniteSetTheorems, TLAPS

\* The properties of PageMap as predicates of a memory m and an assignment as of address
\* space ids, so that they can be stated of the memory between two steps of a system call.
RefsOK(m) == \A p \in Page : \/ m.ref[p] = Cardinality(Uses(m, p))
                             \/ m.ref[p] = 1 /\ Uses(m, p) = {}

FreeOK(m) == /\ IsInjective(m.free)
             /\ \A p \in Range(m.free) : m.ref[p] = 0 /\ Uses(m, p) = {}

TablesOK(m, as) == \A e \in Env, v \in VPage : Valid(m, e, v) =>
    /\ as[e] # NULL
    /\ Valid(m, e, TableOf(v))
    /\ v \notin Va => Uses(m, PageOf(m, e, v)) = {<<e, v>>}

TlbOK(m, as) == \A a \in Asid, v \in VPage : m.tlb[a][v] \in Entry =>
    \E e \in Env : as[e] = a /\ m.pt[e][v] = m.tlb[a][v]

AsidMap == [Env -> Asid \cup {NULL}]

Core(m, as) == m \in Memory /\ RefsOK(m) /\ FreeOK(m) /\ TablesOK(m, as) /\ TlbOK(m, as)

\* Page p may be entered into a table: it is counted right and is not a table itself.
InHand(m, p) == /\ p \in Page /\ p \notin Range(m.free)
                /\ m.ref[p] = Cardinality(Uses(m, p))
                /\ \A x \in Uses(m, p) : x[2] \in Va

\* One more use of page p can be counted.
Room(m, p) == Cardinality(Uses(m, p)) < RefMod - 1

-----------------------------------------------------------------------------
(* Uses and entries *)

LEMMA TableOfType == \A v \in VPage : TableOf(v) \in VPage
  BY LayoutAssumption DEF TableOf, VPage

\* The uses of a page are finitely many.
LEMMA UsesFinite ==
    ASSUME NEW m, NEW p
    PROVE  IsFiniteSet(Uses(m, p)) /\ Cardinality(Uses(m, p)) \in Nat
  <1>1. IsFiniteSet(Env \X VPage)  BY PagesAssumption, FS_Product
  <1>2. Uses(m, p) \in SUBSET (Env \X VPage)  BY DEF Uses
  <1>3. IsFiniteSet(Uses(m, p))  BY <1>1, <1>2, FS_Subset
  <1> QED BY <1>3, FS_CardinalityType

\* A page without uses can be counted.
LEMMA RoomForNew ==
    ASSUME NEW m, NEW p, Uses(m, p) = {}
    PROVE  Room(m, p)
  BY WidthAssumption, FS_EmptySet DEF Room

\* The page of an entry.
LEMMA PageType ==
    ASSUME NEW m \in Memory, NEW e \in Env, NEW v \in VPage, Valid(m, e, v)
    PROVE  /\ m.pt[e][v] \in Entry /\ PageOf(m, e, v) \in Page
           /\ <<e, v>> \in Uses(m, PageOf(m, e, v))
           /\ m.pt[e][v] = <<PageOf(m, e, v), m.pt[e][v][2]>> /\ m.pt[e][v][2] \in Perm
  <1>1. m.pt[e][v] \in Entry  BY DEF Memory, Valid
  <1>2. <<e, v>> \in Uses(m, PageOf(m, e, v))  BY DEF Uses
  <1> QED BY <1>1, <1>2 DEF Entry, PageOf

\* A page in use is counted exactly.
LEMMA UsedExact ==
    ASSUME NEW m \in Memory, RefsOK(m), NEW p \in Page, Uses(m, p) # {}
    PROVE  m.ref[p] = Cardinality(Uses(m, p)) /\ m.ref[p] > 0
  <1>1. m.ref[p] = Cardinality(Uses(m, p))  BY DEF RefsOK
  <1>2. Cardinality(Uses(m, p)) # 0  BY UsesFinite, FS_EmptySet
  <1> QED BY <1>1, <1>2, UsesFinite

\* A mapped page that is not a table is in hand.
LEMMA MappedInHand ==
    ASSUME NEW m \in Memory, NEW as \in AsidMap, Core(m, as), NEW e \in Env, NEW v \in Va, Valid(m, e, v)
    PROVE  InHand(m, PageOf(m, e, v))
  <1> DEFINE p == PageOf(m, e, v)
  <1>0. v \in VPage /\ m \in Memory  BY DEF VPage, Core
  <1>1. p \in Page /\ <<e, v>> \in Uses(m, p)  BY <1>0, PageType
  <1>2. p \notin Range(m.free)  BY <1>1 DEF Core, FreeOK
  <1>3. m.ref[p] = Cardinality(Uses(m, p))  BY <1>0, <1>1, UsedExact DEF Core
  <1>4. ASSUME NEW x \in Uses(m, p), x[2] \notin Va  PROVE FALSE
    <2>1. x = <<x[1], x[2]>> /\ x[1] \in Env /\ x[2] \in VPage /\ Valid(m, x[1], x[2])
          /\ PageOf(m, x[1], x[2]) = p
      BY DEF Uses
    <2>2. Uses(m, p) = {x}  BY <1>4, <2>1 DEF Core, TablesOK
    <2> QED BY <1>1, <1>4, <2>2
  <1> QED BY <1>1, <1>2, <1>3, <1>4 DEF InHand

-----------------------------------------------------------------------------
(* tlb_invalidate *)

LEMMA InvalidateFields ==
    ASSUME NEW m \in Memory, NEW a \in Asid, NEW v \in VPage
    PROVE  LET n == tlb_invalidate(m, a, v)
           IN  /\ n \in Memory /\ n.ref = m.ref /\ n.free = m.free /\ n.pt = m.pt
               /\ \A b \in Asid, x \in VPage :
                     n.tlb[b][x] = IF b = a /\ x \in Pair[v] THEN MISS ELSE m.tlb[b][x]
  <1> DEFINE row == [x \in VPage |-> IF x \in Pair[v] THEN MISS ELSE m.tlb[a][x]]
             n == tlb_invalidate(m, a, v)
  <1>1. n = [m EXCEPT !.tlb = [m.tlb EXCEPT ![a] = row]]  BY DEF tlb_invalidate
  <1>2. row \in [VPage -> Entry \cup {NULL, MISS}]  BY DEF Memory
  <1> HIDE DEF row, n
  <1>3. [m.tlb EXCEPT ![a] = row] \in [Asid -> [VPage -> Entry \cup {NULL, MISS}]]
    BY <1>2 DEF Memory
  <1>4. /\ n \in Memory /\ n.ref = m.ref /\ n.free = m.free /\ n.pt = m.pt
        /\ n.tlb = [m.tlb EXCEPT ![a] = row]
    BY <1>1, <1>3 DEF Memory
  <1>5. ASSUME NEW b \in Asid, NEW x \in VPage
        PROVE  n.tlb[b][x] = IF b = a /\ x \in Pair[v] THEN MISS ELSE m.tlb[b][x]
    BY <1>4 DEF row, Memory
  <1> QED BY <1>4, <1>5 DEF n

\* Dropping TLB entries or their valid halves does no harm.
LEMMA FewerTlb ==
    ASSUME NEW m \in Memory, NEW n \in Memory, NEW as \in AsidMap, Core(m, as),
           n.ref = m.ref, n.free = m.free, n.pt = m.pt,
           \A b \in Asid, x \in VPage : n.tlb[b][x] \in Entry => n.tlb[b][x] = m.tlb[b][x]
    PROVE  /\ Core(n, as)
           /\ \A p : Uses(n, p) = Uses(m, p) /\ (InHand(m, p) => InHand(n, p))
  <1>1. \A p : Uses(n, p) = Uses(m, p)  BY DEF Uses, Valid, PageOf
  <1>0. RefsOK(m) /\ FreeOK(m) /\ TablesOK(m, as) /\ TlbOK(m, as)  BY DEF Core
  <1>2. RefsOK(n) /\ FreeOK(n)  BY <1>0, <1>1 DEF RefsOK, FreeOK
  <1>3. TablesOK(n, as)
    <2>1. \A e, v : Valid(n, e, v) = Valid(m, e, v) /\ PageOf(n, e, v) = PageOf(m, e, v)
      BY DEF Valid, PageOf
    <2>2. ASSUME NEW e \in Env, NEW v \in VPage, Valid(n, e, v)
          PROVE  /\ as[e] # NULL /\ Valid(n, e, TableOf(v))
                 /\ v \notin Va => Uses(n, PageOf(n, e, v)) = {<<e, v>>}
      <3>1. Valid(m, e, v)  BY <2>1, <2>2
      <3>2. /\ as[e] # NULL /\ Valid(m, e, TableOf(v))
            /\ v \notin Va => Uses(m, PageOf(m, e, v)) = {<<e, v>>}
        BY <3>1, <1>0 DEF TablesOK
      <3>3. Uses(n, PageOf(n, e, v)) = Uses(m, PageOf(m, e, v))  BY <2>1, <1>1
      <3> QED BY <2>1, <3>2, <3>3
    <2> QED BY <2>2 DEF TablesOK
  <1>4. TlbOK(n, as)
    <2> SUFFICES ASSUME NEW a \in Asid, NEW v \in VPage, n.tlb[a][v] \in Entry
                 PROVE  \E e \in Env : as[e] = a /\ n.pt[e][v] = n.tlb[a][v]
      BY DEF TlbOK
    <2>1. n.tlb[a][v] = m.tlb[a][v] /\ m.tlb[a][v] \in Entry  OBVIOUS
    <2>2. \E e \in Env : as[e] = a /\ m.pt[e][v] = m.tlb[a][v]  BY <2>1, <1>0 DEF TlbOK
    <2> QED BY <2>1, <2>2
  <1>5. \A p : InHand(m, p) => InHand(n, p)  BY <1>1 DEF InHand
  <1> QED BY <1>1, <1>2, <1>3, <1>4, <1>5 DEF Core

\* n differs from m in the TLB only.
Invalidated(m, n, as) ==
    /\ n \in Memory /\ Core(n, as) /\ n.pt = m.pt /\ n.free = m.free /\ n.ref = m.ref
    /\ \A p : Uses(n, p) = Uses(m, p) /\ (InHand(m, p) => InHand(n, p))

LEMMA InvalidateCore ==
    ASSUME NEW m \in Memory, NEW as \in AsidMap, Core(m, as), NEW a \in Asid, NEW v \in VPage
    PROVE  Invalidated(m, tlb_invalidate(m, a, v), as)
  <1> DEFINE n == tlb_invalidate(m, a, v)
  <1>1. m \in Memory  BY DEF Core
  <1>2. /\ n \in Memory /\ n.ref = m.ref /\ n.free = m.free /\ n.pt = m.pt
        /\ \A b \in Asid, x \in VPage :
              n.tlb[b][x] = IF b = a /\ x \in Pair[v] THEN MISS ELSE m.tlb[b][x]
    BY <1>1, InvalidateFields
  <1>3. \A b \in Asid, x \in VPage : n.tlb[b][x] \in Entry => n.tlb[b][x] = m.tlb[b][x]
    BY <1>2, NullAssumption
  <1> HIDE DEF n
  <1>4. Core(n, as) /\ \A p : Uses(n, p) = Uses(m, p) /\ (InHand(m, p) => InHand(n, p))
    BY <1>2, <1>3, FewerTlb
  <1>5. Invalidated(m, n, as)  BY <1>2, <1>4 DEF Invalidated
  <1> QED BY <1>5 DEF n

-----------------------------------------------------------------------------
(* Enter *)

\* Uses when one entry changes from invalid to page p, from page p to invalid, or from
\* page p to page p.
LEMMA UsesAfterWrite ==
    ASSUME NEW m \in Memory, NEW n \in Memory, NEW e \in Env, NEW v \in VPage, NEW q \in Page,
           \A f \in Env, x \in VPage : f # e \/ x # v => n.pt[f][x] = m.pt[f][x]
    PROVE  Uses(n, q) \ {<<e, v>>} = Uses(m, q) \ {<<e, v>>}
  <1> SUFFICES ASSUME NEW y \in Env \X VPage, y # <<e, v>>
               PROVE  y \in Uses(n, q) <=> y \in Uses(m, q)
    BY DEF Uses
  <1>1. PICK f \in Env, x \in VPage : y = <<f, x>>  OBVIOUS
  <1>2. n.pt[f][x] = m.pt[f][x]  BY <1>1
  <1>3. <<f, x>> \in Uses(n, q) <=> n.pt[f][x] # NULL /\ n.pt[f][x][1] = q  BY DEF Uses, Valid, PageOf
  <1>4. <<f, x>> \in Uses(m, q) <=> m.pt[f][x] # NULL /\ m.pt[f][x][1] = q  BY DEF Uses, Valid, PageOf
  <1> QED BY <1>1, <1>2, <1>3, <1>4

LEMMA EnterFields ==
    ASSUME NEW m \in Memory, NEW e \in Env, NEW v \in VPage, NEW p \in Page, NEW perm \in Perm
    PROVE  LET n == Enter(m, e, v, p, perm)
           IN  /\ n \in Memory /\ n.free = m.free /\ n.tlb = m.tlb
               /\ \A q \in Page : n.ref[q] = IF q = p THEN (m.ref[p] + 1) % RefMod ELSE m.ref[q]
               /\ \A f \in Env, x \in VPage :
                     n.pt[f][x] = IF f = e /\ x = v THEN <<p, perm>> ELSE m.pt[f][x]
  <1> DEFINE ref2 == [m.ref EXCEPT ![p] = (m.ref[p] + 1) % RefMod]
             row  == [m.pt[e] EXCEPT ![v] = <<p, perm>>]
             pt2  == [m.pt EXCEPT ![e] = row]
             n    == Enter(m, e, v, p, perm)
  <1>1. n = [m EXCEPT !.pt = pt2, !.ref = ref2]  BY DEF Enter
  <1>2. ref2 \in [Page -> 0 .. RefMod - 1]
    <2>1. RefMod \in Nat \ {0}  BY WidthAssumption
    <2>2. m.ref \in [Page -> 0 .. RefMod - 1] /\ m.ref[p] \in 0 .. RefMod - 1  BY DEF Memory
    <2>3. (m.ref[p] + 1) % RefMod \in 0 .. RefMod - 1  BY <2>1, <2>2
    <2> QED BY <2>2, <2>3
  <1>3. m.pt[e] \in [VPage -> Entry \cup {NULL}] /\ <<p, perm>> \in Entry  BY DEF Memory, Entry
  <1>4. row \in [VPage -> Entry \cup {NULL}]  BY <1>3
  <1>5. pt2 \in [Env -> [VPage -> Entry \cup {NULL}]]  BY <1>4 DEF Memory
  <1>6. \A q \in Page : ref2[q] = IF q = p THEN (m.ref[p] + 1) % RefMod ELSE m.ref[q]
    BY DEF Memory
  <1>7. ASSUME NEW f \in Env, NEW x \in VPage
        PROVE  pt2[f][x] = IF f = e /\ x = v THEN <<p, perm>> ELSE m.pt[f][x]
    BY <1>3 DEF Memory
  <1> HIDE DEF ref2, row, pt2, n
  <1>8. n \in Memory /\ n.free = m.free /\ n.tlb = m.tlb /\ n.ref = ref2 /\ n.pt = pt2
    BY <1>1, <1>2, <1>5 DEF Memory
  <1> QED BY <1>6, <1>7, <1>8 DEF n

\* An entry for page p may be written at v: there is none, the page is in hand, the table
\* that holds the entry is there, the page is new if it is to be a table, and there is
\* room for one more in its count.
MayEnter(m, as, e, v, p) ==
    /\ Core(m, as) /\ InHand(m, p) /\ as[e] # NULL
    /\ ~Valid(m, e, v)
    /\ v = Self \/ Valid(m, e, TableOf(v))
    /\ v \in Va \/ Uses(m, p) = {}
    /\ Room(m, p)

\* What has become of m when <<p, perm>> is written at v.
Entered(m, n, as, e, v, p, perm) ==
    /\ Core(n, as) /\ n.free = m.free
    /\ \A f \in Env, x \in VPage :
          n.pt[f][x] = IF f = e /\ x = v THEN <<p, perm>> ELSE m.pt[f][x]
    /\ \A q : q # p /\ InHand(m, q) => InHand(n, q)

\* Writing such an entry keeps everything consistent.
LEMMA EnterCore ==
    ASSUME NEW m \in Memory, NEW as \in AsidMap, NEW e \in Env, NEW v \in VPage, NEW p \in Page,
           NEW perm \in Perm, MayEnter(m, as, e, v, p)
    PROVE  Entered(m, Enter(m, e, v, p, perm), as, e, v, p, perm)
  <1> USE DEF MayEnter
  <1> DEFINE n == Enter(m, e, v, p, perm)
  <1>1. m \in Memory /\ RefsOK(m) /\ FreeOK(m) /\ TablesOK(m, as) /\ TlbOK(m, as)  BY DEF Core
  <1>2. p \in Page /\ p \notin Range(m.free) /\ m.ref[p] = Cardinality(Uses(m, p))
        /\ \A x \in Uses(m, p) : x[2] \in Va
    BY DEF InHand
  <1>3. /\ n \in Memory /\ n.free = m.free /\ n.tlb = m.tlb
        /\ \A q \in Page : n.ref[q] = IF q = p THEN (m.ref[p] + 1) % RefMod ELSE m.ref[q]
        /\ \A f \in Env, x \in VPage :
              n.pt[f][x] = IF f = e /\ x = v THEN <<p, perm>> ELSE m.pt[f][x]
    BY <1>1, <1>2, EnterFields
  <1>t. TableOf(v) \in VPage /\ TableOf(Self) = Self  BY TableOfType, LayoutAssumption DEF TableOf, VPage
  <1>n. <<p, perm>> # NULL  BY <1>2, NullAssumption DEF Entry
  <1> HIDE DEF n
  <1>4. n.pt[e][v] = <<p, perm>> /\ m.pt[e][v] = NULL /\ n.pt[e][v][1] = p  BY <1>3 DEF Valid
  <1>5. \A q \in Page : Uses(n, q) \ {<<e, v>>} = Uses(m, q) \ {<<e, v>>}
    <2>1. \A f \in Env, x \in VPage : f # e \/ x # v => n.pt[f][x] = m.pt[f][x]  BY <1>3
    <2>2. ASSUME NEW q \in Page  PROVE Uses(n, q) \ {<<e, v>>} = Uses(m, q) \ {<<e, v>>}
      BY <1>1, <1>3, <2>1, UsesAfterWrite
    <2> QED BY <2>2
  <1>6. \A q \in Page : <<e, v>> \notin Uses(m, q) /\ (<<e, v>> \in Uses(n, q) <=> q = p)
    <2> SUFFICES ASSUME NEW q \in Page
                 PROVE  <<e, v>> \notin Uses(m, q) /\ (<<e, v>> \in Uses(n, q) <=> q = p)
      OBVIOUS
    <2>1. <<e, v>> \in Uses(n, q) <=> n.pt[e][v] # NULL /\ n.pt[e][v][1] = q  BY DEF Uses, Valid, PageOf
    <2>2. <<e, v>> \in Uses(m, q) <=> m.pt[e][v] # NULL /\ m.pt[e][v][1] = q  BY DEF Uses, Valid, PageOf
    <2> QED BY <2>1, <2>2, <1>4, <1>n
  <1>7. Uses(n, p) = Uses(m, p) \cup {<<e, v>>}  BY <1>2, <1>5, <1>6
  <1>8. \A q \in Page : q # p => Uses(n, q) = Uses(m, q)
    <2> SUFFICES ASSUME NEW q \in Page, q # p  PROVE Uses(n, q) = Uses(m, q)  OBVIOUS
    <2>1. <<e, v>> \notin Uses(m, q) /\ <<e, v>> \notin Uses(n, q)  BY <1>6
    <2>2. Uses(n, q) \ {<<e, v>>} = Uses(m, q) \ {<<e, v>>}  BY <1>5
    <2> QED BY <2>1, <2>2
  <1>9. n.ref[p] = Cardinality(Uses(n, p))
    <2>1. Cardinality(Uses(n, p)) = Cardinality(Uses(m, p)) + 1
      BY <1>2, <1>6, <1>7, UsesFinite, FS_AddElement
    <2>2. Cardinality(Uses(m, p)) \in Nat /\ Cardinality(Uses(m, p)) < RefMod - 1 /\ RefMod \in Nat
      BY UsesFinite, WidthAssumption DEF Room
    <2>3. (m.ref[p] + 1) % RefMod = m.ref[p] + 1  BY <1>2, <2>1, <2>2
    <2> QED BY <1>2, <1>3, <2>1, <2>3
  <1>10. RefsOK(n)  BY <1>1, <1>3, <1>8, <1>9 DEF RefsOK
  <1>11. FreeOK(n)
    <2>1. ASSUME NEW q \in Range(n.free)  PROVE n.ref[q] = 0 /\ Uses(n, q) = {}
      <3>1. q \in Range(m.free) /\ q # p  BY <1>2, <1>3
      <3>2. q \in Page  BY <3>1, <1>1 DEF Memory, Range
      <3> QED BY <3>1, <3>2, <1>1, <1>3, <1>8 DEF FreeOK
    <2> QED BY <2>1, <1>1, <1>3 DEF FreeOK
  <1>12. TablesOK(n, as)
    <2> SUFFICES ASSUME NEW f \in Env, NEW x \in VPage, Valid(n, f, x)
                 PROVE  /\ as[f] # NULL /\ Valid(n, f, TableOf(x))
                        /\ x \notin Va => Uses(n, PageOf(n, f, x)) = {<<f, x>>}
      BY DEF TablesOK
    <2>v. \A y \in VPage : Valid(m, f, y) => Valid(n, f, y)  BY <1>3, <1>n DEF Valid
    <2>1. CASE f = e /\ x = v
      <3>1. Valid(n, e, TableOf(v))
        <4>1. CASE v = Self  BY <4>1, <1>t, <2>1
        <4>2. CASE Valid(m, e, TableOf(v))  BY <4>2, <1>t, <2>v, <2>1
        <4> QED BY <4>1, <4>2
      <3>2. ASSUME v \notin Va  PROVE Uses(n, PageOf(n, e, v)) = {<<e, v>>}
        BY <3>2, <1>4, <1>7 DEF PageOf
      <3> QED BY <2>1, <3>1, <3>2
    <2>2. CASE f # e \/ x # v
      <3>1. n.pt[f][x] = m.pt[f][x]  BY <2>2, <1>3
      <3>2. Valid(m, f, x) /\ PageOf(n, f, x) = PageOf(m, f, x)  BY <3>1 DEF Valid, PageOf
      <3>3. /\ as[f] # NULL /\ Valid(m, f, TableOf(x))
            /\ x \notin Va => Uses(m, PageOf(m, f, x)) = {<<f, x>>}
        BY <3>2, <1>1 DEF TablesOK
      <3>4. Valid(n, f, TableOf(x))  BY <3>3, <2>v, TableOfType
      <3>5. ASSUME x \notin Va  PROVE Uses(n, PageOf(n, f, x)) = {<<f, x>>}
        <4>1. <<f, x>> \in Uses(m, PageOf(m, f, x))  BY <3>2, <1>1, PageType
        <4>2. PageOf(m, f, x) # p
          <5>1. ASSUME <<f, x>> \in Uses(m, p)  PROVE FALSE
            <6>1. <<f, x>>[2] \in Va  BY <1>2, <5>1
            <6> QED BY <6>1, <3>5
          <5> QED BY <4>1, <5>1
        <4> QED BY <4>2, <3>2, <3>3, <3>5, <1>1, <1>8, PageType
      <3> QED BY <3>3, <3>4, <3>5
    <2> QED BY <2>1, <2>2
  <1>13. TlbOK(n, as)
    <2> SUFFICES ASSUME NEW a \in Asid, NEW x \in VPage, n.tlb[a][x] \in Entry
                 PROVE  \E f \in Env : as[f] = a /\ n.pt[f][x] = n.tlb[a][x]
      BY DEF TlbOK
    <2>1. PICK f \in Env : as[f] = a /\ m.pt[f][x] = m.tlb[a][x]  BY <1>1, <1>3 DEF TlbOK
    <2>2. n.tlb[a][x] = m.tlb[a][x] /\ m.pt[f][x] # NULL  BY <2>1, <1>3, NullAssumption
    <2>3. n.pt[f][x] = m.pt[f][x]  BY <2>2, <1>3, <1>4
    <2> QED BY <2>1, <2>2, <2>3
  <1>14. ASSUME NEW q, q # p, InHand(m, q)  PROVE InHand(n, q)
    BY <1>14, <1>3, <1>8 DEF InHand
  <1>15. Core(n, as)  BY <1>3, <1>10, <1>11, <1>12, <1>13 DEF Core
  <1> QED BY <1>3, <1>14, <1>15 DEF n, Entered

-----------------------------------------------------------------------------
(* page_remove *)

LEMMA PushFree ==
    ASSUME NEW s \in Seq(Page), NEW q \in Page, q \notin Range(s), IsInjective(s)
    PROVE  LET t == <<q>> \o s
           IN  t \in Seq(Page) /\ IsInjective(t) /\ Range(t) = Range(s) \cup {q}
  <1> DEFINE t == <<q>> \o s
  <1>1. t \in Seq(Page) /\ Len(t) = Len(s) + 1 /\ t[1] = q  OBVIOUS
  <1>2. \A i \in 1 .. Len(s) : t[i + 1] = s[i]  OBVIOUS
  <1>3. \A j \in 2 .. Len(s) + 1 : j - 1 \in 1 .. Len(s) /\ t[j] = s[j - 1]  OBVIOUS
  <1> HIDE DEF t
  <1>4. DOMAIN t = 1 .. Len(s) + 1 /\ DOMAIN s = 1 .. Len(s) /\ Len(s) \in Nat  BY <1>1
  <1>5. IsInjective(t)
    <2>1. ASSUME NEW i \in DOMAIN t, NEW j \in DOMAIN t, t[i] = t[j]  PROVE i = j
      <3>1. \A k \in 2 .. Len(s) + 1 : t[k] # q  BY <1>3, <1>4 DEF Range
      <3>2. CASE i = 1 \/ j = 1  BY <3>1, <3>2, <2>1, <1>1, <1>4
      <3>3. CASE i # 1 /\ j # 1
        <4>1. i \in 2 .. Len(s) + 1 /\ j \in 2 .. Len(s) + 1  BY <3>3, <1>4
        <4>2. s[i - 1] = s[j - 1] /\ i - 1 \in DOMAIN s /\ j - 1 \in DOMAIN s
          BY <4>1, <1>3, <1>4, <2>1
        <4>3. i - 1 = j - 1  BY <4>2 DEF IsInjective
        <4> QED BY <4>1, <4>3
      <3> QED BY <3>2, <3>3
    <2> QED BY <2>1 DEF IsInjective
  <1>6. Range(t) = Range(s) \cup {q}
    <2>1. Range(s) \cup {q} \subseteq Range(t)
      <3>1. \A i \in DOMAIN s : s[i] \in Range(t)  BY <1>2, <1>4 DEF Range
      <3>2. q \in Range(t)  BY <1>1, <1>4 DEF Range
      <3> QED BY <3>1, <3>2 DEF Range
    <2>2. ASSUME NEW j \in DOMAIN t  PROVE t[j] \in Range(s) \cup {q}
      <3>1. CASE j = 1  BY <3>1, <1>1
      <3>2. CASE j # 1  BY <3>2, <1>3, <1>4 DEF Range
      <3> QED BY <3>1, <3>2
    <2> QED BY <2>1, <2>2 DEF Range
  <1> QED BY <1>1, <1>5, <1>6 DEF t

LEMMA PopFree ==
    ASSUME NEW s \in Seq(Page), s # <<>>, IsInjective(s)
    PROVE  /\ Head(s) \in Page /\ Tail(s) \in Seq(Page) /\ IsInjective(Tail(s))
           /\ Head(s) \in Range(s) /\ Range(Tail(s)) \subseteq Range(s)
           /\ Head(s) \notin Range(Tail(s))
  <1> DEFINE t == Tail(s)
  <1>1. /\ Len(s) \in Nat \ {0} /\ t \in Seq(Page) /\ Len(t) = Len(s) - 1
        /\ Head(s) = s[1] /\ Head(s) \in Page
    OBVIOUS
  <1>2. \A i \in 1 .. Len(s) - 1 : t[i] = s[i + 1]  OBVIOUS
  <1> HIDE DEF t
  <1>3. DOMAIN t = 1 .. Len(s) - 1 /\ DOMAIN s = 1 .. Len(s)  BY <1>1
  <1>4. \A i \in DOMAIN t : i + 1 \in DOMAIN s /\ i + 1 # 1 /\ t[i] = s[i + 1]  BY <1>1, <1>2, <1>3
  <1>5. IsInjective(t)
    <2>1. ASSUME NEW i \in DOMAIN t, NEW j \in DOMAIN t, t[i] = t[j]  PROVE i = j
      <3>1. i + 1 = j + 1  BY <2>1, <1>4 DEF IsInjective
      <3> QED BY <3>1, <1>3
    <2> QED BY <2>1 DEF IsInjective
  <1>6. 1 \in DOMAIN s  BY <1>1, <1>3
  <1>7. Head(s) \in Range(s) /\ Range(t) \subseteq Range(s)  BY <1>1, <1>4, <1>6 DEF Range
  <1>8. \A i \in DOMAIN t : t[i] # s[1]  BY <1>4, <1>6 DEF IsInjective
  <1> QED BY <1>1, <1>5, <1>7, <1>8 DEF t, Range

LEMMA RemoveFields ==
    ASSUME NEW m \in Memory, NEW a \in Asid, NEW e \in Env, NEW v \in VPage, Valid(m, e, v),
           m.ref[PageOf(m, e, v)] > 0
    PROVE  LET n == page_remove(m, a, e, v)
               q == PageOf(m, e, v)
           IN  /\ n \in Memory
               /\ \A p \in Page : n.ref[p] = IF p = q THEN m.ref[q] - 1 ELSE m.ref[p]
               /\ n.free = IF m.ref[q] = 1 THEN <<q>> \o m.free ELSE m.free
               /\ \A f \in Env, x \in VPage :
                     n.pt[f][x] = IF f = e /\ x = v THEN NULL ELSE m.pt[f][x]
               /\ \A b \in Asid, x \in VPage :
                     n.tlb[b][x] = IF b = a /\ x \in Pair[v] THEN MISS ELSE m.tlb[b][x]
  <1> DEFINE q    == PageOf(m, e, v)
             ref2 == [m.ref EXCEPT ![q] = m.ref[q] - 1]
             d    == page_decref(m, q)
             row  == [m.pt[e] EXCEPT ![v] = NULL]
             pt2  == [m.pt EXCEPT ![e] = row]
             d2   == [d EXCEPT !.pt = [d.pt EXCEPT ![e] = [d.pt[e] EXCEPT ![v] = NULL]]]
             n    == page_remove(m, a, e, v)
  <1>1. n = tlb_invalidate(d2, a, v)  BY DEF page_remove
  <1>q. q \in Page  BY PageType
  <1>2. ref2 \in [Page -> 0 .. RefMod - 1]
    <2>1. m.ref \in [Page -> 0 .. RefMod - 1] /\ m.ref[q] \in 0 .. RefMod - 1  BY <1>q DEF Memory
    <2>2. m.ref[q] - 1 \in 0 .. RefMod - 1  BY <2>1, WidthAssumption
    <2> QED BY <2>1, <2>2
  <1>3. \A p \in Page : ref2[p] = IF p = q THEN m.ref[q] - 1 ELSE m.ref[p]  BY DEF Memory
  <1>4. row \in [VPage -> Entry \cup {NULL}]  BY DEF Memory
  <1>5. pt2 \in [Env -> [VPage -> Entry \cup {NULL}]]  BY <1>4 DEF Memory
  <1>6. ASSUME NEW f \in Env, NEW x \in VPage
        PROVE  pt2[f][x] = IF f = e /\ x = v THEN NULL ELSE m.pt[f][x]
    BY DEF Memory
  <1>7. m.ref[q] - 1 = 0 <=> m.ref[q] = 1  BY <1>q DEF Memory
  <1>8. /\ d \in Memory /\ d.ref = ref2 /\ d.pt = m.pt /\ d.tlb = m.tlb
        /\ d.free = IF m.ref[q] = 1 THEN <<q>> \o m.free ELSE m.free
    <2> DEFINE r == [m EXCEPT !.ref[q] = m.ref[q] - 1]
    <2>1. r = [m EXCEPT !.ref = ref2]  OBVIOUS
    <2>2. d = IF r.ref[q] = 0 THEN page_free(r, q) ELSE r  BY DEF page_decref
    <2> HIDE DEF r, ref2, d
    <2>3. /\ r \in Memory /\ r.ref = ref2 /\ r.pt = m.pt /\ r.tlb = m.tlb /\ r.free = m.free
      BY <2>1, <1>2 DEF Memory
    <2>4. r.ref[q] = 0 <=> m.ref[q] = 1  BY <2>3, <1>3, <1>q, <1>7
    <2>5. <<q>> \o r.free \in Seq(Page)  BY <2>3, <1>q DEF Memory
    <2>6. /\ page_free(r, q) \in Memory /\ page_free(r, q).ref = ref2
          /\ page_free(r, q).pt = m.pt /\ page_free(r, q).tlb = m.tlb
          /\ page_free(r, q).free = <<q>> \o m.free
      BY <2>3, <2>5 DEF Memory, page_free
    <2> QED BY <2>2, <2>3, <2>4, <2>6
  <1> HIDE DEF ref2, row, d, n, q
  <1>9. d2 = [d EXCEPT !.pt = pt2]  BY <1>8 DEF row
  <1> HIDE DEF pt2, d2
  <1>10. /\ d2 \in Memory /\ d2.ref = ref2 /\ d2.pt = pt2 /\ d2.tlb = m.tlb /\ d2.free = d.free
    BY <1>5, <1>8, <1>9 DEF Memory
  <1>11. /\ n \in Memory /\ n.ref = d2.ref /\ n.free = d2.free /\ n.pt = d2.pt
         /\ \A b \in Asid, x \in VPage :
               n.tlb[b][x] = IF b = a /\ x \in Pair[v] THEN MISS ELSE d2.tlb[b][x]
    BY <1>1, <1>10, InvalidateFields
  <1> QED BY <1>3, <1>6, <1>8, <1>10, <1>11 DEF n, q

\* The entry at v may be taken out: no page hangs on it as its table.
MayRemove(m, as, a, e, v) ==
    /\ Core(m, as) /\ as[e] = a /\ Valid(m, e, v)
    /\ \A x \in VPage : Valid(m, e, x) /\ TableOf(x) = v => x = v

Removed(m, n, as, e, v) ==
    /\ Core(n, as)
    /\ \A f \in Env, x \in VPage :
          n.pt[f][x] = IF f = e /\ x = v THEN NULL ELSE m.pt[f][x]
    /\ \A p : p # PageOf(m, e, v) /\ InHand(m, p) => InHand(n, p) /\ Uses(n, p) = Uses(m, p)

\* Unmapping keeps everything consistent and every other page in hand.
LEMMA RemoveCore ==
    ASSUME NEW m \in Memory, NEW as \in AsidMap, NEW a \in Asid, NEW e \in Env, NEW v \in VPage,
           MayRemove(m, as, a, e, v)
    PROVE  Removed(m, page_remove(m, a, e, v), as, e, v)
  <1> USE DEF MayRemove
  <1> DEFINE n == page_remove(m, a, e, v)
             q == PageOf(m, e, v)
  <1>1. m \in Memory /\ RefsOK(m) /\ FreeOK(m) /\ TablesOK(m, as) /\ TlbOK(m, as)  BY DEF Core
  <1>2. q \in Page /\ <<e, v>> \in Uses(m, q)  BY <1>1, PageType
  <1>3. m.ref[q] = Cardinality(Uses(m, q)) /\ m.ref[q] > 0  BY <1>1, <1>2, UsedExact
  <1>4. q \notin Range(m.free)  BY <1>1, <1>2 DEF FreeOK
  <1>5. /\ n \in Memory
        /\ \A p \in Page : n.ref[p] = IF p = q THEN m.ref[q] - 1 ELSE m.ref[p]
        /\ n.free = IF m.ref[q] = 1 THEN <<q>> \o m.free ELSE m.free
        /\ \A f \in Env, x \in VPage :
              n.pt[f][x] = IF f = e /\ x = v THEN NULL ELSE m.pt[f][x]
        /\ \A b \in Asid, x \in VPage :
              n.tlb[b][x] = IF b = a /\ x \in Pair[v] THEN MISS ELSE m.tlb[b][x]
    BY <1>1, <1>3, RemoveFields
  <1>6. m.pt[e][v] # NULL /\ m.pt[e][v][1] = q  BY DEF Valid, PageOf
  <1> HIDE DEF n, q
  <1>7. \A p \in Page : Uses(n, p) \ {<<e, v>>} = Uses(m, p) \ {<<e, v>>}
    <2>1. \A f \in Env, x \in VPage : f # e \/ x # v => n.pt[f][x] = m.pt[f][x]  BY <1>5
    <2>2. ASSUME NEW p \in Page  PROVE Uses(n, p) \ {<<e, v>>} = Uses(m, p) \ {<<e, v>>}
      BY <1>1, <1>5, <2>1, UsesAfterWrite
    <2> QED BY <2>2
  <1>8. \A p \in Page : <<e, v>> \notin Uses(n, p) /\ (<<e, v>> \in Uses(m, p) <=> p = q)
    <2> SUFFICES ASSUME NEW p \in Page
                 PROVE  <<e, v>> \notin Uses(n, p) /\ (<<e, v>> \in Uses(m, p) <=> p = q)
      OBVIOUS
    <2>1. <<e, v>> \in Uses(n, p) <=> n.pt[e][v] # NULL /\ n.pt[e][v][1] = p
      BY DEF Uses, Valid, PageOf
    <2>2. <<e, v>> \in Uses(m, p) <=> m.pt[e][v] # NULL /\ m.pt[e][v][1] = p
      BY DEF Uses, Valid, PageOf
    <2> QED BY <2>1, <2>2, <1>5, <1>6
  <1>9. Uses(n, q) = Uses(m, q) \ {<<e, v>>}  BY <1>2, <1>7, <1>8
  <1>10. \A p \in Page : p # q => Uses(n, p) = Uses(m, p)
    <2> SUFFICES ASSUME NEW p \in Page, p # q  PROVE Uses(n, p) = Uses(m, p)  OBVIOUS
    <2>1. <<e, v>> \notin Uses(m, p) /\ <<e, v>> \notin Uses(n, p)  BY <1>8
    <2>2. Uses(n, p) \ {<<e, v>>} = Uses(m, p) \ {<<e, v>>}  BY <1>7
    <2> QED BY <2>1, <2>2
  <1>11. n.ref[q] = Cardinality(Uses(n, q)) /\ (m.ref[q] = 1 => Uses(n, q) = {})
    <2>1. Cardinality(Uses(n, q)) = Cardinality(Uses(m, q)) - 1
      BY <1>2, <1>9, UsesFinite, FS_RemoveElement
    <2>2. n.ref[q] = m.ref[q] - 1  BY <1>2, <1>5
    <2>3. m.ref[q] = 1 => Cardinality(Uses(n, q)) = 0  BY <1>3, <2>1
    <2>4. Cardinality(Uses(n, q)) = 0 => Uses(n, q) = {}  BY UsesFinite, FS_EmptySet
    <2> QED BY <1>3, <2>1, <2>2, <2>3, <2>4
  <1>12. RefsOK(n)  BY <1>1, <1>5, <1>10, <1>11 DEF RefsOK
  <1>13. Range(n.free) = IF m.ref[q] = 1 THEN Range(m.free) \cup {q} ELSE Range(m.free)
    <2>1. m.free \in Seq(Page) /\ IsInjective(m.free)  BY <1>1 DEF Memory, FreeOK
    <2> QED BY <2>1, <1>2, <1>4, <1>5, PushFree
  <1>14. FreeOK(n)
    <2>1. m.free \in Seq(Page) /\ IsInjective(m.free)  BY <1>1 DEF Memory, FreeOK
    <2>2. IsInjective(n.free)  BY <2>1, <1>2, <1>4, <1>5, PushFree
    <2>3. ASSUME NEW p \in Range(n.free)  PROVE n.ref[p] = 0 /\ Uses(n, p) = {}
      <3>1. CASE p = q
        <4>1. m.ref[q] = 1  BY <3>1, <1>4, <1>13
        <4> QED BY <3>1, <4>1, <1>2, <1>5, <1>11
      <3>2. CASE p # q
        <4>1. p \in Range(m.free)  BY <3>2, <1>13
        <4>2. p \in Page  BY <4>1, <2>1 DEF Range
        <4> QED BY <3>2, <4>1, <4>2, <1>1, <1>5, <1>10 DEF FreeOK
      <3> QED BY <3>1, <3>2
    <2> QED BY <2>2, <2>3 DEF FreeOK
  <1>15. TablesOK(n, as)
    <2> SUFFICES ASSUME NEW f \in Env, NEW x \in VPage, Valid(n, f, x)
                 PROVE  /\ as[f] # NULL /\ Valid(n, f, TableOf(x))
                        /\ x \notin Va => Uses(n, PageOf(n, f, x)) = {<<f, x>>}
      BY DEF TablesOK
    <2>1. (f # e \/ x # v) /\ n.pt[f][x] = m.pt[f][x]  BY <1>5 DEF Valid
    <2>2. Valid(m, f, x) /\ PageOf(n, f, x) = PageOf(m, f, x)  BY <2>1 DEF Valid, PageOf
    <2>3. /\ as[f] # NULL /\ Valid(m, f, TableOf(x))
          /\ x \notin Va => Uses(m, PageOf(m, f, x)) = {<<f, x>>}
      BY <2>2, <1>1 DEF TablesOK
    <2>4. f # e \/ TableOf(x) # v  BY <2>1, <2>2
    <2>5. Valid(n, f, TableOf(x))
      <3>1. TableOf(x) \in VPage  BY TableOfType
      <3> QED BY <3>1, <2>3, <2>4, <1>5 DEF Valid
    <2>6. ASSUME x \notin Va  PROVE Uses(n, PageOf(n, f, x)) = {<<f, x>>}
      <3>1. PageOf(m, f, x) \in Page /\ <<f, x>> \in Uses(m, PageOf(m, f, x))
        BY <2>2, <1>1, PageType
      <3>2. Uses(m, PageOf(m, f, x)) = {<<f, x>>} /\ <<e, v>> # <<f, x>>  BY <2>1, <2>3, <2>6
      <3>3. PageOf(m, f, x) # q  BY <3>2, <1>2
      <3> QED BY <3>1, <3>2, <3>3, <2>2, <1>10
    <2> QED BY <2>3, <2>5, <2>6
  <1>16. TlbOK(n, as)
    <2> SUFFICES ASSUME NEW b \in Asid, NEW x \in VPage, n.tlb[b][x] \in Entry
                 PROVE  \E f \in Env : as[f] = b /\ n.pt[f][x] = n.tlb[b][x]
      BY DEF TlbOK
    <2>1. ~(b = a /\ x \in Pair[v]) /\ n.tlb[b][x] = m.tlb[b][x]  BY <1>5, NullAssumption
    <2>2. PICK f \in Env : as[f] = b /\ m.pt[f][x] = m.tlb[b][x]  BY <2>1, <1>1 DEF TlbOK
    <2>3. ~(f = e /\ x = v)  BY <2>1, <2>2, LayoutAssumption
    <2>4. n.pt[f][x] = m.pt[f][x]  BY <2>3, <1>5
    <2> QED BY <2>1, <2>2, <2>4
  <1>17. ASSUME NEW p, p # q, InHand(m, p)  PROVE InHand(n, p) /\ Uses(n, p) = Uses(m, p)
    <2>1. p \in Page /\ p \notin Range(m.free)  BY <1>17 DEF InHand
    <2>2. Uses(n, p) = Uses(m, p) /\ n.ref[p] = m.ref[p] /\ p \notin Range(n.free)
      BY <2>1, <1>17, <1>5, <1>10, <1>13
    <2> QED BY <2>2, <1>17 DEF InHand
  <1>18. Core(n, as)  BY <1>5, <1>12, <1>14, <1>15, <1>16 DEF Core
  <1> QED BY <1>5, <1>17, <1>18 DEF n, q, Removed

-----------------------------------------------------------------------------
(* page_alloc, pgdir_walk and page_insert *)

\* page_alloc puts an unused page in hand and leaves every other page in hand there.
LEMMA TakenCore ==
    ASSUME NEW m \in Memory, NEW as \in AsidMap, Core(m, as), m.free # <<>>
    PROVE  LET n == Taken(m)
           IN  /\ Core(n, as) /\ n.pt = m.pt /\ n.tlb = m.tlb /\ n.ref = m.ref
               /\ InHand(n, First(m)) /\ Uses(n, First(m)) = {}
               /\ \A p : InHand(m, p) => InHand(n, p) /\ p # First(m)
  <1> DEFINE n == Taken(m)
             p1 == First(m)
  <1>1. m \in Memory /\ RefsOK(m) /\ FreeOK(m) /\ TablesOK(m, as) /\ TlbOK(m, as)  BY DEF Core
  <1>2. m.free \in Seq(Page) /\ IsInjective(m.free)  BY <1>1 DEF Memory, FreeOK
  <1>3. /\ p1 \in Page /\ Tail(m.free) \in Seq(Page) /\ IsInjective(Tail(m.free))
        /\ p1 \in Range(m.free) /\ Range(Tail(m.free)) \subseteq Range(m.free)
        /\ p1 \notin Range(Tail(m.free))
    BY <1>2, PopFree DEF First
  <1>4. /\ n \in Memory /\ n.free = Tail(m.free) /\ n.pt = m.pt /\ n.tlb = m.tlb /\ n.ref = m.ref
    BY <1>1, <1>3 DEF Memory, Taken
  <1> HIDE DEF n, p1
  <1>5. \A p : Uses(n, p) = Uses(m, p)  BY <1>4 DEF Uses, Valid, PageOf
  <1>6. RefsOK(n)  BY <1>1, <1>4, <1>5 DEF RefsOK
  <1>7. FreeOK(n)
    <2>1. ASSUME NEW p \in Range(n.free)  PROVE n.ref[p] = 0 /\ Uses(n, p) = {}
      <3>1. p \in Range(m.free)  BY <1>3, <1>4
      <3> QED BY <3>1, <1>1, <1>4, <1>5 DEF FreeOK
    <2> QED BY <2>1, <1>3, <1>4 DEF FreeOK
  <1>8. TablesOK(n, as)
    <2> SUFFICES ASSUME NEW f \in Env, NEW x \in VPage, Valid(n, f, x)
                 PROVE  /\ as[f] # NULL /\ Valid(n, f, TableOf(x))
                        /\ x \notin Va => Uses(n, PageOf(n, f, x)) = {<<f, x>>}
      BY DEF TablesOK
    <2>1. Valid(m, f, x)  BY <1>4 DEF Valid
    <2>2. /\ as[f] # NULL /\ Valid(m, f, TableOf(x))
          /\ x \notin Va => Uses(m, PageOf(m, f, x)) = {<<f, x>>}
      BY <2>1, <1>1 DEF TablesOK
    <2>3. PageOf(n, f, x) = PageOf(m, f, x) /\ Valid(n, f, TableOf(x))  BY <2>2, <1>4 DEF PageOf, Valid
    <2> QED BY <2>2, <2>3, <1>5
  <1>9. TlbOK(n, as)
    <2> SUFFICES ASSUME NEW a \in Asid, NEW x \in VPage, n.tlb[a][x] \in Entry
                 PROVE  \E f \in Env : as[f] = a /\ n.pt[f][x] = n.tlb[a][x]
      BY DEF TlbOK
    <2>1. m.tlb[a][x] \in Entry  BY <1>4
    <2>2. \E f \in Env : as[f] = a /\ m.pt[f][x] = m.tlb[a][x]  BY <2>1, <1>1 DEF TlbOK
    <2> QED BY <2>2, <1>4
  <1>10. Core(n, as)  BY <1>4, <1>6, <1>7, <1>8, <1>9 DEF Core
  <1>11. m.ref[p1] = 0 /\ Uses(m, p1) = {}  BY <1>1, <1>3 DEF FreeOK
  <1>12. InHand(n, p1) /\ Uses(n, p1) = {}
    <2>1. Uses(n, p1) = {} /\ n.ref[p1] = 0  BY <1>4, <1>5, <1>11
    <2>2. Cardinality(Uses(n, p1)) = 0  BY <2>1, FS_EmptySet
    <2> QED BY <2>1, <2>2, <1>3, <1>4 DEF InHand
  <1>13. ASSUME NEW p, InHand(m, p)  PROVE InHand(n, p) /\ p # p1
    <2>1. p \notin Range(m.free)  BY <1>13 DEF InHand
    <2>2. p \notin Range(n.free) /\ p # p1  BY <2>1, <1>3, <1>4
    <2>3. Uses(n, p) = Uses(m, p)  BY <1>5
    <2> QED BY <2>2, <2>3, <1>4, <1>13 DEF InHand
  <1> QED BY <1>4, <1>10, <1>12, <1>13 DEF n, p1

Walked(m, n, as, e, v) ==
    /\ Core(n, as) /\ Valid(n, e, TableOf(v))
    /\ \A f \in Env, x \in VPage : x # TableOf(v) \/ Valid(m, f, x) => n.pt[f][x] = m.pt[f][x]
    /\ \A p : InHand(m, p) => InHand(n, p) /\ Uses(n, p) = Uses(m, p)

\* pgdir_walk makes the page table present and changes nothing that was mapped.
LEMMA WalkCore ==
    ASSUME NEW m \in Memory, NEW as \in AsidMap, NEW e \in Env, NEW v \in Va \cup Table,
           Core(m, as), as[e] # NULL, Valid(m, e, Self), ~WalkFails(m, e, v)
    PROVE  Walked(m, pgdir_walk(m, e, v), as, e, v)
  <1> DEFINE t == TableOf(v)
             n == pgdir_walk(m, e, v)
             k == Taken(m)
             p1 == First(m)
  <1>1. CASE Valid(m, e, t)
    <2>1. n = m  BY <1>1 DEF pgdir_walk
    <2> HIDE DEF n
    <2>2. Core(n, as) /\ Valid(n, e, TableOf(v))  BY <2>1, <1>1
    <2> QED BY <2>1, <2>2 DEF n, Walked
  <1>2. CASE ~Valid(m, e, t)
    <2>1. n = Enter(k, e, t, p1, "R") /\ m.free # <<>>  BY <1>2 DEF pgdir_walk, WalkFails
    <2>2. t \in Table /\ t \in VPage /\ t \notin Va /\ TableOf(t) = Self
      BY <1>2, LayoutAssumption DEF TableOf, VPage
    <2>3. /\ Core(k, as) /\ k.pt = m.pt /\ k.ref = m.ref
          /\ InHand(k, p1) /\ Uses(k, p1) = {}
          /\ \A p : InHand(m, p) => InHand(k, p) /\ p # p1
      BY <2>1, TakenCore
    <2> HIDE DEF n, k, p1, t
    <2>4. ~Valid(k, e, t) /\ Valid(k, e, TableOf(t))  BY <1>2, <2>2, <2>3 DEF Valid
    <2>5. "R" \in Perm  BY DEF Perm
    <2>6. /\ Core(n, as)
          /\ \A f \in Env, x \in VPage :
                n.pt[f][x] = IF f = e /\ x = t THEN <<p1, "R">> ELSE k.pt[f][x]
          /\ \A q : q # p1 /\ InHand(k, q) => InHand(n, q)
      <3>1. t = Self \/ Valid(k, e, TableOf(t))  BY <2>4
      <3>2. t \in Va \/ Uses(k, p1) = {}  BY <2>3
      <3>3. Core(k, as) /\ InHand(k, p1)  BY <2>3
      <3>4. p1 \in Page /\ k \in Memory  BY <2>3 DEF InHand, Core
      <3>5. MayEnter(k, as, e, t, p1)  BY <2>2, <2>3, <2>4, <3>1, <3>2, <3>3, RoomForNew DEF MayEnter
      <3>6. Entered(k, n, as, e, t, p1, "R")  BY <2>1, <2>2, <2>5, <3>4, <3>5, EnterCore
      <3> QED BY <3>6 DEF Entered
    <2>7. <<p1, "R">> # NULL
      <3>1. p1 \in Page  BY <2>3 DEF InHand
      <3> QED BY <3>1, <2>5, NullAssumption DEF Entry
    <2>8. Valid(n, e, t)  BY <2>2, <2>6, <2>7 DEF Valid
    <2>9. ASSUME NEW f \in Env, NEW x \in VPage, x # t \/ Valid(m, f, x)
          PROVE  n.pt[f][x] = m.pt[f][x]
      <3>1. ~(f = e /\ x = t)  BY <2>9, <1>2
      <3> QED BY <3>1, <2>3, <2>6
    <2>10. ASSUME NEW p, InHand(m, p)  PROVE InHand(n, p) /\ Uses(n, p) = Uses(m, p)
      <3>1. InHand(k, p) /\ p # p1  BY <2>3, <2>10
      <3>2. InHand(n, p)  BY <3>1, <2>6
      <3>3. ASSUME NEW f \in Env, NEW x \in VPage
            PROVE  /\ Valid(n, f, x) /\ PageOf(n, f, x) = p
                   <=> Valid(m, f, x) /\ PageOf(m, f, x) = p
        <4>1. CASE f = e /\ x = t
          <5>1. n.pt[f][x] = <<p1, "R">> /\ ~Valid(m, f, x)  BY <4>1, <2>6, <1>2
          <5> QED BY <5>1, <3>1 DEF PageOf
        <4>2. CASE ~(f = e /\ x = t)
          <5>1. n.pt[f][x] = m.pt[f][x]  BY <4>2, <2>3, <2>6
          <5> QED BY <5>1 DEF Valid, PageOf
        <4> QED BY <4>1, <4>2
      <3>4. Uses(n, p) = Uses(m, p)  BY <3>3 DEF Uses
      <3> QED BY <3>2, <3>4
    <2> QED BY <2>6, <2>8, <2>9, <2>10 DEF n, t, Walked
  <1> QED BY <1>1, <1>2

\* m with another permission for the page that is mapped at v already.
Reperm(m, a, e, p, v, perm) == [tlb_invalidate(m, a, v) EXCEPT !.pt[e][v] = <<p, perm>>]

Repermed(m, n, as, e, p, v, perm) ==
    /\ Core(n, as)
    /\ \A f \in Env, x \in VPage :
          n.pt[f][x] = IF f = e /\ x = v THEN <<p, perm>> ELSE m.pt[f][x]

\* Entering the page that is there already changes its permission and nothing else.
LEMMA RepermCore ==
    ASSUME NEW m \in Memory, NEW as \in AsidMap, NEW a \in Asid, NEW e \in Env, NEW v \in VPage,
           NEW p \in Page, NEW perm \in Perm, Core(m, as), as[e] = a, Same(m, e, p, v)
    PROVE  Repermed(m, Reperm(m, a, e, p, v, perm), as, e, p, v, perm)
  <1> DEFINE k == tlb_invalidate(m, a, v)
             row == [k.pt[e] EXCEPT ![v] = <<p, perm>>]
             pt2 == [k.pt EXCEPT ![e] = row]
             n == Reperm(m, a, e, p, v, perm)
  <1>1. n = [k EXCEPT !.pt = pt2]  BY DEF Reperm
  <1>2. /\ k \in Memory /\ k.ref = m.ref /\ k.free = m.free /\ k.pt = m.pt
        /\ \A b \in Asid, x \in VPage :
              k.tlb[b][x] = IF b = a /\ x \in Pair[v] THEN MISS ELSE m.tlb[b][x]
    BY InvalidateFields
  <1> HIDE DEF k
  <1>3. row \in [VPage -> Entry \cup {NULL}]  BY <1>2 DEF Memory, Entry
  <1>4. pt2 \in [Env -> [VPage -> Entry \cup {NULL}]]  BY <1>2, <1>3 DEF Memory
  <1>5. ASSUME NEW f \in Env, NEW x \in VPage
        PROVE  pt2[f][x] = IF f = e /\ x = v THEN <<p, perm>> ELSE m.pt[f][x]
    BY <1>2 DEF Memory
  <1> HIDE DEF row, pt2, n
  <1>6. /\ n \in Memory /\ n.ref = m.ref /\ n.free = m.free /\ n.tlb = k.tlb
        /\ \A f \in Env, x \in VPage :
              n.pt[f][x] = IF f = e /\ x = v THEN <<p, perm>> ELSE m.pt[f][x]
    BY <1>1, <1>2, <1>4, <1>5 DEF Memory
  <1>7. RefsOK(m) /\ FreeOK(m) /\ TablesOK(m, as) /\ TlbOK(m, as)  BY DEF Core
  <1>8. /\ m.pt[e][v] # NULL /\ m.pt[e][v][1] = p
        /\ n.pt[e][v] = <<p, perm>> /\ n.pt[e][v] # NULL /\ n.pt[e][v][1] = p
    BY <1>6, NullAssumption DEF Same, Valid, PageOf, Entry
  <1>9. \A f \in Env, x \in VPage : /\ Valid(n, f, x) <=> Valid(m, f, x)
                                    /\ PageOf(n, f, x) = PageOf(m, f, x)
    BY <1>6, <1>8 DEF Valid, PageOf
  <1>10. \A q : Uses(n, q) = Uses(m, q)  BY <1>9 DEF Uses
  <1>11. RefsOK(n) /\ FreeOK(n)  BY <1>6, <1>7, <1>10 DEF RefsOK, FreeOK
  <1>12. TablesOK(n, as)
    <2> SUFFICES ASSUME NEW f \in Env, NEW x \in VPage, Valid(n, f, x)
                 PROVE  /\ as[f] # NULL /\ Valid(n, f, TableOf(x))
                        /\ x \notin Va => Uses(n, PageOf(n, f, x)) = {<<f, x>>}
      BY DEF TablesOK
    <2>1. Valid(m, f, x) /\ TableOf(x) \in VPage  BY <1>9, TableOfType
    <2>2. /\ as[f] # NULL /\ Valid(m, f, TableOf(x))
          /\ x \notin Va => Uses(m, PageOf(m, f, x)) = {<<f, x>>}
      BY <2>1, <1>7 DEF TablesOK
    <2> QED BY <2>1, <2>2, <1>9, <1>10
  <1>13. TlbOK(n, as)
    <2> SUFFICES ASSUME NEW b \in Asid, NEW x \in VPage, n.tlb[b][x] \in Entry
                 PROVE  \E f \in Env : as[f] = b /\ n.pt[f][x] = n.tlb[b][x]
      BY DEF TlbOK
    <2>1. ~(b = a /\ x \in Pair[v]) /\ n.tlb[b][x] = m.tlb[b][x]
      BY <1>2, <1>6, NullAssumption
    <2>2. PICK f \in Env : as[f] = b /\ m.pt[f][x] = m.tlb[b][x]  BY <2>1, <1>7 DEF TlbOK
    <2>3. ~(f = e /\ x = v)  BY <2>1, <2>2, LayoutAssumption
    <2> QED BY <2>1, <2>2, <2>3, <1>6
  <1>14. Repermed(m, n, as, e, p, v, perm)  BY <1>6, <1>11, <1>12, <1>13 DEF Core, Repermed
  <1> QED BY <1>14 DEF n

\* Page p may be mapped at v with page_insert; as a table only if it has no other use.
MayInsert(m, as, a, e, p, v) ==
    /\ Core(m, as) /\ as[e] = a /\ Valid(m, e, Self) /\ InHand(m, p) /\ Room(m, p)
    /\ v \in Va \/ (v \in Table /\ Uses(m, p) = {} /\ ~Valid(m, e, v))

\* What has become of m in page_insert, whether it succeeded or not.
Inserted(m, n, as, e, v) ==
    /\ n \in Memory /\ Core(n, as)
    /\ \A f \in Env, x \in VPage :
          (f # e \/ x # v) /\ Valid(m, f, x) => n.pt[f][x] = m.pt[f][x]
    /\ Valid(m, e, v) => Valid(n, e, v)

\* page_insert keeps everything consistent and every other mapping, and leaves a virtual
\* page that was mapped mapped: the page table is there, so that pgdir_walk cannot fail.
LEMMA InsertCore ==
    ASSUME NEW m \in Memory, NEW as \in AsidMap, NEW a \in Asid, NEW e \in Env,
           NEW v \in Va \cup Table, NEW p \in Page, NEW perm \in Perm,
           MayInsert(m, as, a, e, p, v)
    PROVE  Inserted(m, page_insert(m, a, e, p, v, perm), as, e, v)
  <1> DEFINE k1 == page_remove(m, a, e, v)
             k2 == tlb_invalidate(k1, a, v)
             k3 == pgdir_walk(k2, e, v)
             n  == page_insert(m, a, e, p, v, perm)
  <1>1. /\ Core(m, as) /\ as[e] = a /\ Valid(m, e, Self) /\ InHand(m, p) /\ Room(m, p)
        /\ v \in Va \/ (v \in Table /\ Uses(m, p) = {} /\ ~Valid(m, e, v))
        /\ v \in VPage /\ Self \in VPage /\ as[e] # NULL
    BY NullAssumption DEF MayInsert, VPage
  <1>2. TableOf(v) \in VPage /\ TableOf(v) # v /\ v # Self
    BY LayoutAssumption DEF TableOf, VPage
  <1>3. <<p, perm>> # NULL  BY NullAssumption DEF Entry
  <1>4. CASE Same(m, e, p, v)
    <2> DEFINE n2 == Reperm(m, a, e, p, v, perm)
    <2>0. Repermed(m, n2, as, e, p, v, perm)  BY <1>1, <1>4, RepermCore
    <2>2. n = n2  BY <1>4 DEF page_insert, Reperm
    <2> HIDE DEF n2, n
    <2>1. /\ Core(n2, as)
          /\ \A f \in Env, x \in VPage :
                n2.pt[f][x] = IF f = e /\ x = v THEN <<p, perm>> ELSE m.pt[f][x]
      BY <2>0 DEF Repermed
    <2>3. n \in Memory /\ Valid(n, e, v)  BY <2>1, <2>2, <1>1, <1>3 DEF Core, Valid
    <2>4. Inserted(m, n, as, e, v)  BY <2>1, <2>2, <2>3 DEF Inserted
    <2> QED BY <2>4 DEF n
  <1>5. CASE ~Same(m, e, p, v)
    <2>1. n = IF WalkFails(k2, e, v) THEN k2 ELSE Enter(k3, e, v, p, perm)
      BY <1>5 DEF page_insert
    <2>2. /\ k1 \in Memory /\ Core(k1, as) /\ InHand(k1, p) /\ ~Valid(k1, e, v)
          /\ Uses(k1, p) = Uses(m, p)
          /\ \A f \in Env, x \in VPage : f # e \/ x # v => k1.pt[f][x] = m.pt[f][x]
          /\ Valid(m, e, v) => Valid(k1, e, TableOf(v))
          /\ v \in Va \/ Uses(k1, p) = {}
      <3>1. CASE ~Valid(m, e, v)
        <4>1. k1 = m  BY <3>1 DEF page_remove
        <4> HIDE DEF k1
        <4> QED BY <4>1, <3>1, <1>1
      <3>2. CASE Valid(m, e, v)
        <4>0. v \in Va  BY <3>2, <1>1
        <4>1. \A x \in VPage : TableOf(x) # v
          BY <4>0, LayoutAssumption DEF TableOf
        <4>2. MayRemove(m, as, a, e, v)  BY <4>1, <3>2, <1>1 DEF MayRemove
        <4>3. Removed(m, k1, as, e, v)  BY <4>2, <1>1, RemoveCore
        <4> HIDE DEF k1
        <4>4. p # PageOf(m, e, v)  BY <3>2, <1>5 DEF Same
        <4>5. Core(k1, as) /\ InHand(k1, p) /\ k1 \in Memory /\ Uses(k1, p) = Uses(m, p)
          BY <4>3, <4>4, <1>1 DEF Removed, Core
        <4>6. \A f \in Env, x \in VPage :
                 k1.pt[f][x] = IF f = e /\ x = v THEN NULL ELSE m.pt[f][x]
          BY <4>3 DEF Removed
        <4>7. Valid(m, e, TableOf(v))  BY <3>2, <1>1 DEF Core, TablesOK
        <4>8. ~Valid(k1, e, v) /\ Valid(k1, e, TableOf(v))
          BY <4>6, <4>7, <1>1, <1>2 DEF Valid
        <4> QED BY <4>0, <4>5, <4>6, <4>8
      <3> QED BY <3>1, <3>2
    <2> HIDE DEF k1
    <2>3. /\ k2 \in Memory /\ Core(k2, as) /\ k2.pt = k1.pt /\ InHand(k2, p)
          /\ Uses(k2, p) = Uses(k1, p)
      <3>1. Invalidated(k1, k2, as)  BY <2>2, <1>1, InvalidateCore
      <3> HIDE DEF k2
      <3> QED BY <3>1, <2>2 DEF Invalidated
    <2> HIDE DEF k2
    <2>4. /\ \A f \in Env, x \in VPage : f # e \/ x # v => k2.pt[f][x] = m.pt[f][x]
          /\ ~Valid(k2, e, v) /\ Valid(k2, e, Self)
          /\ Valid(m, e, v) => Valid(k2, e, TableOf(v))
          /\ v \in Va \/ Uses(k2, p) = {}
      BY <2>2, <2>3, <1>1, <1>2 DEF Valid
    <2>5. CASE WalkFails(k2, e, v)
      <3>1. n = k2  BY <2>1, <2>5
      <3>2. ~Valid(m, e, v)  BY <2>4, <2>5 DEF WalkFails
      <3>3. Inserted(m, k2, as, e, v)  BY <3>2, <2>3, <2>4 DEF Inserted
      <3> QED BY <3>1, <3>3
    <2>6. CASE ~WalkFails(k2, e, v)
      <3>1. n = Enter(k3, e, v, p, perm)  BY <2>1, <2>6
      <3>2. Walked(k2, k3, as, e, v)  BY <2>3, <2>4, <2>6, <1>1, WalkCore
      <3> HIDE DEF k3, n
      <3>3. k3 \in Memory /\ Core(k3, as) /\ InHand(k3, p) /\ Valid(k3, e, TableOf(v))
        BY <3>2, <2>3 DEF Walked, Core
      <3>4. \A f \in Env, x \in VPage : x # TableOf(v) \/ Valid(k2, f, x) => k3.pt[f][x] = k2.pt[f][x]
        BY <3>2 DEF Walked
      <3>5. v \in Va \/ Uses(k3, p) = {}  BY <3>2, <2>3, <2>4 DEF Walked
      <3>6. ~Valid(k3, e, v)  BY <3>4, <2>4, <1>1, <1>2 DEF Valid
      <3>r. Room(k3, p)
        <4>1. Uses(k3, p) = Uses(m, p)  BY <3>2, <2>2, <2>3 DEF Walked
        <4> QED BY <4>1, <1>1 DEF Room
      <3>7. MayEnter(k3, as, e, v, p)  BY <3>3, <3>5, <3>6, <3>r, <1>1 DEF MayEnter
      <3>8. Entered(k3, n, as, e, v, p, perm)  BY <3>1, <3>3, <3>7, <1>1, EnterCore
      <3>9. \A f \in Env, x \in VPage :
               n.pt[f][x] = IF f = e /\ x = v THEN <<p, perm>> ELSE k3.pt[f][x]
        BY <3>8 DEF Entered
      <3>10. Core(n, as) /\ n \in Memory  BY <3>8 DEF Entered, Core
      <3>11. ASSUME NEW f \in Env, NEW x \in VPage, f # e \/ x # v, Valid(m, f, x)
             PROVE  n.pt[f][x] = m.pt[f][x]
        <4>1. k2.pt[f][x] = m.pt[f][x] /\ Valid(k2, f, x)  BY <3>11, <2>4 DEF Valid
        <4> QED BY <4>1, <3>4, <3>9, <3>11
      <3>12. Valid(n, e, v)  BY <3>9, <1>1, <1>3 DEF Valid
      <3>13. Inserted(m, n, as, e, v)  BY <3>10, <3>11, <3>12 DEF Inserted
      <3> QED BY <3>13 DEF n
    <2> QED BY <2>5, <2>6
  <1> QED BY <1>4, <1>5

\* page_alloc followed by page_insert.
LEMMA AllocCore ==
    ASSUME NEW m \in Memory, NEW as \in AsidMap, NEW a \in Asid, NEW e \in Env,
           NEW v \in Va \cup Table, NEW perm \in Perm, Core(m, as), as[e] = a,
           Valid(m, e, Self), m.free # <<>>, v \in Va \/ ~Valid(m, e, v)
    PROVE  Inserted(m, AllocInsert(m, a, e, v, perm), as, e, v)
  <1> DEFINE k == Taken(m)
             p == First(m)
             n == AllocInsert(m, a, e, v, perm)
  <1>1. n = page_insert(k, a, e, p, v, perm)  BY DEF AllocInsert
  <1>2. /\ Core(k, as) /\ k.pt = m.pt /\ InHand(k, p) /\ Uses(k, p) = {}
    BY TakenCore
  <1> HIDE DEF k, p, n
  <1>3. \A f, x : Valid(k, f, x) = Valid(m, f, x)  BY <1>2 DEF Valid
  <1>4. k \in Memory /\ p \in Page  BY <1>2 DEF Core, InHand
  <1>5. v \in Va \/ (v \in Table /\ Uses(k, p) = {} /\ ~Valid(k, e, v))  BY <1>2, <1>3
  <1>6. MayInsert(k, as, a, e, p, v)  BY <1>2, <1>3, <1>5, RoomForNew DEF MayInsert
  <1>7. Inserted(k, n, as, e, v)  BY <1>1, <1>4, <1>6, InsertCore
  <1>8. Inserted(m, n, as, e, v)  BY <1>7, <1>2, <1>3 DEF Inserted
  <1> QED BY <1>8 DEF n

-----------------------------------------------------------------------------
(* The TLB refill *)

\* The refill copies entries of the env that owns the address space id.
LEMMA FilledCore ==
    ASSUME NEW m \in Memory, NEW as \in AsidMap, NEW a \in Asid, NEW e \in Env, NEW v \in VPage,
           Core(m, as), as[e] = a
    PROVE  Invalidated(m, Filled(m, a, e, v), as)
  <1> DEFINE row == [x \in VPage |-> IF x \in Pair[v] THEN m.pt[e][x] ELSE m.tlb[a][x]]
             tlb2 == [m.tlb EXCEPT ![a] = row]
             n == Filled(m, a, e, v)
  <1>1. n = [m EXCEPT !.tlb = tlb2]  BY DEF Filled
  <1>2. row \in [VPage -> Entry \cup {NULL, MISS}]  BY DEF Memory
  <1>3. tlb2 \in [Asid -> [VPage -> Entry \cup {NULL, MISS}]]  BY <1>2 DEF Memory
  <1>4. ASSUME NEW b \in Asid, NEW x \in VPage
        PROVE  tlb2[b][x] = IF b = a /\ x \in Pair[v] THEN m.pt[e][x] ELSE m.tlb[b][x]
    BY DEF Memory
  <1> HIDE DEF row, tlb2, n
  <1>5. n \in Memory /\ n.ref = m.ref /\ n.free = m.free /\ n.pt = m.pt /\ n.tlb = tlb2
    BY <1>1, <1>3 DEF Memory
  <1>6. RefsOK(m) /\ FreeOK(m) /\ TablesOK(m, as) /\ TlbOK(m, as)  BY DEF Core
  <1>7. \A p : Uses(n, p) = Uses(m, p)  BY <1>5 DEF Uses, Valid, PageOf
  <1>8. RefsOK(n) /\ FreeOK(n)  BY <1>5, <1>6, <1>7 DEF RefsOK, FreeOK
  <1>9. TablesOK(n, as)
    <2> SUFFICES ASSUME NEW f \in Env, NEW x \in VPage, Valid(n, f, x)
                 PROVE  /\ as[f] # NULL /\ Valid(n, f, TableOf(x))
                        /\ x \notin Va => Uses(n, PageOf(n, f, x)) = {<<f, x>>}
      BY DEF TablesOK
    <2>1. Valid(m, f, x) /\ PageOf(n, f, x) = PageOf(m, f, x)  BY <1>5 DEF Valid, PageOf
    <2>2. /\ as[f] # NULL /\ Valid(m, f, TableOf(x))
          /\ x \notin Va => Uses(m, PageOf(m, f, x)) = {<<f, x>>}
      BY <2>1, <1>6 DEF TablesOK
    <2>3. Valid(n, f, TableOf(x))  BY <2>2, <1>5 DEF Valid
    <2> QED BY <2>1, <2>2, <2>3, <1>7
  <1>10. TlbOK(n, as)
    <2> SUFFICES ASSUME NEW b \in Asid, NEW x \in VPage, n.tlb[b][x] \in Entry
                 PROVE  \E f \in Env : as[f] = b /\ n.pt[f][x] = n.tlb[b][x]
      BY DEF TlbOK
    <2>1. CASE b = a /\ x \in Pair[v]
      <3>1. n.pt[e][x] = n.tlb[b][x]  BY <2>1, <1>4, <1>5
      <3> QED BY <2>1, <3>1
    <2>2. CASE ~(b = a /\ x \in Pair[v])
      <3>1. n.tlb[b][x] = m.tlb[b][x]  BY <2>2, <1>4, <1>5
      <3>2. \E f \in Env : as[f] = b /\ m.pt[f][x] = m.tlb[b][x]  BY <3>1, <1>6 DEF TlbOK
      <3> QED BY <3>1, <3>2, <1>5
    <2> QED BY <2>1, <2>2
  <1>11. \A p : InHand(m, p) => InHand(n, p)  BY <1>5, <1>7 DEF InHand
  <1>12. Invalidated(m, n, as)  BY <1>5, <1>7, <1>8, <1>9, <1>10, <1>11 DEF Core, Invalidated
  <1> QED BY <1>12 DEF n

-----------------------------------------------------------------------------
(* Creating and destroying envs *)

\* An env without an address space id has no entries, so that it may get any id.
LEMMA AsidGrow ==
    ASSUME NEW m \in Memory, NEW as \in AsidMap, NEW e \in Env, NEW a \in Asid,
           Core(m, as), as[e] = NULL
    PROVE  /\ [as EXCEPT ![e] = a] \in AsidMap /\ Core(m, [as EXCEPT ![e] = a])
           /\ \A v \in VPage : ~Valid(m, e, v)
  <1> DEFINE as2 == [as EXCEPT ![e] = a]
  <1>1. as2 \in AsidMap /\ \A f \in Env : as2[f] = IF f = e THEN a ELSE as[f]  BY DEF AsidMap
  <1> HIDE DEF as2
  <1>2. TablesOK(m, as) /\ TlbOK(m, as)  BY DEF Core
  <1>3. \A v \in VPage : ~Valid(m, e, v)  BY <1>2 DEF TablesOK
  <1>4. TablesOK(m, as2)
    <2> SUFFICES ASSUME NEW f \in Env, NEW x \in VPage, Valid(m, f, x)
                 PROVE  /\ as2[f] # NULL /\ Valid(m, f, TableOf(x))
                        /\ x \notin Va => Uses(m, PageOf(m, f, x)) = {<<f, x>>}
      BY DEF TablesOK
    <2>1. as2[f] = as[f]  BY <1>1, <1>3
    <2> QED BY <2>1, <1>2 DEF TablesOK
  <1>5. TlbOK(m, as2)
    <2> SUFFICES ASSUME NEW b \in Asid, NEW x \in VPage, m.tlb[b][x] \in Entry
                 PROVE  \E f \in Env : as2[f] = b /\ m.pt[f][x] = m.tlb[b][x]
      BY DEF TlbOK
    <2>1. PICK f \in Env : as[f] = b /\ m.pt[f][x] = m.tlb[b][x]  BY <1>2 DEF TlbOK
    <2>2. f # e  BY <2>1, NullAssumption
    <2> QED BY <2>1, <2>2, <1>1
  <1> QED BY <1>1, <1>3, <1>4, <1>5 DEF Core, as2

\* env_setup_vm: the directory is entered in itself.
LEMMA DirectoryCore ==
    ASSUME NEW m \in Memory, NEW as \in AsidMap, NEW e \in Env,
           Core(m, as), as[e] # NULL, ~Valid(m, e, Self), m.free # <<>>
    PROVE  LET n == Enter(Taken(m), e, Self, First(m), "R")
           IN  /\ n \in Memory /\ Core(n, as) /\ Valid(n, e, Self)
               /\ \A f \in Env : Valid(m, f, Self) => Valid(n, f, Self)
  <1> DEFINE k == Taken(m)
             p == First(m)
             n == Enter(k, e, Self, p, "R")
  <1>1. Core(k, as) /\ k.pt = m.pt /\ InHand(k, p) /\ Uses(k, p) = {}  BY TakenCore
  <1> HIDE DEF k, p
  <1>2. k \in Memory /\ p \in Page /\ "R" \in Perm /\ Self \in VPage
    BY <1>1 DEF Core, InHand, Perm, VPage
  <1>3. MayEnter(k, as, e, Self, p)  BY <1>1, RoomForNew DEF MayEnter, Valid
  <1>4. Entered(k, n, as, e, Self, p, "R")  BY <1>2, <1>3, EnterCore
  <1> HIDE DEF n
  <1>5. /\ Core(n, as) /\ n \in Memory
        /\ \A f \in Env, x \in VPage :
              n.pt[f][x] = IF f = e /\ x = Self THEN <<p, "R">> ELSE k.pt[f][x]
    BY <1>4 DEF Entered, Core
  <1>6. <<p, "R">> # NULL  BY <1>2, NullAssumption DEF Entry
  <1>7. Valid(n, e, Self)  BY <1>2, <1>5, <1>6 DEF Valid
  <1>8. ASSUME NEW f \in Env, Valid(m, f, Self)  PROVE Valid(n, f, Self)
    BY <1>1, <1>2, <1>5, <1>6, <1>8 DEF Valid
  <1> QED BY <1>5, <1>7, <1>8 DEF n, k, p

\* sys_exofork without an ASID: the page is lost, with a count of one.
LEMMA LostCore ==
    ASSUME NEW m \in Memory, NEW as \in AsidMap, Core(m, as), m.free # <<>>
    PROVE  LET n == [Taken(m) EXCEPT !.ref[First(m)] = (m.ref[First(m)] + 1) % RefMod]
           IN  n \in Memory /\ Core(n, as) /\ n.pt = m.pt
  <1> DEFINE k == Taken(m)
             p == First(m)
             ref2 == [k.ref EXCEPT ![p] = 1]
             n == [k EXCEPT !.ref[p] = (m.ref[p] + 1) % RefMod]
  <1>1. /\ Core(k, as) /\ k.pt = m.pt /\ k.ref = m.ref /\ InHand(k, p) /\ Uses(k, p) = {}
    BY TakenCore
  <1>4. 1 \in 0 .. RefMod - 1  BY WidthAssumption
  <1>2. n = [k EXCEPT !.ref = ref2]
    <2>1. m.ref[p] = 0
      <3>1. k.ref[p] = Cardinality(Uses(k, p))  BY <1>1 DEF InHand
      <3> QED BY <3>1, <1>1, FS_EmptySet
    <2>2. (m.ref[p] + 1) % RefMod = 1
      <3>1. (0 + 1) % RefMod = 1  BY WidthAssumption
      <3> QED BY <3>1, <2>1
    <2> QED BY <2>2
  <1> HIDE DEF k, p, n
  <1>3. k \in Memory /\ p \in Page /\ p \notin Range(k.free)  BY <1>1 DEF Core, InHand
  <1>5. ref2 \in [Page -> 0 .. RefMod - 1] /\ \A q \in Page : ref2[q] = IF q = p THEN 1 ELSE k.ref[q]
    BY <1>3, <1>4 DEF Memory
  <1> HIDE DEF ref2
  <1>6. n \in Memory /\ n.ref = ref2 /\ n.free = k.free /\ n.pt = k.pt /\ n.tlb = k.tlb
    BY <1>2, <1>3, <1>5 DEF Memory
  <1>7. RefsOK(k) /\ FreeOK(k) /\ TablesOK(k, as) /\ TlbOK(k, as)  BY <1>1 DEF Core
  <1>8. \A q : Uses(n, q) = Uses(k, q)  BY <1>6 DEF Uses, Valid, PageOf
  <1>9. RefsOK(n)
    <2> SUFFICES ASSUME NEW q \in Page
                 PROVE  n.ref[q] = Cardinality(Uses(n, q)) \/ (n.ref[q] = 1 /\ Uses(n, q) = {})
      BY DEF RefsOK
    <2>1. CASE q = p  BY <2>1, <1>1, <1>5, <1>6, <1>8
    <2>2. CASE q # p  BY <2>2, <1>5, <1>6, <1>7, <1>8 DEF RefsOK
    <2> QED BY <2>1, <2>2
  <1>10. FreeOK(n)
    <2>1. ASSUME NEW q \in Range(n.free)  PROVE n.ref[q] = 0 /\ Uses(n, q) = {}
      <3>1. q \in Range(k.free) /\ q # p  BY <1>3, <1>6
      <3>2. q \in Page  BY <3>1, <1>3 DEF Memory, Range
      <3> QED BY <3>1, <3>2, <1>5, <1>6, <1>7, <1>8 DEF FreeOK
    <2> QED BY <2>1, <1>6, <1>7 DEF FreeOK
  <1>11. TablesOK(n, as)
    <2> SUFFICES ASSUME NEW f \in Env, NEW x \in VPage, Valid(n, f, x)
                 PROVE  /\ as[f] # NULL /\ Valid(n, f, TableOf(x))
                        /\ x \notin Va => Uses(n, PageOf(n, f, x)) = {<<f, x>>}
      BY DEF TablesOK
    <2>1. Valid(k, f, x) /\ PageOf(n, f, x) = PageOf(k, f, x)  BY <1>6 DEF Valid, PageOf
    <2>2. /\ as[f] # NULL /\ Valid(k, f, TableOf(x))
          /\ x \notin Va => Uses(k, PageOf(k, f, x)) = {<<f, x>>}
      BY <2>1, <1>7 DEF TablesOK
    <2>3. Valid(n, f, TableOf(x))  BY <2>2, <1>6 DEF Valid
    <2> QED BY <2>1, <2>2, <2>3, <1>8
  <1>12. TlbOK(n, as)
    <2> SUFFICES ASSUME NEW b \in Asid, NEW x \in VPage, n.tlb[b][x] \in Entry
                 PROVE  \E f \in Env : as[f] = b /\ n.pt[f][x] = n.tlb[b][x]
      BY DEF TlbOK
    <2>1. k.tlb[b][x] \in Entry  BY <1>6
    <2>2. \E f \in Env : as[f] = b /\ k.pt[f][x] = k.tlb[b][x]  BY <2>1, <1>7 DEF TlbOK
    <2> QED BY <2>2, <1>6
  <1> QED BY <1>1, <1>6, <1>9, <1>10, <1>11, <1>12 DEF Core, n, k, p

\* Unmapping, when nothing hangs on the entry as its table, takes out that entry only.
LEMMA UnmapCore ==
    ASSUME NEW m \in Memory, NEW as \in AsidMap, NEW a \in Asid, NEW e \in Env, NEW v \in VPage,
           Core(m, as), as[e] = a,
           \A x \in VPage : Valid(m, e, x) /\ TableOf(x) = v => x = v
    PROVE  LET n == page_remove(m, a, e, v)
           IN  /\ n \in Memory /\ Core(n, as)
               /\ \A f \in Env, x \in VPage : f # e \/ x # v => n.pt[f][x] = m.pt[f][x]
               /\ ~Valid(n, e, v)
  <1> DEFINE n == page_remove(m, a, e, v)
  <1>1. CASE Valid(m, e, v)
    <2>1. MayRemove(m, as, a, e, v)  BY <1>1 DEF MayRemove
    <2>2. Removed(m, n, as, e, v)  BY <2>1, RemoveCore
    <2> HIDE DEF n
    <2>3. /\ n \in Memory /\ Core(n, as)
          /\ \A f \in Env, x \in VPage : f # e \/ x # v => n.pt[f][x] = m.pt[f][x]
          /\ ~Valid(n, e, v)
      BY <2>2 DEF Removed, Core, Valid
    <2> QED BY <2>3 DEF n
  <1>2. CASE ~Valid(m, e, v)
    <2>1. n = m  BY <1>2 DEF page_remove
    <2> HIDE DEF n
    <2>2. /\ n \in Memory /\ Core(n, as)
          /\ \A f \in Env, x \in VPage : f # e \/ x # v => n.pt[f][x] = m.pt[f][x]
          /\ ~Valid(n, e, v)
      BY <2>1, <1>2
    <2> QED BY <2>2 DEF n
  <1> QED BY <1>1, <1>2

\* An env with no entry left gives back its address space id.
LEMMA AsidShrink ==
    ASSUME NEW m \in Memory, NEW as \in AsidMap, NEW e \in Env, Core(m, as),
           \A v \in VPage : ~Valid(m, e, v)
    PROVE  [as EXCEPT ![e] = NULL] \in AsidMap /\ Core(m, [as EXCEPT ![e] = NULL])
  <1> DEFINE as2 == [as EXCEPT ![e] = NULL]
  <1>1. as2 \in AsidMap /\ \A f \in Env : as2[f] = IF f = e THEN NULL ELSE as[f]  BY DEF AsidMap
  <1> HIDE DEF as2
  <1>2. TablesOK(m, as) /\ TlbOK(m, as)  BY DEF Core
  <1>3. TablesOK(m, as2)
    <2> SUFFICES ASSUME NEW f \in Env, NEW x \in VPage, Valid(m, f, x)
                 PROVE  /\ as2[f] # NULL /\ Valid(m, f, TableOf(x))
                        /\ x \notin Va => Uses(m, PageOf(m, f, x)) = {<<f, x>>}
      BY DEF TablesOK
    <2>1. as2[f] = as[f]  BY <1>1
    <2> QED BY <2>1, <1>2 DEF TablesOK
  <1>4. TlbOK(m, as2)
    <2> SUFFICES ASSUME NEW b \in Asid, NEW x \in VPage, m.tlb[b][x] \in Entry
                 PROVE  \E f \in Env : as2[f] = b /\ m.pt[f][x] = m.tlb[b][x]
      BY DEF TlbOK
    <2>1. PICK f \in Env : as[f] = b /\ m.pt[f][x] = m.tlb[b][x]  BY <1>2 DEF TlbOK
    <2>2. Valid(m, f, x)  BY <2>1, NullAssumption DEF Valid
    <2>3. f # e  BY <2>2
    <2> QED BY <2>1, <2>3, <1>1
  <1> QED BY <1>1, <1>3, <1>4 DEF Core, as2

-----------------------------------------------------------------------------
(* The inductive invariant *)

\* Every live env has a page directory.
HasDir == \A e \in Env : asid[e] # NULL => Valid(mem, e, Self)

\* The env that load_icode or env_free works on is live.
TaskLive == task.kind \in {"load", "free"} => task.env \in Env /\ asid[task.env] # NULL

IInv == TypeOK /\ Core(mem, asid) /\ HasDir /\ TaskLive

LEMMA InitIInv == Init => IInv
  <1> SUFFICES ASSUME Init PROVE IInv  OBVIOUS
  <1>1. /\ mem.ref = [p \in Page |-> 0]
        /\ mem.free \in [1 .. Cardinality(Page) -> Page] /\ IsInjective(mem.free)
        /\ mem.pt = [e \in Env |-> [v \in VPage |-> NULL]]
        /\ mem.tlb = [a \in Asid |-> [v \in VPage |-> MISS]]
        /\ mem = [ref |-> mem.ref, free |-> mem.free, pt |-> mem.pt, tlb |-> mem.tlb]
    BY DEF Init
  <1>2. /\ asid = [e \in Env |-> NULL] /\ parent = [e \in Env |-> NULL]
        /\ dst = [e \in Env |-> NULL] /\ task = Boot /\ panicked = FALSE
    BY DEF Init
  <1>3. mem \in Memory
    <2>1. Cardinality(Page) \in Nat  BY PagesAssumption, FS_CardinalityType
    <2>2. mem.free \in Seq(Page)  BY <1>1, <2>1
    <2>4. 0 \in 0 .. RefMod - 1  BY WidthAssumption
    <2>5. mem.ref \in [Page -> 0 .. RefMod - 1]  BY <1>1, <2>4
    <2>6. mem.pt \in [Env -> [VPage -> Entry \cup {NULL}]]  BY <1>1
    <2>7. mem.tlb \in [Asid -> [VPage -> Entry \cup {NULL, MISS}]]  BY <1>1
    <2> QED BY <1>1, <2>2, <2>5, <2>6, <2>7 DEF Memory
  <1>4. TypeOK  BY <1>2, <1>3 DEF TypeOK, Task, Boot
  <1>5. \A e \in Env, v \in VPage : ~Valid(mem, e, v)  BY <1>1 DEF Valid
  <1>6. \A p : Uses(mem, p) = {}  BY <1>5 DEF Uses
  <1>7. RefsOK(mem)
    <2>1. Cardinality({}) = 0  BY FS_EmptySet
    <2>2. ASSUME NEW p \in Page  PROVE mem.ref[p] = Cardinality(Uses(mem, p))
      <3>1. mem.ref[p] = 0 /\ Uses(mem, p) = {}  BY <1>1, <1>6
      <3> QED BY <2>1, <3>1
    <2> QED BY <2>2 DEF RefsOK
  <1>8. FreeOK(mem)
    <2>1. \A p \in Range(mem.free) : p \in Page  BY <1>3 DEF Memory, Range
    <2> QED BY <1>1, <1>6, <2>1 DEF FreeOK
  <1>9. TablesOK(mem, asid)  BY <1>5 DEF TablesOK
  <1>10. TlbOK(mem, asid)
    <2>1. \A a \in Asid, v \in VPage : mem.tlb[a][v] \notin Entry  BY <1>1, NullAssumption
    <2> QED BY <2>1 DEF TlbOK
  <1>11. HasDir /\ TaskLive  BY <1>2 DEF HasDir, TaskLive, Boot
  <1> QED BY <1>3, <1>4, <1>7, <1>8, <1>9, <1>10, <1>11 DEF IInv, Core

\* A step that rearranges the memory of live envs preserves the invariant.
LEMMA MemoryStep ==
    ASSUME IInv, mem' \in Memory, Core(mem', asid), dst' \in [Env -> Va \cup {NULL}],
           UNCHANGED <<asid, parent, task, panicked>>,
           \A f \in Env : Valid(mem, f, Self) => Valid(mem', f, Self)
    PROVE  IInv'
  <1>1. TypeOK'  BY DEF IInv, TypeOK
  <1>2. HasDir' /\ TaskLive'  BY DEF IInv, HasDir, TaskLive
  <1> QED BY <1>1, <1>2 DEF IInv

\* So is a panic.
LEMMA PanicStep ==
    ASSUME IInv, Panic
    PROVE  IInv'
  <1>1. TypeOK'  BY DEF Panic, IInv, TypeOK
  <1>2. Core(mem', asid') /\ HasDir' /\ TaskLive'  BY DEF Panic, IInv, HasDir, TaskLive
  <1> QED BY <1>1, <1>2 DEF IInv

\* A failed or successful page_insert is such a step.
LEMMA InsertedStep ==
    ASSUME IInv, NEW e \in Env, NEW v \in Va \cup Table, Inserted(mem, mem', asid, e, v),
           dst' \in [Env -> Va \cup {NULL}], UNCHANGED <<asid, parent, task, panicked>>
    PROVE  IInv'
  <1>1. v # Self /\ Self \in VPage  BY LayoutAssumption DEF VPage
  <1>2. mem' \in Memory /\ Core(mem', asid)  BY DEF Inserted
  <1>3. \A f \in Env : Valid(mem, f, Self) => mem'.pt[f][Self] = mem.pt[f][Self]
    BY <1>1 DEF Inserted
  <1>4. \A f \in Env : Valid(mem, f, Self) => Valid(mem', f, Self)  BY <1>3 DEF Valid
  <1> QED BY <1>2, <1>4, MemoryStep

\* What the invariant says of a live env.
LEMMA LiveEnv ==
    ASSUME IInv, NEW e \in Env, asid[e] # NULL
    PROVE  /\ mem \in Memory /\ asid \in AsidMap /\ asid[e] \in Asid
           /\ Core(mem, asid) /\ Valid(mem, e, Self)
  BY DEF IInv, TypeOK, HasDir, AsidMap

\* The assertion of page_decref holds, counts being exact.
LEMMA DecrefHolds ==
    ASSUME IInv, NEW e \in Env, NEW v \in VPage
    PROVE  ~DecrefFails(e, v)
  <1> SUFFICES ASSUME Valid(mem, e, v)  PROVE mem.ref[PageOf(mem, e, v)] # 0
    BY DEF DecrefFails
  <1>1. mem \in Memory /\ RefsOK(mem)  BY DEF IInv, TypeOK, Core
  <1>2. PageOf(mem, e, v) \in Page /\ Uses(mem, PageOf(mem, e, v)) # {}  BY <1>1, PageType
  <1>3. mem.ref[PageOf(mem, e, v)] > 0 /\ mem.ref[PageOf(mem, e, v)] = Cardinality(Uses(mem, PageOf(mem, e, v)))
    BY <1>1, <1>2, UsedExact
  <1> QED BY <1>3, UsesFinite

-----------------------------------------------------------------------------
(* One lemma per operation *)

LEMMA GrantedPerm == \A perm \in Granted : perm \in Perm
  BY PagesAssumption

\* env_alloc for a free slot.
LEMMA EnvAllocStep ==
    ASSUME IInv, NEW e \in Env \ Live, NEW par \in Env \cup {NULL}, env_alloc(e, par),
           UNCHANGED <<dst, panicked>>, task' \in Task,
           task'.kind \in {"load", "free"} => task'.env = e
    PROVE  IInv'
  <1>1. PICK a \in AsidFree : asid' = [asid EXCEPT ![e] = a]  BY DEF env_alloc
  <1>2. mem \in Memory /\ asid \in AsidMap /\ Core(mem, asid)  BY DEF IInv, TypeOK, AsidMap
  <1>3. a \in Asid /\ e \in Env /\ asid[e] = NULL  BY DEF AsidFree, Live
  <1>4. asid' \in AsidMap /\ Core(mem, asid') /\ \A v \in VPage : ~Valid(mem, e, v)
    BY <1>1, <1>2, <1>3, AsidGrow
  <1>5. \A f \in Env : asid'[f] = IF f = e THEN a ELSE asid[f]  BY <1>1, <1>2 DEF AsidMap
  <1>6. asid'[e] # NULL /\ ~Valid(mem, e, Self) /\ mem.free # <<>>
    BY <1>3, <1>4, <1>5, NullAssumption DEF env_alloc, VPage
  <1>7. mem' = Enter(Taken(mem), e, Self, First(mem), "R")  BY DEF env_alloc
  <1>8. /\ mem' \in Memory /\ Core(mem', asid') /\ Valid(mem', e, Self)
        /\ \A f \in Env : Valid(mem, f, Self) => Valid(mem', f, Self)
    BY <1>2, <1>3, <1>4, <1>6, <1>7, DirectoryCore
  <1>9. parent' \in [Env -> Env \cup {NULL}]  BY DEF env_alloc, IInv, TypeOK
  <1>10. TypeOK'  BY <1>4, <1>8, <1>9 DEF IInv, TypeOK, AsidMap
  <1>11. HasDir'
    <2>1. ASSUME NEW f \in Env, asid'[f] # NULL  PROVE Valid(mem', f, Self)
      <3>1. CASE f = e  BY <3>1, <1>8
      <3>2. CASE f # e  BY <3>2, <2>1, <1>5, <1>8 DEF IInv, HasDir
      <3> QED BY <3>1, <3>2
    <2> QED BY <2>1 DEF HasDir
  <1>12. TaskLive'  BY <1>3, <1>6 DEF TaskLive
  <1> QED BY <1>8, <1>10, <1>11, <1>12 DEF IInv

LEMMA CreateStep ==
    ASSUME IInv, env_create
    PROVE  IInv'
  <1>1. CASE Panic  BY <1>1, PanicStep
  <1>2. CASE ~Panic
    <2>1. PICK e \in Env \ Live : /\ env_alloc(e, NULL)
                                  /\ task' = [kind |-> "load", env |-> e]
                                  /\ UNCHANGED <<dst, panicked>>
      BY <1>2 DEF env_create
    <2>2. task' \in Task /\ task'.env = e  BY <2>1 DEF Task
    <2> QED BY <2>1, <2>2, EnvAllocStep
  <1> QED BY <1>1, <1>2

LEMMA MapperStep ==
    ASSUME IInv, NEW v \in UserVa, NEW perm \in Granted, load_icode_mapper(v, perm)
    PROVE  IInv'
  <1>1. CASE Panic  BY <1>1, PanicStep
  <1>2. CASE ~Panic
    <2> DEFINE e == task.env
    <2>1. e \in Env /\ asid[e] # NULL  BY DEF load_icode_mapper, IInv, TaskLive
    <2>2. /\ mem' = AllocInsert(mem, asid[e], e, v, perm) /\ mem.free # <<>>
          /\ UNCHANGED <<asid, parent, dst, task, panicked>>
      BY <1>2 DEF load_icode_mapper, AllocFails
    <2> HIDE DEF e
    <2>3. /\ mem \in Memory /\ asid \in AsidMap /\ asid[e] \in Asid
          /\ Core(mem, asid) /\ Valid(mem, e, Self)
      BY <2>1, LiveEnv
    <2>4. v \in Va \cup Table /\ v \in Va /\ perm \in Perm  BY GrantedPerm DEF Va
    <2>5. Inserted(mem, mem', asid, e, v)  BY <2>1, <2>2, <2>3, <2>4, AllocCore
    <2>6. dst' \in [Env -> Va \cup {NULL}]  BY <2>2 DEF IInv, TypeOK
    <2> QED BY <2>1, <2>2, <2>4, <2>5, <2>6, InsertedStep
  <1> QED BY <1>1, <1>2

LEMMA LoadedStep ==
    ASSUME IInv, Loaded
    PROVE  IInv'
  <1>1. TypeOK'  BY DEF Loaded, IInv, TypeOK, Task
  <1>2. Core(mem', asid') /\ HasDir' /\ TaskLive'
    BY DEF Loaded, IInv, HasDir, TaskLive, User, Boot
  <1> QED BY <1>1, <1>2 DEF IInv

LEMMA ExoforkStep ==
    ASSUME IInv, task = User, NEW c \in Env, sys_exofork(c)
    PROVE  IInv'
  <1>1. CASE \E e \in Env \ Live : env_alloc(e, c)
    <2>1. PICK e \in Env \ Live : env_alloc(e, c)  BY <1>1
    <2>2. /\ UNCHANGED <<dst, panicked>> /\ task' \in Task
          /\ task'.kind \notin {"load", "free"}
      BY DEF sys_exofork, Task, User
    <2> QED BY <2>1, <2>2, EnvAllocStep
  <1>2. CASE ~\E e \in Env \ Live : env_alloc(e, c)
    <2>1. /\ mem.free # <<>>
          /\ mem' = [Taken(mem) EXCEPT !.ref[First(mem)] = (mem.ref[First(mem)] + 1) % RefMod]
          /\ UNCHANGED <<asid, parent, dst, task, panicked>>
      BY <1>2 DEF sys_exofork
    <2>2. mem \in Memory /\ asid \in AsidMap /\ Core(mem, asid)  BY DEF IInv, TypeOK, AsidMap
    <2>3. mem' \in Memory /\ Core(mem', asid) /\ mem'.pt = mem.pt  BY <2>1, <2>2, LostCore
    <2>4. \A f \in Env : Valid(mem, f, Self) => Valid(mem', f, Self)  BY <2>3 DEF Valid
    <2>5. dst' \in [Env -> Va \cup {NULL}]  BY <2>1 DEF IInv, TypeOK
    <2> QED BY <2>1, <2>3, <2>4, <2>5, MemoryStep
  <1> QED BY <1>1, <1>2

\* sys_mem_alloc, with its effect on what was mapped.
LEMMA MemAllocInserts ==
    ASSUME IInv, NEW c \in Env, NEW e \in Env, NEW v \in UserVa, NEW perm \in Perm,
           sys_mem_alloc(c, e, v, perm)
    PROVE  Inserted(mem, mem', asid, e, v)
  <1>1. asid[e] # NULL  BY DEF sys_mem_alloc, Mine, Live
  <1>2. mem' = AllocInsert(mem, asid[e], e, v, perm) /\ mem.free # <<>>
    BY DecrefHolds DEF sys_mem_alloc, Va, VPage
  <1>3. /\ mem \in Memory /\ asid \in AsidMap /\ asid[e] \in Asid
        /\ Core(mem, asid) /\ Valid(mem, e, Self)
    BY <1>1, LiveEnv
  <1>4. v \in Va \cup Table /\ v \in Va  BY DEF Va
  <1> QED BY <1>2, <1>3, <1>4, AllocCore

\* page_insert of a page that is mapped at src.
LEMMA SharedInserts ==
    ASSUME IInv, Unwrapped, NEW s \in Env, NEW e \in Env, asid[e] # NULL, NEW src \in Va, NEW v \in Va,
           NEW perm \in Perm, Valid(mem, s, src),
           mem' = page_insert(mem, asid[e], e, PageOf(mem, s, src), v, perm)
    PROVE  Inserted(mem, mem', asid, e, v)
  <1>1. /\ mem \in Memory /\ asid \in AsidMap /\ asid[e] \in Asid
        /\ Core(mem, asid) /\ Valid(mem, e, Self)
    BY LiveEnv
  <1>2. InHand(mem, PageOf(mem, s, src))  BY <1>1, MappedInHand
  <1>3. PageOf(mem, s, src) \in Page  BY <1>2 DEF InHand
  <1>r. Room(mem, PageOf(mem, s, src))  BY <1>3 DEF Unwrapped, Room
  <1>4. MayInsert(mem, asid, asid[e], e, PageOf(mem, s, src), v)  BY <1>1, <1>2, <1>r DEF MayInsert
  <1>5. v \in Va \cup Table  OBVIOUS
  <1> QED BY <1>1, <1>3, <1>4, <1>5, InsertCore

LEMMA MemMapInserts ==
    ASSUME IInv, Unwrapped, NEW c \in Env, NEW s \in Env, NEW e \in Env, NEW src \in MapSource,
           NEW v \in UserVa, NEW perm \in Perm, sys_mem_map(c, s, src, e, v, perm)
    PROVE  Inserted(mem, mem', asid, e, v)
  <1>1. asid[e] # NULL /\ src \in Va /\ v \in Va  BY DEF sys_mem_map, Mine, Live, MapSource, Va
  <1>2. Valid(mem, s, src) /\ mem' = page_insert(mem, asid[e], e, PageOf(mem, s, src), v, perm)
    BY DecrefHolds DEF sys_mem_map, Va, VPage
  <1> QED BY <1>1, <1>2, SharedInserts

LEMMA SendStep ==
    ASSUME IInv, Unwrapped, NEW c \in Env, NEW e \in Env, NEW src \in Va, NEW perm \in Perm,
           sys_ipc_try_send(c, e, src, perm)
    PROVE  IInv'
  <1>0. asid[e] # NULL /\ dst[e] \in Va  BY DEF sys_ipc_try_send, Live, IInv, TypeOK
  <1>d. ~DecrefFails(e, dst[e])  BY <1>0, DecrefHolds DEF VPage
  <1>1. /\ asid[e] # NULL /\ dst[e] \in Va /\ dst' \in [Env -> Va \cup {NULL}]
        /\ UNCHANGED <<asid, parent, task, panicked>>
    BY <1>0, <1>d DEF sys_ipc_try_send, IInv, TypeOK
  <1>2. CASE src = ZeroVa \/ ~Valid(mem, c, src)
    <2>1. mem' = mem  BY <1>2, <1>d DEF sys_ipc_try_send
    <2>2. mem' \in Memory /\ Core(mem', asid)  BY <2>1 DEF IInv, TypeOK
    <2> QED BY <1>1, <2>1, <2>2, MemoryStep
  <1>3. CASE ~(src = ZeroVa \/ ~Valid(mem, c, src))
    <2>1. mem' = page_insert(mem, asid[e], e, PageOf(mem, c, src), dst[e], perm)
      BY <1>3, <1>d DEF sys_ipc_try_send
    <2>2. Inserted(mem, mem', asid, e, dst[e])  BY <1>1, <1>3, <2>1, SharedInserts
    <2> QED BY <1>1, <2>2, InsertedStep
  <1> QED BY <1>2, <1>3

\* Unmapping a page of a live env that no other entry hangs on, the directory excepted.
LEMMA UnmapStep ==
    ASSUME IInv, NEW e \in Env, asid[e] # NULL, NEW v \in Va \cup Table,
           \A x \in VPage : Valid(mem, e, x) /\ TableOf(x) = v => x = v,
           mem' = page_remove(mem, asid[e], e, v),
           UNCHANGED <<asid, parent, dst, task, panicked>>
    PROVE  IInv'
  <1>1. /\ mem \in Memory /\ asid \in AsidMap /\ asid[e] \in Asid
        /\ Core(mem, asid) /\ Valid(mem, e, Self)
    BY LiveEnv
  <1>2. v \in VPage /\ Self \in VPage /\ v # Self  BY LayoutAssumption DEF VPage
  <1>3. /\ mem' \in Memory /\ Core(mem', asid)
        /\ \A f \in Env, x \in VPage : f # e \/ x # v => mem'.pt[f][x] = mem.pt[f][x]
    BY <1>1, <1>2, UnmapCore
  <1>4. \A f \in Env : Valid(mem, f, Self) => Valid(mem', f, Self)  BY <1>2, <1>3 DEF Valid
  <1>5. dst' \in [Env -> Va \cup {NULL}]  BY DEF IInv, TypeOK
  <1> QED BY <1>3, <1>4, <1>5, MemoryStep

\* No page hangs on a user page as its table.
LEMMA UserNoTable == \A v \in Va, x \in VPage : TableOf(x) # v
  BY LayoutAssumption DEF TableOf

LEMMA UnmapCallStep ==
    ASSUME IInv, NEW c \in Env, NEW e \in Env, NEW v \in UserVa, sys_mem_unmap(c, e, v)
    PROVE  IInv'
  <1>1. asid[e] # NULL /\ v \in Va /\ v \in Va \cup Table
    BY DEF sys_mem_unmap, Mine, Live, Va
  <1>2. /\ mem' = page_remove(mem, asid[e], e, v)
        /\ UNCHANGED <<asid, parent, dst, task, panicked>>
    BY <1>1, DecrefHolds DEF sys_mem_unmap, Unmap, VPage
  <1> QED BY <1>1, <1>2, UserNoTable, UnmapStep

LEMMA FreeUserPageStep ==
    ASSUME IInv, NEW v \in Va, FreeUserPage(v)
    PROVE  IInv'
  <1> DEFINE e == task.env
  <1>1. e \in Env /\ asid[e] # NULL /\ v \in Va \cup Table
    BY DEF FreeUserPage, IInv, TaskLive
  <1>2. /\ mem' = page_remove(mem, asid[e], e, v)
        /\ UNCHANGED <<asid, parent, dst, task, panicked>>
    BY <1>1, DecrefHolds DEF FreeUserPage, Unmap, VPage
  <1> HIDE DEF e
  <1> QED BY <1>1, <1>2, UserNoTable, UnmapStep

LEMMA FreeTableStep ==
    ASSUME IInv, NEW t \in Table, FreeTable(t)
    PROVE  IInv'
  <1> DEFINE e == task.env
  <1>1. e \in Env /\ asid[e] # NULL /\ t \in Va \cup Table
    BY DEF FreeTable, IInv, TaskLive
  <1>2. /\ mem' = page_remove(mem, asid[e], e, t)
        /\ UNCHANGED <<asid, parent, dst, task, panicked>>
        /\ \A v \in Va : Pdx[v] = t => ~Valid(mem, e, v)
    BY <1>1, DecrefHolds DEF FreeTable, Unmap, VPage
  <1> HIDE DEF e
  <1>3. \A x \in VPage : Valid(mem, e, x) /\ TableOf(x) = t => x = t
    BY <1>2, LayoutAssumption DEF TableOf, VPage
  <1> QED BY <1>1, <1>2, <1>3, UnmapStep

LEMMA FreeDirectoryStep ==
    ASSUME IInv, FreeDirectory
    PROVE  IInv'
  <1> DEFINE e == task.env
  <1>1. e \in Env /\ asid[e] # NULL  BY DEF FreeDirectory, IInv, TaskLive
  <1>2. /\ mem' = page_remove(mem, asid[e], e, Self)
        /\ asid' = [asid EXCEPT ![e] = NULL]
        /\ parent' = [f \in Env |-> IF parent[f] = e \/ f = e THEN NULL ELSE parent[f]]
        /\ \A v \in VPage \ {Self} : ~Valid(mem, e, v)
        /\ task' = User /\ UNCHANGED <<dst, panicked>>
    BY <1>1, DecrefHolds DEF FreeDirectory, VPage
  <1> HIDE DEF e
  <1>3. /\ mem \in Memory /\ asid \in AsidMap /\ asid[e] \in Asid
        /\ Core(mem, asid) /\ Valid(mem, e, Self)
    BY <1>1, LiveEnv
  <1>4. Self \in VPage  BY DEF VPage
  <1>5. /\ mem' \in Memory /\ Core(mem', asid) /\ ~Valid(mem', e, Self)
        /\ \A f \in Env, x \in VPage : f # e \/ x # Self => mem'.pt[f][x] = mem.pt[f][x]
    <2>1. \A x \in VPage : Valid(mem, e, x) /\ TableOf(x) = Self => x = Self  BY <1>2
    <2> QED BY <2>1, <1>1, <1>2, <1>3, <1>4, UnmapCore
  <1>6. \A v \in VPage : ~Valid(mem', e, v)  BY <1>1, <1>2, <1>5 DEF Valid
  <1>7. asid' \in AsidMap /\ Core(mem', asid')  BY <1>1, <1>2, <1>3, <1>5, <1>6, AsidShrink
  <1>8. \A f \in Env : asid'[f] = IF f = e THEN NULL ELSE asid[f]  BY <1>2, <1>3 DEF AsidMap
  <1>9. HasDir'
    <2>1. ASSUME NEW f \in Env, asid'[f] # NULL  PROVE Valid(mem', f, Self)
      <3>1. f # e /\ Valid(mem, f, Self)  BY <2>1, <1>8 DEF IInv, HasDir
      <3> QED BY <3>1, <1>4, <1>5 DEF Valid
    <2> QED BY <2>1 DEF HasDir
  <1>10. parent' \in [Env -> Env \cup {NULL}]  BY <1>2 DEF IInv, TypeOK
  <1>11. TypeOK'  BY <1>2, <1>5, <1>7, <1>10 DEF IInv, TypeOK, AsidMap, Task
  <1>12. TaskLive'  BY <1>2 DEF TaskLive, User
  <1> QED BY <1>7, <1>9, <1>11, <1>12 DEF IInv

\* A step that changes the TLB only.
LEMMA InvalidatedStep ==
    ASSUME IInv, Invalidated(mem, mem', asid), UNCHANGED <<asid, parent, dst, task, panicked>>
    PROVE  IInv'
  <1>1. mem' \in Memory /\ Core(mem', asid) /\ mem'.pt = mem.pt  BY DEF Invalidated
  <1>2. \A f \in Env : Valid(mem, f, Self) => Valid(mem', f, Self)  BY <1>1 DEF Valid
  <1>3. dst' \in [Env -> Va \cup {NULL}]  BY DEF IInv, TypeOK
  <1> QED BY <1>1, <1>2, <1>3, MemoryStep

LEMMA EvictStep ==
    ASSUME IInv, NEW a \in Asid, NEW v \in Touched, Evict(a, v)
    PROVE  IInv'
  <1>1. mem \in Memory /\ asid \in AsidMap /\ Core(mem, asid)  BY DEF IInv, TypeOK, AsidMap
  <1>2. v \in VPage  BY PagesAssumption
  <1>3. /\ mem' = tlb_invalidate(mem, a, v)
        /\ UNCHANGED <<asid, parent, dst, task, panicked>>
    BY DEF Evict
  <1>4. Invalidated(mem, mem', asid)  BY <1>1, <1>2, <1>3, InvalidateCore
  <1> QED BY <1>3, <1>4, InvalidatedStep

\* The refill, with passive_alloc.
LEMMA AccessStep ==
    ASSUME IInv, NEW c \in Env, asid[c] # NULL, NEW v \in Touched, Access(c, v)
    PROVE  IInv'
  <1> DEFINE m == tlb_invalidate(mem, asid[c], v)
             perm == IF v \in Va THEN "W" ELSE "R"
             n == AllocInsert(m, asid[c], c, v, perm)
  <1>1. /\ mem \in Memory /\ asid \in AsidMap /\ asid[c] \in Asid
        /\ Core(mem, asid) /\ Valid(mem, c, Self)
    BY LiveEnv
  <1>2. v \in VPage  BY PagesAssumption
  <1>3. Invalidated(mem, m, asid)  BY <1>1, <1>2, InvalidateCore
  <1>4. CASE Panic  BY <1>4, PanicStep
  <1>5. CASE Valid(mem, c, v)
    <2>1. /\ mem' = Filled(m, asid[c], c, v) /\ UNCHANGED <<asid, parent, dst, task, panicked>>
      BY <1>5 DEF Access
    <2> HIDE DEF m
    <2>2. m \in Memory /\ Core(m, asid)  BY <1>3 DEF Invalidated
    <2>3. Invalidated(m, mem', asid)  BY <2>1, <2>2, <1>1, <1>2, FilledCore
    <2>4. Invalidated(mem, mem', asid)  BY <2>3, <1>3 DEF Invalidated
    <2> QED BY <2>1, <2>4, InvalidatedStep
  <1>6. CASE ~Panic /\ ~Valid(mem, c, v)
    <2>1. /\ mem' = Filled(n, asid[c], c, v) /\ UNCHANGED <<asid, parent, dst, task, panicked>>
          /\ ~AllocFails(mem, c, v)
      BY <1>6 DEF Access
    <2> HIDE DEF m
    <2>2. /\ m \in Memory /\ Core(m, asid) /\ Valid(m, c, Self) /\ m.pt = mem.pt
          /\ m.free # <<>> /\ ~Valid(m, c, v)
      BY <2>1, <1>1, <1>3, <1>6 DEF Invalidated, Valid, AllocFails
    <2>3. v \in Va \cup Table  BY <1>1, <1>2, <1>6 DEF VPage
    <2>4. perm \in Perm  BY DEF Perm
    <2> HIDE DEF perm
    <2>5. Inserted(m, n, asid, c, v)  BY <2>2, <2>3, <2>4, <1>1, AllocCore
    <2> HIDE DEF n
    <2>6. n \in Memory /\ Core(n, asid)  BY <2>5 DEF Inserted
    <2>7. Invalidated(n, mem', asid)  BY <2>1, <2>6, <1>1, <1>2, FilledCore
    <2>8. /\ mem' \in Memory /\ Core(mem', asid) /\ mem'.pt = n.pt  BY <2>7 DEF Invalidated
    <2>9. Inserted(mem, mem', asid, c, v)  BY <2>2, <2>5, <2>8 DEF Inserted, Valid
    <2>10. dst' \in [Env -> Va \cup {NULL}]  BY <2>1 DEF IInv, TypeOK
    <2> QED BY <2>1, <2>3, <2>9, <2>10, InsertedStep
  <1> QED BY <1>4, <1>5, <1>6

-----------------------------------------------------------------------------
(* The invariant, and the properties of PageMap *)

\* The system calls and accesses of an env.
LEMMA CallStep ==
    ASSUME IInv, Unwrapped, task = User, NEW c \in MayCall, Call(c)
    PROVE  IInv'
  <1>0. c \in Env /\ asid[c] # NULL  BY DEF MayCall, Live
  <1>d. IInv /\ UNCHANGED dst => dst' \in [Env -> Va \cup {NULL}]  BY DEF IInv, TypeOK
  <1>1. CASE sys_exofork(c)  BY <1>0, <1>1, ExoforkStep
  <1>2. ASSUME NEW e \in Env, NEW v \in UserVa, NEW perm \in Granted, sys_mem_alloc(c, e, v, perm)
        PROVE  IInv'
    <2>1. Inserted(mem, mem', asid, e, v)  BY <1>0, <1>2, GrantedPerm, MemAllocInserts
    <2>2. v \in Va \cup Table  BY DEF Va
    <2>3. ~DecrefFails(e, v)  BY DecrefHolds DEF Va, VPage
    <2> QED BY <2>1, <2>2, <2>3, <1>2, <1>d, InsertedStep DEF sys_mem_alloc
  <1>3. ASSUME NEW s \in Env, NEW e \in Env, NEW src \in MapSource, NEW v \in UserVa,
               NEW perm \in Granted, sys_mem_map(c, s, src, e, v, perm)
        PROVE  IInv'
    <2>1. Inserted(mem, mem', asid, e, v)  BY <1>0, <1>3, GrantedPerm, MemMapInserts
    <2>2. v \in Va \cup Table  BY DEF Va
    <2>3. ~DecrefFails(e, v)  BY DecrefHolds DEF Va, VPage
    <2> QED BY <2>1, <2>2, <2>3, <1>3, <1>d, InsertedStep DEF sys_mem_map
  <1>4. ASSUME NEW e \in Env, NEW v \in UserVa, sys_mem_unmap(c, e, v)  PROVE IInv'
    BY <1>0, <1>4, UnmapCallStep
  <1>5. ASSUME NEW v \in Va, sys_ipc_recv(c, v)  PROVE IInv'
    <2>1. dst' \in [Env -> Va \cup {NULL}]  BY <1>5 DEF sys_ipc_recv, IInv, TypeOK
    <2>2. mem' \in Memory /\ Core(mem', asid)  BY <1>5 DEF sys_ipc_recv, IInv, TypeOK
    <2> QED BY <2>1, <2>2, <1>5, MemoryStep DEF sys_ipc_recv
  <1>6. ASSUME NEW e \in Env, NEW src \in Va, NEW perm \in Granted, sys_ipc_try_send(c, e, src, perm)
        PROVE  IInv'
    BY <1>0, <1>6, GrantedPerm, SendStep
  <1>7. ASSUME NEW e \in Env, sys_env_destroy(c, e)  PROVE IInv'
    <2>1. asid[e] # NULL /\ task' = [kind |-> "free", env |-> e]
          /\ UNCHANGED <<mem, asid, parent, dst, panicked>>
      BY <1>7 DEF sys_env_destroy, Mine, Live
    <2>2. TypeOK'  BY <2>1 DEF IInv, TypeOK, Task
    <2>3. Core(mem', asid') /\ HasDir'  BY <2>1 DEF IInv, HasDir
    <2>4. TaskLive'  BY <2>1 DEF TaskLive
    <2> QED BY <2>2, <2>3, <2>4 DEF IInv
  <1>8. ASSUME NEW v \in Touched, Access(c, v)  PROVE IInv'
    BY <1>0, <1>8, AccessStep
  <1> QED BY <1>1, <1>2, <1>3, <1>4, <1>5, <1>6, <1>7, <1>8 DEF Call

LEMMA NextIInv == IInv /\ Unwrapped /\ [Next]_vars => IInv'
  <1> SUFFICES ASSUME IInv, Unwrapped, [Next]_vars PROVE IInv'  OBVIOUS
  <1>1. CASE UNCHANGED vars
    <2>1. TypeOK'  BY <1>1 DEF vars, IInv, TypeOK
    <2>2. Core(mem', asid') /\ HasDir' /\ TaskLive'  BY <1>1 DEF vars, IInv, HasDir, TaskLive
    <2> QED BY <2>1, <2>2 DEF IInv
  <1>2. CASE env_create  BY <1>2, CreateStep
  <1>3. ASSUME NEW v \in UserVa, NEW perm \in Granted, load_icode_mapper(v, perm)  PROVE IInv'
    BY <1>3, MapperStep
  <1>4. CASE Loaded  BY <1>4, LoadedStep
  <1>5. ASSUME task = User, NEW c \in MayCall, Call(c)  PROVE IInv'
    BY <1>5, CallStep
  <1>6. ASSUME NEW v \in Va, FreeUserPage(v)  PROVE IInv'  BY <1>6, FreeUserPageStep
  <1>7. ASSUME NEW t \in Table, FreeTable(t)  PROVE IInv'  BY <1>7, FreeTableStep
  <1>8. CASE FreeDirectory  BY <1>8, FreeDirectoryStep
  <1>9. ASSUME NEW a \in Asid, NEW v \in Touched, Evict(a, v)  PROVE IInv'
    BY <1>9, EvictStep
  <1> QED BY <1>1, <1>2, <1>3, <1>4, <1>5, <1>6, <1>7, <1>8, <1>9 DEF Next

\* The invariant holds until some page has as many mappings as pp_ref can count.
THEOREM Invariance == Spec /\ []Unwrapped => []IInv
  BY InitIInv, NextIInv, PTL DEF Spec

\* Every variable keeps its type.
THEOREM TypeCorrect == Spec /\ []Unwrapped => []TypeOK
  <1>1. IInv => TypeOK  BY DEF IInv
  <1> QED BY <1>1, Invariance, PTL

\* pp_ref is exact, but for a lost directory.
THEOREM RefExactHolds == Spec /\ []Unwrapped => []RefExact
  <1>1. IInv => RefExact  BY DEF IInv, Core, RefsOK, RefExact
  <1> QED BY <1>1, Invariance, PTL

\* The assertion of page_decref never fails.
THEOREM DecrefNeverFails == Spec /\ []Unwrapped => [](\A e \in Env, v \in VPage : ~DecrefFails(e, v))
  <1>1. IInv => \A e \in Env, v \in VPage : ~DecrefFails(e, v)  BY DecrefHolds
  <1> QED BY <1>1, Invariance, PTL

\* A page on the free list is there once, mapped by nobody and in no TLB entry.
THEOREM FreeUnusedHolds == Spec /\ []Unwrapped => []FreeUnused
  <1>1. ASSUME IInv  PROVE FreeUnused
    <2>1. mem \in Memory /\ FreeOK(mem) /\ TlbOK(mem, asid)  BY <1>1 DEF IInv, Core
    <2>2. ASSUME NEW p \in Range(mem.free), NEW a \in Asid, NEW v \in VPage, NEW perm \in Perm,
                 mem.tlb[a][v] = <<p, perm>>
          PROVE  FALSE
      <3>1. p \in Page  BY <2>1 DEF Memory, Range
      <3>2. mem.tlb[a][v] \in Entry  BY <2>2, <3>1 DEF Entry
      <3>3. PICK e \in Env : mem.pt[e][v] = <<p, perm>>  BY <2>1, <2>2, <3>2 DEF TlbOK
      <3>4. <<e, v>> \in Uses(mem, p)
        BY <2>2, <3>2, <3>3, NullAssumption DEF Uses, Valid, PageOf
      <3> QED BY <3>4, <2>1 DEF FreeOK
    <2> QED BY <2>1, <2>2 DEF FreeOK, FreeUnused
  <1> QED BY <1>1, Invariance, PTL

\* Tables are there for what they map, and are used as tables only.
THEOREM TablesSoundHolds == Spec /\ []Unwrapped => []TablesSound
  <1>1. IInv => TablesSound  BY DEF IInv, Core, TablesOK, TablesSound
  <1> QED BY <1>1, Invariance, PTL

\* No TLB entry is stale.
THEOREM TlbSoundHolds == Spec /\ []Unwrapped => []TlbSound
  <1>1. IInv => TlbSound  BY DEF IInv, Core, TlbOK, TlbSound
  <1> QED BY <1>1, Invariance, PTL

\* A system call that fails half way leaves something mapped where something was.
THEOREM NeverHalfMappedHolds == Spec /\ []Unwrapped => NeverHalfMapped
  <1> DEFINE Kept ==
         \A c, e \in Env, v \in UserVa, perm \in Perm :
            Valid(mem, e, v) =>
               /\ sys_mem_alloc(c, e, v, perm) => Valid(mem', e, v)
               /\ \A s \in Env, src \in MapSource :
                      sys_mem_map(c, s, src, e, v, perm) => Valid(mem', e, v)
  <1>1. ASSUME IInv, Unwrapped  PROVE Kept
    <2>1. ASSUME NEW c \in Env, NEW e \in Env, NEW v \in UserVa, NEW perm \in Perm,
                 Valid(mem, e, v), sys_mem_alloc(c, e, v, perm)
          PROVE  Valid(mem', e, v)
      <3>1. Inserted(mem, mem', asid, e, v)  BY <1>1, <2>1, MemAllocInserts
      <3> QED BY <3>1, <2>1 DEF Inserted
    <2>2. ASSUME NEW c \in Env, NEW e \in Env, NEW v \in UserVa, NEW perm \in Perm,
                 NEW s \in Env, NEW src \in MapSource,
                 Valid(mem, e, v), sys_mem_map(c, s, src, e, v, perm)
          PROVE  Valid(mem', e, v)
      <3>1. Inserted(mem, mem', asid, e, v)  BY <1>1, <2>2, MemMapInserts
      <3> QED BY <3>1, <2>2 DEF Inserted
    <2> QED BY <2>1, <2>2
  <1>2. IInv /\ Unwrapped => [Kept]_vars  BY <1>1
  <1> HIDE DEF Kept
  <1>3. Spec /\ []Unwrapped => [][Kept]_vars  BY <1>2, Invariance, PTL
  <1> QED BY <1>3 DEF NeverHalfMapped, Kept
=============================================================================
