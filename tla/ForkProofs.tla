----------------------------- MODULE ForkProofs -----------------------------
(***************************************************************************)
(* Proofs about Fork, for any envs, pages and values: private pages are    *)
(* private, and fork(), cow_entry and spawn() together implement the       *)
(* address spaces of AddressSpaces.                                        *)
(***************************************************************************)
EXTENDS Fork, FiniteSetTheorems, TLAPS

(***************************************************************************)
(* The inductive invariant.                                                *)
(***************************************************************************)
InJob(e) == job[e].op # "none"

\* Whoever has a job runs, its child does not, and no two have the same child.
Jobs ==
    /\ \A e \in Env : IF InJob(e) THEN e \in live /\ job[e].child \in Env \ live
                                  ELSE job[e] = NoJob
    /\ \A e, f \in Env : InJob(e) /\ InJob(f) /\ job[e].child = job[f].child => e = f

\* A slot of envs[] that nobody uses maps nothing.
Unused == \A e \in FreeEnvs : \A v \in VPage : ~Mapped(e, v)

\* What is still to do: the parent has the page, the child has not.
Todo ==
    \A e \in Env : \A v \in job[e].todo :
        InJob(e) => /\ ~Mapped(job[e].child, v)
                    /\ job[e].op = "fork" \/ v \in Shared => Mapped(e, v)

\* A page between the two calls of duppage: the child has it PTE_COW, the parent not yet.
HalfDup(e) ==
    LET h == job[e].half
        c == job[e].child
    IN  /\ Mapped(e, h) /\ pt[e][h].perm = "D"
        /\ Mapped(c, h) /\ pt[c][h] = [page |-> pt[e][h].page, perm |-> "C"]

\* A page between the calls of spawn_mapper: nobody has it but UTEMP and the child.
HalfSpawn(e) ==
    LET h == job[e].half
        c == job[e].child
    IN  /\ Mapped(e, UTEMP) /\ Mapped(c, h) /\ SamePage(e, UTEMP, c, h)
        /\ \A f \in Env, w \in VPage :
             SamePage(f, w, e, UTEMP) => <<f, w>> \in {<<e, UTEMP>>, <<c, h>>}

HalfSound(e) ==
    InJob(e) /\ job[e].half # NULL =>
        /\ job[e].half \notin Shared
        /\ IF job[e].op = "fork" THEN HalfDup(e) ELSE HalfSpawn(e)
Halves == \A e \in Env : HalfSound(e)

\* An env in cow_entry: the page that faults stays PTE_COW until it is mapped anew,
\* and the copy is nobody else's and, once made, the same.
CowPage(e) ==
    /\ Mapped(e, UCOW) /\ pt[e][UCOW].perm = "D"
    /\ \A f \in Env, w \in VPage : SamePage(f, w, e, UCOW) => f = e /\ w = UCOW
FaultSound(e) ==
    fault[e] # NoFault =>
        /\ e \in live /\ fault[e].va \in Va /\ fault[e].step \in 1 .. 4
        /\ fault[e].step \in 1 .. 3 =>
             Mapped(e, fault[e].va) /\ pt[e][fault[e].va].perm = "C"
        /\ fault[e].step \in 2 .. 3 => CowPage(e)
        /\ fault[e].step = 3 => data[pt[e][UCOW].page] = data[pt[e][fault[e].va].page]
Faults == \A e \in Env : FaultSound(e)

\* A page keeps its kind and its address, and a shared one is one page for all.
Kinds ==
    /\ \A e \in Env, v \in Va : Mapped(e, v) =>
         /\ pt[e][v].perm = "L" <=> v \in Shared
         /\ pt[e][v].perm = "R" <=> v \in ReadOnly
    /\ \A e, f \in Env, v, w \in Va : SamePage(e, v, f, w) => v = w
    /\ \A e, f \in Env, v \in Shared :
         Mapped(e, v) /\ Mapped(f, v) => pt[e][v].page = pt[f][v].page

IInv == TypeOK /\ Jobs /\ Unused /\ Todo /\ Halves /\ Faults /\ Kinds /\ Isolated

USE DEF Perm, Job, NoJob, FaultT, NoFault

LEMMA Names ==
    /\ UCOW \notin Va /\ UTEMP \notin Va /\ UCOW # UTEMP
    /\ Shared \subseteq Va /\ ReadOnly \subseteq Va /\ Stack \subseteq Va
    /\ Shared \cap (ReadOnly \cup Stack) = {} /\ ReadOnly \cap Stack = {}
    /\ NULL \notin Env /\ NULL \notin VPage /\ NULL \notin Val /\ NULL \notin Entry
    /\ Zero \in Val /\ First \in Env
    /\ Image \in [Va -> Page] /\ \A v, w \in Va : Image[v] = Image[w] => v = w
  BY NamesAssumption DEF VPage

LEMMA VaPages == /\ UCOW \in VPage /\ UTEMP \in VPage
                 /\ \A v \in Va : v \in VPage /\ v # UCOW /\ v # UTEMP
                 /\ Shared \subseteq VPage /\ Stack \subseteq VPage
  BY NamesAssumption DEF VPage

\* page_alloc always finds a page: there are more pages than page table entries.
LEMMA NewPageFree == TypeOK => NewPage \in Page /\ Free(NewPage)
  <1> SUFFICES ASSUME TypeOK PROVE \E p \in Page : Free(p)
    BY DEF NewPage
  <1> DEFINE D == {x \in Env \X VPage : pt[x[1]][x[2]] # NULL}
             T == {pt[x[1]][x[2]].page : x \in D}
             f == [x \in D |-> pt[x[1]][x[2]].page]
  <1>1. IsFiniteSet(VPage)
    <2>1. VPage = (Va \cup {UCOW}) \cup {UTEMP}  BY DEF VPage
    <2> QED BY <2>1, PagesAssumption, FS_AddElement
  <1>2. IsFiniteSet(Env \X VPage)
    BY <1>1, PagesAssumption, FS_Product
  <1>3. IsFiniteSet(D) /\ Cardinality(D) <= Cardinality(Env \X VPage)
    <2>1. D \in SUBSET (Env \X VPage)  OBVIOUS
    <2> HIDE DEF D
    <2> QED BY <1>2, <2>1, FS_Subset
  <1>4. f \in Surjection(D, T)
    BY DEF Surjection
  <1>5. IsFiniteSet(T) /\ Cardinality(T) <= Cardinality(D)
    <2> HIDE DEF D, T, f
    <2> QED BY <1>3, <1>4, FS_Surjection
  <1>6. /\ Cardinality(T) \in Nat /\ Cardinality(D) \in Nat
        /\ Cardinality(Env \X VPage) \in Nat /\ Cardinality(Page) \in Nat
    <2> HIDE DEF D, T
    <2> QED BY <1>2, <1>3, <1>5, PagesAssumption, FS_CardinalityType
  <1>7. \E p \in Page : p \notin T
    <2> SUFFICES ASSUME Page \subseteq T PROVE FALSE  OBVIOUS
    <2> HIDE DEF T, D
    <2>1. Cardinality(Page) <= Cardinality(T)
      BY <1>5, FS_Subset
    <2> QED BY <1>3, <1>5, <1>6, <2>1, PagesAssumption
  <1>8. ASSUME NEW p \in Page, p \notin T PROVE Free(p)
    <2> SUFFICES ASSUME NEW e \in Env, NEW v \in VPage, Mapped(e, v), pt[e][v].page = p
                 PROVE  FALSE
      BY DEF Free
    <2>1. <<e, v>> \in D  BY DEF Mapped
    <2> QED BY <1>8, <2>1
  <1> QED BY <1>7, <1>8


(***************************************************************************)
(* The actions that leave the page tables alone.                           *)
(***************************************************************************)
LEMMA SameJobs == ASSUME Jobs, UNCHANGED <<live, job>> PROVE Jobs'
  BY DEF Jobs, InJob

LEMMA SameTables ==
    ASSUME IInv, UNCHANGED <<pt, live, job>>
    PROVE  Jobs' /\ Unused' /\ Todo' /\ Halves' /\ Kinds' /\ Isolated'
  <1> USE DEF IInv
  <1>1. Jobs'  BY SameJobs
  <1>2. Unused'  BY DEF Unused, FreeEnvs, Children, Mapped
  <1>3. Todo'  BY DEF Todo, InJob, Mapped
  <1>4. Halves'  BY DEF Halves, HalfSound, InJob, HalfDup, HalfSpawn, SamePage, Mapped
  <1>5. Kinds'  BY DEF Kinds, SamePage, Mapped
  <1>6. Isolated'
    <2>1. \A f \in Env, w \in Va : Pending(f, w)' <=> Pending(f, w)  BY DEF Pending
    <2>2. \A e, f \in Env, v, w \in Va : SamePage(e, v, f, w)' <=> SamePage(e, v, f, w)
      BY DEF SamePage, Mapped
    <2> QED BY <2>1, <2>2 DEF Isolated
  <1> QED BY <1>1, <1>2, <1>3, <1>4, <1>5, <1>6

\* A job's child is not running, so a running env's pages are never pending.
LEMMA LiveDone == ASSUME Jobs, NEW e \in live, NEW v \in Va, e \in Env PROVE ~Pending(e, v)
  BY Names, VaPages DEF Jobs, InJob, Pending

\* Writing a page that can be written without a fault leaves alone the pages that are
\* being copied.
LEMMA WriteFaults ==
    ASSUME IInv, NEW e \in Env, NEW v \in Va, NEW x \in Val, Write(e, v, x)
    PROVE  Faults'
  <1> SUFFICES ASSUME NEW f \in Env, fault[f] # NoFault, fault[f].step = 3
               PROVE  data'[pt[f][UCOW].page] = data'[pt[f][fault[f].va].page]
    BY DEF IInv, Write, Faults, FaultSound, CowPage, SamePage, Mapped
  <1> DEFINE va == fault[f].va
  <1>1. /\ f \in live /\ va \in Va /\ Mapped(f, va) /\ pt[f][va].perm = "C"
        /\ CowPage(f) /\ data[pt[f][UCOW].page] = data[pt[f][va].page]
    BY DEF IInv, Faults, FaultSound
  <1>2. e # f /\ e \in live /\ Mapped(e, v) /\ pt[e][v].perm \in {"D", "L"}
    BY DEF Write, InProgram
  <1>3. pt[e][v].page # pt[f][UCOW].page
    BY <1>1, <1>2, VaPages DEF CowPage, SamePage
  <1>4. pt[e][v].page # pt[f][va].page
    <2> SUFFICES ASSUME SamePage(e, v, f, va) PROVE FALSE
      BY <1>1, <1>2 DEF SamePage
    <2>1. v = va  BY <1>1 DEF IInv, Kinds
    <2>2. CASE pt[e][v].perm = "D"
      BY <1>1, <1>2, <2>2, LiveDone DEF IInv, Isolated
    <2>3. CASE pt[e][v].perm = "L"
      BY <1>1, <1>2, <2>1, <2>3 DEF IInv, Kinds
    <2> QED BY <1>2, <2>2, <2>3
  <1> HIDE DEF va
  <1>5. \A p \in Page : p # pt[e][v].page => data'[p] = data[p]
    BY DEF IInv, TypeOK, Write
  <1>6. pt[f][UCOW].page \in Page /\ pt[f][va].page \in Page
    BY <1>1, VaPages DEF IInv, TypeOK, CowPage, Mapped, Entry
  <1> QED BY <1>1, <1>3, <1>4, <1>5, <1>6 DEF va

LEMMA WriteKeeps ==
    ASSUME IInv, NEW e \in Env, NEW v \in Va, NEW x \in Val, Write(e, v, x)
    PROVE  IInv'
  <1>1. TypeOK'
    BY DEF IInv, TypeOK, Write
  <1>2. UNCHANGED <<pt, live, job>>  BY DEF Write
  <1> QED BY <1>1, <1>2, SameTables, WriteFaults DEF IInv

LEMMA FaultKeeps ==
    ASSUME IInv, NEW e \in Env, NEW v \in Va, Fault(e, v)
    PROVE  IInv'
  <1>0. [va |-> v, step |-> 1] \in FaultT  OBVIOUS
  <1>1. TypeOK'
    <2> HIDE DEF FaultT
    <2> QED BY <1>0 DEF IInv, TypeOK, Fault
  <1>2. UNCHANGED <<pt, live, job, data>>  BY DEF Fault
  <1>3. Faults'
    BY DEF IInv, TypeOK, Fault, Faults, FaultSound, InProgram, CowPage, Mapped, SamePage
  <1> QED BY <1>1, <1>2, <1>3, SameTables DEF IInv

\* The write of a page that no fault is about.
LEMMA FaultsElsewhere ==
    ASSUME IInv, NEW p, UNCHANGED <<pt, live, fault>>,
           \A q \in Page : q # p => data'[q] = data[q],
           \A f \in Env : fault[f] # NoFault /\ fault[f].step = 3 =>
               pt[f][UCOW].page # p /\ pt[f][fault[f].va].page # p
    PROVE  Faults'
  <1> SUFFICES ASSUME NEW f \in Env, fault[f] # NoFault, fault[f].step = 3
               PROVE  data'[pt[f][UCOW].page] = data'[pt[f][fault[f].va].page]
    BY DEF IInv, Faults, FaultSound, CowPage, SamePage, Mapped
  <1>1. /\ pt[f][UCOW].page \in Page /\ pt[f][fault[f].va].page \in Page
        /\ data[pt[f][UCOW].page] = data[pt[f][fault[f].va].page]
    BY VaPages DEF IInv, TypeOK, Faults, FaultSound, CowPage, Mapped, Entry
  <1> QED BY <1>1

LEMMA SpawnFillKeeps ==
    ASSUME IInv, NEW e \in Env, NEW x \in Val, SpawnFill(e, x)
    PROVE  IInv'
  <1> DEFINE c == job[e].child
             h == job[e].half
             p == pt[e][UTEMP].page
  <1>1. UNCHANGED <<pt, live, job, fault>>  BY DEF SpawnFill
  <1>2. HalfSpawn(e) /\ h \in Va /\ c \in Env \ live
    BY DEF SpawnFill, IInv, TypeOK, Halves, HalfSound, Jobs, InJob
  <1>3. p \in Page  BY <1>2, VaPages DEF HalfSpawn, IInv, TypeOK, Mapped, Entry
  <1>4. TypeOK'
    BY <1>3 DEF IInv, TypeOK, SpawnFill
  <1>5. Faults'
    <2> SUFFICES ASSUME NEW f \in Env, fault[f] # NoFault, fault[f].step = 3
                 PROVE  pt[f][UCOW].page # p /\ pt[f][fault[f].va].page # p
      BY <1>1, <1>3, FaultsElsewhere DEF SpawnFill, IInv, TypeOK
    <2>1. f \in live /\ fault[f].va \in Va /\ Mapped(f, fault[f].va) /\ Mapped(f, UCOW)
      BY DEF IInv, Faults, FaultSound, CowPage
    <2> QED BY <1>2, <2>1, Names, VaPages DEF HalfSpawn, SamePage
  <1> QED BY <1>1, <1>4, <1>5, SameTables DEF IInv

\* A step of cow_entry: the next step, or out.
LEMMA StepType ==
    ASSUME TypeOK, NEW e \in Env, NEW n \in 1 .. 4, Step(e, n)
    PROVE  /\ fault' \in [Env -> FaultT] /\ UNCHANGED <<live, job>>
           /\ fault[e] # NoFault /\ fault[e].step = n
           /\ n = 4 => fault'[e] = NoFault
           /\ n # 4 => fault'[e].va = fault[e].va /\ fault'[e].step = n + 1
           /\ \A f \in Env \ {e} : fault'[f] = fault[f]
  <1>1. [fault[e] EXCEPT !.step = n + 1] \in [va : Va \cup {NULL}, step : 1 .. 5]
    BY DEF TypeOK
  <1>2. n # 4 => n + 1 \in 0 .. 4  OBVIOUS
  <1>3. NoFault \in FaultT  OBVIOUS
  <1>4. n # 4 => [fault[e] EXCEPT !.step = n + 1] \in FaultT
    BY <1>1, <1>2 DEF TypeOK
  <1>5. fault' \in [Env -> FaultT]
    <2> HIDE DEF FaultT, NoFault
    <2> QED BY <1>3, <1>4 DEF TypeOK, Step
  <1>6. fault[e] \in [va : Va \cup {NULL}, step : 0 .. 4]
    BY DEF TypeOK
  <1> QED BY <1>5, <1>6 DEF TypeOK, Step

LEMMA CowCopyKeeps ==
    ASSUME IInv, NEW e \in Env, CowCopy(e)
    PROVE  IInv'
  <1> DEFINE p == pt[e][UCOW].page
             va == fault[e].va
  <1>1. /\ fault' \in [Env -> FaultT] /\ UNCHANGED <<pt, live, job>>
        /\ fault[e] # NoFault /\ fault[e].step = 2
        /\ fault'[e].va = va /\ fault'[e].step = 3
        /\ \A f \in Env \ {e} : fault'[f] = fault[f]
    BY StepType DEF CowCopy, IInv
  <1>2. /\ e \in live /\ CowPage(e) /\ va \in Va /\ Mapped(e, va) /\ pt[e][va].perm = "C"
    BY <1>1 DEF IInv, Faults, FaultSound
  <1>3. p \in Page /\ pt[e][va].page \in Page
    BY <1>2, VaPages DEF CowPage, IInv, TypeOK, Mapped, Entry
  <1>4. /\ data' \in [Page -> Val] /\ data'[p] = data[pt[e][va].page]
        /\ \A q \in Page : q # p => data'[q] = data[q]
    BY <1>3 DEF IInv, TypeOK, CowCopy
  <1>5. TypeOK'
    BY <1>1, <1>4 DEF IInv, TypeOK
  <1>6. \A f \in Env, w \in VPage : Mapped(f, w) /\ pt[f][w].page = p => f = e /\ w = UCOW
    BY <1>2 DEF CowPage, SamePage
  <1>7. Faults'
    <2> SUFFICES ASSUME NEW f \in Env, fault'[f] # NoFault
                 PROVE  /\ f \in live /\ fault'[f].va \in Va /\ fault'[f].step \in 1 .. 4
                        /\ fault'[f].step \in 1 .. 3 =>
                             Mapped(f, fault'[f].va) /\ pt[f][fault'[f].va].perm = "C"
                        /\ fault'[f].step \in 2 .. 3 => CowPage(f)
                        /\ fault'[f].step = 3 =>
                             data'[pt[f][UCOW].page] = data'[pt[f][fault'[f].va].page]
      BY <1>1 DEF Faults, FaultSound, CowPage, Mapped, SamePage
    <2>1. CASE f = e
      BY <1>1, <1>2, <1>3, <1>4, <1>6, <2>1, Names, VaPages
    <2>2. CASE f # e
      <3> HIDE DEF p, va
      <3>1. fault[f] # NoFault /\ fault'[f] = fault[f]  BY <1>1, <2>2
      <3>2. /\ f \in live /\ fault[f].va \in Va /\ fault[f].step \in 1 .. 4
            /\ fault[f].step \in 1 .. 3 =>
                 Mapped(f, fault[f].va) /\ pt[f][fault[f].va].perm = "C"
            /\ fault[f].step \in 2 .. 3 => CowPage(f)
            /\ fault[f].step = 3 => data[pt[f][UCOW].page] = data[pt[f][fault[f].va].page]
        BY <3>1 DEF IInv, Faults, FaultSound
      <3>3. ASSUME fault[f].step = 3
            PROVE  data'[pt[f][UCOW].page] = data'[pt[f][fault[f].va].page]
        <4>1. Mapped(f, fault[f].va) /\ Mapped(f, UCOW)  BY <3>2, <3>3 DEF CowPage
        <4>2. pt[f][fault[f].va].page \in Page /\ pt[f][UCOW].page \in Page
          BY <3>2, <4>1, VaPages DEF IInv, TypeOK, Mapped, Entry
        <4>3. pt[f][fault[f].va].page # p /\ pt[f][UCOW].page # p
          BY <1>6, <2>2, <3>2, <4>1, VaPages
        <4> QED BY <1>4, <3>2, <3>3, <4>2, <4>3
      <3> QED BY <3>1, <3>2, <3>3
    <2> QED BY <2>1, <2>2
  <1> QED BY <1>1, <1>5, <1>7, SameTables DEF IInv

\* Isolated only gets weaker when more pages are pending.
LEMMA SameIsolated ==
    ASSUME Isolated, UNCHANGED pt,
           \A f \in Env, w \in Va : Pending(f, w) => Pending(f, w)'
    PROVE  Isolated'
  <1>1. \A e, f \in Env, v, w \in Va : SamePage(e, v, f, w)' <=> SamePage(e, v, f, w)
    BY DEF SamePage, Mapped
  <1> QED BY <1>1 DEF Isolated

LEMMA BeginKeeps ==
    ASSUME IInv, NEW e \in Env, NEW c \in Env, NEW op \in {"fork", "spawn"},
           NEW todo \in SUBSET Va, Begin(e, c, op, todo),
           \A v \in todo : op = "fork" \/ v \in Shared => Mapped(e, v)
    PROVE  IInv'
  <1> DEFINE j == [op |-> op, child |-> c, todo |-> todo, half |-> NULL]
  <1>1. j \in Job  OBVIOUS
  <1>2. /\ j.op = op /\ j.child = c /\ j.todo = todo /\ j.half = NULL  OBVIOUS
  <1> HIDE DEF j
  <1>3. job' = [job EXCEPT ![e] = j] /\ UNCHANGED <<pt, data, live, fault>>
    BY DEF Begin, j
  <1>4. job[e] = NoJob /\ e \in live /\ c \in FreeEnvs
    BY DEF Begin, MayCall, InProgram
  <1>5. job' \in [Env -> Job] /\ job'[e] = j /\ \A f \in Env \ {e} : job'[f] = job[f]
    <2> HIDE DEF Job
    <2> QED BY <1>1, <1>3 DEF IInv, TypeOK
  <1>6. /\ c \notin live /\ c # e /\ c # NULL
        /\ \A f \in Env : job[f].child # c
    BY <1>4, Names, VaPages DEF FreeEnvs, Children
  <1>7. \A v \in VPage : ~Mapped(c, v)
    BY <1>4 DEF IInv, Unused
  <1>8. TypeOK'  BY <1>3, <1>5 DEF IInv, TypeOK
  <1>9. Jobs'
    <2>1. ASSUME NEW f \in Env
          PROVE  IF InJob(f)' THEN f \in live /\ job'[f].child \in Env \ live
                              ELSE job'[f] = NoJob
      <3>1. CASE f = e  BY <1>2, <1>4, <1>5, <1>6, <3>1 DEF InJob
      <3>2. CASE f # e  BY <1>5, <3>2 DEF InJob, IInv, Jobs
      <3> QED BY <3>1, <3>2
    <2>2. ASSUME NEW f \in Env, NEW g \in Env, InJob(f)', InJob(g)',
                 job'[f].child = job'[g].child
          PROVE  f = g
      <3>1. CASE f = e \/ g = e  BY <1>2, <1>5, <1>6, <2>2, <3>1
      <3>2. CASE f # e /\ g # e  BY <1>5, <2>2, <3>2 DEF InJob, IInv, Jobs
      <3> QED BY <3>1, <3>2
    <2> QED BY <1>3, <2>1, <2>2 DEF Jobs
  <1>10. Unused'
    <2>1. FreeEnvs' \subseteq FreeEnvs
      BY <1>3, <1>4, <1>5 DEF FreeEnvs, Children
    <2> QED BY <1>3, <2>1 DEF IInv, Unused, Mapped
  <1>11. Todo'
    BY <1>2, <1>3, <1>5, <1>7, VaPages DEF IInv, Todo, InJob, Mapped
  <1>12. Halves'
    BY <1>2, <1>3, <1>5 DEF IInv, Halves, HalfSound, InJob, HalfDup, HalfSpawn, SamePage, Mapped
  <1>13. Faults'
    BY <1>3 DEF IInv, Faults, FaultSound, CowPage, SamePage, Mapped
  <1>14. Kinds'  BY <1>3 DEF IInv, Kinds, SamePage, Mapped
  <1>15. Isolated'
    <2>1. ASSUME NEW f \in Env, NEW w \in Va, Pending(f, w) PROVE Pending(f, w)'
      BY <1>4, <1>5, <2>1, Names, VaPages DEF Pending
    <2> QED BY <1>3, <2>1, SameIsolated DEF IInv
  <1> QED BY <1>8, <1>9, <1>10, <1>11, <1>12, <1>13, <1>14, <1>15 DEF IInv

LEMMA FinishKeeps ==
    ASSUME IInv, NEW e \in Env, Finish(e)
    PROVE  IInv'
  <1> DEFINE c == job[e].child
  <1>1. /\ InJob(e) /\ e \in live /\ c \in Env \ live
    BY DEF Finish, IInv, Jobs, InJob
  <1>2. /\ job' = [job EXCEPT ![e] = NoJob] /\ live' = live \cup {c}
        /\ UNCHANGED <<pt, data, fault>> /\ job[e].half = NULL
    BY DEF Finish
  <1>3. NoJob \in Job  OBVIOUS
  <1>4. job' \in [Env -> Job] /\ job'[e] = NoJob /\ \A f \in Env \ {e} : job'[f] = job[f]
    <2> HIDE DEF Job, NoJob
    <2> QED BY <1>2, <1>3 DEF IInv, TypeOK
  <1>5. NoJob.op = "none" /\ NoJob.child = NULL /\ NoJob.half = NULL /\ NoJob.todo = {}
    OBVIOUS
  <1> HIDE DEF NoJob
  <1>6. TypeOK'  BY <1>1, <1>2, <1>4 DEF IInv, TypeOK
  <1>7. Jobs'
    BY <1>1, <1>2, <1>4, <1>5 DEF IInv, Jobs, InJob
  <1>8. Unused'
    <2>1. FreeEnvs' \subseteq FreeEnvs
      BY <1>1, <1>2, <1>4 DEF FreeEnvs, Children
    <2> QED BY <1>2, <2>1 DEF IInv, Unused, Mapped
  <1>9. Todo'
    BY <1>2, <1>4, <1>5 DEF IInv, Todo, InJob, Mapped
  <1>10. Halves'
    BY <1>2, <1>4, <1>5 DEF IInv, Halves, HalfSound, InJob, HalfDup, HalfSpawn, SamePage, Mapped
  <1>11. Faults'
    BY <1>2 DEF IInv, Faults, FaultSound, CowPage, SamePage, Mapped
  <1>12. Kinds'  BY <1>2 DEF IInv, Kinds, SamePage, Mapped
  <1>13. Isolated'
    <2>1. ASSUME NEW f \in Env, NEW w \in Va, Pending(f, w) PROVE Pending(f, w)'
      BY <1>2, <1>4, <2>1, Names, VaPages DEF Pending
    <2> QED BY <1>2, <2>1, SameIsolated DEF IInv
  <1> QED BY <1>6, <1>7, <1>8, <1>9, <1>10, <1>11, <1>12, <1>13 DEF IInv

(***************************************************************************)
(* The actions that change page tables.                                    *)
(***************************************************************************)
\* One page table entry changes.
Wrote(e, u, x) ==
    /\ pt' \in [Env -> [VPage -> Entry \cup {NULL}]]
    /\ pt'[e][u] = x
    /\ \A f \in Env, w \in VPage : f # e \/ w # u => pt'[f][w] = pt[f][w]

LEMMA OneEntry ==
    ASSUME TypeOK, NEW e \in Env, NEW u \in VPage, NEW x \in Entry \cup {NULL},
           pt' = [pt EXCEPT ![e][u] = x]
    PROVE  Wrote(e, u, x)
  <1> HIDE DEF VPage, Entry
  <1> QED BY DEF TypeOK, Wrote

LEMMA SameVa ==
    ASSUME IInv, UNCHANGED <<live, job>>,
           \A f \in Env, v \in Va : pt'[f][v] = pt[f][v]
    PROVE  Jobs' /\ Todo' /\ Kinds' /\ Isolated'
  <1> USE DEF IInv
  <1>1. Jobs'  BY SameJobs
  <1>2. Todo'
    BY DEF Todo, InJob, Mapped, Jobs, TypeOK
  <1>3. \A e, f \in Env, v, w \in Va : SamePage(e, v, f, w)' <=> SamePage(e, v, f, w)
    BY DEF SamePage, Mapped
  <1>4. \A e \in Env, v \in Va : Mapped(e, v)' <=> Mapped(e, v)
    BY DEF Mapped
  <1>5. Shared \subseteq Va  BY Names, VaPages
  <1>6. Kinds'  BY <1>3, <1>4, <1>5 DEF Kinds
  <1>7. Isolated'
    <2>1. \A f \in Env, w \in Va : Pending(f, w)' <=> Pending(f, w)  BY DEF Pending
    <2> QED BY <1>3, <2>1 DEF Isolated
  <1> QED BY <1>1, <1>2, <1>6, <1>7

\* What IInv says of an env in cow_entry, and of its pages.
LEMMA FaultFacts ==
    ASSUME IInv, NEW f \in Env, fault[f] # NoFault
    PROVE  /\ f \in live /\ fault[f].va \in Va /\ fault[f].step \in 1 .. 4
           /\ fault[f].step \in 1 .. 3 =>
                /\ Mapped(f, fault[f].va) /\ pt[f][fault[f].va].perm = "C"
                /\ pt[f][fault[f].va].page \in Page
           /\ fault[f].step \in 2 .. 3 => CowPage(f) /\ pt[f][UCOW].page \in Page
           /\ fault[f].step = 3 => data[pt[f][UCOW].page] = data[pt[f][fault[f].va].page]
  BY VaPages DEF IInv, TypeOK, Faults, FaultSound, CowPage, Mapped, Entry

\* The envs that are in cow_entry before and after a step of another env: their tables
\* are the same, and no page of theirs gets a new mapping or new contents.
LEMMA OtherFault ==
    ASSUME IInv, NEW f \in Env, fault[f] # NoFault, fault'[f] = fault[f], f \in live',
           \A w \in VPage : pt'[f][w] = pt[f][w],
           fault[f].step = 3 => /\ data'[pt[f][UCOW].page] = data[pt[f][UCOW].page]
                                /\ data'[pt[f][fault[f].va].page] = data[pt[f][fault[f].va].page],
           \A g \in Env, w \in VPage : CowPage(f) /\ SamePage(g, w, f, UCOW)' => g = f /\ w = UCOW
    PROVE  FaultSound(f)'
  <1>1. fault[f].step \in 1 .. 3 =>
          Mapped(f, fault[f].va)' /\ pt'[f][fault[f].va].perm = "C"
    BY FaultFacts, VaPages DEF Mapped
  <1>2. fault[f].step \in 2 .. 3 => CowPage(f)'
    BY FaultFacts, VaPages DEF CowPage, Mapped
  <1>3. fault[f].step = 3 => data'[pt'[f][UCOW].page] = data'[pt'[f][fault[f].va].page]
    BY FaultFacts, VaPages
  <1>4. f \in live /\ fault[f].va \in Va /\ fault[f].step \in 1 .. 4
    BY FaultFacts
  <1> HIDE DEF NoFault
  <1> QED BY <1>1, <1>2, <1>3, <1>4 DEF FaultSound

\* What IInv says of a page that fork() or spawn() is in the middle of.
LEMMA HalfFacts ==
    ASSUME IInv, NEW f \in Env, InJob(f), job[f].half # NULL
    PROVE  /\ f \in live /\ job[f].child \in Env \ live
           /\ job[f].half \in Va /\ job[f].half \notin Shared
           /\ job[f].op = "fork" => HalfDup(f)
           /\ job[f].op # "fork" => HalfSpawn(f)
  BY DEF IInv, TypeOK, Jobs, Halves, HalfSound

\* Likewise for the pages of a job that another env's step leaves alone.
LEMMA OtherHalf ==
    ASSUME IInv, NEW f \in Env, InJob(f), job[f].half # NULL, job'[f] = job[f],
           pt'[f][job[f].half] = pt[f][job[f].half],
           pt'[f][UTEMP] = pt[f][UTEMP],
           pt'[job[f].child][job[f].half] = pt[job[f].child][job[f].half],
           \A g \in Env, w \in VPage :
              HalfSpawn(f) /\ SamePage(g, w, f, UTEMP)' =>
                  <<g, w>> \in {<<f, UTEMP>>, <<job[f].child, job[f].half>>}
    PROVE  HalfSound(f)'
  <1>1. job[f].op = "fork" => HalfDup(f)'
    BY HalfFacts DEF HalfDup, Mapped
  <1>2. job[f].op # "fork" => HalfSpawn(f)'
    BY HalfFacts DEF HalfSpawn, Mapped, SamePage
  <1> QED BY <1>1, <1>2, HalfFacts DEF HalfSound

LEMMA CowAllocKeeps ==
    ASSUME IInv, NEW e \in Env, CowAlloc(e)
    PROVE  IInv'
  <1> DEFINE N == NewPage
             x == [page |-> N, perm |-> "D"]
  <1>1. /\ fault' \in [Env -> FaultT] /\ UNCHANGED <<live, job>>
        /\ fault[e] # NoFault /\ fault[e].step = 1
        /\ fault'[e].va = fault[e].va /\ fault'[e].step = 2
        /\ \A f \in Env \ {e} : fault'[f] = fault[f]
    BY StepType DEF CowAlloc, IInv
  <1>2. N \in Page /\ \A f \in Env, w \in VPage : Mapped(f, w) => pt[f][w].page # N
    BY NewPageFree DEF IInv, Free
  <1> HIDE DEF N
  <1>3. x \in Entry /\ x.page = N /\ x.perm = "D" /\ x # NULL
    BY <1>2, Names, VaPages DEF Entry
  <1>4. UCOW \in VPage  BY VaPages
  <1>5. pt' = [pt EXCEPT ![e][UCOW] = x] /\ data' = [data EXCEPT ![N] = Zero]
    BY DEF CowAlloc, N
  <1> HIDE DEF x
  <1>6. /\ pt' \in [Env -> [VPage -> Entry \cup {NULL}]]
        /\ pt'[e][UCOW] = x
        /\ \A f \in Env, w \in VPage : f # e \/ w # UCOW => pt'[f][w] = pt[f][w]
    <2>1. x \in Entry \cup {NULL} /\ TypeOK  BY <1>3 DEF IInv
    <2>2. Wrote(e, UCOW, x)  BY <1>4, <1>5, <2>1, OneEntry
    <2> QED BY <2>2 DEF Wrote
  <1>7. data' \in [Page -> Val] /\ \A q \in Page : q # N => data'[q] = data[q]
    BY <1>2, <1>5, Names, VaPages DEF IInv, TypeOK
  <1>8. TypeOK'  BY <1>1, <1>6, <1>7 DEF IInv, TypeOK
  <1>9. Jobs' /\ Todo' /\ Kinds' /\ Isolated'
    BY <1>1, <1>6, SameVa, Names, VaPages
  <1>10. Unused'
    <2>1. FreeEnvs' = FreeEnvs /\ e \notin FreeEnvs
      BY <1>1, FaultFacts DEF FreeEnvs, Children
    <2>2. \A f \in FreeEnvs, w \in VPage : pt'[f][w] = pt[f][w]
      BY <1>6, <2>1 DEF FreeEnvs
    <2> QED BY <2>1, <2>2 DEF IInv, Unused, Mapped
  <1>11. Halves'
    <2> SUFFICES ASSUME NEW f \in Env, InJob(f), job[f].half # NULL PROVE HalfSound(f)'
      BY <1>1 DEF Halves, HalfSound, InJob
    <2>1. ASSUME NEW g \in Env, NEW w \in VPage, HalfSpawn(f), SamePage(g, w, f, UTEMP)'
          PROVE  SamePage(g, w, f, UTEMP)
      BY <1>2, <1>3, <1>6, <2>1, Names, VaPages DEF SamePage, Mapped, HalfSpawn
    <2>2. ASSUME NEW g \in Env, NEW w \in VPage, HalfSpawn(f), SamePage(g, w, f, UTEMP)
          PROVE  <<g, w>> \in {<<f, UTEMP>>, <<job[f].child, job[f].half>>}
      BY <2>2 DEF HalfSpawn
    <2>3. /\ job'[f] = job[f] /\ job[f].half \in VPage /\ job[f].child \in Env
          /\ job[f].half # UCOW /\ UTEMP \in VPage /\ UTEMP # UCOW
      BY <1>1, HalfFacts, Names, VaPages
    <2> HIDE DEF VPage
    <2> QED BY <1>6, <2>1, <2>2, <2>3, OtherHalf
  <1>12. Faults'
    <2> SUFFICES ASSUME NEW f \in Env, fault'[f] # NoFault PROVE FaultSound(f)'
      BY DEF Faults, FaultSound
    <2>1. CASE f = e
      <3>1. CowPage(e)'
        BY <1>2, <1>3, <1>6 DEF CowPage, SamePage, Mapped
      <3>2. e \in live /\ fault[e].va \in Va /\ Mapped(e, fault[e].va)
            /\ pt[e][fault[e].va].perm = "C"
        BY <1>1, FaultFacts
      <3>3. Mapped(e, fault[e].va)' /\ pt'[e][fault[e].va].perm = "C"
        BY <1>1, <1>6, <3>2, Names, VaPages DEF Mapped
      <3> QED BY <1>1, <2>1, <3>1, <3>2, <3>3 DEF FaultSound
    <2>2. CASE f # e
      <3>1. fault[f] # NoFault /\ fault'[f] = fault[f]  BY <1>1, <2>2
      <3>2. \A w \in VPage : pt'[f][w] = pt[f][w]  BY <1>6, <2>2
      <3>3. fault[f].step = 3 => /\ pt[f][UCOW].page # N
                                 /\ pt[f][fault[f].va].page # N
        BY <1>2, <3>1, FaultFacts, VaPages DEF CowPage
      <3>4. fault[f].step = 3 => /\ data'[pt[f][UCOW].page] = data[pt[f][UCOW].page]
                                 /\ data'[pt[f][fault[f].va].page] = data[pt[f][fault[f].va].page]
        BY <1>7, <3>1, <3>3, FaultFacts
      <3>5. ASSUME NEW g \in Env, NEW w \in VPage, CowPage(f), SamePage(g, w, f, UCOW)'
            PROVE  g = f /\ w = UCOW
        BY <1>2, <1>3, <1>6, <2>2, <3>5, VaPages DEF CowPage, SamePage, Mapped
      <3> QED BY <1>1, <3>1, <3>2, <3>4, <3>5, FaultFacts, OtherFault
    <2> QED BY <2>1, <2>2
  <1> QED BY <1>8, <1>9, <1>10, <1>11, <1>12 DEF IInv

LEMMA CowUnmapKeeps ==
    ASSUME IInv, NEW e \in Env, CowUnmap(e)
    PROVE  IInv'
  <1>1. /\ fault' \in [Env -> FaultT] /\ UNCHANGED <<live, job>>
        /\ fault[e] # NoFault /\ fault'[e] = NoFault
        /\ \A f \in Env \ {e} : fault'[f] = fault[f]
    BY StepType DEF CowUnmap, IInv
  <1>2. UCOW \in VPage /\ UTEMP \in VPage /\ UCOW # UTEMP /\ UCOW \notin Va  BY Names, VaPages
  <1>3. pt' = [pt EXCEPT ![e][UCOW] = NULL] /\ data' = data
    BY DEF CowUnmap
  <1>4. /\ pt' \in [Env -> [VPage -> Entry \cup {NULL}]]
        /\ pt'[e][UCOW] = NULL
        /\ \A f \in Env, w \in VPage : f # e \/ w # UCOW => pt'[f][w] = pt[f][w]
    <2>1. pt \in [Env -> [VPage -> Entry \cup {NULL}]]  BY DEF IInv, TypeOK
    <2> HIDE DEF IInv
    <2>2. pt'[e][UCOW] = NULL  BY <1>2, <1>3, <2>1
    <2>3. \A f \in Env, w \in VPage : f # e \/ w # UCOW => pt'[f][w] = pt[f][w]
      BY <1>2, <1>3, <2>1
    <2>4. pt' \in [Env -> [VPage -> Entry \cup {NULL}]]  BY <1>2, <1>3, <2>1
    <2> QED BY <2>2, <2>3, <2>4
  <1>5. TypeOK'  BY <1>1, <1>3, <1>4 DEF IInv, TypeOK
  <1>6. Jobs' /\ Todo' /\ Kinds' /\ Isolated'
    BY <1>1, <1>4, SameVa, Names, VaPages
  <1>7. \A f, g \in Env, v, w \in VPage : SamePage(f, v, g, w)' => SamePage(f, v, g, w)
    BY <1>4 DEF SamePage, Mapped
  <1>8. Unused'
    BY <1>1, <1>4 DEF IInv, Unused, FreeEnvs, Children, Mapped
  <1>9. Halves'
    <2> SUFFICES ASSUME NEW f \in Env, InJob(f), job[f].half # NULL PROVE HalfSound(f)'
      BY <1>1 DEF Halves, HalfSound, InJob
    <2>1. ASSUME NEW g \in Env, NEW w \in VPage, HalfSpawn(f), SamePage(g, w, f, UTEMP)'
          PROVE  <<g, w>> \in {<<f, UTEMP>>, <<job[f].child, job[f].half>>}
      BY <1>2, <1>7, <2>1 DEF HalfSpawn
    <2>2. /\ job'[f] = job[f] /\ job[f].half \in VPage /\ job[f].child \in Env
          /\ job[f].half # UCOW
      BY <1>1, <1>2, HalfFacts, VaPages
    <2> QED BY <1>2, <1>4, <2>1, <2>2, OtherHalf
  <1>10. Faults'
    <2> SUFFICES ASSUME NEW f \in Env, fault'[f] # NoFault PROVE FaultSound(f)'
      BY DEF Faults, FaultSound
    <2>1. f # e /\ fault[f] # NoFault /\ fault'[f] = fault[f]  BY <1>1
    <2>2. \A w \in VPage : pt'[f][w] = pt[f][w]  BY <1>4, <2>1
    <2>3. ASSUME NEW g \in Env, NEW w \in VPage, CowPage(f), SamePage(g, w, f, UCOW)'
          PROVE  g = f /\ w = UCOW
      BY <1>2, <1>7, <2>3 DEF CowPage
    <2> QED BY <1>1, <1>3, <2>1, <2>2, <2>3, FaultFacts, OtherFault
  <1> QED BY <1>5, <1>6, <1>8, <1>9, <1>10 DEF IInv

LEMMA CowMapKeeps ==
    ASSUME IInv, NEW e \in Env, CowMap(e)
    PROVE  IInv'
  <1> DEFINE va == fault[e].va
             x == pt[e][UCOW]
  <1>1. /\ fault' \in [Env -> FaultT] /\ UNCHANGED <<live, job>>
        /\ fault[e] # NoFault /\ fault[e].step = 3
        /\ fault'[e].va = va /\ fault'[e].step = 4
        /\ \A f \in Env \ {e} : fault'[f] = fault[f]
    BY StepType DEF CowMap, IInv
  <1>2. /\ e \in live /\ va \in Va /\ Mapped(e, va) /\ pt[e][va].perm = "C"
        /\ CowPage(e)
    BY <1>1, FaultFacts
  <1>3. /\ x \in Entry /\ x # NULL /\ x.perm = "D"
        /\ \A f \in Env, w \in VPage :
             Mapped(f, w) /\ pt[f][w].page = x.page => f = e /\ w = UCOW
    BY <1>2, Names, VaPages DEF CowPage, SamePage, Mapped, IInv, TypeOK
  <1>4. pt' = [pt EXCEPT ![e][va] = x] /\ data' = data
    BY DEF CowMap
  <1>5. va \in VPage /\ va # UCOW /\ va # UTEMP /\ UCOW \in VPage /\ UTEMP \in VPage
    BY <1>2, Names, VaPages
  <1> HIDE DEF x, va
  <1>6. /\ pt' \in [Env -> [VPage -> Entry \cup {NULL}]]
        /\ pt'[e][va] = x
        /\ \A f \in Env, w \in VPage : f # e \/ w # va => pt'[f][w] = pt[f][w]
    <2>1. x \in Entry \cup {NULL} /\ va \in VPage /\ TypeOK  BY <1>3, <1>5 DEF IInv
    <2>2. pt' = [pt EXCEPT ![e][va] = x]  BY <1>4
    <2>3. Wrote(e, va, x)  BY <2>1, <2>2, OneEntry
    <2> QED BY <2>3 DEF Wrote
  <1>7. TypeOK'  BY <1>1, <1>4, <1>6 DEF IInv, TypeOK
  <1>8. \A f \in Env, w \in VPage : Mapped(f, w)' <=> Mapped(f, w)
    BY <1>2, <1>3, <1>6 DEF Mapped
  <1>9. \A f, g \in Env, v, w \in Va :
          SamePage(f, v, g, w)' => \/ f = e /\ v = va /\ g = e /\ w = va
                                   \/ /\ SamePage(f, v, g, w) /\ <<f, v>> # <<e, va>>
                                      /\ <<g, w>> # <<e, va>>
    BY <1>3, <1>5, <1>6, <1>8, Names, VaPages DEF SamePage, Mapped
  <1>10. Jobs'  BY <1>1, SameJobs DEF IInv
  <1>11. Unused'
    BY <1>1, <1>8 DEF IInv, Unused, FreeEnvs, Children
  <1>12. Todo'
    BY <1>1, <1>8, VaPages DEF IInv, Todo, InJob, Jobs, TypeOK
  <1>13. Halves'
    <2> SUFFICES ASSUME NEW f \in Env, InJob(f), job[f].half # NULL PROVE HalfSound(f)'
      BY <1>1 DEF Halves, HalfSound, InJob
    <2>1. ASSUME NEW g \in Env, NEW w \in VPage, HalfSpawn(f), SamePage(g, w, f, UTEMP)'
          PROVE  <<g, w>> \in {<<f, UTEMP>>, <<job[f].child, job[f].half>>}
      <3>1. Mapped(f, UTEMP) /\ Mapped(g, w) /\ pt'[f][UTEMP] = pt[f][UTEMP]
        BY <1>5, <1>6, <1>8, <2>1 DEF SamePage
      <3>2. pt[f][UTEMP].page # x.page
        BY <1>3, <1>5, <3>1, Names, VaPages
      <3>3. SamePage(g, w, f, UTEMP)
        BY <1>6, <2>1, <3>1, <3>2 DEF SamePage
      <3> QED BY <2>1, <3>3 DEF HalfSpawn
    <2>2. /\ job'[f] = job[f] /\ job[f].half \in VPage /\ job[f].child \in Env
          /\ job[f].child # e
      BY <1>1, <1>2, HalfFacts, VaPages
    <2>3. CASE job[f].op = "fork"
      <3>1. f = e => job[f].half # va
        BY <1>2, <2>3, HalfFacts DEF HalfDup
      <3> QED BY <1>5, <1>6, <2>1, <2>2, <3>1, OtherHalf
    <2>4. CASE job[f].op # "fork"
      <3>1. HalfSpawn(f) /\ job[f].half \notin Shared  BY <2>4, HalfFacts
      <3>2. /\ Mapped(f, UTEMP)' /\ Mapped(job[f].child, job[f].half)'
            /\ SamePage(f, UTEMP, job[f].child, job[f].half)'
        BY <1>1, <1>5, <1>6, <1>8, <2>2, <3>1 DEF HalfSpawn, SamePage
      <3> QED BY <2>1, <2>2, <2>4, <3>1, <3>2 DEF HalfSound, HalfSpawn
    <2> QED BY <2>3, <2>4
  <1>14. Faults'
    <2> SUFFICES ASSUME NEW f \in Env, fault'[f] # NoFault PROVE FaultSound(f)'
      BY DEF Faults, FaultSound
    <2>1. CASE f = e
      BY <1>1, <1>2, <2>1 DEF FaultSound
    <2>2. CASE f # e
      <3>1. fault[f] # NoFault /\ fault'[f] = fault[f]  BY <1>1, <2>2
      <3>2. \A w \in VPage : pt'[f][w] = pt[f][w]  BY <1>6, <2>2
      <3>3. ASSUME NEW g \in Env, NEW w \in VPage, CowPage(f), SamePage(g, w, f, UCOW)'
            PROVE  g = f /\ w = UCOW
        <4>1. Mapped(f, UCOW) /\ pt[f][UCOW].page # x.page
          BY <1>3, <1>5, <2>2, <3>3 DEF CowPage
        <4>2. SamePage(g, w, f, UCOW)
          BY <1>5, <1>6, <1>8, <3>2, <3>3, <4>1 DEF SamePage
        <4> QED BY <3>3, <4>2 DEF CowPage
      <3> QED BY <1>1, <1>4, <3>1, <3>2, <3>3, FaultFacts, OtherFault
    <2> QED BY <2>1, <2>2
  <1>15. Kinds'
    <2>1. ASSUME NEW f \in Env, NEW v \in Va, Mapped(f, v)'
          PROVE  /\ pt'[f][v].perm = "L" <=> v \in Shared
                 /\ pt'[f][v].perm = "R" <=> v \in ReadOnly
      <3>1. CASE f = e /\ v = va
        BY <1>2, <1>3, <1>6, <3>1 DEF IInv, Kinds
      <3>2. CASE f # e \/ v # va
        BY <1>6, <1>8, <2>1, <3>2, VaPages DEF IInv, Kinds
      <3> QED BY <3>1, <3>2
    <2>2. \A f, g \in Env, v, w \in Va : SamePage(f, v, g, w)' => v = w
      BY <1>9 DEF IInv, Kinds
    <2>3. va \notin Shared
      BY <1>2 DEF IInv, Kinds
    <2>4. \A f, g \in Env, v \in Shared :
            Mapped(f, v)' /\ Mapped(g, v)' => pt'[f][v].page = pt'[g][v].page
      BY <1>6, <1>8, <2>3, Names, VaPages DEF IInv, Kinds
    <2> QED BY <2>1, <2>2, <2>4 DEF Kinds
  <1>16. Isolated'
    <2>1. \A f \in Env, w \in Va : Pending(f, w)' <=> Pending(f, w)  BY <1>1 DEF Pending
    <2> SUFFICES ASSUME NEW f \in Env, NEW g \in Env, NEW v \in Va, NEW w \in Va,
                        SamePage(f, v, g, w)', <<f, v>> # <<g, w>>, pt'[f][v].perm = "D"
                 PROVE  Pending(g, w) \/ Pending(f, v)
      BY <2>1 DEF Isolated
    <2>2. SamePage(f, v, g, w) /\ <<f, v>> # <<e, va>>
      BY <1>9
    <2>3. pt[f][v].perm = "D"
      BY <1>6, <2>2, VaPages
    <2> QED BY <2>2, <2>3 DEF IInv, Isolated
  <1> QED BY <1>7, <1>10, <1>11, <1>12, <1>13, <1>14, <1>15, <1>16 DEF IInv

\* An env inside fork() or spawn() that makes a call: it runs, its child does not, and
\* it is not in cow_entry.
LEMMA CallFacts ==
    ASSUME IInv, NEW e \in Env, MayCall(e), InJob(e)
    PROVE  /\ e \in live /\ fault[e] = NoFault /\ job[e] # NoJob
           /\ job[e].child \in Env /\ job[e].child \notin live /\ job[e].child # e
           /\ job[e].todo \subseteq Va /\ job[e].half \in Va \cup {NULL}
           /\ \A f \in Env : job[f].child = job[e].child => f = e
           /\ job[e].child \notin FreeEnvs /\ e \notin FreeEnvs
  <1>1. \A f \in Env : ~InJob(f) => job[f].child = NULL
    BY DEF IInv, Jobs
  <1>2. job[e].child \in Env \ live /\ e \in live
    BY DEF IInv, Jobs
  <1> QED BY <1>1, <1>2, Names, VaPages
           DEF IInv, Jobs, MayCall, InProgram, InJob, FreeEnvs, Children, TypeOK

\* The job of one env changes: what it has still to do, and the page it is at.
LEMMA OneJob ==
    ASSUME IInv, NEW e \in Env, InJob(e), UNCHANGED live,
           NEW j \in Job, job' = [job EXCEPT ![e] = j],
           j.op = job[e].op, j.child = job[e].child
    PROVE  /\ job' \in [Env -> Job] /\ job'[e] = j
           /\ \A f \in Env \ {e} : job'[f] = job[f]
           /\ Jobs' /\ FreeEnvs' = FreeEnvs
           /\ \A f \in Env : InJob(f)' <=> InJob(f)
           /\ \A f \in Env : job'[f].child = job[f].child /\ job'[f].op = job[f].op
  <1>1. job' \in [Env -> Job] /\ job'[e] = j /\ \A f \in Env \ {e} : job'[f] = job[f]
    <2> HIDE DEF Job
    <2> QED BY DEF IInv, TypeOK
  <1>2. \A f \in Env : job'[f].child = job[f].child /\ job'[f].op = job[f].op
    BY <1>1
  <1>3. \A f \in Env : InJob(f)' <=> InJob(f)
    BY <1>2 DEF InJob
  <1>4. Jobs'
    <2> HIDE DEF NoJob, Job
    <2>1. ASSUME NEW f \in Env
          PROVE  IF InJob(f)' THEN f \in live' /\ job'[f].child \in Env \ live'
                              ELSE job'[f] = NoJob
      BY <1>1, <1>2, <1>3 DEF IInv, Jobs
    <2>2. \A f, g \in Env : InJob(f)' /\ InJob(g)' /\ job'[f].child = job'[g].child => f = g
      BY <1>2, <1>3 DEF IInv, Jobs
    <2> QED BY <2>1, <2>2 DEF Jobs
  <1>5. Children' = Children
    BY <1>2 DEF Children
  <1> QED BY <1>1, <1>2, <1>3, <1>4, <1>5 DEF FreeEnvs

\* The pages other envs have in the middle of cow_entry, fork() or spawn(), when env e
\* changes nothing but its own page table and its child's, and no contents: at most it
\* maps pages of its own once more.
LEMMA Others ==
    ASSUME IInv, NEW e \in Env, MayCall(e), InJob(e), UNCHANGED <<live, fault>>,
           \A f \in Env \ {e} : job'[f] = job[f],
           \A f \in Env \ {e, job[e].child}, w \in VPage : pt'[f][w] = pt[f][w],
           \A f \in Env, g \in Env \ {e, job[e].child}, u \in {UCOW, UTEMP}, w \in VPage :
              SamePage(f, w, g, u)' => \/ SamePage(f, w, g, u)
                                       \/ \E v \in Va : SamePage(e, v, g, u),
           \A f \in Env, u \in VPage : Mapped(f, u) => data'[pt[f][u].page] = data[pt[f][u].page]
    PROVE  /\ Faults'
           /\ \A f \in Env \ {e} : HalfSound(f)'
  <1> DEFINE c == job[e].child
  <1>1. Faults'
    <2> SUFFICES ASSUME NEW f \in Env, fault'[f] # NoFault PROVE FaultSound(f)'
      BY DEF Faults, FaultSound
    <2>1. f # e /\ f # c /\ fault[f] # NoFault /\ fault'[f] = fault[f] /\ f \in live
      BY CallFacts, FaultFacts
    <2>2. \A w \in VPage : pt'[f][w] = pt[f][w]  BY <2>1
    <2>3. ASSUME NEW g \in Env, NEW w \in VPage, CowPage(f), SamePage(g, w, f, UCOW)'
          PROVE  g = f /\ w = UCOW
      BY <2>1, <2>3, Names, VaPages DEF CowPage
    <2>4. fault[f].step = 3 => /\ data'[pt[f][UCOW].page] = data[pt[f][UCOW].page]
                               /\ data'[pt[f][fault[f].va].page] = data[pt[f][fault[f].va].page]
      BY <2>1, FaultFacts, VaPages DEF CowPage
    <2> QED BY <2>1, <2>2, <2>3, <2>4, OtherFault
  <1>2. ASSUME NEW f \in Env \ {e} PROVE HalfSound(f)'
    <2> SUFFICES ASSUME InJob(f), job[f].half # NULL PROVE HalfSound(f)'
      BY DEF HalfSound, InJob
    <2>1. /\ f # c /\ job[f].child # e /\ job[f].child # c
          /\ job[f].child \in Env /\ job[f].half \in VPage
      BY CallFacts, HalfFacts, VaPages
    <2>2. ASSUME NEW g \in Env, NEW w \in VPage, HalfSpawn(f), SamePage(g, w, f, UTEMP)'
          PROVE  <<g, w>> \in {<<f, UTEMP>>, <<job[f].child, job[f].half>>}
      BY <2>1, <2>2, Names, VaPages DEF HalfSpawn
    <2>3. /\ pt'[f][job[f].half] = pt[f][job[f].half] /\ pt'[f][UTEMP] = pt[f][UTEMP]
          /\ pt'[job[f].child][job[f].half] = pt[job[f].child][job[f].half]
      BY <2>1, VaPages
    <2> QED BY <2>2, <2>3, OtherHalf
  <1> QED BY <1>1, <1>2

\* duppage, as far as the child, and the loop of spawn() over the shared pages: the
\* child gets the parent's page, PTE_COW if the parent may write it as its own.
Hand(e, v) ==
    /\ MayCall(e) /\ InJob(e) /\ v \in job[e].todo /\ job[e].half = NULL
    /\ Mapped(e, v)
    /\ job[e].op = "fork" \/ ~Private(e, v)
    /\ pt' = [pt EXCEPT ![job[e].child][v] =
                [pt[e][v] EXCEPT !.perm = IF Private(e, v) THEN "C" ELSE @]]
    /\ job' = [job EXCEPT ![e].todo = @ \ {v}, ![e].half = IF Private(e, v) THEN v ELSE NULL]
    /\ UNCHANGED <<data, live, fault>>

LEMMA HandKeeps ==
    ASSUME IInv, NEW e \in Env, NEW v \in Va, Hand(e, v)
    PROVE  IInv'
  <1> DEFINE c == job[e].child
             q == IF Private(e, v) THEN "C" ELSE pt[e][v].perm
             x == [pt[e][v] EXCEPT !.perm = q]
             h == IF Private(e, v) THEN v ELSE NULL
             j == [job[e] EXCEPT !.todo = @ \ {v}, !.half = h]
  <1>0. /\ MayCall(e) /\ InJob(e) /\ v \in job[e].todo /\ job[e].half = NULL
        /\ Mapped(e, v) /\ UNCHANGED <<data, live, fault>>
        /\ job[e].op = "fork" \/ ~Private(e, v)
    BY DEF Hand
  <1>1. /\ e \in live /\ c \in Env /\ c \notin live /\ c # e /\ c \notin FreeEnvs
        /\ \A f \in Env : job[f].child = c => f = e
    BY <1>0, CallFacts
  <1>2. /\ x \in Entry /\ x # NULL /\ x.page = pt[e][v].page /\ x.perm = q
        /\ q # "D" /\ (Private(e, v) => q = "C") /\ (~Private(e, v) => q = pt[e][v].perm)
    <2>1. pt[e][v] \in Entry  BY <1>0, VaPages DEF IInv, TypeOK, Mapped
    <2>2. pt[e][v].perm = "D" <=> Private(e, v)  BY <1>0 DEF Private
    <2>3. q \in Perm \ {"D"}  BY <2>1, <2>2 DEF Entry
    <2>4. x \in Entry /\ x.page = pt[e][v].page /\ x.perm = q
      <3> HIDE DEF q
      <3> QED BY <2>1, <2>3 DEF Entry
    <2> QED BY <2>3, <2>4, Names
  <1>3. ~Mapped(c, v)  BY <1>0 DEF IInv, Todo
  <1>4. /\ j \in Job /\ j.op = job[e].op /\ j.child = c /\ j.half = h
        /\ j.todo = job[e].todo \ {v}
    BY DEF IInv, TypeOK
  <1>5. job' = [job EXCEPT ![e] = j]  BY DEF Hand, IInv, TypeOK
  <1>6. pt' = [pt EXCEPT ![c][v] = x]  BY VaPages DEF Hand, IInv, TypeOK
  <1> HIDE DEF j, x, q, c
  <1>7. /\ job' \in [Env -> Job] /\ job'[e] = j /\ \A f \in Env \ {e} : job'[f] = job[f]
        /\ Jobs' /\ FreeEnvs' = FreeEnvs
        /\ \A f \in Env : InJob(f)' <=> InJob(f)
        /\ \A f \in Env : job'[f].child = job[f].child /\ job'[f].op = job[f].op
    BY <1>0, <1>4, <1>5, OneJob DEF c
  <1>8. x \in Entry \cup {NULL} /\ v \in VPage /\ TypeOK
    BY <1>2, VaPages DEF IInv
  <1>9. /\ pt' \in [Env -> [VPage -> Entry \cup {NULL}]] /\ pt'[c][v] = x
        /\ \A f \in Env, w \in VPage : f # c \/ w # v => pt'[f][w] = pt[f][w]
    <2>1. Wrote(c, v, x)  BY <1>1, <1>6, <1>8, OneEntry
    <2> QED BY <2>1 DEF Wrote
  <1>10. TypeOK'  BY <1>0, <1>7, <1>9 DEF IInv, TypeOK
  <1>11. \A f \in Env, w \in VPage : Mapped(f, w)' <=> Mapped(f, w) \/ (f = c /\ w = v)
    BY <1>1, <1>2, <1>8, <1>9 DEF Mapped
  \* The child's page stands for the parent's.
  <1>12. \A f \in Env, w \in VPage : Mapped(f, w)' =>
           IF f = c /\ w = v THEN pt'[f][w] = x ELSE Mapped(f, w) /\ pt'[f][w] = pt[f][w]
    BY <1>9, <1>11
  <1>13. Unused'
    <2> SUFFICES ASSUME NEW f \in FreeEnvs, NEW w \in VPage PROVE ~Mapped(f, w)'
      BY <1>7 DEF Unused
    <2> QED BY <1>1, <1>11 DEF IInv, Unused, FreeEnvs
  <1>14. Todo'
    <2> SUFFICES ASSUME NEW f \in Env, NEW w \in job'[f].todo, InJob(f)'
                 PROVE  /\ pt'[job'[f].child][w] = NULL
                        /\ job'[f].op = "fork" \/ w \in Shared => pt'[f][w] # NULL
      BY DEF Todo, Mapped
    <2>1. w \in job[f].todo /\ (f = e => w # v) /\ w \in VPage /\ InJob(f)
      BY <1>4, <1>7, VaPages DEF IInv, TypeOK
    <2>2. ~Mapped(job[f].child, w) /\ (job[f].op = "fork" \/ w \in Shared => Mapped(f, w))
      BY <2>1 DEF IInv, Todo
    <2>3. job[f].child \in Env
      BY <2>1 DEF IInv, Jobs
    <2>4. job[f].child # c \/ w # v
      BY <1>1, <2>1
    <2>5. pt'[job[f].child][w] = pt[job[f].child][w]
      BY <1>9, <2>1, <2>3, <2>4
    <2>6. Mapped(f, w) => Mapped(f, w)'
      BY <1>11, <2>1
    <2>7. job'[f].child = job[f].child /\ job'[f].op = job[f].op
      BY <1>7
    <2> QED BY <2>2, <2>5, <2>6, <2>7 DEF Mapped
  <1>15. Faults' /\ \A f \in Env \ {e} : HalfSound(f)'
    <2>1. ASSUME NEW f \in Env, NEW g \in Env \ {e, c}, NEW u \in {UCOW, UTEMP},
                 NEW w \in VPage, SamePage(f, w, g, u)'
          PROVE  SamePage(f, w, g, u) \/ \E y \in Va : SamePage(e, y, g, u)
      <3>1. /\ Mapped(g, u) /\ pt'[g][u] = pt[g][u]
            /\ Mapped(f, w)' /\ pt'[f][w].page = pt[g][u].page
        BY <1>9, <2>1, VaPages DEF SamePage, Mapped
      <3>2. CASE f = c /\ w = v
        BY <1>0, <1>2, <1>12, <3>1, <3>2, VaPages DEF SamePage
      <3>3. CASE ~(f = c /\ w = v)
        BY <1>12, <3>1, <3>3 DEF SamePage
      <3> QED BY <3>2, <3>3
    <2> QED BY <1>0, <1>7, <1>9, <2>1, Others DEF c
  <1>16. v \notin Shared \/ ~Private(e, v)
    BY <1>0 DEF Private, IInv, Kinds
  <1>17. Halves'
    <2>1. HalfSound(e)'
      <3> SUFFICES ASSUME h # NULL
                   PROVE  v \notin Shared /\ job[e].op = "fork" /\ HalfDup(e)'
        BY <1>0, <1>4, <1>7, <1>16 DEF HalfSound
      <3>1. pt'[e][v] = pt[e][v] /\ pt[e][v].perm = "D"
        BY <1>1, <1>8, <1>9 DEF Private
      <3>2. x = [page |-> pt[e][v].page, perm |-> "C"]
        BY <1>2 DEF Entry
      <3>3. pt'[e][v] # NULL /\ pt'[c][v] # NULL /\ pt'[c][v] = x
        BY <1>0, <1>2, <1>9, <3>1 DEF Mapped
      <3>4. job'[e].half = v /\ job'[e].child = c
        BY <1>4, <1>7
      <3>5. v \notin Shared /\ job[e].op = "fork"
        BY <1>0, <1>16
      <3>6. HalfDup(e)'
        BY <3>1, <3>2, <3>3, <3>4 DEF HalfDup, Mapped
      <3> QED BY <3>5, <3>6
    <2> QED BY <1>15, <2>1 DEF Halves
  <1>18. Kinds'
    <2>1. ASSUME NEW f \in Env, NEW w \in Va, Mapped(f, w)'
          PROVE  \E g \in Env : /\ Mapped(g, w) /\ pt'[f][w].page = pt[g][w].page
                                /\ pt'[f][w].perm = "L" <=> pt[g][w].perm = "L"
                                /\ pt'[f][w].perm = "R" <=> pt[g][w].perm = "R"
      BY <1>0, <1>2, <1>12, <2>1, VaPages DEF Private
    <2>2. ASSUME NEW f \in Env, NEW w \in Va, Mapped(f, w)'
          PROVE  /\ pt'[f][w].perm = "L" <=> w \in Shared
                 /\ pt'[f][w].perm = "R" <=> w \in ReadOnly
      BY <2>1, <2>2 DEF IInv, Kinds
    <2>3. ASSUME NEW f \in Env, NEW g \in Env, NEW u \in Va, NEW w \in Va,
                 SamePage(f, u, g, w)'
          PROVE  u = w
      <3>1. PICK f0 \in Env : Mapped(f0, u) /\ pt'[f][u].page = pt[f0][u].page
        BY <2>1, <2>3 DEF SamePage
      <3>2. PICK g0 \in Env : Mapped(g0, w) /\ pt'[g][w].page = pt[g0][w].page
        BY <2>1, <2>3 DEF SamePage
      <3> QED BY <2>3, <3>1, <3>2 DEF IInv, Kinds, SamePage
    <2>4. ASSUME NEW f \in Env, NEW g \in Env, NEW w \in Shared, Mapped(f, w)', Mapped(g, w)'
          PROVE  pt'[f][w].page = pt'[g][w].page
      BY <2>1, <2>4, Names DEF IInv, Kinds
    <2> QED BY <2>2, <2>3, <2>4 DEF Kinds
  <1>19. Isolated'
    <2>1. \A f \in Env, w \in Va : Pending(f, w) => Pending(f, w)'
      BY <1>0, <1>7, Names, VaPages DEF Pending
    <2> SUFFICES ASSUME NEW f \in Env, NEW g \in Env, NEW u \in Va, NEW w \in Va,
                        SamePage(f, u, g, w)', <<f, u>> # <<g, w>>, pt'[f][u].perm = "D"
                 PROVE  Pending(g, w)' \/ Pending(f, u)'
      BY DEF Isolated
    <2>2. ~(f = c /\ u = v) /\ Mapped(f, u) /\ pt[f][u].perm = "D" /\ pt'[f][u] = pt[f][u]
      BY <1>2, <1>12, VaPages DEF SamePage
    <2>3. CASE g = c /\ w = v
      <3>1. SamePage(f, u, e, v)
        BY <1>0, <1>2, <1>9, <2>2, <2>3 DEF SamePage
      <3>2. CASE <<f, u>> = <<e, v>>
        <4>1. job'[e].half = v /\ job'[e].child = c
          BY <1>4, <1>7, <2>2, <3>2 DEF Private
        <4> QED BY <2>3, <4>1 DEF Pending
      <3>3. CASE <<f, u>> # <<e, v>>
        BY <1>1, <2>1, <2>2, <3>1, <3>3, LiveDone DEF IInv, Isolated
      <3> QED BY <3>2, <3>3
    <2>4. CASE ~(g = c /\ w = v)
      <3>1. SamePage(f, u, g, w)
        BY <1>12, <2>2, <2>4, VaPages DEF SamePage
      <3> QED BY <2>1, <2>2, <3>1 DEF IInv, Isolated
    <2> QED BY <2>3, <2>4
  <1> QED BY <1>7, <1>10, <1>13, <1>14, <1>15, <1>17, <1>18, <1>19 DEF IInv

\* The second call of duppage: the parent's own entry becomes PTE_COW.
LEMMA DupSecondKeeps ==
    ASSUME IInv, NEW e \in Env, DupSecond(e)
    PROVE  IInv'
  <1> DEFINE c == job[e].child
             h == job[e].half
             x == [pt[e][h] EXCEPT !.perm = "C"]
             j == [job[e] EXCEPT !.half = NULL]
  <1>0. /\ MayCall(e) /\ InJob(e) /\ job[e].op = "fork" /\ h # NULL
        /\ UNCHANGED <<data, live, fault>>
    BY DEF DupSecond, InJob
  <1>1. /\ e \in live /\ c \in Env /\ c \notin live /\ c # e /\ e \notin FreeEnvs
        /\ \A f \in Env : job[f].child = c => f = e
    BY <1>0, CallFacts
  <1>2. /\ h \in Va /\ h \in VPage /\ h \notin Shared
        /\ Mapped(e, h) /\ pt[e][h].perm = "D"
        /\ Mapped(c, h) /\ pt[c][h].page = pt[e][h].page /\ pt[c][h].perm = "C"
    <2>1. h \in Va /\ h \notin Shared /\ HalfDup(e)  BY <1>0, HalfFacts
    <2> QED BY <2>1, VaPages DEF HalfDup
  <1>3. x \in Entry /\ x # NULL /\ x.page = pt[e][h].page /\ x.perm = "C"
    <2>1. pt[e][h] \in Entry  BY <1>2 DEF IInv, TypeOK, Mapped
    <2> QED BY <2>1, Names DEF Entry
  <1>4. /\ j \in Job /\ j.op = job[e].op /\ j.child = c /\ j.half = NULL /\ j.todo = job[e].todo
    BY DEF IInv, TypeOK
  <1>5. job' = [job EXCEPT ![e] = j]  BY DEF DupSecond, IInv, TypeOK
  <1>6. pt' = [pt EXCEPT ![e][h] = x]  BY <1>2 DEF DupSecond, Remap, IInv, TypeOK
  <1> HIDE DEF j, x, c, h
  <1>7. /\ job' \in [Env -> Job] /\ job'[e] = j /\ \A f \in Env \ {e} : job'[f] = job[f]
        /\ Jobs' /\ FreeEnvs' = FreeEnvs
        /\ \A f \in Env : InJob(f)' <=> InJob(f)
        /\ \A f \in Env : job'[f].child = job[f].child /\ job'[f].op = job[f].op
    BY <1>0, <1>4, <1>5, OneJob DEF c
  <1>8. x \in Entry \cup {NULL} /\ TypeOK
    BY <1>3 DEF IInv
  <1>9. /\ pt' \in [Env -> [VPage -> Entry \cup {NULL}]] /\ pt'[e][h] = x
        /\ \A f \in Env, w \in VPage : f # e \/ w # h => pt'[f][w] = pt[f][w]
    <2>1. Wrote(e, h, x)  BY <1>2, <1>6, <1>8, OneEntry
    <2> QED BY <2>1 DEF Wrote
  <1>10. TypeOK'  BY <1>0, <1>7, <1>9 DEF IInv, TypeOK
  <1>11. \A f \in Env, w \in VPage : /\ Mapped(f, w)' <=> Mapped(f, w)
                                     /\ Mapped(f, w) => pt'[f][w].page = pt[f][w].page
    BY <1>2, <1>3, <1>9 DEF Mapped
  <1>12. \A f, g \in Env, u, w \in VPage : SamePage(f, u, g, w)' <=> SamePage(f, u, g, w)
    BY <1>11 DEF SamePage
  <1>13. Unused'
    BY <1>7, <1>11 DEF IInv, Unused, FreeEnvs
  <1>14. Todo'
    <2> SUFFICES ASSUME NEW f \in Env, NEW w \in job'[f].todo, InJob(f)'
                 PROVE  /\ pt'[job'[f].child][w] = NULL
                        /\ job'[f].op = "fork" \/ w \in Shared => pt'[f][w] # NULL
      BY DEF Todo, Mapped
    <2>1. w \in job[f].todo /\ w \in VPage /\ InJob(f)
      BY <1>4, <1>7, VaPages DEF IInv, TypeOK
    <2>2. ~Mapped(job[f].child, w) /\ (job[f].op = "fork" \/ w \in Shared => Mapped(f, w))
      BY <2>1 DEF IInv, Todo
    <2>3. job[f].child \in Env
      BY <2>1 DEF IInv, Jobs
    <2>4. job'[f].child = job[f].child /\ job'[f].op = job[f].op
      BY <1>7
    <2> QED BY <1>11, <2>1, <2>2, <2>3, <2>4 DEF Mapped
  <1>15. Faults' /\ \A f \in Env \ {e} : HalfSound(f)'
    <2>1. UCOW \in VPage /\ UTEMP \in VPage  BY VaPages
    <2> QED BY <1>0, <1>7, <1>9, <1>12, <2>1, Others DEF c
  <1>16. Halves'
    BY <1>4, <1>7, <1>15 DEF Halves, HalfSound
  <1>17. Kinds'
    <2>1. ASSUME NEW f \in Env, NEW w \in Va, Mapped(f, w)'
          PROVE  /\ pt'[f][w].perm = "L" <=> w \in Shared
                 /\ pt'[f][w].perm = "R" <=> w \in ReadOnly
      <3>1. CASE f = e /\ w = h
        BY <1>2, <1>3, <1>9, <3>1 DEF IInv, Kinds
      <3>2. CASE ~(f = e /\ w = h)
        BY <1>9, <1>11, <2>1, <3>2, VaPages DEF IInv, Kinds
      <3> QED BY <3>1, <3>2
    <2>2. \A f, g \in Env, u, w \in Va : SamePage(f, u, g, w)' => u = w
      BY <1>12, VaPages DEF IInv, Kinds
    <2>3. \A f, g \in Env, w \in Shared :
            Mapped(f, w)' /\ Mapped(g, w)' => pt'[f][w].page = pt'[g][w].page
      BY <1>11, VaPages DEF IInv, Kinds
    <2> QED BY <2>1, <2>2, <2>3 DEF Kinds
  <1>18. Isolated'
    <2>1. \A f \in Env, w \in Va : Pending(f, w) => Pending(f, w)' \/ (f = c /\ w = h)
      BY <1>7 DEF Pending, c, h
    <2> SUFFICES ASSUME NEW f \in Env, NEW g \in Env, NEW u \in Va, NEW w \in Va,
                        SamePage(f, u, g, w)', <<f, u>> # <<g, w>>, pt'[f][u].perm = "D"
                 PROVE  Pending(g, w)' \/ Pending(f, u)'
      BY DEF Isolated
    <2>2. ~(f = e /\ u = h) /\ SamePage(f, u, g, w) /\ pt[f][u].perm = "D"
      BY <1>3, <1>9, <1>12, VaPages
    <2>3. ~(f = c /\ u = h)
      BY <1>2, <2>2
    <2>4. CASE g = c /\ w = h
      <3>1. SamePage(f, u, e, h)
        BY <1>2, <2>2, <2>4 DEF SamePage
      <3> QED BY <1>1, <1>2, <2>1, <2>2, <2>3, <3>1, LiveDone DEF IInv, Isolated
    <2>5. CASE ~(g = c /\ w = h)
      BY <2>1, <2>2, <2>3, <2>5 DEF IInv, Isolated
    <2> QED BY <2>4, <2>5
  <1> QED BY <1>7, <1>10, <1>13, <1>14, <1>15, <1>16, <1>17, <1>18 DEF IInv

\* syscall_mem_unmap(0, UTEMP): the child is then alone with its page.
LEMMA SpawnUnmapKeeps ==
    ASSUME IInv, NEW e \in Env, SpawnUnmap(e)
    PROVE  IInv'
  <1> DEFINE c == job[e].child
             h == job[e].half
             j == [job[e] EXCEPT !.half = NULL]
  <1>0. /\ MayCall(e) /\ InJob(e) /\ job[e].op = "spawn" /\ h # NULL
        /\ UNCHANGED <<data, live, fault>>
    BY DEF SpawnUnmap, InJob
  <1>1. /\ e \in live /\ c \in Env /\ c \notin live /\ c # e /\ e \notin FreeEnvs
    BY <1>0, CallFacts
  <1>2. h \in Va /\ h \in VPage /\ HalfSpawn(e)
    BY <1>0, HalfFacts, VaPages
  <1>3. \A f \in Env, w \in Va : SamePage(f, w, c, h) => f = c /\ w = h
    BY <1>2, VaPages, Names DEF HalfSpawn, SamePage
  <1>4. /\ j \in Job /\ j.op = job[e].op /\ j.child = c /\ j.half = NULL /\ j.todo = job[e].todo
    BY DEF IInv, TypeOK
  <1>5. job' = [job EXCEPT ![e] = j]  BY DEF SpawnUnmap, IInv, TypeOK
  <1> HIDE DEF j, c, h
  <1>6. /\ job' \in [Env -> Job] /\ job'[e] = j /\ \A f \in Env \ {e} : job'[f] = job[f]
        /\ Jobs' /\ FreeEnvs' = FreeEnvs
        /\ \A f \in Env : InJob(f)' <=> InJob(f)
        /\ \A f \in Env : job'[f].child = job[f].child /\ job'[f].op = job[f].op
    BY <1>0, <1>4, <1>5, OneJob DEF c
  <1>7. /\ pt' \in [Env -> [VPage -> Entry \cup {NULL}]] /\ pt'[e][UTEMP] = NULL
        /\ \A f \in Env, w \in VPage : f # e \/ w # UTEMP => pt'[f][w] = pt[f][w]
    <2>1. pt' = [pt EXCEPT ![e][UTEMP] = NULL] /\ UTEMP \in VPage /\ TypeOK
      BY VaPages DEF SpawnUnmap, IInv
    <2>2. NULL \in Entry \cup {NULL}  OBVIOUS
    <2>3. Wrote(e, UTEMP, NULL)  BY <2>1, <2>2, OneEntry
    <2> QED BY <2>3 DEF Wrote
  <1>8. TypeOK'  BY <1>0, <1>6, <1>7 DEF IInv, TypeOK
  <1>9. \A f \in Env, w \in Va : pt'[f][w] = pt[f][w]
    BY <1>7, VaPages
  <1>10. \A f, g \in Env, u, w \in VPage : SamePage(f, u, g, w)' => SamePage(f, u, g, w)
    BY <1>7 DEF SamePage, Mapped
  <1>11. Unused'
    BY <1>6, <1>7 DEF IInv, Unused, FreeEnvs, Mapped
  <1>12. Todo'
    <2> SUFFICES ASSUME NEW f \in Env, NEW w \in job'[f].todo, InJob(f)'
                 PROVE  /\ pt'[job'[f].child][w] = NULL
                        /\ job'[f].op = "fork" \/ w \in Shared => pt'[f][w] # NULL
      BY DEF Todo, Mapped
    <2>1. w \in job[f].todo /\ w \in Va /\ InJob(f)
      BY <1>4, <1>6 DEF IInv, TypeOK
    <2>2. ~Mapped(job[f].child, w) /\ (job[f].op = "fork" \/ w \in Shared => Mapped(f, w))
      BY <2>1 DEF IInv, Todo
    <2>3. job[f].child \in Env
      BY <2>1 DEF IInv, Jobs
    <2>4. job'[f].child = job[f].child /\ job'[f].op = job[f].op
      BY <1>6
    <2> QED BY <1>9, <2>1, <2>2, <2>3, <2>4 DEF Mapped
  <1>13. Faults' /\ \A f \in Env \ {e} : HalfSound(f)'
    <2>1. UCOW \in VPage /\ UTEMP \in VPage  BY VaPages
    <2> QED BY <1>0, <1>6, <1>7, <1>10, <2>1, Others DEF c
  <1>14. Halves'
    BY <1>4, <1>6, <1>13 DEF Halves, HalfSound
  <1>15. \A f, g \in Env, u, w \in Va : SamePage(f, u, g, w)' <=> SamePage(f, u, g, w)
    BY <1>9 DEF SamePage, Mapped
  <1>16. Kinds'
    BY <1>9, <1>15, Names DEF IInv, Kinds, Mapped
  <1>17. Isolated'
    <2>1. \A f \in Env, w \in Va : Pending(f, w) => Pending(f, w)' \/ (f = c /\ w = h)
      BY <1>6 DEF Pending, c, h
    <2> SUFFICES ASSUME NEW f \in Env, NEW g \in Env, NEW u \in Va, NEW w \in Va,
                        SamePage(f, u, g, w)', <<f, u>> # <<g, w>>, pt'[f][u].perm = "D"
                 PROVE  Pending(g, w)' \/ Pending(f, u)'
      BY DEF Isolated
    <2>2. SamePage(f, u, g, w) /\ SamePage(g, w, f, u) /\ pt[f][u].perm = "D"
      BY <1>9, <1>15 DEF SamePage
    <2>3. ~(f = c /\ u = h) /\ ~(g = c /\ w = h)
      BY <1>3, <2>2
    <2> QED BY <2>1, <2>2, <2>3 DEF IInv, Isolated
  <1> QED BY <1>6, <1>8, <1>11, <1>12, <1>13, <1>14, <1>16, <1>17 DEF IInv

\* spawn_mapper: a new page, at UTEMP of the parent and in the child.
LEMMA SpawnMapKeeps ==
    ASSUME IInv, NEW e \in Env, NEW v \in Va, SpawnMap(e, v)
    PROVE  IInv'
  <1> DEFINE c == job[e].child
             N == NewPage
             y == [page |-> N, perm |-> "D"]
             x == [page |-> N, perm |-> IF v \in ReadOnly THEN "R" ELSE "D"]
             j == [job[e] EXCEPT !.todo = @ \ {v}, !.half = v]
  <1>0. /\ MayCall(e) /\ InJob(e) /\ job[e].op = "spawn" /\ job[e].half = NULL
        /\ v \in job[e].todo /\ v \notin Shared
        /\ UNCHANGED <<live, fault>>
    BY DEF SpawnMap, InJob
  <1>1. /\ e \in live /\ c \in Env /\ c \notin live /\ c # e
        /\ c \notin FreeEnvs /\ e \notin FreeEnvs
        /\ \A f \in Env : job[f].child = c => f = e
    BY <1>0, CallFacts
  <1>2. N \in Page /\ \A f \in Env, w \in VPage : Mapped(f, w) => pt[f][w].page # N
    BY NewPageFree DEF IInv, Free
  <1>3. ~Mapped(c, v)  BY <1>0 DEF IInv, Todo
  <1>4. data' = [data EXCEPT ![N] = Zero]
    BY DEF SpawnMap
  <1>5. /\ pt' \in [Env -> [VPage -> Entry \cup {NULL}]]
        /\ pt'[e][UTEMP] = y /\ pt'[c][v] = x
        /\ \A f \in Env, w \in VPage :
             ~(f = e /\ w = UTEMP) /\ ~(f = c /\ w = v) => pt'[f][w] = pt[f][w]
    <2>1. pt' = [pt EXCEPT ![e][UTEMP] = y, ![c][v] = x]
      BY DEF SpawnMap
    <2>2. x \in Entry \cup {NULL} /\ y \in Entry \cup {NULL}
      BY <1>2 DEF Entry
    <2> HIDE DEF x, y
    <2>3. v \in VPage /\ UTEMP \in VPage /\ pt \in [Env -> [VPage -> Entry \cup {NULL}]]
      BY VaPages DEF IInv, TypeOK
    <2> HIDE DEF c
    <2> QED BY <1>1, <2>1, <2>2, <2>3
  <1>6. /\ x.page = N /\ y.page = N /\ x # NULL /\ y # NULL /\ y.perm = "D"
        /\ x.perm = IF v \in ReadOnly THEN "R" ELSE "D"
    BY <1>2, Names DEF Entry
  <1>7. /\ j \in Job /\ j.op = job[e].op /\ j.child = c /\ j.half = v
        /\ j.todo = job[e].todo \ {v}
    BY DEF IInv, TypeOK
  <1>8. job' = [job EXCEPT ![e] = j]  BY DEF SpawnMap, IInv, TypeOK
  <1> HIDE DEF j, c, x, y, N
  <1>9. /\ job' \in [Env -> Job] /\ job'[e] = j /\ \A f \in Env \ {e} : job'[f] = job[f]
        /\ Jobs' /\ FreeEnvs' = FreeEnvs
        /\ \A f \in Env : InJob(f)' <=> InJob(f)
        /\ \A f \in Env : job'[f].child = job[f].child /\ job'[f].op = job[f].op
    BY <1>0, <1>7, <1>8, OneJob DEF c
  <1>10. data' \in [Page -> Val] /\ \A q \in Page : q # N => data'[q] = data[q]
    BY <1>2, <1>4, Names DEF IInv, TypeOK
  <1>11. TypeOK'  BY <1>0, <1>5, <1>9, <1>10 DEF IInv, TypeOK
  <1>12. /\ v \in VPage /\ v # UTEMP /\ v # UCOW
         /\ UTEMP \in VPage /\ UCOW \in VPage /\ UTEMP # UCOW /\ UTEMP \notin Va
    BY VaPages, Names
  \* Whatever is mapped is one of the two new entries, or as before and another page.
  <1>13. \A f \in Env, w \in VPage : Mapped(f, w)' =>
           \/ f = e /\ w = UTEMP
           \/ f = c /\ w = v
           \/ Mapped(f, w) /\ pt'[f][w] = pt[f][w] /\ pt'[f][w].page # N
    BY <1>2, <1>5 DEF Mapped
  <1>14. \A f \in Env, w \in Va : Mapped(f, w)' =>
           (f = c /\ w = v) \/ (Mapped(f, w) /\ pt'[f][w] = pt[f][w] /\ pt'[f][w].page # N)
    BY <1>12, <1>13, VaPages
  <1>15. Unused'
    <2> SUFFICES ASSUME NEW f \in FreeEnvs, NEW w \in VPage PROVE ~Mapped(f, w)'
      BY <1>9 DEF Unused
    <2> QED BY <1>1, <1>13 DEF IInv, Unused, FreeEnvs
  <1>16. Todo'
    <2> SUFFICES ASSUME NEW f \in Env, NEW w \in job'[f].todo, InJob(f)'
                 PROVE  /\ pt'[job'[f].child][w] = NULL
                        /\ job'[f].op = "fork" \/ w \in Shared => pt'[f][w] # NULL
      BY DEF Todo, Mapped
    <2>1. w \in job[f].todo /\ (f = e => w # v) /\ w \in VPage /\ w # UTEMP /\ InJob(f)
      BY <1>7, <1>9, VaPages DEF IInv, TypeOK
    <2>2. ~Mapped(job[f].child, w) /\ (job[f].op = "fork" \/ w \in Shared => Mapped(f, w))
      BY <2>1 DEF IInv, Todo
    <2>3. job[f].child \in Env /\ f # c
      BY <1>1, <2>1 DEF IInv, Jobs
    <2>4. job[f].child # c \/ w # v
      BY <1>1, <2>1
    <2>5. pt'[job[f].child][w] = pt[job[f].child][w] /\ pt'[f][w] = pt[f][w]
      BY <1>5, <2>1, <2>3, <2>4
    <2>6. job'[f].child = job[f].child /\ job'[f].op = job[f].op
      BY <1>9
    <2> QED BY <2>2, <2>5, <2>6 DEF Mapped
  <1>17. Faults' /\ \A f \in Env \ {e} : HalfSound(f)'
    <2>1. ASSUME NEW f \in Env, NEW g \in Env \ {e, c}, NEW u \in {UCOW, UTEMP},
                 NEW w \in VPage, SamePage(f, w, g, u)'
          PROVE  SamePage(f, w, g, u)
      <3>1. /\ Mapped(g, u) /\ pt'[g][u] = pt[g][u] /\ pt[g][u].page # N
            /\ Mapped(f, w)' /\ pt'[f][w].page = pt[g][u].page
        BY <1>2, <1>5, <1>12, <2>1 DEF SamePage, Mapped
      <3> QED BY <1>5, <1>6, <1>13, <3>1 DEF SamePage
    <2>2. \A f \in Env, u \in VPage : Mapped(f, u) => data'[pt[f][u].page] = data[pt[f][u].page]
      BY <1>2, <1>10 DEF IInv, TypeOK, Mapped, Entry
    <2>3. \A f \in Env \ {e, c}, w \in VPage : pt'[f][w] = pt[f][w]
      BY <1>5
    <2> QED BY <1>0, <1>9, <2>1, <2>2, <2>3, Others DEF c
  <1>18. Halves'
    <2>1. HalfSound(e)'
      <3>1. job'[e].half = v /\ job'[e].child = c /\ job'[e].op = "spawn"
        BY <1>0, <1>7, <1>9
      <3>2. pt'[e][UTEMP] # NULL /\ pt'[c][v] # NULL
        BY <1>5, <1>6
      <3>3. ASSUME NEW f \in Env, NEW w \in VPage, SamePage(f, w, e, UTEMP)'
            PROVE  <<f, w>> \in {<<e, UTEMP>>, <<c, v>>}
        BY <1>5, <1>6, <1>13, <3>3 DEF SamePage
      <3>4. HalfSpawn(e)'
        BY <1>5, <1>6, <3>1, <3>2, <3>3 DEF HalfSpawn, SamePage, Mapped
      <3> QED BY <1>0, <3>1, <3>4 DEF HalfSound
    <2> QED BY <1>17, <2>1 DEF Halves
  <1>19. \A f, g \in Env, u, w \in Va : SamePage(f, u, g, w)' =>
           \/ f = c /\ u = v /\ g = c /\ w = v
           \/ SamePage(f, u, g, w) /\ pt'[f][u] = pt[f][u] /\ pt'[g][w] = pt[g][w]
    BY <1>5, <1>6, <1>14 DEF SamePage
  <1>20. Kinds'
    <2>1. ASSUME NEW f \in Env, NEW w \in Va, Mapped(f, w)'
          PROVE  /\ pt'[f][w].perm = "L" <=> w \in Shared
                 /\ pt'[f][w].perm = "R" <=> w \in ReadOnly
      BY <1>0, <1>5, <1>6, <1>14, <2>1 DEF IInv, Kinds
    <2>2. \A f, g \in Env, u, w \in Va : SamePage(f, u, g, w)' => u = w
      BY <1>19 DEF IInv, Kinds
    <2>3. \A f, g \in Env, w \in Shared :
            Mapped(f, w)' /\ Mapped(g, w)' => pt'[f][w].page = pt'[g][w].page
      BY <1>0, <1>14, Names DEF IInv, Kinds
    <2> QED BY <2>1, <2>2, <2>3 DEF Kinds
  <1>21. Isolated'
    <2>1. \A f \in Env, w \in Va : Pending(f, w) => Pending(f, w)'
      BY <1>0, <1>9, Names, VaPages DEF Pending
    <2> SUFFICES ASSUME NEW f \in Env, NEW g \in Env, NEW u \in Va, NEW w \in Va,
                        SamePage(f, u, g, w)', <<f, u>> # <<g, w>>, pt'[f][u].perm = "D"
                 PROVE  Pending(g, w)' \/ Pending(f, u)'
      BY DEF Isolated
    <2> QED BY <1>19, <2>1 DEF IInv, Isolated
  <1> QED BY <1>9, <1>11, <1>15, <1>16, <1>17, <1>18, <1>20, <1>21 DEF IInv

\* An env goes: exit(), or spawn() destroying its child.  Nobody works on it any more.
Drop(d) ==
    /\ pt' = [pt EXCEPT ![d] = [v \in VPage |-> NULL]]
    /\ live' = live \ {d}
    /\ \A f \in Env : job'[f] = IF job[f].child = d THEN NoJob ELSE job[f]
    /\ job' \in [Env -> Job]
    /\ \A f \in Env : job[f].child = d => job[f].half = NULL
    /\ ~InJob(d) /\ fault[d] = NoFault
    /\ UNCHANGED <<data, fault>>

LEMMA DropKeeps ==
    ASSUME IInv, NEW d \in Env, Drop(d)
    PROVE  IInv'
  <1>1. /\ pt' \in [Env -> [VPage -> Entry \cup {NULL}]]
        /\ \A w \in VPage : pt'[d][w] = NULL
        /\ \A f \in Env, w \in VPage : f # d => pt'[f][w] = pt[f][w]
    <2> HIDE DEF Entry
    <2> QED BY DEF Drop, IInv, TypeOK
  <1>2. /\ live' = live \ {d} /\ job' \in [Env -> Job] /\ ~InJob(d) /\ fault[d] = NoFault
        /\ UNCHANGED <<data, fault>>
    BY DEF Drop
  <1>3. /\ \A f \in Env : job[f].child # d => job'[f] = job[f]
        /\ \A f \in Env : job[f].child = d => job'[f] = NoJob /\ job[f].half = NULL
    BY DEF Drop
  <1>4. NoJob.op = "none" /\ NoJob.child = NULL /\ NoJob.half = NULL /\ NoJob.todo = {}
    OBVIOUS
  <1> HIDE DEF NoJob
  <1>5. \A f \in Env : InJob(f)' => /\ InJob(f) /\ job'[f] = job[f] /\ job[f].child # d /\ f # d
                                    /\ f \in live /\ job[f].child \in Env \ live
    BY <1>2, <1>3, <1>4 DEF InJob, IInv, Jobs
  <1>6. \A f, g \in Env, u, w \in VPage :
          SamePage(f, u, g, w)' => /\ SamePage(f, u, g, w) /\ f # d /\ g # d
                                   /\ pt'[f][u] = pt[f][u]
    BY <1>1 DEF SamePage, Mapped
  <1>7. TypeOK'  BY <1>1, <1>2 DEF IInv, TypeOK
  <1>8. Jobs'
    <2>1. ASSUME NEW f \in Env
          PROVE  IF InJob(f)' THEN f \in live' /\ job'[f].child \in Env \ live'
                              ELSE job'[f] = NoJob
      <3>1. CASE InJob(f)'  BY <1>2, <1>5, <3>1
      <3>2. CASE ~InJob(f)'
        <4>1. CASE job[f].child = d  BY <1>3, <3>2, <4>1
        <4>2. CASE job[f].child # d
          BY <1>3, <3>2, <4>2 DEF InJob, IInv, Jobs
        <4> QED BY <4>1, <4>2
      <3> QED BY <3>1, <3>2
    <2>2. ASSUME NEW f \in Env, NEW g \in Env, InJob(f)', InJob(g)',
                 job'[f].child = job'[g].child
          PROVE  f = g
      BY <1>5, <2>2 DEF IInv, Jobs
    <2> QED BY <2>1, <2>2 DEF Jobs
  <1>9. Unused'
    <2> SUFFICES ASSUME NEW f \in FreeEnvs', NEW w \in VPage PROVE pt'[f][w] = NULL
      BY DEF Unused, Mapped
    <2>1. CASE f = d
      BY <1>1, <2>1
    <2>2. CASE f # d
      <3>1. f \notin live
        BY <1>2, <2>2 DEF FreeEnvs
      <3>2. ASSUME NEW g \in Env, job[g].child = f PROVE FALSE
        <4>1. job'[g] = job[g]  BY <1>3, <2>2, <3>2
        <4> QED BY <3>2, <4>1, Names DEF FreeEnvs, Children
      <3>3. f \in FreeEnvs
        BY <3>1, <3>2 DEF FreeEnvs, Children
      <3> QED BY <1>1, <2>2, <3>3 DEF IInv, Unused, Mapped, FreeEnvs
    <2> QED BY <2>1, <2>2
  <1>10. Todo'
    <2> SUFFICES ASSUME NEW f \in Env, NEW w \in job'[f].todo, InJob(f)'
                 PROVE  /\ pt'[job'[f].child][w] = NULL
                        /\ job'[f].op = "fork" \/ w \in Shared => pt'[f][w] # NULL
      BY DEF Todo, Mapped
    <2>1. /\ job'[f] = job[f] /\ InJob(f) /\ job[f].child \in Env /\ f # d
          /\ job[f].child # d /\ w \in VPage
      BY <1>5, VaPages DEF IInv, TypeOK
    <2> QED BY <1>1, <2>1 DEF IInv, Todo, Mapped
  <1>11. Halves'
    <2> SUFFICES ASSUME NEW f \in Env, InJob(f)', job'[f].half # NULL PROVE HalfSound(f)'
      BY DEF Halves, HalfSound
    <2>1. /\ job'[f] = job[f] /\ InJob(f) /\ job[f].child \in Env /\ f # d
          /\ job[f].child # d /\ job[f].half \in VPage
      BY <1>5, HalfFacts, VaPages
    <2>2. ASSUME NEW g \in Env, NEW w \in VPage, HalfSpawn(f), SamePage(g, w, f, UTEMP)'
          PROVE  <<g, w>> \in {<<f, UTEMP>>, <<job[f].child, job[f].half>>}
      BY <1>6, <2>2, VaPages DEF HalfSpawn
    <2> QED BY <1>1, <2>1, <2>2, OtherHalf, VaPages
  <1>12. Faults'
    <2> SUFFICES ASSUME NEW f \in Env, fault'[f] # NoFault PROVE FaultSound(f)'
      BY DEF Faults, FaultSound
    <2>1. f # d /\ fault[f] # NoFault /\ fault'[f] = fault[f]  BY <1>2
    <2>2. \A w \in VPage : pt'[f][w] = pt[f][w]  BY <1>1, <2>1
    <2>3. ASSUME NEW g \in Env, NEW w \in VPage, CowPage(f), SamePage(g, w, f, UCOW)'
          PROVE  g = f /\ w = UCOW
      BY <1>6, <2>3, VaPages DEF CowPage
    <2>4. f \in live'  BY <1>2, <2>1, FaultFacts
    <2> QED BY <1>2, <2>1, <2>2, <2>3, <2>4, OtherFault
  <1>13. Kinds'
    <2>1. \A f \in Env, w \in VPage : Mapped(f, w)' => Mapped(f, w) /\ pt'[f][w] = pt[f][w]
      BY <1>1 DEF Mapped
    <2> QED BY <1>6, <2>1, VaPages DEF IInv, Kinds
  <1>14. Isolated'
    <2>1. \A f \in Env, w \in Va : Pending(f, w) => Pending(f, w)' \/ f = d
      BY <1>3, Names, VaPages DEF Pending
    <2> SUFFICES ASSUME NEW f \in Env, NEW g \in Env, NEW u \in Va, NEW w \in Va,
                        SamePage(f, u, g, w)', <<f, u>> # <<g, w>>, pt'[f][u].perm = "D"
                 PROVE  Pending(g, w)' \/ Pending(f, u)'
      BY DEF Isolated
    <2>2. SamePage(f, u, g, w) /\ pt[f][u].perm = "D" /\ f # d /\ g # d
      BY <1>6, VaPages
    <2> QED BY <2>1, <2>2 DEF IInv, Isolated
  <1> QED BY <1>7, <1>8, <1>9, <1>10, <1>11, <1>12, <1>13, <1>14 DEF IInv

LEMMA ExitDrops ==
    ASSUME IInv, NEW e \in Env, exit(e)
    PROVE  Drop(e)
  <1>1. /\ e \in live /\ fault[e] = NoFault /\ job[e] = NoJob
        /\ UNCHANGED <<data, job, fault>> /\ live' = live \ {e}
        /\ pt' = [pt EXCEPT ![e] = [v \in VPage |-> NULL]]
    BY DEF exit, MayCall, InProgram
  <1>2. \A f \in Env : job[f].child # e
    BY <1>1, Names DEF IInv, Jobs, InJob
  <1>3. ~InJob(e)
    BY <1>1 DEF InJob
  <1>4. job' \in [Env -> Job]  BY <1>1 DEF IInv, TypeOK
  <1> HIDE DEF Job, NoJob, NoFault
  <1> QED BY <1>1, <1>2, <1>3, <1>4 DEF Drop

LEMMA SpawnFailsDrops ==
    ASSUME IInv, NEW e \in Env, SpawnFails(e)
    PROVE  job[e].child \in Env /\ Drop(job[e].child)
  <1> DEFINE d == job[e].child
  <1>1. /\ MayCall(e) /\ InJob(e) /\ job[e].half = NULL
        /\ UNCHANGED <<data, live, fault>>
        /\ job' = [job EXCEPT ![e] = NoJob]
        /\ pt' = [pt EXCEPT ![d] = [v \in VPage |-> NULL]]
    BY DEF SpawnFails, InJob
  <1>2. /\ d \in Env /\ d \notin live /\ \A f \in Env : job[f].child = d => f = e
    BY <1>1, CallFacts
  <1>3. ~InJob(d)  BY <1>2 DEF IInv, Jobs
  <1>4. fault[d] = NoFault  BY <1>2, FaultFacts
  <1>5. NoJob \in Job  OBVIOUS
  <1> HIDE DEF Job, NoJob, NoFault, d
  <1>6. /\ job' \in [Env -> Job]
        /\ \A f \in Env : job'[f] = IF job[f].child = d THEN NoJob ELSE job[f]
    BY <1>1, <1>2, <1>5 DEF IInv, TypeOK, d
  <1>7. live' = live \ {d}  BY <1>1, <1>2
  <1>8. \A f \in Env : job[f].child = d => job[f].half = NULL
    BY <1>1, <1>2
  <1>9. d \in Env /\ Drop(d)
    BY <1>1, <1>2, <1>3, <1>4, <1>6, <1>7, <1>8 DEF Drop
  <1> QED BY <1>9 DEF d

LEMMA DupFirstHands ==
    ASSUME IInv, NEW e \in Env, NEW v \in Va, DupFirst(e, v)
    PROVE  Hand(e, v)
  <1>1. /\ MayCall(e) /\ InJob(e) /\ v \in job[e].todo /\ job[e].half = NULL
        /\ job[e].op = "fork" /\ UNCHANGED <<data, live, fault>>
    BY DEF DupFirst, InJob
  <1>2. Mapped(e, v)  BY <1>1 DEF IInv, Todo
  <1>3. pt' = [pt EXCEPT ![job[e].child][v] =
                  [pt[e][v] EXCEPT !.perm = IF Private(e, v) THEN "C" ELSE @]]
    BY DEF DupFirst, Remap
  <1>4. job' = [job EXCEPT ![e].todo = @ \ {v},
                           ![e].half = IF Private(e, v) THEN v ELSE NULL]
    BY DEF DupFirst
  <1> QED BY <1>1, <1>2, <1>3, <1>4 DEF Hand

LEMMA SpawnShareHands ==
    ASSUME IInv, NEW e \in Env, NEW v \in Va, SpawnShare(e, v)
    PROVE  Hand(e, v)
  <1>1. /\ MayCall(e) /\ InJob(e) /\ v \in job[e].todo /\ job[e].half = NULL
        /\ v \in Shared /\ UNCHANGED <<data, live, fault>>
        /\ pt' = [pt EXCEPT ![job[e].child][v] = pt[e][v]]
        /\ job' = [job EXCEPT ![e].todo = @ \ {v}]
    BY DEF SpawnShare, InJob
  <1>2. Mapped(e, v)  BY <1>1 DEF IInv, Todo
  <1>3. ~Private(e, v)  BY <1>1, <1>2 DEF Private, IInv, Kinds
  <1>4. pt[e][v] = [pt[e][v] EXCEPT !.perm = IF Private(e, v) THEN "C" ELSE @]
    BY <1>2, <1>3, VaPages DEF IInv, TypeOK, Mapped, Entry
  <1>5. job' = [job EXCEPT ![e].todo = @ \ {v},
                           ![e].half = IF Private(e, v) THEN v ELSE NULL]
    BY <1>1, <1>3 DEF IInv, TypeOK
  <1> QED BY <1>1, <1>2, <1>3, <1>4, <1>5 DEF Hand

-----------------------------------------------------------------------------
LEMMA InitIInv == Init => IInv
  <1> SUFFICES ASSUME Init PROVE IInv  OBVIOUS
  <1>1. /\ job = [e \in Env |-> NoJob] /\ fault = [e \in Env |-> NoFault]
        /\ live = {First} /\ data = [p \in Page |-> Zero]
        /\ \A e \in Env, v \in VPage :
             pt[e][v] = IF e # First \/ v \notin Va THEN NULL
                        ELSE [page |-> Image[v], perm |-> IF v \in Shared THEN "L"
                                                ELSE IF v \in ReadOnly THEN "R" ELSE "D"]
    BY DEF Init
  <1>2. \A e \in Env, v \in VPage : Mapped(e, v) =>
          /\ e = First /\ v \in Va /\ pt[e][v].page = Image[v] /\ pt[e][v] \in Entry
          /\ pt[e][v].perm = IF v \in Shared THEN "L" ELSE IF v \in ReadOnly THEN "R" ELSE "D"
    <2> SUFFICES ASSUME NEW e \in Env, NEW v \in VPage, Mapped(e, v)
                 PROVE  /\ e = First /\ v \in Va /\ pt[e][v].page = Image[v]
                        /\ pt[e][v] \in Entry
                        /\ pt[e][v].perm = IF v \in Shared THEN "L"
                                          ELSE IF v \in ReadOnly THEN "R" ELSE "D"
      OBVIOUS
    <2>1. e = First /\ v \in Va  BY <1>1 DEF Mapped
    <2>2. Image[v] \in Page  BY <2>1, Names
    <2> DEFINE k == IF v \in Shared THEN "L" ELSE IF v \in ReadOnly THEN "R" ELSE "D"
    <2>3. pt[e][v] = [page |-> Image[v], perm |-> k]  BY <1>1, <2>1
    <2>4. k \in {"R", "D", "C", "L"}  OBVIOUS
    <2>5. k = IF v \in Shared THEN "L" ELSE IF v \in ReadOnly THEN "R" ELSE "D"  OBVIOUS
    <2> HIDE DEF k
    <2>6. pt[e][v] \in Entry /\ pt[e][v].page = Image[v] /\ pt[e][v].perm = k
      BY <2>2, <2>3, <2>4 DEF Entry
    <2> QED BY <2>1, <2>5, <2>6
  <1>3. TypeOK
    <2>1. pt \in [Env -> [VPage -> Entry \cup {NULL}]]
      <3>1. \A e \in Env, v \in VPage : pt[e][v] \in Entry \cup {NULL}
        BY <1>2 DEF Mapped
      <3> HIDE DEF Entry
      <3>2. pt = [e \in Env |-> [v \in VPage |-> pt[e][v]]]
        BY DEF Init
      <3> QED BY <3>1, <3>2
    <2>2. NoJob \in Job /\ NoFault \in FaultT  OBVIOUS
    <2> HIDE DEF NoJob, Job, NoFault, FaultT
    <2> QED BY <1>1, <2>1, <2>2, Names DEF TypeOK
  <1>4. \A e \in Env : ~InJob(e) /\ job[e] = NoJob /\ job[e].half = NULL /\ job[e].todo = {}
    BY <1>1 DEF InJob
  <1>5. \A f, g \in Env, u, w \in Va : SamePage(f, u, g, w) => f = g /\ u = w
    BY <1>2, Names, VaPages DEF SamePage
  <1>6. Jobs /\ Todo /\ Halves  BY <1>4 DEF Jobs, Todo, Halves, HalfSound
  <1>7. Unused  BY <1>1, <1>2 DEF Unused, FreeEnvs
  <1>8. Faults  BY <1>1 DEF Faults, FaultSound
  <1>9. Kinds
    <2>1. \A e \in Env, v \in Va : Mapped(e, v) =>
             /\ pt[e][v].perm = "L" <=> v \in Shared
             /\ pt[e][v].perm = "R" <=> v \in ReadOnly
      BY <1>2, Names, VaPages
    <2>2. \A e, f \in Env, v \in Shared :
             Mapped(e, v) /\ Mapped(f, v) => pt[e][v].page = pt[f][v].page
      BY <1>2, Names, VaPages
    <2> QED BY <1>5, <2>1, <2>2 DEF Kinds
  <1>10. Isolated  BY <1>5 DEF Isolated
  <1> QED BY <1>3, <1>6, <1>7, <1>8, <1>9, <1>10 DEF IInv

LEMMA NextIInv == IInv /\ [Next]_vars => IInv'
  <1> SUFFICES ASSUME IInv, [Next]_vars PROVE IInv'  OBVIOUS
  <1>1. CASE UNCHANGED vars
    <2>1. TypeOK' /\ Faults' /\ UNCHANGED <<pt, live, job>>
      BY <1>1 DEF vars, IInv, TypeOK, Faults, FaultSound, CowPage, SamePage, Mapped
    <2> QED BY <2>1, SameTables DEF IInv
  <1>2. ASSUME NEW e \in Env, EnvNext(e) PROVE IInv'
    <2>1. ASSUME NEW v \in Va, NEW x \in Val, Write(e, v, x) PROVE IInv'
      BY <2>1, WriteKeeps
    <2>2. ASSUME NEW v \in Va, Fault(e, v) PROVE IInv'
      BY <2>2, FaultKeeps
    <2>3. CASE CowAlloc(e)  BY <2>3, CowAllocKeeps
    <2>4. CASE CowCopy(e)  BY <2>4, CowCopyKeeps
    <2>5. CASE CowMap(e)  BY <2>5, CowMapKeeps
    <2>6. CASE CowUnmap(e)  BY <2>6, CowUnmapKeeps
    <2>7. ASSUME NEW c \in Env, fork(e, c) PROVE IInv'
      <3> DEFINE T == {v \in Va : Mapped(e, v)}
      <3>1. T \in SUBSET Va /\ Begin(e, c, "fork", T) /\ \A v \in T : Mapped(e, v)
        BY <2>7 DEF fork
      <3> HIDE DEF T
      <3> QED BY <3>1, BeginKeeps
    <2>8. ASSUME NEW c \in Env, spawn(e, c) PROVE IInv'
      <3> DEFINE T == {v \in Va : v \notin Shared \/ Mapped(e, v)}
      <3>1. /\ T \in SUBSET Va /\ Begin(e, c, "spawn", T)
            /\ \A v \in T : v \in Shared => Mapped(e, v)
        BY <2>8 DEF spawn
      <3> HIDE DEF T
      <3> QED BY <3>1, BeginKeeps
    <2>9. ASSUME NEW v \in Va, DupFirst(e, v) PROVE IInv'
      BY <2>9, DupFirstHands, HandKeeps
    <2>10. ASSUME NEW v \in Va, SpawnMap(e, v) PROVE IInv'
      BY <2>10, SpawnMapKeeps
    <2>11. ASSUME NEW v \in Va, SpawnShare(e, v) PROVE IInv'
      BY <2>11, SpawnShareHands, HandKeeps
    <2>12. CASE DupSecond(e)  BY <2>12, DupSecondKeeps
    <2>13. CASE Finish(e)  BY <2>13, FinishKeeps
    <2>14. ASSUME NEW x \in Val, SpawnFill(e, x) PROVE IInv'
      BY <2>14, SpawnFillKeeps
    <2>15. CASE SpawnUnmap(e)  BY <2>15, SpawnUnmapKeeps
    <2>16. CASE SpawnFails(e)  BY <2>16, SpawnFailsDrops, DropKeeps
    <2>17. CASE exit(e)  BY <2>17, ExitDrops, DropKeeps
    <2> QED BY <1>2, <2>1, <2>2, <2>3, <2>4, <2>5, <2>6, <2>7, <2>8, <2>9, <2>10, <2>11,
               <2>12, <2>13, <2>14, <2>15, <2>16, <2>17 DEF EnvNext
  <1> QED BY <1>1, <1>2 DEF Next

\* Every reachable state satisfies the invariant.
THEOREM ForkInvariant == Spec => []IInv
  BY InitIInv, NextIInv, PTL DEF Spec

\* A private page is private: fork(), cow_entry and spawn() never leave two mappings
\* of a page of which one is writable, whatever runs between their system calls, but
\* for shared pages and the one that the parent of a child is about to hand over.
THEOREM ForkSound == Spec => []Sound
  <1>1. IInv => Sound  BY DEF IInv, Sound
  <1> QED BY <1>1, ForkInvariant, PTL

(***************************************************************************)
(* The refinement of AddressSpaces.  Seen(e, v) is what the refinement     *)
(* mapping of Fork gives mem[e][v]; every action is a step of one of the   *)
(* kinds of AddressSpaces, or changes nothing that is seen.                *)
(***************************************************************************)
Seen(e, v) == IF ~Mapped(e, v) \/ Pending(e, v) THEN NULL ELSE data[pt[e][v].page]
Memory == [e \in Env |-> [v \in Va |-> Seen(e, v)]]

LEMMA MemoryType ==
    \A e \in Env : \A v \in Va : Memory[e][v] = Seen(e, v) /\ Memory'[e][v] = Seen(e, v)'
  BY DEF Memory

LEMMA SeenStutter ==
    ASSUME UNCHANGED live, \A e \in Env, v \in Va : Seen(e, v)' = Seen(e, v)
    PROVE  UNCHANGED Mem!vars
  <1>1. Memory' = Memory  BY DEF Memory
  <1>2. Mem!vars = <<Memory, live>>  BY DEF Mem!vars, Memory, Seen
  <1>3. Mem!vars' = <<Memory', live'>>  BY DEF Mem!vars, Memory, Seen
  <1> QED BY <1>1, <1>2, <1>3

LEMMA SeenWrite ==
    ASSUME NEW e \in Env, NEW v \in Va, NEW x \in Val, e \in live, UNCHANGED live,
           Seen(e, v) # NULL,
           \A f \in Env, w \in Va :
             Seen(f, w)' = IF (f = e /\ w = v) \/ (v \in Shared /\ w = v /\ Seen(f, w) # NULL)
                           THEN x ELSE Seen(f, w)
    PROVE  Mem!Next
  <1>1. CASE v \in Shared
    <2>1. Memory' = [f \in Env |-> IF Memory[f][v] # NULL
                                   THEN [Memory[f] EXCEPT ![v] = x] ELSE Memory[f]]
      BY <1>1 DEF Memory
    <2>2. Mem!Write(e, v, x)
      BY <1>1, <2>1, MemoryType DEF Mem!Write, Mem!Has, Memory, Seen
    <2> QED BY <2>2 DEF Mem!Next
  <1>2. CASE v \notin Shared
    <2>1. Memory' = [Memory EXCEPT ![e][v] = x]
      BY <1>2 DEF Memory
    <2>2. Mem!Write(e, v, x)
      BY <1>2, <2>1, MemoryType DEF Mem!Write, Mem!Has, Memory, Seen
    <2> QED BY <2>2 DEF Mem!Next
  <1> QED BY <1>1, <1>2

\* One page of an env that does not run appears.
LEMMA SeenCopy ==
    ASSUME NEW e \in Env, NEW c \in Env, NEW v \in Va, e \in live, c \notin live,
           UNCHANGED live,
           Seen(e, v) # NULL, Seen(c, v) = NULL, Seen(c, v)' = Seen(e, v),
           \A f \in Env, w \in Va : f # c \/ w # v => Seen(f, w)' = Seen(f, w)
    PROVE  Mem!Next
  <1>1. Memory' = [Memory EXCEPT ![c][v] = Memory[e][v]]
    BY DEF Memory
  <1>2. Mem!Copy(e, c, v)
    BY <1>1, MemoryType DEF Mem!Copy, Mem!Has, Memory, Seen
  <1> QED BY <1>2 DEF Mem!Next

LEMMA SeenLoad ==
    ASSUME NEW c \in Env, NEW v \in Va, NEW x \in Val, c \notin live, UNCHANGED live,
           v \notin Shared, Seen(c, v) = NULL, Seen(c, v)' = x,
           \A f \in Env, w \in Va : f # c \/ w # v => Seen(f, w)' = Seen(f, w)
    PROVE  Mem!Next
  <1>1. Memory' = [Memory EXCEPT ![c][v] = x]
    BY DEF Memory
  <1>2. Mem!Load(c, v, x)
    BY <1>1, MemoryType DEF Mem!Load, Mem!Has, Memory, Seen
  <1> QED BY <1>2 DEF Mem!Next

LEMMA SeenStart ==
    ASSUME NEW c \in Env, live' = live \cup {c},
           \A f \in Env, w \in Va : Seen(f, w)' = Seen(f, w)
    PROVE  Mem!Next
  <1>1. Memory' = Memory  BY DEF Memory
  <1>2. Mem!Start(c)  BY <1>1 DEF Mem!Start, Memory, Seen
  <1> QED BY <1>2 DEF Mem!Next

LEMMA SeenGone ==
    ASSUME NEW d \in Env, live' = live \ {d},
           \A f \in Env, w \in Va : Seen(f, w)' = IF f = d THEN NULL ELSE Seen(f, w)
    PROVE  Mem!Next
  <1>1. Memory' = [Memory EXCEPT ![d] = [v \in Va |-> NULL]]
    BY DEF Memory
  <1>2. Mem!Gone(d)
    BY <1>1 DEF Mem!Gone, Memory, Seen
  <1> QED BY <1>2 DEF Mem!Next

\* What a running env reads, and what is seen of a page whose entry and contents stay.
LEMMA SeenLive ==
    ASSUME IInv, NEW e \in Env, NEW v \in Va, e \in live, Mapped(e, v)
    PROVE  /\ Seen(e, v) = data[pt[e][v].page] /\ Seen(e, v) \in Val /\ Seen(e, v) # NULL
           /\ pt[e][v].page \in Page
  <1>1. ~Pending(e, v)  BY LiveDone DEF IInv
  <1>2. pt[e][v] \in Entry  BY VaPages DEF IInv, TypeOK, Mapped
  <1> QED BY <1>1, <1>2, Names DEF IInv, TypeOK, Entry, Seen

LEMMA SeenSame ==
    ASSUME NEW f \in Env, NEW w \in Va, Pending(f, w)' <=> Pending(f, w),
           Mapped(f, w)' <=> Mapped(f, w),
           Mapped(f, w) /\ ~Pending(f, w) => data'[pt'[f][w].page] = data[pt[f][w].page]
    PROVE  Seen(f, w)' = Seen(f, w)
  BY DEF Seen

LEMMA WriteSeen ==
    ASSUME IInv, NEW e \in Env, NEW v \in Va, NEW x \in Val, Write(e, v, x)
    PROVE  Mem!Next
  <1> DEFINE p == pt[e][v].page
  <1>1. /\ UNCHANGED <<pt, live, job>> /\ e \in live /\ Mapped(e, v)
        /\ pt[e][v].perm \in {"D", "L"}
        /\ data' = [data EXCEPT ![p] = x]
    BY DEF Write, InProgram
  <1>2. p \in Page /\ Seen(e, v) # NULL
    BY <1>1, SeenLive
  <1> HIDE DEF p
  <1>3. data'[p] = x /\ \A q : q # p => data'[q] = data[q]
    BY <1>1, <1>2 DEF IInv, TypeOK
  <1>4. v \in Shared <=> pt[e][v].perm = "L"
    BY <1>1 DEF IInv, Kinds
  <1>5. ASSUME NEW f \in Env, NEW w \in Va
        PROVE  Seen(f, w)' = IF (f = e /\ w = v) \/ (v \in Shared /\ w = v /\ Seen(f, w) # NULL)
                             THEN x ELSE Seen(f, w)
    <2>1. (Pending(f, w)' <=> Pending(f, w)) /\ (Mapped(f, w)' <=> Mapped(f, w))
      BY <1>1 DEF Pending, Mapped
    <2>2. CASE f = e /\ w = v
      BY <1>1, <1>2, <1>3, <2>1, <2>2 DEF Seen, p
    <2>3. CASE ~Mapped(f, w) \/ Pending(f, w)
      BY <1>2, <2>1, <2>3 DEF Seen
    <2>4. CASE ~(f = e /\ w = v) /\ Mapped(f, w) /\ ~Pending(f, w)
      <3>1. Seen(f, w) = data[pt[f][w].page] /\ Seen(f, w)' = data'[pt[f][w].page]
        BY <1>1, <2>1, <2>4 DEF Seen
      <3>2. pt[f][w] \in Entry /\ Seen(f, w) \in Val /\ Seen(f, w) # NULL
        BY <2>4, <3>1, Names, VaPages DEF IInv, TypeOK, Mapped, Entry
      <3>3. CASE v \in Shared /\ w = v
        <4>1. pt[f][w].page = p
          BY <1>1, <2>4, <3>3 DEF IInv, Kinds, p
        <4> QED BY <1>3, <3>1, <3>2, <3>3, <4>1
      <3>4. CASE ~(v \in Shared /\ w = v)
        <4>1. pt[f][w].page # p
          <5> SUFFICES ASSUME SamePage(e, v, f, w) PROVE FALSE
            BY <1>1, <2>4 DEF SamePage, p
          <5>1. v = w  BY DEF IInv, Kinds
          <5>2. pt[e][v].perm = "D"  BY <1>1, <1>4, <3>4, <5>1
          <5>3. ~Pending(e, v)  BY <1>1, LiveDone DEF IInv
          <5> QED BY <2>4, <5>1, <5>2, <5>3 DEF IInv, Isolated
        <4> QED BY <1>3, <2>4, <3>1, <3>4, <4>1
      <3> QED BY <3>3, <3>4
    <2> QED BY <2>2, <2>3, <2>4 DEF Seen
  <1> QED BY <1>1, <1>2, <1>5, SeenWrite

\* Nothing is seen of a change to contents that nobody but a child not handed over
\* maps at a page of programs.
LEMMA UnseenWrite ==
    ASSUME IInv, NEW p \in Page, UNCHANGED <<live, job>>,
           \A f \in Env, w \in Va : pt'[f][w] = pt[f][w],
           \A q \in Page : q # p => data'[q] = data[q],
           \A f \in Env, w \in Va : Mapped(f, w) /\ pt[f][w].page = p => Pending(f, w)
    PROVE  UNCHANGED Mem!vars
  <1>1. ASSUME NEW f \in Env, NEW w \in Va PROVE Seen(f, w)' = Seen(f, w)
    <2>1. (Pending(f, w)' <=> Pending(f, w)) /\ (Mapped(f, w)' <=> Mapped(f, w))
      BY DEF Pending, Mapped
    <2>2. Mapped(f, w) => pt[f][w].page \in Page
      BY VaPages DEF IInv, TypeOK, Mapped, Entry
    <2> QED BY <2>1, <2>2, SeenSame
  <1> QED BY <1>1, SeenStutter

LEMMA FaultSeen ==
    ASSUME IInv, NEW e \in Env, NEW v \in Va, Fault(e, v)
    PROVE  UNCHANGED Mem!vars
  <1>1. UNCHANGED <<pt, data, live, job>>  BY DEF Fault
  <1>2. \A f \in Env, w \in Va : Seen(f, w)' = Seen(f, w)
    BY <1>1 DEF Seen, Mapped, Pending
  <1> QED BY <1>1, <1>2, SeenStutter

LEMMA CowAllocSeen ==
    ASSUME IInv, NEW e \in Env, CowAlloc(e)
    PROVE  UNCHANGED Mem!vars
  <1>1. NewPage \in Page /\ Free(NewPage)  BY NewPageFree DEF IInv
  <1>2. UNCHANGED <<live, job>>  BY DEF CowAlloc, Step
  <1>3. \A f \in Env, w \in Va : pt'[f][w] = pt[f][w]
    BY VaPages DEF CowAlloc, IInv, TypeOK
  <1>4. \A q \in Page : q # NewPage => data'[q] = data[q]
    BY DEF CowAlloc, IInv, TypeOK
  <1> QED BY <1>1, <1>2, <1>3, <1>4, UnseenWrite, VaPages DEF Free

LEMMA CowCopySeen ==
    ASSUME IInv, NEW e \in Env, CowCopy(e)
    PROVE  UNCHANGED Mem!vars
  <1> DEFINE p == pt[e][UCOW].page
  <1>1. fault[e] # NoFault /\ fault[e].step = 2 /\ UNCHANGED <<pt, live, job>>
    BY StepType DEF CowCopy, IInv
  <1>2. CowPage(e) /\ p \in Page  BY <1>1, FaultFacts
  <1>3. \A q \in Page : q # p => data'[q] = data[q]
    BY DEF CowCopy, IInv, TypeOK
  <1>4. \A f \in Env, w \in Va : ~(Mapped(f, w) /\ pt[f][w].page = p)
    BY <1>2, VaPages DEF CowPage, SamePage
  <1> HIDE DEF p
  <1> QED BY <1>1, <1>2, <1>3, <1>4, UnseenWrite

\* The page that takes the place of the one that was PTE_COW reads the same.
LEMMA CowMapSeen ==
    ASSUME IInv, NEW e \in Env, CowMap(e)
    PROVE  UNCHANGED Mem!vars
  <1> DEFINE va == fault[e].va
  <1>1. fault[e] # NoFault /\ fault[e].step = 3 /\ UNCHANGED <<data, live, job>>
    BY StepType DEF CowMap, IInv
  <1>2. /\ va \in Va /\ va \in VPage /\ Mapped(e, va) /\ Mapped(e, UCOW)
        /\ data[pt[e][UCOW].page] = data[pt[e][va].page]
    BY <1>1, FaultFacts, VaPages DEF CowPage
  <1>3. /\ pt'[e][va] = pt[e][UCOW]
        /\ \A f \in Env, w \in VPage : f # e \/ w # va => pt'[f][w] = pt[f][w]
    BY <1>2 DEF CowMap, IInv, TypeOK
  <1> HIDE DEF va
  <1>4. ASSUME NEW f \in Env, NEW w \in Va PROVE Seen(f, w)' = Seen(f, w)
    <2>1. Pending(f, w)' <=> Pending(f, w)  BY <1>1 DEF Pending
    <2>2. CASE f = e /\ w = va
      BY <1>1, <1>2, <1>3, <2>1, <2>2, SeenSame DEF Mapped
    <2>3. CASE f # e \/ w # va
      BY <1>1, <1>3, <2>1, <2>3, SeenSame, VaPages DEF Mapped
    <2> QED BY <2>2, <2>3
  <1> QED BY <1>1, <1>4, SeenStutter

LEMMA CowUnmapSeen ==
    ASSUME IInv, NEW e \in Env, CowUnmap(e)
    PROVE  UNCHANGED Mem!vars
  <1>1. UNCHANGED <<data, live, job>>  BY DEF CowUnmap, Step
  <1>2. \A f \in Env, w \in Va : pt'[f][w] = pt[f][w]
    BY VaPages DEF CowUnmap, IInv, TypeOK
  <1>3. \A f \in Env, w \in Va : Seen(f, w)' = Seen(f, w)
    BY <1>1, <1>2 DEF Seen, Mapped, Pending
  <1> QED BY <1>1, <1>3, SeenStutter

LEMMA SpawnFillSeen ==
    ASSUME IInv, NEW e \in Env, NEW x \in Val, SpawnFill(e, x)
    PROVE  UNCHANGED Mem!vars
  <1> DEFINE p == pt[e][UTEMP].page
  <1>1. /\ UNCHANGED <<pt, live, job>> /\ InJob(e) /\ job[e].op = "spawn"
        /\ job[e].half # NULL /\ data' = [data EXCEPT ![p] = x]
    BY DEF SpawnFill, InJob
  <1>2. HalfSpawn(e)  BY <1>1, HalfFacts
  <1>3. p \in Page  BY <1>2, VaPages DEF HalfSpawn, IInv, TypeOK, Mapped, Entry
  <1>4. \A f \in Env, w \in Va : Mapped(f, w) /\ pt[f][w].page = p => Pending(f, w)
    BY <1>2, VaPages DEF HalfSpawn, SamePage, Pending
  <1>5. \A q \in Page : q # p => data'[q] = data[q]
    BY <1>1 DEF IInv, TypeOK
  <1> HIDE DEF p
  <1> QED BY <1>1, <1>3, <1>4, <1>5, UnseenWrite

\* syscall_exofork: the child has nothing yet.
LEMMA BeginSeen ==
    ASSUME IInv, NEW e \in Env, NEW c \in Env, NEW op, NEW todo, Begin(e, c, op, todo)
    PROVE  UNCHANGED Mem!vars
  <1> DEFINE j == [op |-> op, child |-> c, todo |-> todo, half |-> NULL]
  <1>1. /\ job[e] = NoJob /\ job' = [job EXCEPT ![e] = j] /\ UNCHANGED <<pt, data, live>>
    BY DEF Begin
  <1>2. j.half = NULL /\ job[e].half = NULL  BY <1>1
  <1> HIDE DEF j
  <1>3. job'[e] = j /\ \A f \in Env \ {e} : job'[f] = job[f]
    BY <1>1 DEF IInv, TypeOK
  <1>4. \A f \in Env, w \in Va : Pending(f, w)' <=> Pending(f, w)
    BY <1>2, <1>3, Names, VaPages DEF Pending
  <1>5. \A f \in Env, w \in Va : Seen(f, w)' = Seen(f, w)
    BY <1>1, <1>4 DEF Seen, Mapped
  <1> QED BY <1>1, <1>5, SeenStutter

LEMMA FinishSeen ==
    ASSUME IInv, NEW e \in Env, Finish(e)
    PROVE  Mem!Next
  <1> DEFINE c == job[e].child
  <1>1. /\ InJob(e) /\ MayCall(e) /\ job[e].half = NULL /\ live' = live \cup {c}
        /\ job' = [job EXCEPT ![e] = NoJob] /\ UNCHANGED <<pt, data>>
    BY DEF Finish, IInv, Jobs, InJob
  <1>2. c \in Env  BY <1>1, CallFacts
  <1>3. NoJob.half = NULL  OBVIOUS
  <1> HIDE DEF NoJob, c
  <1>4. job'[e] = NoJob /\ \A f \in Env \ {e} : job'[f] = job[f]
    BY <1>1 DEF IInv, TypeOK
  <1>5. \A f \in Env, w \in Va : Pending(f, w)' <=> Pending(f, w)
    BY <1>1, <1>3, <1>4, Names, VaPages DEF Pending
  <1>6. \A f \in Env, w \in Va : Seen(f, w)' = Seen(f, w)
    BY <1>1, <1>5 DEF Seen, Mapped
  <1> QED BY <1>1, <1>2, <1>6, SeenStart

\* duppage: a page without PTE_COW is copied at once, one with PTE_COW when the
\* parent has it, too.
LEMMA HandSeen ==
    ASSUME IInv, NEW e \in Env, NEW v \in Va, Hand(e, v)
    PROVE  Mem!Next \/ UNCHANGED Mem!vars
  <1> DEFINE q == IF Private(e, v) THEN "C" ELSE pt[e][v].perm
             x == [pt[e][v] EXCEPT !.perm = q]
             h == IF Private(e, v) THEN v ELSE NULL
  <1>1. /\ MayCall(e) /\ InJob(e) /\ v \in job[e].todo /\ job[e].half = NULL
        /\ Mapped(e, v) /\ UNCHANGED <<data, live>>
    BY DEF Hand
  <1> PICK c : c = job[e].child  OBVIOUS
  <1>2. /\ e \in live /\ c \in Env /\ c \notin live /\ c # e
        /\ \A f \in Env : job[f].child = c => f = e
    BY <1>1, CallFacts
  <1>3. ~Mapped(c, v)  BY <1>1 DEF IInv, Todo
  <1>4. x \in Entry /\ x # NULL /\ x.page = pt[e][v].page
    <2>1. pt[e][v] \in Entry  BY <1>1, VaPages DEF IInv, TypeOK, Mapped
    <2>2. x \in Entry /\ x.page = pt[e][v].page  BY <2>1 DEF Entry
    <2> QED BY <2>2, Names
  <1>5. pt' = [pt EXCEPT ![c][v] = x]  BY VaPages DEF Hand, IInv, TypeOK
  <1>6. \A f \in Env \ {e} : job'[f] = job[f]  BY DEF Hand, IInv, TypeOK
  <1>7. job'[e].half = h /\ job'[e].child = c  BY DEF Hand, IInv, TypeOK
  <1> HIDE DEF x, q, h
  <1>8. /\ pt'[c][v] = x
        /\ \A f \in Env, w \in Va : f # c \/ w # v => pt'[f][w] = pt[f][w]
    BY <1>2, <1>5, VaPages DEF IInv, TypeOK
  <1>9. \A f \in Env, w \in Va :
          Pending(f, w)' <=> Pending(f, w) \/ (f = c /\ w = h)
    BY <1>1, <1>6, <1>7, Names, VaPages DEF Pending
  <1>10. \A w \in Va : ~Pending(c, w)
    BY <1>1, <1>2, Names, VaPages DEF Pending
  <1>11. Seen(e, v) = data[pt[e][v].page] /\ Seen(e, v) # NULL
    BY <1>1, <1>2, SeenLive
  <1>12. \A f \in Env, w \in Va : f # c \/ w # v => Seen(f, w)' = Seen(f, w)
    BY <1>1, <1>8, <1>9, VaPages, Names DEF Seen, Mapped, h
  <1>13. Seen(c, v) = NULL  BY <1>3 DEF Seen
  <1>14. CASE Private(e, v)
    <2>1. Seen(c, v)' = NULL  BY <1>2, <1>9, <1>14 DEF Seen, h
    <2> QED BY <1>1, <1>12, <1>13, <2>1, SeenStutter
  <1>15. CASE ~Private(e, v)
    <2>1. ~Pending(c, v)'  BY <1>2, <1>9, <1>10, <1>15, Names, VaPages DEF h
    <2>2. Seen(c, v)' = data[pt[e][v].page]
      BY <1>1, <1>4, <1>8, <2>1 DEF Seen, Mapped
    <2> QED BY <1>1, <1>2, <1>11, <1>12, <1>13, <2>2, SeenCopy
  <1> QED BY <1>14, <1>15

LEMMA DupSecondSeen ==
    ASSUME IInv, NEW e \in Env, DupSecond(e)
    PROVE  Mem!Next
  <1> PICK c, h : c = job[e].child /\ h = job[e].half  OBVIOUS
  <1> DEFINE x == [pt[e][h] EXCEPT !.perm = "C"]
  <1>1. /\ MayCall(e) /\ InJob(e) /\ job[e].op = "fork" /\ h # NULL
        /\ UNCHANGED <<data, live>>
    BY DEF DupSecond, InJob
  <1>2. /\ e \in live /\ c \in Env /\ c \notin live /\ c # e
        /\ \A f \in Env : job[f].child = c => f = e
    BY <1>1, CallFacts
  <1>3. h \in Va /\ h \in VPage /\ HalfDup(e)
    BY <1>1, HalfFacts, VaPages
  <1>4. Mapped(e, h) /\ Mapped(c, h) /\ pt[c][h].page = pt[e][h].page
    BY <1>3 DEF HalfDup
  <1>5. x # NULL /\ x.page = pt[e][h].page
    <2>1. pt[e][h] \in Entry  BY <1>3, <1>4 DEF IInv, TypeOK, Mapped
    <2>2. x \in Entry /\ x.page = pt[e][h].page  BY <2>1 DEF Entry
    <2> QED BY <2>2, Names
  <1>6. pt' = [pt EXCEPT ![e][h] = x]
    BY <1>3 DEF DupSecond, Remap, IInv, TypeOK
  <1>7. job'[e].half = NULL /\ \A f \in Env \ {e} : job'[f] = job[f]
    BY DEF DupSecond, IInv, TypeOK
  <1> HIDE DEF x
  <1>8. /\ pt'[e][h] = x
        /\ \A f \in Env, w \in Va : f # e \/ w # h => pt'[f][w] = pt[f][w]
    BY <1>3, <1>6, VaPages DEF IInv, TypeOK
  <1>9. \A f \in Env, w \in Va : Pending(f, w)' <=> Pending(f, w) /\ ~(f = c /\ w = h)
    BY <1>1, <1>2, <1>7, Names, VaPages DEF Pending
  <1>10. Pending(c, h)  BY DEF Pending
  <1>11. Seen(e, h) = data[pt[e][h].page] /\ Seen(e, h) # NULL
    BY <1>2, <1>3, <1>4, SeenLive
  <1>12. Seen(c, h) = NULL /\ Seen(c, h)' = Seen(e, h)
    BY <1>1, <1>2, <1>3, <1>4, <1>8, <1>9, <1>10, <1>11 DEF Seen, Mapped
  <1>13. ASSUME NEW f \in Env, NEW w \in Va, f # c \/ w # h
         PROVE  Seen(f, w)' = Seen(f, w)
    <2>1. Pending(f, w)' <=> Pending(f, w)  BY <1>9, <1>13
    <2>2. Mapped(f, w)' <=> Mapped(f, w)
      BY <1>4, <1>5, <1>8 DEF Mapped
    <2>3. Mapped(f, w) => pt'[f][w].page = pt[f][w].page
      BY <1>5, <1>8
    <2> QED BY <1>1, <2>1, <2>2, <2>3, SeenSame
  <1> QED BY <1>1, <1>2, <1>3, <1>11, <1>12, <1>13, SeenCopy

LEMMA SpawnMapSeen ==
    ASSUME IInv, NEW e \in Env, NEW v \in Va, SpawnMap(e, v)
    PROVE  UNCHANGED Mem!vars
  <1> PICK c : c = job[e].child  OBVIOUS
  <1>1. /\ MayCall(e) /\ InJob(e) /\ v \in job[e].todo /\ job[e].half = NULL
        /\ UNCHANGED live /\ data' = [data EXCEPT ![NewPage] = Zero]
    BY DEF SpawnMap, InJob
  <1>2. /\ c \in Env /\ \A f \in Env : job[f].child = c => f = e
    BY <1>1, CallFacts
  <1>3. ~Mapped(c, v)  BY <1>1 DEF IInv, Todo
  <1>4. \A f \in Env \ {e} : job'[f] = job[f]  BY DEF SpawnMap, IInv, TypeOK
  <1>5. job'[e].half = v /\ job'[e].child = c  BY DEF SpawnMap, IInv, TypeOK
  <1>6. \A f \in Env, w \in Va : f # c \/ w # v => pt'[f][w] = pt[f][w]
    <2>1. pt \in [Env -> [VPage -> Entry \cup {NULL}]]  BY DEF IInv, TypeOK
    <2> QED BY <1>2, <2>1, VaPages DEF SpawnMap
  <1>7. \A f \in Env, w \in Va : Pending(f, w)' <=> Pending(f, w) \/ (f = c /\ w = v)
    BY <1>1, <1>4, <1>5, Names, VaPages DEF Pending
  <1>8. NewPage \in Page /\ Free(NewPage)  BY NewPageFree DEF IInv
  <1>9. \A q \in Page : q # NewPage => data'[q] = data[q]
    BY <1>1 DEF IInv, TypeOK
  <1>10. ASSUME NEW f \in Env, NEW w \in Va PROVE Seen(f, w)' = Seen(f, w)
    <2>1. CASE f = c /\ w = v
      BY <1>3, <1>7, <2>1 DEF Seen
    <2>2. CASE f # c \/ w # v
      <3>1. (Pending(f, w)' <=> Pending(f, w)) /\ (Mapped(f, w)' <=> Mapped(f, w))
        BY <1>6, <1>7, <2>2 DEF Mapped
      <3>2. Mapped(f, w) => pt[f][w].page \in Page /\ pt[f][w].page # NewPage
        BY <1>8, VaPages DEF Free, IInv, TypeOK, Mapped, Entry
      <3> QED BY <1>6, <1>9, <2>2, <3>1, <3>2, SeenSame
    <2> QED BY <2>1, <2>2
  <1> QED BY <1>1, <1>10, SeenStutter

LEMMA SpawnUnmapSeen ==
    ASSUME IInv, NEW e \in Env, SpawnUnmap(e)
    PROVE  Mem!Next
  <1> PICK c, h : c = job[e].child /\ h = job[e].half  OBVIOUS
  <1> PICK x : x = data[pt[c][h].page]  OBVIOUS
  <1>1. /\ MayCall(e) /\ InJob(e) /\ job[e].op = "spawn" /\ h # NULL
        /\ UNCHANGED <<data, live>>
    BY DEF SpawnUnmap, InJob
  <1>2. /\ c \in Env /\ c \notin live /\ \A f \in Env : job[f].child = c => f = e
    BY <1>1, CallFacts
  <1>3. h \in Va /\ h \in VPage /\ h \notin Shared /\ Mapped(c, h)
    BY <1>1, HalfFacts, VaPages DEF HalfSpawn
  <1>4. x \in Val
    BY <1>2, <1>3 DEF IInv, TypeOK, Mapped, Entry
  <1>5. job'[e].half = NULL /\ \A f \in Env \ {e} : job'[f] = job[f]
    BY DEF SpawnUnmap, IInv, TypeOK
  <1>6. \A f \in Env, w \in Va : pt'[f][w] = pt[f][w]
    BY VaPages DEF SpawnUnmap, IInv, TypeOK
  <1>7. \A f \in Env, w \in Va : Pending(f, w)' <=> Pending(f, w) /\ ~(f = c /\ w = h)
    BY <1>1, <1>2, <1>5, Names, VaPages DEF Pending
  <1>8. Pending(c, h)  BY DEF Pending
  <1>9. Seen(c, h) = NULL /\ Seen(c, h)' = x
    BY <1>1, <1>2, <1>3, <1>6, <1>7, <1>8 DEF Seen, Mapped
  <1>10. \A f \in Env, w \in Va : f # c \/ w # h => Seen(f, w)' = Seen(f, w)
    BY <1>1, <1>6, <1>7 DEF Seen, Mapped
  <1> QED BY <1>1, <1>2, <1>3, <1>4, <1>9, <1>10, SeenLoad

LEMMA DropSeen ==
    ASSUME IInv, NEW d \in Env, Drop(d)
    PROVE  Mem!Next
  <1>1. /\ \A w \in Va : pt'[d][w] = NULL
        /\ \A f \in Env, w \in Va : f # d => pt'[f][w] = pt[f][w]
    BY VaPages DEF Drop, IInv, TypeOK
  <1>2. live' = live \ {d} /\ UNCHANGED data  BY DEF Drop
  <1>3. \A f \in Env, w \in Va : f # d => (Pending(f, w)' <=> Pending(f, w))
    BY Names, VaPages DEF Drop, Pending
  <1>4. \A f \in Env, w \in Va : Seen(f, w)' = IF f = d THEN NULL ELSE Seen(f, w)
    BY <1>1, <1>2, <1>3 DEF Seen, Mapped
  <1> QED BY <1>2, <1>4, SeenGone

LEMMA NextSeen == IInv /\ [Next]_vars => [Mem!Next]_(Mem!vars)
  <1> SUFFICES ASSUME IInv, [Next]_vars PROVE Mem!Next \/ UNCHANGED Mem!vars
    OBVIOUS
  <1>1. CASE UNCHANGED vars
    <2>1. \A f \in Env, w \in Va : Seen(f, w)' = Seen(f, w)
      BY <1>1 DEF vars, Seen, Mapped, Pending
    <2> QED BY <1>1, <2>1, SeenStutter DEF vars
  <1>2. ASSUME NEW e \in Env, EnvNext(e) PROVE Mem!Next \/ UNCHANGED Mem!vars
    <2>1. ASSUME NEW v \in Va, NEW x \in Val, Write(e, v, x) PROVE Mem!Next
      BY <2>1, WriteSeen
    <2>2. ASSUME NEW v \in Va, Fault(e, v) PROVE UNCHANGED Mem!vars
      BY <2>2, FaultSeen
    <2>3. CASE CowAlloc(e)  BY <2>3, CowAllocSeen
    <2>4. CASE CowCopy(e)  BY <2>4, CowCopySeen
    <2>5. CASE CowMap(e)  BY <2>5, CowMapSeen
    <2>6. CASE CowUnmap(e)  BY <2>6, CowUnmapSeen
    <2>7. ASSUME NEW c \in Env, fork(e, c) PROVE UNCHANGED Mem!vars
      BY <2>7, BeginSeen DEF fork
    <2>8. ASSUME NEW c \in Env, spawn(e, c) PROVE UNCHANGED Mem!vars
      BY <2>8, BeginSeen DEF spawn
    <2>9. ASSUME NEW v \in Va, DupFirst(e, v) PROVE Mem!Next \/ UNCHANGED Mem!vars
      BY <2>9, DupFirstHands, HandSeen
    <2>10. ASSUME NEW v \in Va, SpawnMap(e, v) PROVE UNCHANGED Mem!vars
      BY <2>10, SpawnMapSeen
    <2>11. ASSUME NEW v \in Va, SpawnShare(e, v) PROVE Mem!Next \/ UNCHANGED Mem!vars
      BY <2>11, SpawnShareHands, HandSeen
    <2>12. CASE DupSecond(e)  BY <2>12, DupSecondSeen
    <2>13. CASE Finish(e)  BY <2>13, FinishSeen
    <2>14. ASSUME NEW x \in Val, SpawnFill(e, x) PROVE UNCHANGED Mem!vars
      BY <2>14, SpawnFillSeen
    <2>15. CASE SpawnUnmap(e)  BY <2>15, SpawnUnmapSeen
    <2>16. CASE SpawnFails(e)  BY <2>16, SpawnFailsDrops, DropSeen
    <2>17. CASE exit(e)  BY <2>17, ExitDrops, DropSeen
    <2> QED BY <1>2, <2>1, <2>2, <2>3, <2>4, <2>5, <2>6, <2>7, <2>8, <2>9, <2>10, <2>11,
               <2>12, <2>13, <2>14, <2>15, <2>16, <2>17 DEF EnvNext
  <1> QED BY <1>1, <1>2 DEF Next

LEMMA InitSeen == Init => Mem!Init
  <1> SUFFICES ASSUME Init PROVE Mem!Init  OBVIOUS
  <1>1. /\ IInv /\ live = {First} /\ First \in Env
        /\ \A e \in Env, v \in VPage : e # First => ~Mapped(e, v)
        /\ \A e \in Env : job[e] = NoJob
    BY InitIInv, Names DEF Init, Mapped
  <1>2. \A e \in Env, v \in Va : Seen(e, v) \in Val \cup {NULL}
    BY <1>1, VaPages DEF Seen, IInv, TypeOK, Mapped, Entry
  <1>3. Memory \in [Env -> [Va -> Val \cup {NULL}]]
    BY <1>2 DEF Memory
  <1>4. \A f \in Env, v \in Va : f # First => Seen(f, v) = NULL
    BY <1>1, VaPages DEF Seen
  <1>5. \A f \in Env, v \in Va : f # First => Memory[f][v] = NULL
    BY <1>4 DEF Memory
  <1> QED BY <1>1, <1>3, <1>5 DEF Mem!Init, Mem!Has, Memory, Seen

\* fork(), cow_entry and spawn() together are address spaces that are copied at once,
\* page by page, and separate from then on but for the shared pages: between their
\* system calls no program ever reads what it should not, nor misses a write.
THEOREM ForkImplementsMemory == Spec => MemSpec
  <1>1. Spec => Mem!Init
    BY InitSeen DEF Spec
  <1>2. Spec => [][Mem!Next]_(Mem!vars)
    BY NextSeen, ForkInvariant, PTL DEF Spec
  <1> QED BY <1>1, <1>2, PTL DEF MemSpec, Mem!Spec
=============================================================================
