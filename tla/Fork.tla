-------------------------------- MODULE Fork --------------------------------
(***************************************************************************)
(* fork() with copy on write (user/lib/fork.c) and spawn()                 *)
(* (user/lib/spawn.c): how the pages of a parent reach its child.          *)
(*                                                                         *)
(* Both run in user mode as a series of system calls.  The other envs run  *)
(* between two of them, and the caller itself goes on writing its stack:   *)
(* a write to a page marked PTE_COW enters cow_entry, which is again a     *)
(* series of system calls.  A system call is atomic.  Reference counts and *)
(* the free list are the matter of PageMap: here a page is free when       *)
(* nobody maps it, and there are enough of them.                           *)
(***************************************************************************)
EXTENDS FiniteSets, Naturals

CONSTANTS Env, Val, Page,
          Va,          \* the virtual pages of programs, below USTACKTOP
          Shared,      \* those mapped with PTE_LIBRARY
          ReadOnly,    \* those mapped without PTE_D (program text)
          Stack,       \* those that fork() and spawn() write by running
          UCOW, UTEMP, \* scratch pages of cow_entry and spawn
          First,       \* the first env
          Image,       \* and the page of each of its virtual pages
          Zero,        \* the contents of a page fresh from page_alloc
          NULL

VPage == Va \cup {UCOW, UTEMP}
\* "R" plain, "D" PTE_D, "C" PTE_COW, "L" PTE_D and PTE_LIBRARY
Perm  == {"R", "D", "C", "L"}
Entry == [page : Page, perm : Perm]

ASSUME NamesAssumption ==
    /\ UCOW \notin Va /\ UTEMP \notin Va /\ UCOW # UTEMP
    /\ Shared \cup ReadOnly \cup Stack \subseteq Va
    /\ Shared \cap (ReadOnly \cup Stack) = {} /\ ReadOnly \cap Stack = {}
    /\ NULL \notin Env \cup VPage \cup Val \cup Entry
    /\ Zero \in Val /\ First \in Env
    /\ Image \in [Va -> Page] /\ \A v, w \in Va : Image[v] = Image[w] => v = w
\* There is memory for everybody.
ASSUME PagesAssumption ==
    /\ IsFiniteSet(Env) /\ IsFiniteSet(Va) /\ IsFiniteSet(Page)
    /\ Cardinality(Env \X VPage) < Cardinality(Page)

VARIABLES
    pt,     \* the page tables
    data,   \* the contents of the pages
    live,   \* ENV_RUNNABLE
    job,    \* an env inside fork() or spawn(): its child, the pages still to do and
            \* the page it is in the middle of
    fault   \* an env inside cow_entry: the page and the next step

vars == <<pt, data, live, job, fault>>

NoJob   == [op |-> "none", child |-> NULL, todo |-> {}, half |-> NULL]
Job     == [op : {"none", "fork", "spawn"}, child : Env \cup {NULL},
            todo : SUBSET Va, half : Va \cup {NULL}]
NoFault == [va |-> NULL, step |-> 0]
FaultT  == [va : Va \cup {NULL}, step : 0 .. 4]

Mapped(e, v) == pt[e][v] # NULL
Free(p)      == \A e \in Env, v \in VPage : Mapped(e, v) => pt[e][v].page # p
\* page_alloc: which of the free pages it takes does not matter.
NewPage      == CHOOSE p \in Page : Free(p)
Children     == {job[e].child : e \in Env} \ {NULL}
FreeEnvs     == Env \ (live \cup Children)

\* e runs code of its own, that is, it is not in cow_entry.
InProgram(e) == e \in live /\ fault[e] = NoFault
\* A call writes the stack: it faults before it gets to its system call.
MayCall(e)   == InProgram(e) /\ \A v \in Stack : Mapped(e, v) => pt[e][v].perm # "C"

-----------------------------------------------------------------------------
(* Writing, and user/lib/fork.c cow_entry *)

\* While it is inside fork() or spawn() an env writes its stack only.
Write(e, v, x) ==
    /\ InProgram(e) /\ Mapped(e, v) /\ pt[e][v].perm \in {"D", "L"}
    /\ job[e] # NoJob => v \in Stack
    /\ data' = [data EXCEPT ![pt[e][v].page] = x]
    /\ UNCHANGED <<pt, live, job, fault>>

\* A write to a page marked PTE_COW: do_tlb_mod enters cow_entry.
Fault(e, v) ==
    /\ InProgram(e) /\ Mapped(e, v) /\ pt[e][v].perm = "C"
    /\ job[e] # NoJob => v \in Stack
    /\ fault' = [fault EXCEPT ![e] = [va |-> v, step |-> 1]]
    /\ UNCHANGED <<pt, data, live, job>>

Step(e, n) == /\ fault[e].step = n
              /\ fault' = [fault EXCEPT ![e] = IF n = 4 THEN NoFault ELSE [@ EXCEPT !.step = n + 1]]
              /\ UNCHANGED <<live, job>>

\* syscall_mem_alloc(0, UCOW, perm)
CowAlloc(e) ==
    /\ Step(e, 1)
    /\ pt' = [pt EXCEPT ![e][UCOW] = [page |-> NewPage, perm |-> "D"]]
    /\ data' = [data EXCEPT ![NewPage] = Zero]

\* memcpy from the faulting page
CowCopy(e) ==
    /\ Step(e, 2)
    /\ data' = [data EXCEPT ![pt[e][UCOW].page] = data[pt[e][fault[e].va].page]]
    /\ UNCHANGED pt

\* syscall_mem_map(0, UCOW, 0, va, perm)
CowMap(e) ==
    /\ Step(e, 3)
    /\ pt' = [pt EXCEPT ![e][fault[e].va] = pt[e][UCOW]]
    /\ UNCHANGED data

\* syscall_mem_unmap(0, UCOW); the write is tried again.
CowUnmap(e) ==
    /\ Step(e, 4)
    /\ pt' = [pt EXCEPT ![e][UCOW] = NULL]
    /\ UNCHANGED data

-----------------------------------------------------------------------------
(* fork *)

\* syscall_exofork
Begin(e, c, op, todo) ==
    /\ MayCall(e) /\ job[e] = NoJob
    /\ c \in FreeEnvs
    /\ job' = [job EXCEPT ![e] = [op |-> op, child |-> c, todo |-> todo, half |-> NULL]]
    /\ UNCHANGED <<pt, data, live, fault>>

fork(e, c) == Begin(e, c, "fork", {v \in Va : Mapped(e, v)})

\* Mutant of Private: nothing is marked PTE_COW.
PrivateNever(e, v) == FALSE

\* "flag" of duppage: the page is writable and not shared.
Private(e, v) == pt[e][v].perm = "D"

\* Mutant of Remap: the parent's mapping first.
RemapParentFirst(e, v, perm, n) ==
    [pt EXCEPT ![IF n = 1 /\ Private(e, v) THEN e ELSE job[e].child][v] =
        [pt[e][v] EXCEPT !.perm = perm]]

\* The n-th syscall_mem_map of duppage: the page goes to the child, then to the parent.
Remap(e, v, perm, n) ==
    [pt EXCEPT ![IF n = 1 THEN job[e].child ELSE e][v] = [pt[e][v] EXCEPT !.perm = perm]]

DupFirst(e, v) ==
    /\ job[e].op = "fork" /\ MayCall(e)
    /\ v \in job[e].todo /\ job[e].half = NULL
    /\ pt' = Remap(e, v, IF Private(e, v) THEN "C" ELSE pt[e][v].perm, 1)
    /\ job' = [job EXCEPT ![e].todo = @ \ {v}, ![e].half = IF Private(e, v) THEN v ELSE NULL]
    /\ UNCHANGED <<data, live, fault>>

DupSecond(e) ==
    /\ job[e].op = "fork" /\ job[e].half # NULL /\ MayCall(e)
    /\ pt' = Remap(e, job[e].half, "C", 2)
    /\ job' = [job EXCEPT ![e].half = NULL]
    /\ UNCHANGED <<data, live, fault>>

\* syscall_set_env_status(child, ENV_RUNNABLE)
Finish(e) ==
    /\ job[e] # NoJob /\ MayCall(e)
    /\ job[e].todo = {} /\ job[e].half = NULL
    /\ live' = live \cup {job[e].child}
    /\ job' = [job EXCEPT ![e] = NoJob]
    /\ UNCHANGED <<pt, data, fault>>

-----------------------------------------------------------------------------
(* spawn *)

\* The child gets a stack and the segments of the program, and the pages its parent
\* shares.
spawn(e, c) == Begin(e, c, "spawn", {v \in Va : v \notin Shared \/ Mapped(e, v)})

\* init_stack and spawn_mapper: a new page, at UTEMP and in the child.
SpawnMap(e, v) ==
    /\ job[e].op = "spawn" /\ MayCall(e)
    /\ v \in job[e].todo \ Shared /\ job[e].half = NULL
    /\ pt' = [pt EXCEPT ![e][UTEMP] = [page |-> NewPage, perm |-> "D"],
                        ![job[e].child][v] =
                            [page |-> NewPage, perm |-> IF v \in ReadOnly THEN "R" ELSE "D"]]
    /\ data' = [data EXCEPT ![NewPage] = Zero]
    /\ job' = [job EXCEPT ![e].todo = @ \ {v}, ![e].half = v]
    /\ UNCHANGED <<live, fault>>

\* The arguments, or the bytes of the segment, are written at UTEMP.
SpawnFill(e, x) ==
    /\ job[e].op = "spawn" /\ job[e].half # NULL /\ InProgram(e)
    /\ data' = [data EXCEPT ![pt[e][UTEMP].page] = x]
    /\ UNCHANGED <<pt, live, job, fault>>

\* syscall_mem_unmap(0, UTEMP)
SpawnUnmap(e) ==
    /\ job[e].op = "spawn" /\ job[e].half # NULL /\ MayCall(e)
    /\ pt' = [pt EXCEPT ![e][UTEMP] = NULL]
    /\ job' = [job EXCEPT ![e].half = NULL]
    /\ UNCHANGED <<data, live, fault>>

\* The loop over the pages with PTE_LIBRARY.
SpawnShare(e, v) ==
    /\ job[e].op = "spawn" /\ MayCall(e) /\ job[e].half = NULL
    /\ job[e].todo \cap Shared = job[e].todo /\ v \in job[e].todo
    /\ pt' = [pt EXCEPT ![job[e].child][v] = pt[e][v]]
    /\ job' = [job EXCEPT ![e].todo = @ \ {v}]
    /\ UNCHANGED <<data, live, fault>>

\* The labels err1 and err2: the child is destroyed.  In the middle of a page, UTEMP
\* is left to the caller's next spawn, which maps another page over it.
SpawnFails(e) ==
    /\ job[e].op = "spawn" /\ MayCall(e) /\ job[e].half = NULL
    /\ pt' = [pt EXCEPT ![job[e].child] = [v \in VPage |-> NULL]]
    /\ job' = [job EXCEPT ![e] = NoJob]
    /\ UNCHANGED <<data, live, fault>>

-----------------------------------------------------------------------------
\* sys_env_destroy(0): env_free unmaps everything.
exit(e) ==
    /\ MayCall(e) /\ job[e] = NoJob
    /\ pt' = [pt EXCEPT ![e] = [v \in VPage |-> NULL]]
    /\ live' = live \ {e}
    /\ UNCHANGED <<data, job, fault>>

\* The first program is loaded: each of its pages is its own.
Init ==
    /\ pt = [e \in Env |-> [v \in VPage |-> IF e # First \/ v \notin Va THEN NULL
              ELSE [page |-> Image[v], perm |-> IF v \in Shared THEN "L"
                                                ELSE IF v \in ReadOnly THEN "R" ELSE "D"]]]
    /\ data = [p \in Page |-> Zero]
    /\ live = {First}
    /\ job = [e \in Env |-> NoJob] /\ fault = [e \in Env |-> NoFault]

EnvNext(e) ==
    \/ \E v \in Va, x \in Val : Write(e, v, x)
    \/ \E v \in Va : Fault(e, v)
    \/ CowAlloc(e) \/ CowCopy(e) \/ CowMap(e) \/ CowUnmap(e)
    \/ \E c \in Env : fork(e, c) \/ spawn(e, c)
    \/ \E v \in Va : DupFirst(e, v) \/ SpawnMap(e, v) \/ SpawnShare(e, v)
    \/ DupSecond(e) \/ Finish(e)
    \/ \E x \in Val : SpawnFill(e, x)
    \/ SpawnUnmap(e) \/ SpawnFails(e)
    \/ exit(e)

Next == \E e \in Env : EnvNext(e)

Spec == Init /\ [][Next]_vars

-----------------------------------------------------------------------------
\* Type invariant: page tables, pages, and what an env inside fork(), spawn() or
\* cow_entry has still to do.
TypeOK == /\ pt \in [Env -> [VPage -> Entry \cup {NULL}]]
          /\ data \in [Page -> Val]
          /\ live \subseteq Env
          /\ job \in [Env -> Job] /\ fault \in [Env -> FaultT]

\* The page v of env e is one that fork() or spawn() has not finished: the env that
\* works on it still writes the same page.
Pending(e, v) == \E f \in Env : job[f].child = e /\ job[f].half = v

SamePage(e, v, f, w) == Mapped(e, v) /\ Mapped(f, w) /\ pt[e][v].page = pt[f][w].page

\* An env that can write a page without a fault is the only one that reads it, unless
\* the page is shared or not yet handed over: no store of cow_entry, duppage or spawn
\* may leave two mappings of a private page of which one is PTE_D (fork.c 16-116,
\* spawn.c 8-102).
Isolated ==
    \A e, f \in Env, v, w \in Va :
        SamePage(e, v, f, w) /\ <<e, v>> # <<f, w>> /\ pt[e][v].perm = "D"
            => \/ Pending(f, w)
               \/ Pending(e, v)

\* The state is well formed and private pages are private.
Sound == TypeOK /\ Isolated

\* What programs read: fork() and spawn() implement address spaces that are copied at
\* once, page by page, and separate from then on.
Mem == INSTANCE AddressSpaces WITH
    mem <- [e \in Env |-> [v \in Va |-> IF ~Mapped(e, v) \/ Pending(e, v) THEN NULL
                                        ELSE data[pt[e][v].page]]]
\* Between the system calls of fork(), cow_entry and spawn() no program ever reads a
\* value that it or, at a shared page, another env did not write, nor misses one
\* (fork.c 16-181, spawn.c 110-274).
MemSpec == Mem!Spec
=============================================================================
