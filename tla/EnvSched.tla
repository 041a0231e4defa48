------------------------------ MODULE EnvSched ------------------------------
(***************************************************************************)
(* Envs (processes) and their scheduling in the MOS kernel: kern/env.c,    *)
(* kern/sched.c and the system calls of kern/syscall_all.c that create,    *)
(* destroy, block, wake and switch envs.                                   *)
(*                                                                         *)
(* The kernel runs with interrupts off on one CPU, so a system call or a   *)
(* timer interrupt is one atomic step that starts and ends in user mode;   *)
(* what interleaves is which env runs, decided by schedule().              *)
(*                                                                         *)
(* System calls that fail change nothing but the caller's return register  *)
(* and are stuttering steps here.  Memory (page tables, the page moved by  *)
(* an IPC) and environment variables are not part of this module.          *)
(***************************************************************************)
EXTENDS TailQueue, Sequences

CONSTANTS NENV,       \* number of Env slots (1024)
          NASID,      \* number of address space identifiers (256)
          MaxPri,     \* bound: largest env_pri that ENV_CREATE_PRIORITY gives
          MaxGen      \* bound: number of calls of mkenvid (2^21 before it wraps)

Env  == 0 .. NENV - 1
Asid == 0 .. NASID - 1
Pri  == 1 .. MaxPri

ASSUME SizesAssumption == /\ NENV \in Nat \ {0}
                          /\ NASID \in Nat \ {0}
                          /\ MaxPri \in Nat \ {0}
                          /\ MaxGen \in Nat
ASSUME PointersAssumption == NULL \notin Env /\ HEAD \notin Env

VARIABLES
    sched,      \* env_sched_list with the env_sched_link of every slot
    free,       \* env_free_list, head first
    status,     \* env_status
    envId,      \* env_id
    parent,     \* env_parent_id
    pri,        \* env_pri
    asid,       \* env_asid
    asidBitmap, \* the set of ASIDs marked in asid_bitmap
    recving,    \* env_ipc_recving
    curenv,     \* the running env, NULL before the first schedule()
    count,      \* the static slice counter of schedule()
    gen,        \* the static counter of mkenvid()
    mode,       \* "boot" before the first schedule(), then "user", and
                \* "key" while the kernel waits for a key in sys_cgetc()
    panicked    \* the kernel halted in panic()

slotVars == <<status, envId, parent, pri, asid, recving>>
poolVars == <<free, asidBitmap, gen>>
cpuVars  == <<sched, curenv, count, panicked>>
vars     == <<slotVars, poolVars, cpuVars, mode>>

FREE         == "FREE"
RUNNABLE     == "RUNNABLE"
NOT_RUNNABLE == "NOT_RUNNABLE"
Status       == {FREE, RUNNABLE, NOT_RUNNABLE}

\* An envid packs the generation above the slot number; the packed 0 means "me".
EnvId  == (0 .. MaxGen) \X Env
ZeroId == <<0, 0>>

Runnable == {e \in Env : status[e] = RUNNABLE}
Live     == {e \in Env : status[e] # FREE}

-----------------------------------------------------------------------------
(* Helpers of kern/env.c *)

\* mkenvid: the counter is bumped, the slot is the low part.
mkenvid(e) == <<gen + 1, e>>

\* asid_alloc takes the lowest clear bit; it fails when there is none.
AsidFree == Asid \ asidBitmap
asid_alloc == CHOOSE a \in AsidFree : \A b \in AsidFree : a <= b

\* envid2env: the Env a system call means by "id", NULL for -E_BAD_ENV.
envid2env(id, checkperm) ==
    IF id = ZeroId THEN curenv
    ELSE LET e == id[2]
         IN  IF \/ status[e] = FREE
                \/ envId[e] # id
                \/ checkperm /\ e # curenv /\ parent[e] # envId[curenv]
             THEN NULL
             ELSE e

\* env_alloc succeeds: there is a free slot and a free ASID.
CanAlloc == free # <<>> /\ AsidFree # {} /\ gen < MaxGen

\* env_alloc: what it sets in the head of the free list.  env_ipc_recving keeps
\* the value the last owner of the slot left in it.
env_alloc(e, parentId) ==
    /\ free' = Tail(free)
    /\ asid' = [asid EXCEPT ![e] = asid_alloc]
    /\ asidBitmap' = asidBitmap \cup {asid_alloc}
    /\ gen' = gen + 1
    /\ envId' = [envId EXCEPT ![e] = mkenvid(e)]
    /\ parent' = [parent EXCEPT ![e] = parentId]

-----------------------------------------------------------------------------
(* kern/sched.c *)

\* panic(): the machine stops with list q.
Panic(q) == /\ sched' = q
            /\ panicked' = TRUE
            /\ UNCHANGED <<curenv, count>>

\* env_run(e) with cnt slices left, which asserts that e may run.
env_run(q, st, e, cnt) ==
    IF st[e] # RUNNABLE THEN Panic(q)
    ELSE /\ sched' = q
         /\ curenv' = e
         /\ count' = cnt
         /\ UNCHANGED panicked

\* Mutant of Requeue: back to the head, where it is picked again.
RequeueAtHead(q, st, e) ==
    IF e = NULL THEN q
    ELSE IF st[e] = RUNNABLE THEN InsertHead(Remove(q, e), e)
    ELSE Remove(q, e)

\* Mutant of Requeue: an env that stopped being runnable goes back too.
RequeueAlways(q, st, e) == IF e = NULL THEN q ELSE InsertTail(Remove(q, e), e)

\* The list after schedule() moved the env it takes off the CPU to the tail.
Requeue(q, st, e) ==
    IF e = NULL THEN q
    ELSE IF st[e] = RUNNABLE THEN InsertTail(Remove(q, e), e)
    ELSE Remove(q, e)

\* schedule(yield), called with list q, statuses st and running env e.
schedule(yield, q, st, e) ==
    IF yield \/ count <= 0 \/ e = NULL \/ st[e] # RUNNABLE
    THEN IF e # NULL /\ Faults(q, e) THEN Panic(q)
         ELSE LET r == Requeue(q, st, e)
              IN  IF r.first = NULL THEN Panic(r)
                  ELSE env_run(r, st, r.first, pri[r.first] - 1)
    ELSE env_run(q, st, e, count - 1)

-----------------------------------------------------------------------------
(* Boot: mips_init() *)

\* env_init: every slot free, in order; no env scheduled.
Init ==
    /\ sched = InitQueue(Env)
    /\ free = [i \in 1 .. NENV |-> i - 1]
    /\ status = [e \in Env |-> FREE]
    /\ envId = [e \in Env |-> ZeroId]
    /\ parent = [e \in Env |-> ZeroId]
    /\ pri = [e \in Env |-> 0]
    /\ asid = [e \in Env |-> 0]
    /\ asidBitmap = {}
    /\ recving = [e \in Env |-> FALSE]
    /\ curenv = NULL
    /\ count = 0
    /\ gen = 0
    /\ mode = "boot"
    /\ panicked = FALSE

\* env_create: a runnable env without a parent, at the HEAD of the list.
EnvCreate(priority) ==
    /\ mode = "boot" /\ CanAlloc
    /\ LET e == Head(free)
       IN  /\ env_alloc(e, ZeroId)
           /\ status' = [status EXCEPT ![e] = RUNNABLE]
           /\ pri' = [pri EXCEPT ![e] = priority]
           /\ sched' = InsertHead(sched, e)
    /\ UNCHANGED <<recving, curenv, count, mode, panicked>>

\* The schedule(0) that ends mips_init.
Start ==
    /\ mode = "boot"
    /\ mode' = "user"
    /\ schedule(FALSE, sched, status, curenv)
    /\ UNCHANGED <<slotVars, poolVars>>

-----------------------------------------------------------------------------
(* Interrupts and system calls of the running env *)

\* User code runs.  Before the first schedule() and in sys_cgetc() it does not.
Running == mode = "user" /\ ~panicked

\* handle_int: the timer interrupt enters schedule(0).
TimerTick ==
    /\ Running
    /\ schedule(FALSE, sched, status, curenv)
    /\ UNCHANGED <<slotVars, poolVars, mode>>

sys_yield ==
    /\ Running
    /\ schedule(TRUE, sched, status, curenv)
    /\ UNCHANGED <<slotVars, poolVars, mode>>

\* sys_exofork: a child that is not runnable and in no list.
sys_exofork ==
    /\ Running /\ CanAlloc
    /\ LET e == Head(free)
       IN  /\ env_alloc(e, envId[curenv])
           /\ status' = [status EXCEPT ![e] = NOT_RUNNABLE]
           /\ pri' = [pri EXCEPT ![e] = pri[curenv]]
    /\ UNCHANGED <<recving, cpuVars, mode>>

\* Mutant of Relist: a suspended env stays in the list.
RelistOnlyInserts(e, st) ==
    IF status[e] # RUNNABLE /\ st = RUNNABLE THEN InsertTail(sched, e) ELSE sched

\* The list after the update step of sys_set_env_status.
Relist(e, st) ==
    CASE status[e] # NOT_RUNNABLE /\ st = NOT_RUNNABLE -> Remove(sched, e)
      [] status[e] # RUNNABLE /\ st = RUNNABLE -> InsertTail(sched, e)
      [] OTHER -> sched

\* sys_set_env_status(id, st): of the caller itself it also gives up the CPU.
sys_set_env_status(id, st) ==
    /\ Running
    /\ LET e == envid2env(id, TRUE)
       IN  /\ e # NULL
           /\ status' = [status EXCEPT ![e] = st]
           /\ IF e = curenv
              THEN schedule(TRUE, Relist(e, st), status', curenv)
              ELSE sched' = Relist(e, st) /\ UNCHANGED <<curenv, count, panicked>>
    /\ UNCHANGED <<envId, parent, pri, asid, recving, poolVars, mode>>

\* sys_ipc_recv: block until a message comes.
sys_ipc_recv ==
    /\ Running
    /\ recving' = [recving EXCEPT ![curenv] = TRUE]
    /\ status' = [status EXCEPT ![curenv] = NOT_RUNNABLE]
    /\ schedule(TRUE, Remove(sched, curenv), status', curenv)
    /\ UNCHANGED <<envId, parent, pri, asid, poolVars, mode>>

\* Mutant of sys_ipc_try_send: the receiver is left waiting for a second message.
try_send_StillRecving(id) ==
    /\ Running
    /\ LET e == envid2env(id, FALSE)
       IN  /\ e # NULL
           /\ recving[e]
           /\ status' = [status EXCEPT ![e] = RUNNABLE]
           /\ sched' = InsertTail(sched, e)
    /\ UNCHANGED <<recving, envId, parent, pri, asid, curenv, count, panicked, poolVars, mode>>

\* sys_ipc_try_send: wake a waiting env.  The wake-up comes before the page
\* transfer, so it is the same whether or not that transfer then fails.
sys_ipc_try_send(id) ==
    /\ Running
    /\ LET e == envid2env(id, FALSE)
       IN  /\ e # NULL
           /\ recving[e]
           /\ recving' = [recving EXCEPT ![e] = FALSE]
           /\ status' = [status EXCEPT ![e] = RUNNABLE]
           /\ sched' = InsertTail(sched, e)
    /\ UNCHANGED <<envId, parent, pri, asid, curenv, count, panicked, poolVars, mode>>

\* Mutant of env_free: the slot does not return to the free list.
env_freeNoPush(e) ==
    /\ status' = [status EXCEPT ![e] = FREE]
    /\ asidBitmap' = asidBitmap \ {asid[e]}
    /\ UNCHANGED free

\* Mutant of env_free: the ASID stays taken.
env_freeKeepsAsid(e) ==
    /\ status' = [status EXCEPT ![e] = FREE]
    /\ free' = <<e>> \o free
    /\ UNCHANGED asidBitmap

\* env_free: what it does to the slot and the pools besides unlinking e.
env_free(e) ==
    /\ status' = [status EXCEPT ![e] = FREE]
    /\ free' = <<e>> \o free
    /\ asidBitmap' = asidBitmap \ {asid[e]}

\* Mutant of sys_env_destroy: an env that destroys itself runs on.
destroyRunsOn(id) ==
    /\ Running
    /\ LET e == envid2env(id, TRUE)
       IN  /\ e # NULL
           /\ env_free(e)
           /\ sched' = Remove(sched, e)
    /\ UNCHANGED <<envId, parent, pri, asid, recving, gen, mode, curenv, count, panicked>>

\* sys_env_destroy(id): env_destroy() ends in schedule(1) when the env is the caller.
sys_env_destroy(id) ==
    /\ Running
    /\ LET e == envid2env(id, TRUE)
       IN  /\ e # NULL
           /\ env_free(e)
           /\ IF Faults(sched, e) THEN Panic(sched)
              ELSE IF e = curenv
              THEN schedule(TRUE, Remove(sched, e), status', NULL)
              ELSE sched' = Remove(sched, e) /\ UNCHANGED <<curenv, count, panicked>>
    /\ UNCHANGED <<envId, parent, pri, asid, recving, gen, mode>>

\* sys_cgetc: with no key there the kernel polls scancharc() in a loop, with
\* interrupts off.  (With one there it returns at once: a stuttering step.)
sys_cgetc ==
    /\ Running
    /\ mode' = "key"
    /\ UNCHANGED <<slotVars, poolVars, cpuVars>>

\* A key is pressed: the caller goes on.
KeyPressed ==
    /\ mode = "key"
    /\ mode' = "user"
    /\ UNCHANGED <<slotVars, poolVars, cpuVars>>

\* A halted machine stays as it is.
Halted == panicked /\ UNCHANGED vars

-----------------------------------------------------------------------------
(***************************************************************************)
(* User programs.  Those of the repository make every one of these calls   *)
(* with the id of themselves, of a child or (IPC) of anyone, but they      *)
(* never make a blocked receiver runnable by sys_set_env_status and, apart *)
(* from spawn()'s error path, never destroy an env that is not runnable:   *)
(* Next has exactly these two restrictions.                                *)
(***************************************************************************)
Blocked(e)      == e # NULL /\ recving[e]
MayResume(id)   == ~Blocked(envid2env(id, TRUE))
MayDestroy(id)  == envid2env(id, TRUE) \in Runnable

Next ==
    \/ \E p \in Pri : EnvCreate(p)
    \/ Start
    \/ TimerTick
    \/ sys_yield
    \/ sys_exofork
    \/ \E id \in EnvId : sys_set_env_status(id, RUNNABLE) /\ MayResume(id)
    \/ \E id \in EnvId : sys_set_env_status(id, NOT_RUNNABLE)
    \/ sys_ipc_recv
    \/ \E id \in EnvId : sys_ipc_try_send(id)
    \/ \E id \in EnvId : sys_env_destroy(id) /\ MayDestroy(id)
    \/ sys_cgetc
    \/ KeyPressed
    \/ Halted

Spec == Init /\ [][Next]_vars

(***************************************************************************)
(* mips_init() reaches its end.  The timer interrupts user mode; an        *)
(* interrupt that comes while the kernel runs stays pending and is taken   *)
(* on the way back to user mode, so that calls of sys_cgetc() between the  *)
(* ticks do not hold it off for ever: strong fairness.  Nobody promises    *)
(* that a key is ever pressed.                                             *)
(***************************************************************************)
FairSpec == Spec /\ WF_vars(Start) /\ SF_vars(TimerTick)

(***************************************************************************)
(* What the programs of the repository really do, spawn()'s error path     *)
(* included: a child is made runnable once, an env leaves by exit(), and a *)
(* child that could not be loaded is destroyed before it ever ran.         *)
(***************************************************************************)
Embryo(id) == envid2env(id, TRUE) \in {e \in Live \ Runnable : ~recving[e]}

SpawnErrNext ==
    \/ \E p \in Pri : EnvCreate(p)
    \/ Start
    \/ TimerTick
    \/ sys_yield
    \/ sys_exofork
    \/ \E id \in EnvId : sys_set_env_status(id, RUNNABLE) /\ Embryo(id)
    \/ sys_ipc_recv
    \/ \E id \in EnvId : sys_ipc_try_send(id)
    \/ sys_env_destroy(ZeroId)
    \/ \E id \in EnvId : sys_env_destroy(id) /\ Embryo(id)
    \/ sys_cgetc
    \/ KeyPressed
    \/ Halted

SpawnErrSpec == Init /\ [][SpawnErrNext]_vars

\* A parent sets a child runnable that waits in sys_ipc_recv.
ResumeNext == Next \/ \E id \in EnvId : sys_set_env_status(id, RUNNABLE)
ResumeSpec == Init /\ [][ResumeNext]_vars

-----------------------------------------------------------------------------
(* Properties *)

\* Every variable keeps to the values its C type and the kernel's own ranges allow.
TypeOK ==
    /\ sched \in Queue(Env)
    /\ free \in Seq(Env)
    /\ status \in [Env -> Status]
    /\ envId \in [Env -> EnvId]
    /\ parent \in [Env -> EnvId]
    /\ pri \in [Env -> 0 .. MaxPri]
    /\ asid \in [Env -> Asid]
    /\ asidBitmap \in SUBSET Asid
    /\ recving \in [Env -> BOOLEAN]
    /\ curenv \in Ptr(Env)
    /\ count \in 0 .. MaxPri
    /\ gen \in 0 .. MaxGen
    /\ mode \in {"boot", "user", "key"}
    /\ panicked \in BOOLEAN

\* "Invariant: 'env' in 'env_sched_list' iff. 'env->env_status' is 'RUNNABLE'"
\* (kern/env.c): followed from its head, the list holds every runnable env
\* exactly once and nothing else, and all its back pointers are right.
SchedListExact == Lists(sched, Runnable)

\* From the first schedule() on, curenv is a runnable env: no call leaves the CPU
\* with an env that blocked, was suspended or was freed.
CurenvRunnable == mode # "boot" /\ ~panicked => curenv \in Runnable

\* The kernel panics only in schedule() with nothing to run: never by a store
\* through the NULL links of an env, never by env_run()'s assertion.
PanicOnlyWhenIdle == panicked => Runnable = {}

\* An env waiting in sys_ipc_recv is not runnable, so that the wake-up of
\* sys_ipc_try_send never inserts an env that is in the list already.  Nor is a
\* slot freed with the flag set: env_alloc would hand it to the next owner.
RecvingBlocked == \A e \in Env : recving[e] => status[e] = NOT_RUNNABLE

\* env_free_list holds every free slot exactly once, whatever the order in
\* which envs are created and destroyed.
FreeListExact ==
    /\ \A i, j \in DOMAIN free : free[i] = free[j] => i = j
    /\ {free[i] : i \in DOMAIN free} = Env \ Live

\* Live envs have distinct ASIDs and the bitmap marks exactly theirs: no TLB
\* entry of one env can match another and no ASID is lost.
AsidsExact ==
    /\ asidBitmap = {asid[e] : e \in Live}
    /\ \A e, f \in Live : asid[e] = asid[f] => e = f

\* "If 'yield' is set, 'curenv' should not be scheduled again unless it is the
\* only runnable env" (kern/sched.c), for an env that calls sys_yield.
YieldRotates == [][sys_yield => curenv' # curenv \/ Runnable = {curenv}]_vars

\* Round robin starves nobody: a runnable env gets the CPU, unless it is
\* suspended or destroyed first, the machine halts, or the kernel waits for ever
\* for a key in sys_cgetc() ("kernel does busy waiting here, blocking all envs",
\* kern/syscall_all.c).  While keys come, however late, nobody is left behind.
NoStarvation ==
    \A e \in Env :
        \/ status[e] = RUNNABLE ~> (curenv = e \/ status[e] # RUNNABLE \/ panicked)
        \/ <>[](mode = "key")
=============================================================================
