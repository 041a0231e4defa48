------------------------------ MODULE PageMap ------------------------------
(***************************************************************************)
(* Physical pages, address spaces and the TLB: kern/pmap.c, kern/tlbex.c,  *)
(* the parts of kern/env.c that build and tear down an address space and   *)
(* the system calls that move pages (kern/syscall_all.c).                  *)
(*                                                                         *)
(* An address space is one function from virtual pages to entries.  The    *)
(* page directory maps itself at UVPT, so that a page table is the page of *)
(* a virtual page of UVPT and the directory is the page of one more: the   *)
(* entries of the directory and of the tables are entries alike.           *)
(*                                                                         *)
(* A kernel entry is atomic.  Two of them loop over an address space,      *)
(* load_icode and env_free; "task" says which, and nothing else runs until *)
(* they end.  Which envs run when is the matter of EnvSched: here any env  *)
(* that is not waiting for a message may enter the kernel.                 *)
(***************************************************************************)
EXTENDS Naturals, Sequences, FiniteSets, Functions

CONSTANTS Env, Asid, Page,  \* slots of envs[], address space ids, free pages after boot
          UserVa,           \* the virtual pages of [UTEMP, UTOP) in use
          ZeroVa,           \* virtual page 0, below UTEMP
          GuardVa,          \* those of UserVa that passive_alloc refuses (USTACKTOP)
          Table, Self,      \* the pages of UVPT: page tables of user pages, the directory
          Pdx,              \* the page table of a virtual page below UTOP
          Pair,             \* the two virtual pages that share a TLB entry
          RefMod,           \* pp_ref is a u_short: 2^16
          Touched,          \* bound: the virtual pages that programs access
          Granted,          \* bound: the permissions they ask for
          NULL, MISS        \* an invalid entry; no entry in the TLB

Va    == UserVa \cup {ZeroVa}
VPage == Va \cup Table \cup {Self}
Perm  == {"R", "W"}          \* without and with PTE_D
Entry == Page \X Perm

ASSUME PagesAssumption == /\ IsFiniteSet(Page) /\ IsFiniteSet(Env) /\ IsFiniteSet(VPage)
                          /\ GuardVa \subseteq UserVa /\ ZeroVa \notin UserVa
                          /\ Touched \subseteq VPage /\ Granted \subseteq Perm
ASSUME LayoutAssumption == /\ Va \cap Table = {} /\ Self \notin Va \cup Table
                           /\ Pdx \in [Va -> Table]
                           /\ Pair \in [VPage -> SUBSET VPage]
                           /\ \A v \in VPage : v \in Pair[v]
ASSUME NullAssumption == /\ NULL \notin Env \cup Asid \cup VPage \cup Entry
                         /\ MISS \notin Entry /\ MISS # NULL
ASSUME WidthAssumption == RefMod \in Nat /\ RefMod > 1

VARIABLES
    mem,      \* [ref, free, pt, tlb]: pp_ref, page_free_list, page tables, TLB
    asid,     \* env_asid of a live env, NULL for a free slot
    parent,   \* the live env that env_parent_id names, else NULL
    dst,      \* env_ipc_dstva of an env that waits in sys_ipc_recv, else NULL
    task,     \* what the kernel is in the middle of
    panicked  \* the kernel halted in panic()

Memory == [ref  : [Page -> 0 .. RefMod - 1],
           free : Seq(Page),
           pt   : [Env -> [VPage -> Entry \cup {NULL}]],
           tlb  : [Asid -> [VPage -> Entry \cup {NULL, MISS}]]]

vars == <<mem, asid, parent, dst, task, panicked>>

User == [kind |-> "user", env |-> NULL]
Boot == [kind |-> "boot", env |-> NULL]
Task == {User, Boot} \cup [kind : {"load", "free"}, env : Env]

Live     == {e \in Env : asid[e] # NULL}
AsidFree == {a \in Asid : \A e \in Env : asid[e] # a}
MayCall  == {e \in Live : dst[e] = NULL}
Mine(c)  == {e \in Live : e = c \/ parent[e] = c}

-----------------------------------------------------------------------------
(* kern/pmap.c, on a memory m *)

Valid(m, e, v)  == m.pt[e][v] # NULL
PageOf(m, e, v) == m.pt[e][v][1]
\* The virtual page of UVPT that is the page table of v.
TableOf(v) == IF v \in Va THEN Pdx[v] ELSE Self
\* The places that hold a pointer to page p.
Uses(m, p) == {x \in Env \X VPage : Valid(m, x[1], x[2]) /\ PageOf(m, x[1], x[2]) = p}

tlb_invalidate(m, a, v) ==
    [m EXCEPT !.tlb[a] = [x \in VPage |-> IF x \in Pair[v] THEN MISS ELSE m.tlb[a][x]]]

\* page_alloc: the page it takes, and the memory without it.
First(m) == Head(m.free)
Taken(m) == [m EXCEPT !.free = Tail(m.free)]

page_free(m, p) == [m EXCEPT !.free = <<p>> \o m.free]

\* Mutant of page_decref: the page is freed with a mapping left.
DecrefEarly(m, p) ==
    LET n == [m EXCEPT !.ref[p] = m.ref[p] - 1]
    IN  IF m.ref[p] <= 2 THEN page_free(n, p) ELSE n

page_decref(m, p) ==
    LET n == [m EXCEPT !.ref[p] = m.ref[p] - 1]
    IN  IF n.ref[p] = 0 THEN page_free(n, p) ELSE n

page_remove(m, a, e, v) ==
    IF ~Valid(m, e, v) THEN m
    ELSE tlb_invalidate([page_decref(m, PageOf(m, e, v)) EXCEPT !.pt[e][v] = NULL], a, v)

\* An entry is written and its page counted.
Enter(m, e, v, p, perm) ==
    [m EXCEPT !.pt[e][v] = <<p, perm>>, !.ref[p] = (m.ref[p] + 1) % RefMod]

\* pgdir_walk with "create": it fails when a page table is missing and no page is left.
WalkFails(m, e, v) == ~Valid(m, e, TableOf(v)) /\ m.free = <<>>
pgdir_walk(m, e, v) ==
    IF Valid(m, e, TableOf(v)) THEN m ELSE Enter(Taken(m), e, TableOf(v), First(m), "R")

Same(m, e, p, v) == Valid(m, e, v) /\ PageOf(m, e, v) = p

\* Mutant of page_insert: a change of permission leaves the TLB alone.
InsertNoFlush(m, a, e, p, v, perm) ==
    LET n == tlb_invalidate(page_remove(m, a, e, v), a, v)
    IN  IF Same(m, e, p, v) THEN [m EXCEPT !.pt[e][v] = <<p, perm>>]
        ELSE IF WalkFails(n, e, v) THEN n
        ELSE Enter(pgdir_walk(n, e, v), e, v, p, perm)

\* Mutant of page_insert: the same page again is counted again.
InsertRecounts(m, a, e, p, v, perm) ==
    LET n == tlb_invalidate(IF Same(m, e, p, v) THEN m ELSE page_remove(m, a, e, v), a, v)
    IN  IF WalkFails(n, e, v) THEN n
        ELSE Enter(pgdir_walk(n, e, v), e, v, p, perm)

\* Mutant of page_insert: the table is allocated although it is there.
InsertWalksFirst(m, a, e, p, v, perm) ==
    LET n == tlb_invalidate(page_remove(m, a, e, v), a, v)
    IN  IF Same(m, e, p, v) THEN [tlb_invalidate(m, a, v) EXCEPT !.pt[e][v] = <<p, perm>>]
        ELSE IF m.free = <<>> THEN n
        ELSE Enter(pgdir_walk(n, e, v), e, v, p, perm)

page_insert(m, a, e, p, v, perm) ==
    LET n == tlb_invalidate(page_remove(m, a, e, v), a, v)
    IN  IF Same(m, e, p, v) THEN [tlb_invalidate(m, a, v) EXCEPT !.pt[e][v] = <<p, perm>>]
        ELSE IF WalkFails(n, e, v) THEN n
        ELSE Enter(pgdir_walk(n, e, v), e, v, p, perm)

\* page_alloc and page_insert, as sys_mem_alloc, load_icode_mapper and passive_alloc
\* call them.  When page_insert fails, the page stays allocated without a mapping.
AllocInsert(m, a, e, v, perm) == page_insert(Taken(m), a, e, First(m), v, perm)
AllocFails(m, e, v) == m.free = <<>> \/ WalkFails(Taken(m), e, v)

-----------------------------------------------------------------------------
(* Creating envs *)

Panic == panicked' = TRUE /\ UNCHANGED <<mem, asid, parent, dst, task>>

\* The assertion of page_decref fails for the page at v: pp_ref has wrapped to 0.
DecrefFails(e, v) == Valid(mem, e, v) /\ mem.ref[PageOf(mem, e, v)] = 0

\* env_alloc for the free slot e: env_setup_vm maps the directory in itself.
env_alloc(e, par) ==
    /\ mem.free # <<>> /\ AsidFree # {}
    /\ \E a \in AsidFree : asid' = [asid EXCEPT ![e] = a]
    /\ parent' = [parent EXCEPT ![e] = par]
    /\ mem' = Enter(Taken(mem), e, Self, First(mem), "R")

\* env_create, up to load_icode.
env_create ==
    /\ task = Boot
    /\ IF Live = Env \/ mem.free = <<>> \/ AsidFree = {} THEN Panic
       ELSE \E e \in Env \ Live : /\ env_alloc(e, NULL)
                                  /\ task' = [kind |-> "load", env |-> e]
                                  /\ UNCHANGED <<dst, panicked>>

\* load_icode maps one more page of a segment.
load_icode_mapper(v, perm) ==
    /\ task.kind = "load"
    /\ ~Valid(mem, task.env, v)
    /\ IF AllocFails(mem, task.env, v) THEN Panic
       ELSE /\ mem' = AllocInsert(mem, asid[task.env], task.env, v, perm)
            /\ UNCHANGED <<asid, parent, dst, task, panicked>>

\* load_icode returns; mips_init creates the next env or calls schedule().
Loaded == /\ task.kind = "load"
          /\ task' \in {User, Boot}
          /\ UNCHANGED <<mem, asid, parent, dst, panicked>>

\* sys_exofork.  When there is no ASID, the page of the directory is lost.
sys_exofork(c) ==
    /\ \/ \E e \in Env \ Live : env_alloc(e, c)
       \/ /\ mem.free # <<>> /\ AsidFree = {} /\ Live # Env
          /\ mem' = [Taken(mem) EXCEPT !.ref[First(mem)] = (mem.ref[First(mem)] + 1) % RefMod]
          /\ UNCHANGED <<asid, parent>>
    /\ UNCHANGED <<dst, task, panicked>>

-----------------------------------------------------------------------------
(* System calls of kern/syscall_all.c that move pages *)

sys_mem_alloc(c, e, v, perm) ==
    /\ e \in Mine(c) /\ mem.free # <<>>
    /\ IF DecrefFails(e, v) /\ ~Same(mem, e, First(mem), v) THEN Panic
       ELSE /\ mem' = AllocInsert(mem, asid[e], e, v, perm)
            /\ UNCHANGED <<asid, parent, dst, task, panicked>>

\* Mutant of MapSource: srcva is not checked with is_illegal_va.
AnySource == VPage

\* The source addresses that pass is_illegal_va.
MapSource == UserVa

sys_mem_map(c, s, src, e, v, perm) ==
    /\ s \in Mine(c) /\ e \in Mine(c)
    /\ Valid(mem, s, src)
    /\ IF DecrefFails(e, v) /\ ~Same(mem, e, PageOf(mem, s, src), v) THEN Panic
       ELSE /\ mem' = page_insert(mem, asid[e], e, PageOf(mem, s, src), v, perm)
            /\ UNCHANGED <<asid, parent, dst, task, panicked>>

\* page_remove of v, as a system call or a round of env_free.
Unmap(e, v) ==
    IF DecrefFails(e, v) THEN Panic
    ELSE /\ mem' = page_remove(mem, asid[e], e, v)
         /\ UNCHANGED <<asid, parent, dst, task, panicked>>

sys_mem_unmap(c, e, v) == e \in Mine(c) /\ Unmap(e, v)

sys_ipc_recv(c, v) ==
    /\ dst' = [dst EXCEPT ![c] = v]
    /\ UNCHANGED <<mem, asid, parent, task, panicked>>

\* sys_ipc_try_send: the receiver is woken before the page is looked up, so that the
\* call can fail and still end the wait.  It maps the page whatever env_ipc_dstva is.
\* ZeroVa as srcva is a message without a page.
sys_ipc_try_send(c, e, src, perm) ==
    /\ e \in Live /\ dst[e] # NULL
    /\ LET sent == src # ZeroVa /\ Valid(mem, c, src)
       IN  IF sent /\ DecrefFails(e, dst[e]) /\ ~Same(mem, e, PageOf(mem, c, src), dst[e]) THEN Panic
           ELSE /\ dst' = [dst EXCEPT ![e] = NULL]
                /\ mem' = IF sent THEN page_insert(mem, asid[e], e, PageOf(mem, c, src), dst[e], perm)
                          ELSE mem
                /\ UNCHANGED <<asid, parent, task, panicked>>

-----------------------------------------------------------------------------
(* Destroying an env *)

\* sys_env_destroy, of the caller or a child that does not wait for a message.
sys_env_destroy(c, e) ==
    /\ e \in Mine(c) /\ dst[e] = NULL
    /\ task' = [kind |-> "free", env |-> e]
    /\ UNCHANGED <<mem, asid, parent, dst, panicked>>

\* env_free: one round of the inner loop.  The order of the rounds is left open.
FreeUserPage(v) ==
    /\ task.kind = "free" /\ Valid(mem, task.env, v)
    /\ Unmap(task.env, v)

\* env_free: the page table itself, once it is empty.
FreeTable(t) ==
    /\ task.kind = "free" /\ Valid(mem, task.env, t)
    /\ \A v \in Va : Pdx[v] = t => ~Valid(mem, task.env, v)
    /\ Unmap(task.env, t)

\* env_free: the directory, the ASID and the slot.  The id of the env dies with it.
FreeDirectory ==
    /\ task.kind = "free"
    /\ \A v \in VPage \ {Self} : ~Valid(mem, task.env, v)
    /\ IF DecrefFails(task.env, Self) THEN Panic
       ELSE /\ mem' = page_remove(mem, asid[task.env], task.env, Self)
            /\ asid' = [asid EXCEPT ![task.env] = NULL]
            /\ parent' = [e \in Env |-> IF parent[e] = task.env \/ e = task.env THEN NULL ELSE parent[e]]
            /\ task' = User
            /\ UNCHANGED <<dst, panicked>>

-----------------------------------------------------------------------------
(* kern/tlbex.c *)

\* The refill writes both halves of the pair.
Filled(m, a, e, v) ==
    [m EXCEPT !.tlb[a] = [x \in VPage |-> IF x \in Pair[v] THEN m.pt[e][x] ELSE m.tlb[a][x]]]

\* An access to a page the TLB has no valid entry for: _do_tlb_refill, with
\* passive_alloc when the page tables have none either.
Access(c, v) ==
    /\ mem.tlb[asid[c]][v] \notin Entry
    /\ IF Valid(mem, c, v)
       THEN /\ mem' = Filled(tlb_invalidate(mem, asid[c], v), asid[c], c, v)
            /\ UNCHANGED <<asid, parent, dst, task, panicked>>
       ELSE IF v \in GuardVa \cup {ZeroVa} \/ AllocFails(mem, c, v) THEN Panic
       ELSE /\ mem' = LET m == tlb_invalidate(mem, asid[c], v)
                          n == AllocInsert(m, asid[c], c, v, IF v \in Va THEN "W" ELSE "R")
                      IN  Filled(n, asid[c], c, v)
            /\ UNCHANGED <<asid, parent, dst, task, panicked>>

\* tlbwr overwrites a random entry.
Evict(a, v) == /\ \E x \in Pair[v] : mem.tlb[a][x] # MISS
               /\ mem' = tlb_invalidate(mem, a, v)
               /\ UNCHANGED <<asid, parent, dst, task, panicked>>

-----------------------------------------------------------------------------
\* page_init, env_init: every page is free.  Which page is which does not matter.
Init == /\ mem \in [ref : {[p \in Page |-> 0]},
                    free : {s \in [1 .. Cardinality(Page) -> Page] : IsInjective(s)},
                    pt : {[e \in Env |-> [v \in VPage |-> NULL]]},
                    tlb : {[a \in Asid |-> [v \in VPage |-> MISS]]}]
        /\ asid = [e \in Env |-> NULL] /\ parent = [e \in Env |-> NULL]
        /\ dst = [e \in Env |-> NULL]
        /\ task = Boot /\ panicked = FALSE

\* A system call or an access of env c.
Call(c) ==
    \/ sys_exofork(c)
    \/ \E e \in Env, v \in UserVa, perm \in Granted : sys_mem_alloc(c, e, v, perm)
    \/ \E s, e \in Env, src \in MapSource, v \in UserVa, perm \in Granted :
            sys_mem_map(c, s, src, e, v, perm)
    \/ \E e \in Env, v \in UserVa : sys_mem_unmap(c, e, v)
    \/ \E v \in Va : sys_ipc_recv(c, v)
    \/ \E e \in Env, src \in Va, perm \in Granted : sys_ipc_try_send(c, e, src, perm)
    \/ \E e \in Env : sys_env_destroy(c, e)
    \/ \E v \in Touched : Access(c, v)

Next ==
    \/ /\ ~panicked
       /\ \/ env_create
          \/ \E v \in UserVa, perm \in Granted : load_icode_mapper(v, perm)
          \/ Loaded
          \/ task = User /\ \E c \in MayCall : Call(c)
          \/ \E v \in Va : FreeUserPage(v)
          \/ \E t \in Table : FreeTable(t)
          \/ FreeDirectory
          \/ \E a \in Asid, v \in Touched : Evict(a, v)
    \/ (panicked \/ (task = User /\ MayCall = {})) /\ UNCHANGED vars

Spec == Init /\ [][Next]_vars

-----------------------------------------------------------------------------
(* Properties *)

\* The values of all variables have their types; in particular page_alloc
\* never takes a page from an empty list.
TypeOK ==
    /\ mem \in Memory
    /\ asid \in [Env -> Asid \cup {NULL}]
    /\ parent \in [Env -> Env \cup {NULL}]
    /\ dst \in [Env -> Va \cup {NULL}]
    /\ task \in Task /\ panicked \in BOOLEAN

\* No page has ever as many mappings as pp_ref can count.  Nothing in the code sees to it:
\* the theorems about the properties below are about the behaviours that keep it.
Unwrapped == \A p \in Page : Cardinality(Uses(mem, p)) < RefMod - 1

\* pp_ref is the number of pointers to the page, in page tables and directories of all
\* envs.  The exception is the directory that env_alloc loses for want of an ASID.
RefExact == \A p \in Page :
    \/ mem.ref[p] = Cardinality(Uses(mem, p))
    \/ mem.ref[p] = 1 /\ Uses(mem, p) = {}

\* A page on the free list is there once, is mapped by nobody and is in no TLB entry:
\* page_alloc never hands out a page somebody can still read or write.
FreeUnused ==
    /\ IsInjective(mem.free)
    /\ \A p \in Range(mem.free) :
        /\ mem.ref[p] = 0 /\ Uses(mem, p) = {}
        /\ \A a \in Asid, v \in VPage, perm \in Perm : mem.tlb[a][v] # <<p, perm>>

\* Every mapped page has its page table and directory, which is where env_free looks for
\* it; and the page of a table or directory has no other use, so that no env can write it.
TablesSound == \A e \in Env, v \in VPage : Valid(mem, e, v) =>
    /\ asid[e] # NULL
    /\ Valid(mem, e, TableOf(v))
    /\ v \notin Va => Uses(mem, PageOf(mem, e, v)) = {<<e, v>>}

\* A valid half of a TLB entry is the current entry, with its permission, of the env that
\* owns the address space id: neither a reused ASID nor a replaced page is ever stale.
TlbSound == \A a \in Asid, v \in VPage : mem.tlb[a][v] \in Entry =>
    \E e \in Env : asid[e] = a /\ mem.pt[e][v] = mem.tlb[a][v]

\* sys_mem_alloc and sys_mem_map may fail half way, after page_remove took the old page
\* out; yet wherever something was mapped before the call something is mapped after it.
NeverHalfMapped ==
    [][\A c, e \in Env, v \in UserVa, perm \in Perm :
          Valid(mem, e, v) =>
             /\ sys_mem_alloc(c, e, v, perm) => Valid(mem', e, v)
             /\ \A s \in Env, src \in MapSource :
                    sys_mem_map(c, s, src, e, v, perm) => Valid(mem', e, v)]_vars

\* What include/pmap.h:19 says with page_decref's comment: a page nobody points to is free.
NoPageLost == \A p \in Page : Uses(mem, p) = {} => p \in Range(mem.free)

\* What the comment of sys_ipc_recv says: a page comes with the message only if dstva is not 0.
PageOnlyIfAsked ==
    [][\A e \in Env : dst[e] = ZeroVa => mem'.pt[e][ZeroVa] = mem.pt[e][ZeroVa]]_vars
=============================================================================
