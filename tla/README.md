# Verification project for os25-shell

os25-shell is the MOS teaching kernel (MIPS, one CPU) with a user library, a
file server and a shell.  This directory holds TLA+ modules translated from its
source, the TLC configurations that check them on small instances, and theorems
about them that TLAPS proves for every value of their constants.  Paths are
relative to the repository.

Run, in this directory:

    tlc -workers 2 -config MCEnvSched.cfg MCEnvSched     # any run of section 4
    tlapm EnvSchedProofs.tla                             # any module of proofs

## 1. Inventory

| Part | State it keeps | Operations | Hard about it | What makes it right |
|---|---|---|---|---|
| tail queues `include/queue.h` | head, tail, links inside the elements | init, insert, remove | links survive a removal; a removal trusts them | the links are one list of the intended elements |
| envs `kern/env.c` | `envs[]`, free list, ASID bitmap, id counter | create, alloc, free, destroy, run | slots, ids and ASIDs are reused; resources run out half way | unique ASIDs, exact free list, stale ids refused |
| scheduler `kern/sched.c` | run queue, slice counter, `curenv` | `schedule` | called from timer, yield, block, destroy, suspend with the queue in different states | queue = runnable envs, rotation, no starvation |
| IPC and env system calls `kern/syscall_all.c` | status, receiving flag, parent | exofork, set_env_status, recv, try_send, destroy, yield | callers change each other's status in any order | a blocked env is woken once and by the right call |
| memory `kern/pmap.c`, `syscall_mem_*` | `pp_ref`, free pages, page tables | alloc, map, unmap, insert, remove | partial failure, sharing | reference count = number of mappings |
| TLB `kern/tlbex.c`, `tlb_asm.S` | TLB entries | refill, invalidate, modify exception | staleness, ASID reuse | entries agree with page tables |
| env variables `syscall_all.c:685-825`, `env.c:491` | per-env table | declare, unset, list, find, sync | copies down at fork and up at death, capacity | read-only and local variables kept, names unique |
| fork, copy on write `user/lib/fork.c`, `spawn.c` | permissions of shared pages | fork, duppage, cow_entry, spawn | preemption between two system calls, faults of the caller itself | isolation of parent and child |
| pipes `user/lib/pipe.c`, `pageref.c` | ring and positions in a shared page; reference counts | pipe, read, write, is_closed, close | no lock at all; closed-ness is read off two counters at two times | bytes in order, sound and live end of file |
| descriptors `user/lib/fd.c` | descriptor slots | alloc, dup, close, read, write, seek | order of the two pages of a slot | a slot is whole or absent |
| files and server `file.c`, `fsipc.c`, `fs/serv.c` | open table, page counts, requests | open, map, close, remove, create, sync | a library call is many requests; clients die in the middle | a file id stays its file; close() writes the file |
| file system `fs/fs.c`, `fs/ide.c` | block cache, bitmap, directories | alloc, free, walk, create, truncate, remove, sync | full disk half way; what is on disk when the power goes | bitmap agrees with the blocks in use |
| exit and wait `libos.c`, `wait.c`, `spawn.c` | status message, env id | exit, wait, spawn | one attempt to send; one mailbox for everything; ids reused | the shell gets the status of its command |
| shell `user/sh.c` | tokens, syntax tree, `in_backtick` | readline, tokenize, parse, resolve, execute | tables and flags that outlive a line | a line means what it spells |
| line editor and history `user/sh.c`, `history.c` | line, cursor, length, ring of lines | one per key | three indices into a ring, two into the line | the line and the earlier lines are what was typed |
| boot, traps, printing, ELF, tools | | | straight-line or assembly | |

How they interact: system calls and the timer enter the kernel with interrupts
off and leave it through `env_run`, so that a kernel entry is atomic and user
code is preempted between any two instructions.  Processes share memory only
through pages mapped with `PTE_LIBRARY` (pipes, descriptors, file pages) and
send messages with `sys_ipc_try_send`/`sys_ipc_recv`.  The file server is a
process reached by such messages.  The shell runs a command as a process that
reports its status by a message from `exit`.

The hazards of each part, with their lines and the properties that watch them,
are in `PROJECT.json` ("hazards").

## 2. Plan

Done: `TailQueue`, `EnvSched`, `Pipe`, `PageMap`, `EnvVars`, `Fork`, `ExitStatus`,
`LineEdit`, `FileStore`, `Paths`, `FileServer` with their runs and proofs; `FsFormat`
and `Shell` with their runs; `AddressSpaces` and `Editor`, the abstract
specifications that `Fork` and `LineEdit` are proved to implement.

Left, in this order:

1. Several readers or writers of one pipe; ids over a whole turn of `mkenvid`.
2. The sizes of the shell's tables (`tokens[100]`, `value[1000]`, `argv[128]`) in `Shell`.

## 3. Modules

**TailQueue.**  TAILQ at the level of its pointers.  A queue is a record of
`first`, `last` (the address of a next field), and the `next` and `prev` links
of every element, which nothing clears after a removal.  `IsList` says what
sequence the pointers stand for, `Lists(q, S)` that it is a list of exactly S.

**EnvSched** (extends TailQueue).  One action per kernel entry that creates,
destroys, blocks, wakes or switches envs.  `sched` is `env_sched_list` with all
its links, `free` is `env_free_list` as a sequence, `asidBitmap` the set of set
bits, `gen` the static counter of `mkenvid`, `count` the static counter of
`schedule`.  A system call that fails leaves the state alone and is a
stuttering step.  `schedule` is an operator that takes the list and statuses
its caller has already changed, because its callers differ in just that: the
timer and `sys_yield` call it on an untouched list, `sys_ipc_recv` after
unlinking `curenv`, `sys_env_destroy` after setting `curenv` to NULL.  `sys_cgetc` is the
one system call that is not atomic: it polls for a key with interrupts off, so
nothing else happens (`mode = "key"`) until `KeyPressed`.

Three next-state relations tell who calls what: `Next` has every call with every
argument except that nobody makes a blocked receiver runnable by hand and nobody
destroys an env that is not runnable; `SpawnErrNext` is what the programs of the
repository do, with spawn()'s error path; `ResumeNext` has every call of
`sys_set_env_status`.

**Pipe.**  One pipe and the processes that share it, at the grain of single
system calls and single accesses to the shared page.  `fd[p][s]` and
`data[p][s]` are the mappings of the two pages of a descriptor slot; `pageref`
counts them as `pp_ref` does.  `th[p]` is the program counter and the locals of
a process.  The kernel's `env_runs` of a process is the flag `stale` of its
thread: set by any step of another process, which is when the counter has moved.

One reader and one writer run at a time.  A `fork()` is a step per page (`Fork`, `ForkMap`,
`ForkDone`), of the lower Fd pages before the higher data pages, and overlaps with every
call of other processes, as it does in a shell pipeline: `execute_pipeline` forks the
reader while the writer, forked before it, already uses the pipe.

**PageMap.**  Pages, address spaces and the TLB.  `mem` gathers what the functions of
`kern/pmap.c` work on, so that each of them is an operator from a memory to a
memory and `page_insert` is composed of `page_remove`, `tlb_invalidate`,
`pgdir_walk` and `Enter` in the order of the code:

- `ref` is `pp_ref`; `free` is `page_free_list` as a sequence, first page first.
- `pt[e]` is the address space of e, from virtual pages to entries.  The directory
  of an env maps itself at UVPT, so a page table is the page of a virtual page of
  UVPT (`Table`), and the directory the page of `Self`: one function holds both
  levels, `TableOf(v)` is the virtual page whose page holds the entry of v, and
  `Uses(m, p)` are all the places that point to p.
- `tlb[a]` is the TLB under the address space id a.  An entry of the hardware holds
  two virtual pages (`Pair`), a refill writes both, an invalidation or replacement
  drops both.  How many entries the TLB has does not matter: `Evict` may drop any.

Kernel entries are atomic, with two exceptions that are split to keep the model
small: `load_icode` and `env_free` loop over an address space, one action per
round, and `task` keeps everything else out until they end.  The order of the
rounds of `env_free` is left open, but a table goes only when it is empty.

`pp_ref` is a u_short (include/pmap.h:22): counts are taken modulo `RefMod`, 2^16 in the
code, and nothing keeps a page from being mapped more often than that, for one env
has 2^20 addresses to map it at.  `Unwrapped` says that no page is.  `page_decref` asserts
that the count is not 0 (`DecrefFails`), which would be the end of the system.

Abstractions: an env runs or not as it likes as long as it does not wait for a
message (a superset of what EnvSched allows); which free slot and ASID is taken is
left open; the contents of pages are left out, and so are the mappings of `envs` and
`pages` at UENVS and UPAGES, which no call changes.  `env_free` is only asked for
envs that do not wait for a message, for the reason given under `MCResume.cfg` in section 4:
destroying a waiting env corrupts the run queue first.

**Fork.**  `fork()`, `cow_entry` and `spawn()` in user mode, one system call per
action.  `pt[e]` is the address space of e, `data` the contents of the pages, `job[e]`
where e is in `fork()` or `spawn()` (its child, the pages still to do, the page it is
in the middle of), `fault[e]` where it is in `cow_entry`.  `DupFirst` and `DupSecond`
are the two `syscall_mem_map` of duppage (fork.c:85-92); the four steps `CowAlloc`,
`CowCopy`, `CowMap`, `CowUnmap` are those of `cow_entry` (fork.c:16-60).  Calling a
function writes the stack, so a system call is only made once the stack page is not
marked PTE_COW (`MayCall`): the caller faults in the middle of its own `fork()`, as
the real one does after its stack page was duplicated.  Pages are free when nobody
maps them and there are enough of them; reference counts are the matter of PageMap.

**AddressSpaces** is what programs may rely on: every env has values of its own, except
at the shared pages.  `Mem` in Fork is the refinement mapping: the value of a page is
what the mapped page holds, and a page of a child counts as there when its duppage is
finished.  A child's page thus appears with the second system call of duppage, and
what the parent wrote between the two calls is still copied: fork() does not copy all
pages at one time, but each at one time.

**EnvVars.**  The table of variables of each env, as a set of records.  One action
per builtin of the shell that changes it (`declare`, `unset`, each one system call:
`sys_declare_env_var`, `sys_unset_env_var`), the copy a new env
takes (`sys_exofork`), and `env_destroy`, which gives the exports back by
`sync_penv_var` when `envid2env` still finds the parent.  A parent id names a slot and its
generation, so a child whose parent has died has no parent, even when the slot is used
again.  A table of the code has 20 entries and no check: the 21st variable is written over
`env_cnt` and the next struct Env.  The model lets that happen and stops there, as anything
may follow: every action has the guard `TableFits`.  `stale` is a history variable: the envs
whose copy of the parent's exports is older than the parent's last change.

**FileStore** is `fs/fs.c`, function by function, each an operator from a state of the file
system to the next; `err` and `r` hold what the function returns, and `Then` is the
`if ((r = f()) < 0) return r` of the code.  `disk` and `blk` are the blocks on disk and in
memory, `dirty` the PTE_DIRTY marks, `out` the blocks handed to `ide_write` and not yet
on disk.  A block is typed by what is in it (data, File structures, block numbers).
Where the code would use a block for something else than it holds,
`health` becomes "stale"; where it panics, "panic"; the server does no more then.  `freed` is a
history variable: the blocks that `free_block` was ever called for.  Sizes are in blocks.  A loop
of the code is `Loop` of the module **Loops**, a recursive function over its counter, whose body is
an operator of its own (`look`, `mark`, `clear_block`, `enter`, ...).  `Owned(B, free)` says of the
blocks of a disk that every pointer of every File, in use or not, leads to a block of its own
that is not free, and that the names of a directory differ.  **FsFormat** is
`tools/fsformat.c`, which makes the first disk.  **Paths** is what `cat2Path` makes of a name
and a working directory.

**FileServer** composes them with `fs/serv.c`, the library of its clients
(`user/lib/file.c`, `fsipc.c`) and the disk, which is a parameter: any disk that is well formed
and `Owned` (`DiskAssumption`); MCFileServer gives it the image that FsFormat makes of a tree.
`serve_*` are the functions of the server; an action is one request of a client with its reply, and a library call (open, stat, chdir,
ftruncate, close, open with O_CREAT) is a sequence of them that other clients interrupt
(`job`).  `store` is a client's write into a mapped page of the server's cache.  Blocks reach
the disk one at a time (`DiskWrite`) before the client goes on, and `Reboot` may come
between any two, after which the server reads the disk again.  `fork` shares the pages
of an open file, and `Die` takes a client away at any time that it is not waiting for a
reply.  Messages are left to ExitStatus: here a reply always arrives.  When a request of its
close fails, the model's client forgets its mapped pages, which the code leaves mapped
(user/lib/file.c:180-190); no property depends on it.

**ExitStatus.**  The processes of one command line, the shell and the file server, each
with its program counter, its one mailbox (`recving`, `from`, `value`) and its place in the
queue of runnable envs.  Only the env at the head of the queue takes a step, one system
call; the timer may take the CPU away after any of them.  `Request`, `Await` and `Answer`
are `fsipc`; `Listen` and `Reply` the loop of the server; `Send` and `env_destroy` the end
of `exit`; `Wait` is a round of `wait`.  `lost` and `said` are history variables: who was not
receiving when a child of his sent its status, and the status the command of the
line ended with.  What a request is about is left out.  `Spawned` has every way in which `spawn()`
returns: a child, a negative error, and the short read of a header (user/lib/spawn.c:125
and 185), whose count of bytes, 0 or more, the caller takes for a child.

**Shell.**  The main loop of the shell from a line read to a line executed, a stage per
action.  The functions of the tokenizer, of the parser (one operator for each, which takes
and returns the current token and `in_backtick`) and of the executor are recursive
operators.  Execution yields a set of outcomes: the commands run, in order, the status, and
whether the env has ended.  Two places are modelled as they are written although
they can hardly be meant: NODE_SEQ falls through into the redirection
(user/sh.c:1076), and the status of a pipeline is made of variables nobody has set
(user/sh.c:1185, either outcome).  The sizes of `tokens[]`, `value[]` and `argv[]` (100, 1000 and 128) are not
modelled: the instances stay below them, and the code does not look at them.  Of the builtins
that end the env, `exit` and a `declare` with a bad option are there (`Exiting`); `cd` ends it only when
`sys_set_rpath` fails, which it never does.

**LineEdit.**  `readline` and `history.c`: the bytes of `buf` with the byte after
it, the cursor `i`, `len`, the ring `hisBuffer` and its three indices, and the file.  One
action is one key.  **Editor** is what a user sees: a text before and a text after the cursor
over a list of earlier lines, each of which can be changed in place.  `E` in LineEdit is
the refinement mapping, from `Before`, `After`, `Past` and `At`.  `Written` is the loop
of `save2file`, which leaves out the empty slots.  `Editor` says what
each key is meant to do; where the code does something else, `EditorSpec` adds to it exactly that:
`KillLeftRepeats` (^U with more text after the cursor than before it, user/sh.c:405) and
`EnterKeepsPlace` (Enter on a line that is not recorded, user/lib/history.c:66-70).

**MCEnvSched, MCPipe, MCPageMap, MCEnvVars, MCFork, MCFileServer, MCExitStatus, MCShell,
MCLineEdit** are the modules TLC instantiates.

**EnvSchedProofs** (with those of TailQueue), **PipeProofs, PageMapProofs, EnvVarsProofs,
ForkProofs, ExitStatusProofs, LineEditProofs, FileServerProofs** hold the theorems.

Definitions marked "Mutant" are wrong variants of the definition that follows
them; nothing uses them, they serve to confirm that a property notices the
corresponding mistake.

## 4. Runs

| Run | Instance | What it shows |
|---|---|---|
| env_sched | 4 slots, 3 ASIDs, priorities 1..2, 4 envs ever | the safety properties of EnvSched, `YieldRotates` and `NoStarvation` |
| pipe_ring | 2 processes, 2 slots, ring of 2, positions modulo 4, calls of up to 2 bytes, 5 bytes in all | `FifoOrder`, `RingBound`, `ReaderReleased`, `WriterReleased` |
| pipe_closed | 3 processes, 2 slots, ring of 1, no bytes, one call of dup() | `ClosedUnlessForking` |
| page_share | 3 envs on 2 ASIDs, 5 pages, 2 user pages (one a guard page), page 0, 2 page tables, two permissions, accesses through the TLB | `RefExact`, `TablesSound`, `FreeUnused`, `TlbSound`, `NeverHalfMapped` |
| vars | 3 envs, 2 names, 1 value, tables of 2 | `NamesUnique`, `Inherited`, `ReadonlyKept`, `LocalKept` |
| cow | 3 envs, a stack, a text and a shared page each, 2 values | `Sound` (private pages are private), `MemSpec` (refines AddressSpaces) |
| fs | 2 clients, a disk of 7 blocks of which 2 are free at first, 4 library calls, 1 power failure | `StoreSound`, `DiskMarked`, `ClosedIsOnDisk`, `OpenStable` |
| exit | shell, server, 3 slots, ids that repeat after 3 uses; lines of three kinds, without end | `Sound`, `StatusPassed`, `Quiet`, `ShellHears`, `PromptReturns` |
| shell | every tree of up to two operators over 8 commands, with and without blanks; every line of 3 characters of 7, of 5 characters of 3; any number of lines | `Sound`, `TreeBack`, `FlatRun` |
| edit | lines of up to 3 bytes of 2 kinds, a ring of 2, 12 keys | `Sound`, `FileInOrder`, `EditorSpec` (refines Editor) |
| spawn_err | 3 slots, 4 envs ever | violation of `SchedListExact` by spawn()'s error path |
| exit_answer | as exit, with programs redirected | violation of `AnswerFromServer` by a status that comes for a reply |

The `Sound` of a module joins its type invariant with the invariants that say that the
state is well formed; the `TypeOK` of EnvSched, Pipe, PageMap and EnvVars is proved
instead.

**Bounds.**  env_sched has fewer ASIDs than slots, as the code has: `env_alloc` fails
when they run out.  One env more is made than there are ASIDs, so that a slot and an ASID
are used again, in any place of the lists, and the id of a dead env still circulates.  Three
envs at a time make lists with a head, a middle and a tail, so that every branch of
TAILQ_REMOVE is taken; the safety properties are proved for any number of each.  Two
priorities make an env stay on the CPU for one tick or for several.  In pipe_ring the ring
wraps twice and the position counters, which wrap at 2^32 in the code and at a multiple of
the ring size here, wrap as well; its two processes are the first and its child, so that no fork
is under way when they wait.  pipe_closed needs a third process, which is forked while the
first child uses the pipe, but no bytes: the answer of `_pipe_is_closed` depends on the
mappings only, and a reader of an empty ring asks.  Two slots make dup() fill
slots that close() has just emptied; the theorem covers any number of processes and slots.

page_share has enough pages for two address spaces with a table each and a page or
two to share, and too few for everything, so that every allocation fails
somewhere, the second one of a call included; more envs than ASIDs, so that ASIDs
are reused while old entries linger in the TLB.  Accesses (`Touched`) are to one user page,
its table and the directory, which programs read through UVPT.  In the instance a TLB entry
holds one page (`Pair` is a singleton); entries of two pages, as the hardware has them, are
covered by the theorem only.

vars has as many names as entries, so that no table is overrun, and a child, a grandchild
and a slot used again; MCVarsFull.cfg below has a name more.  cow has a page of
each kind and three envs, so that a page is shared by parent, child and
grandchild when one of them faults; a state is who shares a page with whom (`View`), since
pages are interchangeable.  fs has one block pointer in a File and one more through an
index block, two Files in a directory block and a root directory that is full, so that
direct and indirect blocks, a directory that grows, and every failed allocation
are within four calls; one table entry per client.  `Reboot` costs a call as well.
Properties of the tree look two levels down, which is as deep as the typed
names reach.  exit has a slot for each env of the deepest line, so that the next
line takes a slot while the last env in it is on its way out; `Known` compares ids, which
repeat after three uses.  shell runs lines one after the other in one shell, since
`tokens[]` and `in_backtick` outlive a line.  In edit twelve keys fill the line, overflow it,
fill the ring and wrap it, and walk up and down in it.

`env_sched` checks for deadlock (a halted machine stutters), and so does page_share.
The others do not: they end when every descriptor is closed, every env has exited, the
bound on bytes, calls or keys is reached, or, in shell and exit, the shell has exited or waits
for ever (which `PromptReturns` is about).

**Exceptions.**  Some properties hold only outside a case in which the code goes wrong.
The case is part of the property, is named in it, and has a property of its own below, which is
violated: `ClosedUnlessForking` (a fork between the two pages of a descriptor; `ClosedSound`),
`StoreSound` (a stale block was used, the server has panicked, the power has failed;
`NeverStale`, `NoPanic`, `DiskSound`), `PromptReturns` (a status lost on a child, a program
that was not started; `NoneLost`, `AlwaysChild`), `EditorSpec` (^U and Enter;
`KillLeftAsMeant`, `EnterAsMeant`), and the theorems of PageMap (65536 mappings of a page;
`FreeUnused` of MCPageWrap.cfg).  Others have an exception and no configuration for it:
`NoStarvation` (no key is ever pressed), `RefExact` (the directory that a failing `env_alloc`
loses, kern/env.c:308), and `TreeBack` and `FlatRun`, which are about lines that begin with
`in_backtick` clear: a syntax error between backticks leaves it set (user/sh.c:769), and
no line after it need parse as it is spelled.

**Fairness.**  env_sched assumes that boot ends and that the timer interrupts user mode
again and again: an interrupt that comes while the kernel runs stays pending until it
goes back to user mode (strong fairness of `TimerTick`).  It does not interrupt the
kernel, which runs with interrupts off, and so `sys_cgetc` stops everything: "kernel does busy
waiting here, blocking all envs" (kern/syscall_all.c:504).  That a key is pressed is not assumed.
`NoStarvation` says that a runnable env gets its turn or the kernel waits for a key
for ever.  (The shell reads its keys by this call: `user/lib/console.c`, which polls with
`syscall_cgetc` and yields when there is none, never sees it return without one.)
pipe_ring assumes that the scheduler runs every process (what
`NoStarvation` says), and that a process that keeps repeating the two counts of
`_pipe_is_closed` sometimes gets through a round and returns without being
preempted: a time slice is thousands of instructions, a round a few dozen.  Without
it two processes that preempt each other at every instruction could retry for
ever.  exit assumes only that the CPU does not stand still while an env is runnable;
that everybody gets a turn follows from the queue, which the model has.

**Findings.**  Two runs end in a counterexample on purpose.

- spawn_err: an env exits, its neighbours in the run queue change, its slot is
  reused by `sys_exofork`; spawn() then fails and destroys the child, which was
  never in the queue.  `env_free` (kern/env.c:487) unlinks it through the links of
  the former owner and corrupts the queue, against the invariant stated in kern/env.c:14.
- exit_answer: `ls.b > f`.  The env that spawns the program has the file open as
  descriptor 1, and its `close_all` (user/sh.c:1258) asks the server to close it.  The program ends
  meanwhile, its status comes first, and `fsipc` (user/lib/fsipc.c:30) takes it for the
  answer; the real answer is then taken for the status.

**Further configurations.**  These are kept beside the runs; each property in them has
a counterexample, which tells where a guarantee stops.  Where a file has two properties TLC
shows both with `-continue -workers 1`, or each when the other is taken out.

| Configuration | Property | What TLC shows |
|---|---|---|
| `MCResume.cfg` (MCEnvSched) | `SchedListExact` | `sys_set_env_status(e, RUNNABLE)` on an env that waits in `sys_ipc_recv` inserts it and leaves `env_ipc_recving` set; the next message inserts it once more (kern/syscall_all.c:334). No program here does it; the system call allows it. |
| `MCPipeEof.cfg` (MCPipe) | `EofMeansDrained` | `pipe_read` can return 0, end of file, with bytes in the ring: it tested the ring empty, the writer wrote and closed, and then it found the pipe closed (user/lib/pipe.c:181). |
| `MCPipeFork.cfg` (MCPipe) | `ClosedSound` | "Return 1 if pipe is closed. Return 0 if pipe isn't closed." (user/lib/pipe.c): the shell forks the writer of a pipeline, which runs, and then forks the reader; when the Fd page of the write end has been mapped for the child and no data page yet, users of the write end and of the ring are equally many, and the writer is told that nobody reads, though the shell has the read end open (user/lib/fork.c:161, user/sh.c:1199-1216). |
| `MCPageLost.cfg` (MCPageMap) | `NoPageLost` | `sys_mem_alloc` takes a page and then finds no page for the page table; the first page stays allocated and belongs to nobody (kern/syscall_all.c:176). |
| `MCPageAsked.cfg` (MCPageMap) | `PageOnlyIfAsked` | a receiver that wants no page (`dstva` 0) still gets one mapped, at virtual page 0, if the sender sends one (kern/syscall_all.c:499). |
| `MCPageWrap.cfg` (MCPageMap) | `FreeUnused` | `pp_ref` with one bit instead of 16: an env maps its page three times, the count is 1, and the first unmapping puts the page on the free list under two mappings (kern/pmap.c:254). With 16 bits it takes 65537 mappings, which one env can make. |
| `MCVarsFull.cfg` (MCEnvVars) | `TableFits` | the variable that is one too many is written behind the table (kern/syscall_all.c:710). |
| `MCVarsFull.cfg` (MCEnvVars) | `SyncFits` | a child declares and exports a name, its parent others of its own, each within its table, and the death of the child joins them to more than a table holds (kern/env.c:527-534). |
| `MCExitWaits.cfg` (MCExitStatus) | `AlwaysChild` | the file of the command is empty or ends in a header: `spawn()` returns the number of bytes read, which is not negative (user/lib/spawn.c:125, 185), and `execute_command` waits for a child that it does not have (user/sh.c:1241-1262), and the shell for it. |
| `MCExitWaits.cfg` (MCExitStatus) | `NoneLost` | the child of the shell spawns a program and closes its descriptors before it waits (user/sh.c:1258); the program ends in the meantime, its one try to send fails, and the child waits for ever (user/lib/libos.c:12). |
| `MCFileSync.cfg` (MCFileServer) | `SyncedIsOnDisk` | `sync()` leaves the blocks behind that no request has marked: those of directories changed by `create` or by an open with O_TRUNC (fs/fs.c:772). |
| `MCFileCrash.cfg` (MCFileServer) | `DiskSound` | a file is opened with O_TRUNC, which frees its blocks in memory; an allocation for another file writes the bitmap; the File on disk still names blocks that are free there, and they are given away after a restart (fs/fs.c:192, 212-225). |
| `MCFileHealth.cfg` (MCFileServer) | `NeverStale` | a file that is in memory is cut or removed, and its block becomes that of a directory without being cleared: `map_block` finds it in memory, and `dir_alloc_file` takes the text in it for Files (fs/fs.c:136-144, 227-245, 563-570). `rm f; mkdir d; touch d/x` does it. |
| `MCFileHealth.cfg` (MCFileServer) | `NoPanic` | a client makes a file longer than its direct blocks, which sets the size only; before it has mapped the new blocks, another client opens the file with O_TRUNC, and the `panic_on` of `file_truncate` meets a file without an index block (fs/fs.c:715, 731-743). |
| `MCKeysMeant.cfg` (MCLineEdit) | `KillLeftAsMeant` | ^U with more text after the cursor than before it: the move is as long as what goes, not as what stays, so that the line that is kept ends wrong (user/sh.c:405, against the comments at 390 and 404). |
| `MCKeysMeant.cfg` (MCLineEdit) | `EnterAsMeant` | the user goes up to an earlier line and enters it; if it is like the last one, `store_cmd` returns early and leaves `cursor_ptr` on the old line (user/lib/history.c:66-70), so that the new line counts as an old one and UP overwrites the history with it (history.c:175-182, against the comment at 138-139). |

**Read while modelling**, each in a model as the code has it:

- `open()` with O_CREAT of a file that is there returns 1, not its descriptor, and leaves the
  descriptor it took open (user/lib/file.c:128); after `fsipc_create` it returns 0.
  `execute_redirection` closes that number (user/sh.c:1128).
- `if (r = fsipc_map(...) < 0) return r` in `open()` returns 1 when a page cannot be mapped
  (user/lib/file.c:151).
- a second `execute_backtick` of a command gets the output of the first (user/sh.c:1336);
  of two empty words in a row one stays (user/sh.c:1620); variables are replaced in
  the order of the table, so that `$ab` is `$a` followed by b if a comes first (user/sh.c:1612).
- `exit` of a child whose spawn failed sends a status nobody has set (user/sh.c:1268).

## 5. Theorems

All hold for any number of slots, ASIDs, priorities, processes, descriptor
slots, bytes, pages, names and values, disks, clients and calls, under the named assumptions of the modules (sizes are positive,
NULL and HEAD are no elements, the position counters wrap at a multiple of the ring size).

**Tail queue.**  `InitQueueIsList`, `InsertTailAppends`, `InsertHeadPrepends`,
`RemoveDeletes` relate the pointer operations to operations on the sequence the
queue stands for.  `RemoveTwice`: removing an element a second time right after
the first leaves the queue as it was, although the element is not in it any
more.  That is why the double removal in the blocking path (`sys_ipc_recv`
unlinks `curenv`, then `schedule` does) is harmless, and only there.

**Scheduler.**  `SchedListExact` is not inductive.  The invariant `IInv` adds what
keeps the list right: a receiver is not runnable (else a wake-up would insert it
twice), `curenv` is runnable whenever user code runs (else `schedule` would unlink
an env that is not in the list), the free list holds exactly the free slots (else
a new env could be in the list already), the priority of a live env is positive
(else the slice counter would go below 0), and nothing runs during boot.
`ScheduleOK` states what `schedule` guarantees whenever its list is that of one of
its three kinds of callers; each system call is shown to call it so.  From
`KernelInvariant` follow the theorems for every invariant run env_sched checks,
and `YieldCorrect` for the action property.  `AsidsCorrect` has its own, smaller
inductive step on top.

**Pipe.**  `ClosedUnlessForking` rests on three facts that together are inductive, with forks that
overlap with every other call: a slot that maps an Fd page maps the data page
(`PagesPaired`), except in a child that fork() is still filling, whose pages are a prefix of its
parent's (`Families`); and the counts read by a thread nobody has preempted are still the true
counts (`CountsCurrent`).  If no child has an Fd page without its data page, the maps of the
caller's end are among the data maps, equal counts make the two sets equal, and no map is
left for the other end.

`FifoOrder` and `RingBound` rest on a second invariant, `FlowInv`.  One process reads and
one writes (`OneEach`); `rpos` and `wpos` are the numbers of bytes taken and sent, modulo the
width of the counters, and at most a ring of bytes is under way (`InRing`); and a thread
in the middle of a call agrees with these numbers (`Turns`): a reader that has
found the ring not empty still finds it so, since only it takes bytes, and the byte
it has in hand is the next one.  The ring's slots are told apart by lemmas on
remainders (`ModNext`, `ModMod`, `ModApart`, `ModDistance`); `RingAssumption` says that
the counters wrap at a multiple of the ring size and are wider than the ring, as
2^32 and 32 are.

**Memory.**  The theorems of PageMapProofs cover every invariant run page_share checks and
`NeverHalfMapped`.  They assume, besides the layout (user pages, tables and the
directory are different virtual pages; a virtual page is in its own TLB pair), that no page
is mapped more often than a u_short can count: `Unwrapped` is a premise about the
behaviour, `Spec /\ []Unwrapped => ...`, not an assumption about the constants, since the
address spaces of the code are large enough to break it and the code does not look (MCPageWrap.cfg).
Under it `DecrefNeverFails` adds that the assertion of `page_decref` holds.

No property is inductive alone.  `Core(m, as)` joins them as a predicate of a memory, so
that it can be stated of the memory between two steps of a call.  `InHand(m, p)` says
when a page may be entered somewhere: it is counted right, is not on the free list and is
not a table.  `EnterCore`, `RemoveCore`, `InvalidateCore`, `TakenCore` and `FilledCore`
show that each primitive preserves `Core`, keeps the other pages in hand, and
changes only the entry it names; `WalkCore` and `InsertCore` compose them along
the branches of `pgdir_walk` and `page_insert`.  `RemoveCore` needs that nothing
hangs on the removed entry as its table, which is why `env_free` must empty a table before
it drops it.  `InsertCore` also yields that a mapped virtual page stays mapped: its table
is there (`TablesSound`), so the second `pgdir_walk` cannot fail.  `IInv` adds that a live
env has a directory, and that the env `load_icode` or `env_free` works on is live.

**Variables.**  `Inherited`, that a child with a fresh copy holds its parent's exported
read-only variables, is not inductive alone: a slot used again would take over the
children of the env that held it before.  `DeadAreGone` excludes it: a dead env has no
table and is nobody's parent.  `SyncUnique` shows that a table put together from a child's
exports and the parent's other locals repeats no name; from it `NamesAlwaysUnique`.  All this is
said up to the first table that is overrun, where the model stops.  `ReadonlyAlwaysKept`
follows step by step from the invariant: a sync from a child that is not stale gives back what it took.
`LocalAlwaysKept`: a local that a death takes away has made room for an export of its name.

**Fork.**  `Isolated`, that a page mapped twice is one no owner may write without a fault, is
not inductive: between two system calls there are pages in nobody's or in everybody's hand.
`IInv` names them.  `Halves`: between the two calls of duppage the child has the page
PTE_COW and its parent still may write it, and nobody else has it writable; the page `spawn`
fills is mapped at UTEMP and in the child and nowhere else.  `Faults`: the page
that faulted stays PTE_COW until `cow_entry` maps the new one, and the new one at UCOW
is nobody else's.  `Jobs` and `Todo`: a child that is being made does not run, is made by
one env, and lacks the pages still to do.  `Kinds`: shared and read-only pages stay
what they are, and a page is at one address in all its envs.  `Unused`: a slot without an env
maps nothing.  From it `ForkSound`, and `ForkImplementsMemory`: each action is a step of
`AddressSpaces` or leaves `Memory` alone (`NextSeen`, one lemma per action).  Assumed are that the
names of pages differ as their addresses do (`NamesAssumption`) and that there are more
pages than mappings (`PagesAssumption`): failing allocations are the matter of PageMap.

**Exit and wait.**  None of `Sound`, `Quiet` and `ShellHears` is inductive.  `IInv` joins:

- `Typed`, what an env's own record says: who is blocked in which place, how many children
  it has had there;
- `Queued`: the queue holds the runnable envs, each once;
- `Tree`: an env that has not yet sent its status has a parent which lists its id and is
  in a place where it expects it (`Fits`).  Ids repeat, so that a slot may not be freed before;
- `Served`: the env the server is answering waits for the answer, or has taken
  something else for it and has no child left that could send more;
- `Turns`: as long as the shell has not looked at its child, the child has not had its
  first answer from the server, or the shell is before it in the queue.  `exit` tries to send its
  status once, so `ShellHears` depends on the order of the queue: the shell's turn always comes
  before that of the child, which must wait for the server at least once.

`PromptIsQuiet` follows by going up the tree: any env that is left has an ancestor the
shell waits for (`UpToShell`).  `StatusIsPassed` needs `Passing` on top of `IInv`: what the env in
each role (runner, program, builtin, shell) holds of the status that was said, and that
nothing but the server answers a request (`Answered`).  It is proved for lines that redirect
no program ("run>" is not in `Kind`): with one, `Answered` is false, which is the finding
exit_answer.  Assumed are that shell, server and slots differ, that a generation is
a number below `GenMod`, and that the lines are of the kinds the module knows; the three statements
before hold for all of them, "run>" included.

**File server.**  The theorems cover `StoreSound`, `DiskMarked` and `OpenStable` for every image
that is well formed, every set of sizes, clients and names, and any number of crashes.  None of the
three is inductive.  `IInv` joins:

- `Server`, what the store keeps.  `Shape` holds always: everything in memory, on disk and on its
  way there fits the kind of its block (`Formed`).  `Order`: of the bitmaps on disk, on their way and
  in memory, a later one has no more free blocks than an earlier one but for those in `freed`.
  `Marked`: whatever names a block, on disk, on its way there or in memory, comes after a
  bitmap that has the block as used, or the block is in `freed` (`Sure`).  As long as there
  was no power failure and `health` is "ok", memory is `Owned` too.  `Owned` speaks of all
  pointers of all File structures of all blocks, not only of those reachable from the root:
  a removed file leaves its structure behind with its sizes and names changed, an open
  table keeps it, and "reachable" is not kept by a step that cuts a directory off;
- `Tab`, `Maps` and `Fds`: the table of open files, the pages that are mapped for them (a page
  a client holds has `pageref` 2 or more) and the clients' descriptors.  From this follows
  `OpenStable`: `open_alloc` takes an entry nobody holds (`HeldNotFree`);
- `Jobs`, `Sized` and `Dirs`: what a client that is between two requests of a library
  call remembers.

Functions of `fs.c` are proved one by one in the order of their calls, each to be `Works` (it
keeps what the store must be, and if it leaves `health` ok, `Owned`) or, where it sets no name and
no size, `Keeps`.  A loop is one of the model's `Loop`, whose existence (`LoopExists`) and
induction (`Induction`, by a least counterexample) are proved once; each function has then the invariant
of its body.  `NoSharedBlock`, `UsedMarked` and `UniqueNames`, the parts of `StoreSound`, follow
from `Owned` at the end: two ways to a block from the root are two places of pointers
(`PlaceView`, `PlacesApart`), two names in a directory two places of structures (`NamesApart`).
`DiskMarked` is `Marked` for the disk.  It speaks of every moment and of any number of power failures,
but not of blocks that were ever given back: for those the pointer may be on disk without the mark
(`DiskSound`, MCFileCrash.cfg).  After a restart such a block is given to a second file, so that
`StoreSound` is stated for the time before the first power failure; and a stale block or
a panic ends what it says.
Assumed are `SizesAssumption`, `NullAssumption`, `ServerAssumption` and `DiskAssumption`, which TLC
evaluates for the image of the run.

**Line editor.**  `Terminated` and `RingSound` are nearly inductive, each for its half of the
state.  `IInv` adds to the first that the bytes before the NUL are characters (`Bytes`);
to the second that the slots the ring has not reached yet are empty
(`Ring`), without which the file could hold more than the lines kept, and that every line of the file
is a line that fits the buffer (`Filed`).  One lemma per key shows that it preserves
`Bytes` and is a step of `Editor`, which says what each key is meant to do, or one of the two
departures of `EditorSpec`: `KillLeftRepeats`, what ^U leaves of a line with more after the cursor than
before it, and `EnterKeepsPlace`, Enter on a line like the last: what each `memmove` leaves, a byte at a time (`Moved`), is
compared with the list before and the list after the cursor (`Spells`).  For the history,
`PastPut` and `PastAdd` say what writing a slot does to the list of lines: it changes one
place, or appends a line and drops the oldest.  They need that two counters less than
`HISTORY_SIZE` apart have different slots (`SlotsApart`, from the uniqueness of remainders).
`RingWritten` says that walking the ring from its next slot meets the empty slots first and
then the lines in their order.  `Written` is recursive; what is needed of it, that it returns
non-empty lines of its argument and passes over a prefix of empty ones, is proved by a least
counterexample (`NatMin`, from the well-foundedness of <).  Assumed are only a buffer
of at least two bytes, a ring of at least one slot, that NUL is no character and that the blank is one.

## 6. What is only model-checked, and what is not modelled

Checked by TLC only: liveness (`NoStarvation`, `ReaderReleased`, `WriterReleased`,
`PromptReturns`), which the prover does not treat; the properties of Shell (`Sound`, `TreeBack`,
`FlatRun`), whose parser and executor are recursive operators, which the prover does not
take; that the image of `FsFormat`, recursive as well, satisfies `DiskAssumption`; and
`ClosedIsOnDisk` of FileServer.  The last one needs more than the invariant above has: the order
in which a close writes its blocks, and that a file and its directories have no gap
in their pointers, so that the loops of `file_flush` and `file_close` reach every dirty block.

Left out of the modules above: failures of memory allocation in EnvSched
and Fork (PageMap has them), and `mkenvid`'s wrap-around over a whole turn; several
readers or writers of one pipe at a time (user/lib/pipe.c:190 reads the byte and moves the position in
two steps), and a process destroyed by another in the
middle of a call on a pipe; more than one open file per client, the offset in a file and
partial blocks; a reply of the file server that is taken by somebody else, in FileServer
(ExitStatus has it); the failure of `file_set_size` inside `serve_open`, which the code
answers twice; what is drawn on the console; the sizes of the shell's tables, and the text the
builtins print.

Parts that have no module: the ELF loader and the formatting code (no state),
the device registers of the disk and of the console, trap entry in assembly (register
save and restore), `bintoc` and the test programs, the utilities, which are
straight-line clients, and `user/sh2.c`, `shh.c` and `shhh.c`, older copies of the shell that
no build rule names.
