-------------------------------- MODULE Pipe --------------------------------
(***************************************************************************)
(* One pipe of user/lib/pipe.c and the processes that share it.            *)
(*                                                                         *)
(* A process reaches the pipe through descriptor slots.  A slot maps two   *)
(* pages: the Fd page of the read end or of the write end, and the data    *)
(* page with struct Pipe, which both ends share.  Nothing but the          *)
(* reference counts of these pages says who still has an end open.         *)
(*                                                                         *)
(* The pages are mapped and unmapped one system call at a time by pipe(),  *)
(* close(), dup(), fork() and spawn(), and the fields of struct Pipe are   *)
(* read and written one access at a time, all by processes that the timer  *)
(* preempts anywhere: every action is one such call or access.             *)
(***************************************************************************)
EXTENDS Naturals, FiniteSets

CONSTANTS Proc,       \* processes
          Creator,    \* the one that called pipe()
          NSlots,     \* descriptor slots per process (MAXFD)
          PIPE_SIZE,  \* bytes in the ring (32)
          PosMod,     \* p_rpos and p_wpos wrap here (2^32)
          MaxIO,      \* bound: bytes asked for by one read() or write()
          MaxBytes,   \* bound: bytes written in all
          MaxDups     \* bound: calls of dup() in all

Slot == 0 .. NSlots - 1

ASSUME ProcAssumption == Creator \in Proc /\ IsFiniteSet(Proc)
ASSUME SlotAssumption == NSlots \in Nat /\ NSlots >= 2
ASSUME RingAssumption == /\ PIPE_SIZE \in Nat \ {0} /\ PosMod \in Nat
                         /\ PosMod > PIPE_SIZE /\ PosMod % PIPE_SIZE = 0
ASSUME BoundAssumption == MaxIO \in Nat /\ MaxBytes \in Nat /\ MaxDups \in Nat

VARIABLES
    fd,      \* fd[p][s]: which Fd page slot s of p maps: "r", "w" or "none"
    data,    \* data[p][s]: slot s of p maps the data page
    th,      \* th[p]: where process p is in the library
    buf,     \* p_buf; the k-th byte ever written has the value k
    rpos,    \* p_rpos
    wpos,    \* p_wpos
    sent,    \* history: bytes written so far
    taken,   \* history: bytes read so far
    dups     \* calls of dup() so far

ringVars == <<buf, rpos, wpos, sent, taken>>
vars == <<fd, data, th, ringVars, dups>>

End == {"r", "w"}
Other(k) == IF k = "r" THEN "w" ELSE "r"

PC == {"unborn", "embryo", "idle", "close", "dup", "fork",
       "test", "get", "radv", "put", "wadv", "chk1", "chk2", "chk3"}

(***************************************************************************)
(* A process: pc is its next step; op the direction of its read() or       *)
(* write(); slot the descriptor it works on; to the slot dup() fills;      *)
(* child the env fork() fills; n and i the size and progress of the call,  *)
(* n = 0 in pipe_is_closed(); fdRef, pipeRef and byte local variables.     *)
(* "stale" stands for env->env_runs: it becomes TRUE when anyone else has  *)
(* run, which is when the counter read before has changed.                 *)
(***************************************************************************)
Rest == [pc |-> "idle", op |-> "r", slot |-> 0, to |-> 0, child |-> Creator,
         n |-> 0, i |-> 0, stale |-> TRUE, fdRef |-> 0, pipeRef |-> 0, byte |-> 0]
Unborn == [Rest EXCEPT !.pc = "unborn"]

\* p makes a step and is then at t; whoever else was running has been preempted.
Step(p, t) == th' = [q \in Proc |-> IF q = p THEN t ELSE [th[q] EXCEPT !.stale = TRUE]]
At(p, pc) == th[p].pc = pc

\* pageref(): the number of virtual pages, among all envs, that map a page.
FdMaps(k) == {m \in Proc \X Slot : fd[m[1]][m[2]] = k}
DataMaps == {m \in Proc \X Slot : data[m[1]][m[2]]}
pageref(S) == Cardinality(S)

\* Descriptor s of p is in use: its Fd page is mapped.
fd_lookup(p, s) == fd[p][s] # "none"

-----------------------------------------------------------------------------
(* pipe(), close(), dup(), fork() *)

\* pipe() has returned: slots NSlots-2 and NSlots-1 of the creator are its two ends.
Init ==
    /\ fd = [p \in Proc |-> [s \in Slot |->
               IF p = Creator /\ s = NSlots - 2 THEN "r"
               ELSE IF p = Creator /\ s = NSlots - 1 THEN "w" ELSE "none"]]
    /\ data = [p \in Proc |-> [s \in Slot |-> p = Creator /\ s >= NSlots - 2]]
    /\ th = [p \in Proc |-> IF p = Creator THEN Rest ELSE Unborn]
    /\ buf = [j \in 0 .. PIPE_SIZE - 1 |-> 0]
    /\ rpos = 0 /\ wpos = 0 /\ sent = 0 /\ taken = 0 /\ dups = 0

\* close() calls pipe_close(), which unmaps the Fd page first ...
CloseFd(p, s) ==
    /\ At(p, "idle") /\ fd_lookup(p, s)
    /\ fd' = [fd EXCEPT ![p][s] = "none"]
    /\ Step(p, [th[p] EXCEPT !.pc = "close", !.slot = s])
    /\ UNCHANGED <<data, ringVars, dups>>

\* Mutant of CloseData: pipe_close() forgets the data page.
CloseLeaks(p) ==
    /\ At(p, "close")
    /\ Step(p, Rest)
    /\ UNCHANGED <<fd, data, ringVars, dups>>

\* ... and the data page second.  fd_close() then finds the Fd page unmapped.
CloseData(p) ==
    /\ At(p, "close")
    /\ data' = [data EXCEPT ![p][th[p].slot] = FALSE]
    /\ Step(p, Rest)
    /\ UNCHANGED <<fd, ringVars, dups>>

\* dup() into a slot that is (or has just been) closed maps the data page first ...
DupData(p, s, t) ==
    /\ At(p, "idle") /\ fd_lookup(p, s) /\ ~data[p][t] /\ dups < MaxDups
    /\ data' = [data EXCEPT ![p][t] = TRUE]
    /\ dups' = dups + 1
    /\ Step(p, [th[p] EXCEPT !.pc = "dup", !.slot = s, !.to = t])
    /\ UNCHANGED <<fd, ringVars>>

\* ... and the Fd page second.
DupFd(p) ==
    /\ At(p, "dup")
    /\ fd' = [fd EXCEPT ![p][th[p].to] = fd[p][th[p].slot]]
    /\ Step(p, Rest)
    /\ UNCHANGED <<data, ringVars, dups>>

\* fork() and spawn() start: syscall_exofork() made the child.
Fork(p, c) ==
    /\ At(p, "idle") /\ At(c, "unborn")
    /\ th' = [q \in Proc |-> IF q = p THEN [th[p] EXCEPT !.pc = "fork", !.child = c, !.i = 0]
                             ELSE IF q = c THEN [Rest EXCEPT !.pc = "embryo"]
                             ELSE [th[q] EXCEPT !.stale = TRUE]]
    /\ UNCHANGED <<fd, data, ringVars, dups>>

\* duppage() of the next PTE_LIBRARY page, in the order of virtual addresses:
\* the Fd pages at FDTABLE all lie below the data pages at FILEBASE.
ForkMap(p) ==
    LET c == th[p].child
        i == th[p].i
    IN  /\ At(p, "fork") /\ i < 2 * NSlots
        /\ IF i < NSlots
           THEN fd' = [fd EXCEPT ![c][i] = fd[p][i]] /\ UNCHANGED data
           ELSE data' = [data EXCEPT ![c][i - NSlots] = data[p][i - NSlots]] /\ UNCHANGED fd
        /\ Step(p, [th[p] EXCEPT !.i = i + 1])
        /\ UNCHANGED <<ringVars, dups>>

\* syscall_set_env_status(child, ENV_RUNNABLE).
ForkDone(p) ==
    /\ At(p, "fork") /\ th[p].i = 2 * NSlots
    /\ th' = [q \in Proc |-> IF q \in {p, th[p].child} THEN Rest
                             ELSE [th[q] EXCEPT !.stale = TRUE]]
    /\ UNCHANGED <<fd, data, ringVars, dups>>

-----------------------------------------------------------------------------
(* pipe_read(), pipe_write(), _pipe_is_closed() *)

Checking(p) == th[p].pc \in {"chk1", "chk2", "chk3"}
OnPipe(p) == Checking(p) \/ th[p].pc \in {"test", "get", "radv", "put", "wadv"}
InCall(p) == th[p].n > 0
Busy(p, k) == OnPipe(p) /\ InCall(p) /\ th[p].op = k

\* read() or write() of n bytes.  One process at a time uses an end, as in the
\* pipelines of the shell: the positions are advanced without any lock.
Call(p, s, n) ==
    /\ At(p, "idle") /\ fd_lookup(p, s)
    /\ \A q \in Proc : ~Busy(q, fd[p][s])
    /\ Step(p, [th[p] EXCEPT !.pc = "test", !.op = fd[p][s], !.slot = s, !.n = n, !.i = 0])
    /\ UNCHANGED <<fd, data, ringVars, dups>>

\* pipe_is_closed(): only the check, by anyone at any time.
pipe_is_closed(p, s) ==
    /\ At(p, "idle") /\ fd_lookup(p, s)
    /\ Step(p, [th[p] EXCEPT !.pc = "chk1", !.op = fd[p][s], !.slot = s, !.stale = FALSE])
    /\ UNCHANGED <<fd, data, ringVars, dups>>

Empty == rpos = wpos

\* Mutants of Full: one byte too many; positions compared as if they never wrapped.
FullLate == (wpos + PosMod - rpos) % PosMod = PIPE_SIZE + 1
FullUnwrapped == wpos >= rpos /\ wpos - rpos = PIPE_SIZE

Full == (wpos + PosMod - rpos) % PosMod = PIPE_SIZE

\* The condition of the inner loop: nothing to read, no room to write.
Stuck(p) == IF th[p].op = "r" THEN Empty ELSE Full

\* The test of the inner loop; if stuck, _pipe_is_closed() begins by reading env_runs.
Test(p) ==
    /\ At(p, "test")
    /\ Step(p, [th[p] EXCEPT !.pc = IF Stuck(p) THEN "chk1"
                                    ELSE IF th[p].op = "r" THEN "get" ELSE "put",
                             !.stale = ~Stuck(p)])
    /\ UNCHANGED <<fd, data, ringVars, dups>>

\* fd_ref = pageref(fd)
ChkFd(p) ==
    /\ At(p, "chk1")
    /\ Step(p, [th[p] EXCEPT !.pc = "chk2", !.fdRef = pageref(FdMaps(th[p].op))])
    /\ UNCHANGED <<fd, data, ringVars, dups>>

\* pipe_ref = pageref(p)
ChkPipe(p) ==
    /\ At(p, "chk2")
    /\ Step(p, [th[p] EXCEPT !.pc = "chk3", !.pipeRef = pageref(DataMaps)])
    /\ UNCHANGED <<fd, data, ringVars, dups>>

\* Mutant of ChkRetry: only the second count is read again.
ChkRetryPipe(p) ==
    /\ At(p, "chk3") /\ th[p].stale
    /\ Step(p, [th[p] EXCEPT !.pc = "chk2", !.stale = FALSE, !.pipeRef = 0])
    /\ UNCHANGED <<fd, data, ringVars, dups>>

\* env_runs has changed: read both counts again.
ChkRetry(p) ==
    /\ At(p, "chk3") /\ th[p].stale
    /\ Step(p, [th[p] EXCEPT !.pc = "chk1", !.stale = FALSE, !.fdRef = 0, !.pipeRef = 0])
    /\ UNCHANGED <<fd, data, ringVars, dups>>

\* What _pipe_is_closed() returns.
Closed(p) == th[p].fdRef = th[p].pipeRef

\* Mutant of Gives: a writer does not ask.
GivesToReader(p) == ~InCall(p) \/ (th[p].op = "r" /\ (Closed(p) \/ th[p].i > 0))

\* The call returns too when the pipe is closed or, for a read, when it has read
\* something; else it yields and tests again.
Gives(p) == ~InCall(p) \/ Closed(p) \/ (th[p].op = "r" /\ th[p].i > 0)

\* _pipe_is_closed() returns.
ChkDone(p) ==
    /\ At(p, "chk3") /\ ~th[p].stale
    /\ Step(p, IF Gives(p) THEN Rest
               ELSE [th[p] EXCEPT !.pc = "test", !.stale = TRUE, !.fdRef = 0, !.pipeRef = 0])
    /\ UNCHANGED <<fd, data, ringVars, dups>>

\* The end of an iteration, or of the call.
Advanced(p) == IF th[p].i + 1 = th[p].n THEN Rest
               ELSE [th[p] EXCEPT !.pc = "test", !.i = th[p].i + 1, !.byte = 0]

\* rbuf[i] = p->p_buf[p->p_rpos % PIPE_SIZE]
Get(p) ==
    /\ At(p, "get")
    /\ Step(p, [th[p] EXCEPT !.pc = "radv", !.byte = buf[rpos % PIPE_SIZE]])
    /\ UNCHANGED <<fd, data, ringVars, dups>>

\* p->p_rpos++
AdvanceR(p) ==
    /\ At(p, "radv")
    /\ rpos' = (rpos + 1) % PosMod
    /\ taken' = taken + 1
    /\ Step(p, Advanced(p))
    /\ UNCHANGED <<fd, data, buf, wpos, sent, dups>>

\* p->p_buf[p->p_wpos % PIPE_SIZE] = wbuf[i]
Put(p) ==
    /\ At(p, "put") /\ sent < MaxBytes
    /\ buf' = [buf EXCEPT ![wpos % PIPE_SIZE] = sent + 1]
    /\ Step(p, [th[p] EXCEPT !.pc = "wadv"])
    /\ UNCHANGED <<fd, data, rpos, wpos, sent, taken, dups>>

\* p->p_wpos++
AdvanceW(p) ==
    /\ At(p, "wadv")
    /\ wpos' = (wpos + 1) % PosMod
    /\ sent' = sent + 1
    /\ Step(p, Advanced(p))
    /\ UNCHANGED <<fd, data, buf, rpos, taken, dups>>

-----------------------------------------------------------------------------
\* A process goes on with the call it is in.
Advance(p) ==
    \/ CloseData(p) \/ DupFd(p) \/ ForkMap(p) \/ ForkDone(p)
    \/ Test(p) \/ ChkFd(p) \/ ChkPipe(p) \/ ChkRetry(p) \/ ChkDone(p)
    \/ Get(p) \/ AdvanceR(p) \/ Put(p) \/ AdvanceW(p)

\* A process begins a close() or a dup().
Manage(p) ==
    \/ \E s \in Slot : CloseFd(p, s)
    \/ \E s, t \in Slot : DupData(p, s, t)

\* Nothing keeps these apart: execute_pipeline() of the shell forks the reader
\* while the writer, forked before, already uses the pipe.
Next ==
    \E p \in Proc :
        \/ Advance(p)
        \/ Manage(p)
        \/ \E s \in Slot, n \in 1 .. MaxIO : Call(p, s, n)
        \/ \E s \in Slot : pipe_is_closed(p, s)
        \/ \E c \in Proc : Fork(p, c)

Spec == Init /\ [][Next]_vars

(***************************************************************************)
(* A call once begun goes on: the scheduler starves nobody.  The retry     *)
(* loop of _pipe_is_closed() needs more: a process that keeps on checking  *)
(* now and then completes a round within one time slice, and the return    *)
(* from it too.  A slice is thousands of instructions, a round a few, so   *)
(* that hardly any round is cut by its end.                                *)
(***************************************************************************)
Undisturbed(p) == At(p, "chk3") /\ ~th[p].stale
Fairness == \A p \in Proc : /\ WF_vars(Advance(p))
                            /\ []<>Checking(p) => []<>Undisturbed(p)
                            /\ SF_vars(ChkDone(p))
FairSpec == Spec /\ Fairness

-----------------------------------------------------------------------------
(* Properties *)

Thread == [pc : PC, op : End, slot : Slot, to : Slot, child : Proc,
           n : 0 .. MaxIO, i : Nat, stale : BOOLEAN,
           fdRef : Nat, pipeRef : Nat, byte : Nat]

\* Every variable keeps to its type.
TypeOK ==
    /\ fd \in [Proc -> [Slot -> End \cup {"none"}]]
    /\ data \in [Proc -> [Slot -> BOOLEAN]]
    /\ th \in [Proc -> Thread]
    /\ buf \in [0 .. PIPE_SIZE - 1 -> Nat]
    /\ rpos \in 0 .. PosMod - 1 /\ wpos \in 0 .. PosMod - 1
    /\ sent \in Nat /\ taken \in Nat
    /\ dups \in 0 .. MaxDups

\* p has just found the pipe closed and nothing ran since it counted.
Verdict(p) == Undisturbed(p) /\ Closed(p)

NoOther(p) == \A q \in Proc : \A s \in Slot : fd[q][s] # Other(th[p].op)

\* A fork() has mapped an Fd page for its child and not yet the data page.
HalfForked(q) == At(q, "fork") /\ \E s \in Slot : fd_lookup(th[q].child, s) /\ ~data[th[q].child][s]

\* "Return 1 if pipe is closed.  Return 0 if pipe isn't closed." (pipe.c), as far
\* as the code keeps it: a reader that is told so has no writer left in any
\* process, and a writer no reader, whatever close() and dup() do to other slots
\* at the time, unless a fork() somewhere is half way between the two pages of
\* a descriptor: fork() is the only call that makes the answer wrong.
ClosedUnlessForking ==
    \A p \in Proc : Verdict(p) => NoOther(p) \/ \E q \in Proc : HalfForked(q)

\* The same sentence as pipe.c has it, without an exception.
ClosedSound == \A p \in Proc : Verdict(p) => NoOther(p)

\* Bytes come out in the order they went in, none lost, none twice: the byte
\* pipe_read() copies out is the next one, across wrap-around of both positions.
FifoOrder == \A p \in Proc : At(p, "radv") => th[p].byte = taken + 1

\* The positions never drift apart by more than the ring holds, and agree with
\* the number of bytes in it even after they wrapped.
RingBound == /\ taken <= sent /\ sent - taken <= PIPE_SIZE
             /\ (wpos + PosMod - rpos) % PosMod = sent - taken

\* A reader waiting in pipe_read() returns once the last writer is gone.
ReaderReleased ==
    \A p \in Proc : (Busy(p, "r") /\ FdMaps("w") = {}) ~> At(p, "idle")

\* A writer waiting in pipe_write() for room returns once the last reader is gone.
WriterReleased ==
    \A p \in Proc : (Busy(p, "w") /\ FdMaps("r") = {} /\ sent < MaxBytes)
                    ~> (At(p, "idle") \/ sent = MaxBytes)

\* "The return value must be greater than 0, unless the pipe is closed and
\* nothing has been written since the last read." (pipe.c, pipe_read)
EofMeansDrained ==
    \A p \in Proc : Verdict(p) /\ Busy(p, "r") /\ th[p].i = 0 => Empty
=============================================================================
