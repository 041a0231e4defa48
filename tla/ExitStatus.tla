----------------------------- MODULE ExitStatus -----------------------------
(* How the shell of os25-shell runs a command and learns its exit status:    *)
(* the processes of one command line (user/sh.c: execute_command,            *)
(* execute_redirection, execute_pipeline; user/lib/spawn.c), exit            *)
(* (user/lib/libos.c), wait (user/lib/wait.c) and the file server            *)
(* (fs/serv.c), which all talk through one mailbox per env                   *)
(* (kern/syscall_all.c: sys_ipc_recv, sys_ipc_try_send; user/lib/ipc.c,      *)
(* user/lib/fsipc.c).  Each env runs its program one system call at a time;  *)
(* the queue is env_sched_list, whose head has the CPU.                      *)
(*                                                                           *)
(* Abstracted: what commands and requests do.  A request of the file system  *)
(* is a message with an answer; an env makes one for each descriptor of a    *)
(* file it closes.  A program ends with any status.                          *)
EXTENDS Integers, Sequences, FiniteSets

CONSTANTS Shell, Server,  \* two envs that never end
          Slot,           \* the other slots of envs[]
          GenMod,         \* ids a slot takes before one comes again (mkenvid)
          Status,         \* exit statuses
          Kind,           \* the kinds of command line typed, of AllKinds
          NULL

AllKinds == {"run",        \* a program:         ls.b
             "builtin|",   \* two builtins:      cd | envid
             "builtin>",   \* a builtin, redirected: declare > f
             "run>"}       \* a program, redirected: ls.b > f

Env == {Shell, Server} \cup Slot

ASSUME EnvAssumption == Shell # Server /\ Shell \notin Slot /\ Server \notin Slot
ASSUME IdAssumption  == GenMod \in Nat \ {0} /\ NULL \notin Env \X Nat
ASSUME KindAssumption == Kind \subseteq AllKinds

VARIABLES queue,   \* env_sched_list
          env,     \* per env: the fields of struct Env used here, and its program
          lost,    \* history: the envs that were not receiving when a child of
                   \* theirs sent its status, in this line
          said,    \* history: the status the command of the line ended with
          panicked \* the file server's user_assert failed

vars == <<queue, env, lost, said, panicked>>

Id(e) == <<e, env[e].gen>>

Free == [status |-> "FREE", gen |-> 0, parent |-> NULL, recving |-> FALSE,
         from |-> NULL, value |-> NULL,
         pc |-> "idle", next |-> NULL, reqs |-> 0, files |-> 0,
         kids |-> <<>>, r |-> NULL]

Init ==
    /\ queue = <<Server, Shell>>
    /\ env = [e \in Env |->
                CASE e = Shell  -> [Free EXCEPT !.status = "RUNNABLE", !.pc = "prompt"]
                  [] e = Server -> [Free EXCEPT !.status = "RUNNABLE", !.pc = "listen"]
                  [] OTHER      -> Free]
    /\ lost = {}
    /\ said = NULL
    /\ panicked = FALSE

\* envid2env: an id is good while its slot is in use by the env it names.
Known(id) == id # NULL /\ env[id[1]].status # "FREE" /\ Id(id[1]) = id
-----------------------------------------------------------------------------
(* One step of the env at the head of the queue.  The timer may end its turn *)
(* after any step; a blocked or dead env leaves the queue; wake is what the  *)
(* step adds to the tail.                                                    *)

CPU == Head(queue)

Go(e, wake)     == queue' \in {queue \o wake, Tail(queue) \o wake \o <<e>>}
\* Mutant: the caller keeps the CPU.
YieldsStays(e, wake) == queue' = queue \o wake
Yields(e, wake) == queue' = Tail(queue) \o wake \o <<e>>
Leaves(wake)    == queue' = Tail(queue) \o wake

\* The program of e goes on at pc, having made its next n requests of the server.
At(rec, pc)      == [rec EXCEPT !.pc = pc]
Ask(rec, n, pc)  == IF n = 0 THEN At(rec, pc)
                    ELSE [rec EXCEPT !.pc = "request", !.reqs = n, !.next = pc]
\* Where a program goes with the status of the command it ran.
Done(e, rec)     == IF e = Shell THEN At(rec, "prompt")
                    ELSE Ask([rec EXCEPT !.files = 0], rec.files, "send")
\* exit(r): close_all, which makes a request for each descriptor of a file.
Exits(rec, r)    == Ask([rec EXCEPT !.r = r, !.files = 0], rec.files, "send")

Moves(e, rec) ==
    /\ env' = [env EXCEPT ![e] = rec]
    /\ Go(e, <<>>)

\* sys_ipc_recv: block until somebody sends, and go on at pc.
sys_ipc_recv(e, pc) ==
    /\ env' = [env EXCEPT ![e].recving = TRUE, ![e].status = "NOT_RUNNABLE", ![e].pc = pc]
    /\ Leaves(<<>>)

\* What sys_ipc_try_send does to a receiving target t: the value, its sender, runnable again.
Delivered(e, t, v, recs) ==
    [recs EXCEPT ![t].recving = FALSE, ![t].status = "RUNNABLE",
                 ![t].from = Id(e), ![t].value = v]

\* ipc_send of v to the env named id by e, whose program then stands at rec.
ipc_send(e, id, v, rec) ==
    IF env[id[1]].recving
    THEN /\ env' = Delivered(e, id[1], v, [env EXCEPT ![e] = rec])
         /\ Go(e, <<id[1]>>)
    ELSE /\ UNCHANGED env
         /\ Yields(e, <<>>)

\* fork and spawn take one of these; they may also fail, for want of a page or an env.
FreeSlots == {s \in Slot : env[s].status = "FREE"}

\* fork or spawn by e, whose program then stands at rec: the child c starts at pc.
Born(e, c, rec, pc, files) ==
    LET gen == (env[c].gen + 1) % GenMod
    IN  /\ env' = [env EXCEPT ![e] = [rec EXCEPT !.kids = Append(rec.kids, <<c, gen>>)],
                              ![c] = [Free EXCEPT !.status = "RUNNABLE", !.gen = gen,
                                                  !.parent = Id(e), !.pc = pc,
                                                  !.files = files]]
        /\ Go(e, <<c>>)
-----------------------------------------------------------------------------
(* fsipc: send the request to env 1, and take the next message.              *)

\* Mutant: the answer is not waited for.
AskOnly(e) ==
    /\ env[e].pc = "request"
    /\ ipc_send(e, Id(Server), <<"request", 0>>, Ask(env[e], env[e].reqs - 1, env[e].next))
    /\ UNCHANGED <<lost, said, panicked>>

Request(e) ==
    /\ env[e].pc = "request"
    /\ ipc_send(e, Id(Server), <<"request", 0>>, At(env[e], "await"))
    /\ UNCHANGED <<lost, said, panicked>>

Await(e) ==
    /\ env[e].pc = "await"
    /\ sys_ipc_recv(e, "answer")
    /\ UNCHANGED <<lost, said, panicked>>

Answer(e) ==
    /\ env[e].pc = "answer"
    /\ Moves(e, Ask(env[e], env[e].reqs - 1, env[e].next))
    /\ UNCHANGED <<lost, said, panicked>>

(* serve: take a request, and send the answer until it is taken.             *)
Listen ==
    /\ env[Server].pc = "listen"
    /\ sys_ipc_recv(Server, "reply")
    /\ UNCHANGED <<lost, said, panicked>>

Reply ==
    /\ env[Server].pc = "reply"
    /\ IF Known(env[Server].from)
       THEN /\ ipc_send(Server, env[Server].from, <<"answer", 0>>, At(env[Server], "listen"))
            /\ UNCHANGED panicked
       ELSE /\ panicked' = TRUE
            /\ UNCHANGED <<env, queue>>
    /\ UNCHANGED <<lost, said>>
-----------------------------------------------------------------------------
(* exit: after close_all, one try to send the status to the parent, then     *)
(* env_destroy.                                                              *)

Send(e) ==
    /\ env[e].pc = "send"
    /\ LET p == env[e].parent
       IN  IF Known(p) /\ env[p[1]].recving
           THEN /\ env' = Delivered(e, p[1], env[e].r, [env EXCEPT ![e].pc = "die"])
                /\ Go(e, <<p[1]>>)
                /\ UNCHANGED lost
           ELSE /\ Moves(e, At(env[e], "die"))
                /\ lost' = lost \cup {p[1]}
    /\ UNCHANGED <<said, panicked>>

env_destroy(e) ==
    /\ env[e].pc = "die"
    /\ env' = [env EXCEPT ![e] = [Free EXCEPT !.gen = env[e].gen]]
    /\ Leaves(<<>>)
    /\ UNCHANGED <<lost, said, panicked>>

(* wait: look at the child's slot until it is free or another env's.         *)

\* Mutant: look only once.
WaitOnce(e, pc, rec) ==
    /\ env[e].pc = pc
    /\ Moves(e, rec)
    /\ UNCHANGED <<lost, said, panicked>>

Wait(e, pc, rec) ==
    /\ env[e].pc = pc
    /\ IF Known(Head(env[e].kids))
       THEN UNCHANGED env /\ Yields(e, <<>>)
       ELSE Moves(e, [rec EXCEPT !.kids = Tail(rec.kids)])
    /\ UNCHANGED <<lost, said, panicked>>
-----------------------------------------------------------------------------
(* The statuses: <<who, s>>, who being "program", "builtin" or, for the      *)
(* result nobody sets, "none".                                               *)

Ended(who) == {<<who, s>> : s \in Status}

\* A command line is typed: execute_ast takes it to one of three functions.
Prompt ==
    /\ env[Shell].pc = "prompt"
    /\ \E k \in Kind :
         Moves(Shell, [Free EXCEPT
                         !.status = "RUNNABLE",
                         !.pc = CASE k = "run" -> "command" [] k = "builtin|" -> "pipeline"
                                  [] OTHER -> "redirect",
                         !.next = k])
    /\ lost' = {}
    /\ said' = NULL
    /\ UNCHANGED panicked

(* execute_command, run by the shell or by the child of a redirection: fork, *)
(* take a message for the status, wait.                                      *)
ForkCommand(e) ==
    /\ env[e].pc = "command"
    /\ \/ \E c \in FreeSlots : Born(e, c, At(env[e], "status"), "spawn", env[e].files)
       \/ Moves(e, Done(e, [env[e] EXCEPT !.r = <<"none", 1>>]))
    /\ UNCHANGED <<lost, said, panicked>>

TakeStatus(e) ==
    /\ env[e].pc = "status"
    /\ sys_ipc_recv(e, "got")
    /\ UNCHANGED <<lost, said, panicked>>

GotStatus(e) ==
    /\ env[e].pc = "got"
    /\ Moves(e, [env[e] EXCEPT !.r = env[e].value, !.pc = "wait"])
    /\ UNCHANGED <<lost, said, panicked>>

WaitCommand(e) == Wait(e, "wait", Done(e, env[e]))

\* Mutant: the program file is not opened through the server.
SpawnAtOnce(e) ==
    /\ env[e].pc = "spawn"
    /\ Moves(e, At(env[e], "spawned"))
    /\ UNCHANGED <<lost, said, panicked>>

\* The child calls spawn, which begins and ends with requests of the server.
Spawn(e) ==
    /\ env[e].pc = "spawn"
    /\ Moves(e, Ask(env[e], 1, "spawned"))
    /\ UNCHANGED <<lost, said, panicked>>

\* The program starts, with the descriptors of the child, or spawn fails; then close_all.
\* Where the file ends within a header, spawn returns the length it has read: no program
\* is started, and yet one is waited for.
Spawned(e) ==
    /\ env[e].pc = "spawned"
    /\ LET closed(pc) == Ask([env[e] EXCEPT !.files = 0], env[e].files, pc)
       IN  \/ \E g \in FreeSlots : Born(e, g, closed("program"), "main", env[e].files)
           \/ Moves(e, closed("program"))
           \/ Moves(e, closed("failed"))
    /\ UNCHANGED <<lost, said, panicked>>

TakeProgram(e) ==
    /\ env[e].pc = "program"
    /\ sys_ipc_recv(e, "ended")
    /\ UNCHANGED <<lost, said, panicked>>

\* Mutant: the program's status is taken and not kept.
ExitChildUnset(e) ==
    /\ env[e].pc \in {"ended", "failed"}
    /\ \E r \in Ended("none") : Moves(e, Exits(env[e], r))
    /\ UNCHANGED <<lost, said, panicked>>

\* son_r is what came, or, where spawn failed, whatever was there.
ExitChild(e) ==
    /\ \/ env[e].pc = "ended" /\ Moves(e, Exits(env[e], env[e].value))
       \/ env[e].pc = "failed" /\ \E r \in Ended("none") : Moves(e, Exits(env[e], r))
    /\ UNCHANGED <<lost, said, panicked>>

\* The program: perhaps a request of its own, then exit.
Main(e) ==
    /\ env[e].pc = "main"
    /\ \/ Moves(e, Ask(env[e], 1, "return"))
       \/ Moves(e, At(env[e], "return"))
    /\ UNCHANGED <<lost, said, panicked>>

Return(e) ==
    /\ env[e].pc = "return"
    /\ \E r \in Ended("program") : Moves(e, Exits(env[e], r)) /\ said' = r
    /\ UNCHANGED <<lost, panicked>>

(* execute_redirection: the child opens the file and runs the command under  *)
(* the arrow; the shell takes its status and does not wait.                  *)
ForkRedirect ==
    /\ env[Shell].pc = "redirect"
    /\ \/ \E c \in FreeSlots :
            Born(Shell, c, At(env[Shell], "taken"),
                 IF env[Shell].next = "run>" THEN "opencommand" ELSE "openbuiltin", 0)
       \/ \E r \in Ended("none") : Moves(Shell, At([env[Shell] EXCEPT !.r = r], "prompt"))
    /\ UNCHANGED <<lost, said, panicked>>

TakeRedirect ==
    /\ env[Shell].pc = "taken"
    /\ sys_ipc_recv(Shell, "redirected")
    /\ UNCHANGED <<lost, said, panicked>>

GotRedirect ==
    /\ env[Shell].pc = "redirected"
    /\ Moves(Shell, [env[Shell] EXCEPT !.r = env[Shell].value, !.pc = "prompt"])
    /\ UNCHANGED <<lost, said, panicked>>

\* open, dup onto fd 1, close: fd 1 is then a file.
OpenFile(e) ==
    /\ env[e].pc \in {"openbuiltin", "opencommand"}
    /\ Moves(e, [Ask(env[e], 1, IF env[e].pc = "openbuiltin" THEN "builtin" ELSE "command")
                   EXCEPT !.files = 1])
    /\ UNCHANGED <<lost, said, panicked>>

\* A builtin runs in the child itself, which then exits with its result.
Builtin(e) ==
    /\ env[e].pc = "builtin"
    /\ \E r \in Ended("builtin") : Moves(e, Exits(env[e], r)) /\ said' = r
    /\ UNCHANGED <<lost, panicked>>

(* execute_pipeline: two children, and a wait for each; nobody takes their   *)
(* statuses, and the result is made of two variables never set.              *)
\* Where fork fails the wait looks for an env of no such id, and returns.
ForkSide(pc) ==
    \/ \E c \in FreeSlots : Born(Shell, c, At(env[Shell], pc), "builtin", 0)
    \/ Moves(Shell, [env[Shell] EXCEPT !.kids = Append(@, NULL), !.pc = pc])

ForkLeft ==
    /\ env[Shell].pc = "pipeline"
    /\ ForkSide("right")
    /\ UNCHANGED <<lost, said, panicked>>

ForkRight ==
    /\ env[Shell].pc = "right"
    /\ ForkSide("waitleft")
    /\ UNCHANGED <<lost, said, panicked>>

WaitLeft == Wait(Shell, "waitleft", At(env[Shell], "waitright"))

WaitRight ==
    \E r \in Ended("none") : Wait(Shell, "waitright", [env[Shell] EXCEPT !.r = r, !.pc = "prompt"])
-----------------------------------------------------------------------------
ShellStep == \/ Prompt
             \/ ForkRedirect \/ TakeRedirect \/ GotRedirect
             \/ ForkLeft \/ ForkRight \/ WaitLeft \/ WaitRight

ServerStep == Listen \/ Reply

Runs(e) == \/ Request(e) \/ Await(e) \/ Answer(e)
           \/ ForkCommand(e) \/ TakeStatus(e) \/ GotStatus(e) \/ WaitCommand(e)
           \/ Spawn(e) \/ Spawned(e) \/ TakeProgram(e) \/ ExitChild(e)
           \/ Main(e) \/ Return(e)
           \/ OpenFile(e) \/ Builtin(e)
           \/ Send(e) \/ env_destroy(e)

Next ==
    /\ queue # <<>>
    /\ ~panicked
    /\ \/ CPU = Shell /\ ShellStep
       \/ CPU = Server /\ ServerStep
       \/ CPU # Server /\ Runs(CPU)

Spec == Init /\ [][Next]_vars

(* The CPU never stands still while an env is runnable.  The turn of an env  *)
(* may be of any length, but no loop of one env's steps is without a yield.  *)
FairSpec == Spec /\ WF_vars(Next)
-----------------------------------------------------------------------------
(* Type invariant of the envs and what they wait for.                        *)
TypeOK ==
    /\ queue \in Seq(Env)
    /\ \A e \in Env : /\ env[e].status \in {"FREE", "RUNNABLE", "NOT_RUNNABLE"}
                      /\ env[e].gen \in 0..GenMod-1
                      /\ env[e].recving \in BOOLEAN
                      /\ env[e].recving <=> env[e].status = "NOT_RUNNABLE"
    /\ lost \subseteq Env
    /\ panicked \in BOOLEAN

AtPrompt == env[Shell].pc = "prompt"
Line     == env[Shell].next

(* The status the shell goes on with, which && and || look at, is the one    *)
(* the command of the line ended with, whatever ran in between and however   *)
(* many envs it passed through (execute_command, execute_redirection, exit). *)
StatusPassed == AtPrompt /\ said # NULL /\ Line # "builtin|" => env[Shell].r = said

(* When the shell reads the next line nothing of the last one is left but    *)
(* envs at their last system call: waiting by slot and id is enough, though  *)
(* slots are used again (execute_command, execute_pipeline, wait).           *)
Quiet == AtPrompt => \A s \in Slot : env[s].status = "FREE" \/ env[s].pc = "die"

(* The file server never answers an env that has died: its user_assert in    *)
(* ipc_send would stop every program that needs a file.                      *)
ServerLives == ~panicked

(* The envs are well formed and the server is among the living.              *)
Sound == TypeOK /\ ServerLives

(* exit sends the status once.  The shell is always receiving by then: its   *)
(* child has asked the server something first, and so let the shell run.     *)
(* Only in a pipeline, where nobody takes the statuses, is one lost on it.   *)
ShellHears == Shell \in lost => Line = "builtin|"

(* An env in fsipc takes the next message for the server's answer: it must   *)
(* be the server's ("Send an IPC request to the file server, and wait for a  *)
(* reply").                                                                  *)
AnswerFromServer ==
    \A e \in Env : env[e].pc = "answer" /\ ~env[e].recving => env[e].from = Id(Server)

\* The status of a program came while the child that started it was not receiving.
Deaf == ~(lost \subseteq {Shell})

\* A child waits for the status of a program that spawn has not started.
Childless == \E s \in Slot : env[s].pc = "ended" /\ env[s].kids = <<>>

(* The prompt comes back, however the turns of the envs fall, but for two    *)
(* cases.  Either leaves a child waiting for ever, and the shell with it.    *)
PromptReturns == []<>(AtPrompt \/ Deaf \/ Childless)

(* What execute_command needs of spawn: a child whenever the result is not   *)
(* negative (user/sh.c 1259).  The short reads of user/lib/spawn.c 125 and   *)
(* 185 violate it.                                                           *)
AlwaysChild == ~Childless

(* The child that started a program is receiving by the time the program     *)
(* ends, though it closes its descriptors first (user/sh.c 1258-1262).       *)
NoneLost == ~Deaf
=============================================================================
