-------------------------- MODULE ExitStatusProofs --------------------------
(***************************************************************************)
(* Proofs about ExitStatus, for any slots, ids and statuses.               *)
(***************************************************************************)
EXTENDS ExitStatus, SequenceTheorems, TLAPS

(***************************************************************************)
(* Types.                                                                  *)
(***************************************************************************)
ShellPc == {"prompt", "command", "status", "got", "wait", "redirect", "taken", "redirected",
            "pipeline", "right", "waitleft", "waitright"}
SlotPc  == {"request", "await", "answer", "spawn", "spawned", "program", "failed", "ended",
            "main", "return", "opencommand", "openbuiltin", "command", "status", "got", "wait",
            "builtin", "send", "die"}
Pc      == ShellPc \cup SlotPc \cup {"listen", "reply", "idle"}

Ids == Env \X (0 .. GenMod - 1)
Msg == ({"none", "program", "builtin"} \X (Status \cup {1}))
         \cup {<<"request", 0>>, <<"answer", 0>>, NULL}

Rec == [status : {"FREE", "RUNNABLE", "NOT_RUNNABLE"}, gen : 0 .. GenMod - 1,
        parent : Ids \cup {NULL}, recving : BOOLEAN, from : Ids \cup {NULL}, value : Msg,
        pc : Pc, next : Pc \cup AllKinds \cup {NULL}, reqs : {0, 1}, files : {0, 1},
        kids : Seq(Ids \cup {NULL}), r : Msg]

(***************************************************************************)
(* What can be said of one env from its own record.                        *)
(***************************************************************************)
Blocked(x) == x.status = "NOT_RUNNABLE"
Busy(x)    == x.pc \in {"request", "await", "answer"}

\* So many children it has had: none, or one, or the two sides of a pipeline.
KidCount(x) ==
    /\ x.pc \in {"spawn", "spawned", "opencommand", "command", "redirect", "pipeline"}
         => Len(x.kids) = 0
    /\ Busy(x) /\ x.next \in {"spawned", "command"} => Len(x.kids) = 0
    /\ x.pc \in {"status", "got", "wait", "right", "waitright"} => Len(x.kids) = 1
    /\ x.pc = "waitleft" => Len(x.kids) = 2
    /\ x.pc # "waitleft" => Len(x.kids) <= 1

ShellRec(x) ==
    /\ x.pc \in ShellPc /\ x.gen = 0 /\ x.files = 0
    /\ x.status # "FREE"
    /\ Blocked(x) => x.pc \in {"got", "redirected"}
    /\ x.pc \in {"command", "status", "got", "wait"} => x.next = "run"
    /\ x.pc \in {"pipeline", "right", "waitleft", "waitright"} => x.next = "builtin|"
    /\ x.pc \in {"redirect", "taken", "redirected"} => x.next \in {"run>", "builtin>"}

ServerRec(x) ==
    /\ x.pc \in {"listen", "reply"} /\ x.gen = 0
    /\ x.status # "FREE"
    /\ Blocked(x) => x.pc = "reply"

SlotRec(x) ==
    /\ IF x.status = "FREE" THEN x.pc = "idle" ELSE x.pc \in SlotPc
    /\ Blocked(x) => x.pc \in {"answer", "got", "ended"}
    /\ Busy(x) => /\ x.reqs = 1
                  /\ x.next \in {"spawned", "program", "failed", "return", "builtin",
                                 "command", "send"}

Own(e, x) ==
    /\ x.recving <=> Blocked(x)
    /\ KidCount(x)
    /\ CASE e = Shell -> ShellRec(x) [] e = Server -> ServerRec(x) [] OTHER -> SlotRec(x)

Typed == /\ env \in [Env -> Rec] /\ lost \subseteq Env /\ panicked = FALSE
         /\ \A e \in Env : Own(e, env[e])

(***************************************************************************)
(* The queue holds the runnable envs, each once.                           *)
(***************************************************************************)
Once(q)     == \A i, j \in 1 .. Len(q) : q[i] = q[j] => i = j
In(q, e)    == \E i \in 1 .. Len(q) : q[i] = e
Before(q, d, e) == \E i, j \in 1 .. Len(q) : i < j /\ q[i] = d /\ q[j] = e

Queued == /\ queue \in Seq(Env) /\ Once(queue)
          /\ \A e \in Env : In(queue, e) <=> env[e].status = "RUNNABLE"

(***************************************************************************)
(* The tree of the envs of a line.                                         *)
(***************************************************************************)
Active(s) == s \in Slot /\ env[s].status # "FREE" /\ env[s].pc # "die"

\* An env whose child has not yet ended, or was not heard.
Open(x) == \/ x.pc \in {"status", "taken", "program", "right", "waitleft", "waitright"}
           \/ x.pc \in {"got", "redirected", "ended"} /\ Blocked(x)
           \/ Busy(x) /\ x.next = "program"

HasKid(x, id) == \E k \in 1 .. Len(x.kids) : x.kids[k] = id

\* The envs that run spawn, and those that run execute_command.
Spawner(x)   == \/ x.pc \in {"spawn", "spawned", "program", "ended", "failed"}
                \/ Busy(x) /\ x.next \in {"spawned", "program", "failed"}
Commander(x) == \/ x.pc \in {"opencommand", "command", "status", "got", "wait"}
                \/ Busy(x) /\ x.next = "command"

\* s may be a child of an env p whose record is x.
Fits(s, x) == /\ Open(x)
              /\ Spawner(s) => x.pc \in {"status", "got"}
              /\ Commander(s) => x.pc \in {"taken", "redirected"}

Tree == \A s \in Slot : Active(s) =>
          \E p \in Env : /\ env[s].parent = Id(p)
                         /\ HasKid(env[p], Id(s))
                         /\ Fits(env[s], env[p])

(***************************************************************************)
(* Who is waited for: the server answers an env that waits, and the shell  *)
(* has its turn before its child has been answered.                        *)
(***************************************************************************)
NoKids(x) == \A s \in Slot : Active(s) => env[s].parent # Id(x)

\* The last two are envs that took another message for the answer.
Waits(x) == \/ env[x].pc = "await"
            \/ env[x].pc = "answer" /\ Blocked(env[x])
            \/ /\ \/ env[x].pc = "answer" /\ env[x].next = "program"
                  \/ env[x].pc = "program"
                  \/ env[x].pc = "ended" /\ Blocked(env[x])
               /\ NoKids(x)

Served == env[Server].pc = "reply" /\ ~Blocked(env[Server]) =>
            \E x \in Slot : env[Server].from = Id(x) /\ Waits(x)

Early(x) == \/ x.pc \in {"spawn", "openbuiltin", "opencommand"}
            \/ /\ x.next \in {"spawned", "builtin", "command"}
               /\ x.pc \in {"request", "await"} \/ (x.pc = "answer" /\ Blocked(x))

Turns == env[Shell].pc \in {"status", "taken"} =>
           \A s \in Slot : Active(s) /\ env[s].parent = Id(Shell) =>
             Early(env[s]) \/ Before(queue, Shell, s)

IInv == Typed /\ Queued /\ Tree /\ Served /\ Turns /\ ShellHears
-----------------------------------------------------------------------------
(***************************************************************************)
(* The queue.                                                              *)
(***************************************************************************)

\* The head is in the queue.
LEMMA HeadIn ==
    ASSUME NEW q \in Seq(Env), q # <<>>
    PROVE  /\ Len(q) \in Nat \ {0} /\ Head(q) = q[1] /\ Head(q) \in Env /\ In(q, Head(q))
           /\ \A i \in 1 .. Len(q) : q[i] \in Env
           /\ Tail(q) \in Seq(Env) /\ Len(Tail(q)) = Len(q) - 1
           /\ \A i \in 1 .. Len(q) - 1 : Tail(q)[i] = q[i + 1]
  <1>1. Len(q) \in Nat \ {0}  BY EmptySeq
  <1>2. Head(q) = q[1]  OBVIOUS
  <1>3. \A i \in 1 .. Len(q) : q[i] \in Env  BY ElementOfSeq
  <1>4. /\ Tail(q) \in Seq(Env) /\ Len(Tail(q)) = Len(q) - 1
        /\ \A i \in 1 .. Len(Tail(q)) : Tail(q)[i] = q[i + 1]
    BY HeadTailProperties
  <1> QED BY <1>1, <1>2, <1>3, <1>4 DEF In

\* Nobody is before the head.
LEMMA HeadFirst ==
    ASSUME NEW q \in Seq(Env), q # <<>>, Once(q), NEW d
    PROVE  ~Before(q, d, Head(q))
  BY HeadIn DEF Once, Before

\* Leaves: the head goes, the others keep their order.
LEMMA LeaveQueue ==
    ASSUME NEW q \in Seq(Env), q # <<>>, Once(q), NEW p, p = Tail(q)
    PROVE  /\ p \in Seq(Env) /\ Once(p)
           /\ \A e \in Env : In(p, e) <=> In(q, e) /\ e # Head(q)
           /\ \A d, e \in Env : d # Head(q) /\ Before(q, d, e) => Before(p, d, e)
  <1>1. /\ Len(q) \in Nat \ {0} /\ Head(q) = q[1]
        /\ p \in Seq(Env) /\ Len(p) = Len(q) - 1
        /\ \A i \in 1 .. Len(p) : p[i] = q[i + 1]
    BY HeadIn
  <1>2. Once(p)  BY <1>1 DEF Once
  <1>3. ASSUME NEW e \in Env PROVE In(p, e) <=> In(q, e) /\ e # Head(q)
    <2>1. ASSUME In(p, e) PROVE In(q, e) /\ e # Head(q)
      <3>1. PICK i \in 1 .. Len(p) : p[i] = e  BY <2>1 DEF In
      <3>2. i + 1 \in 1 .. Len(q) /\ i + 1 # 1 /\ 1 \in 1 .. Len(q) /\ q[i + 1] = e
        BY <1>1, <3>1
      <3> QED BY <1>1, <3>2 DEF In, Once
    <2>2. ASSUME In(q, e), e # Head(q) PROVE In(p, e)
      <3>1. PICK i \in 1 .. Len(q) : q[i] = e  BY <2>2 DEF In
      <3>2. i - 1 \in 1 .. Len(p) /\ p[i - 1] = e  BY <1>1, <2>2, <3>1
      <3> QED BY <3>2 DEF In
    <2> QED BY <2>1, <2>2
  <1>4. ASSUME NEW d \in Env, NEW e \in Env, d # Head(q), Before(q, d, e)
        PROVE  Before(p, d, e)
    <2>1. PICK i, j \in 1 .. Len(q) : i < j /\ q[i] = d /\ q[j] = e  BY <1>4 DEF Before
    <2>2. i - 1 \in 1 .. Len(p) /\ j - 1 \in 1 .. Len(p) /\ p[i - 1] = d /\ p[j - 1] = e
      BY <1>1, <1>4, <2>1
    <2>3. i - 1 < j - 1  BY <2>1
    <2> QED BY <2>2, <2>3 DEF Before
  <1> QED BY <1>1, <1>2, <1>3, <1>4

\* An env that was not in the queue comes last.
LEMMA AppendQueue ==
    ASSUME NEW q \in Seq(Env), Once(q), NEW x \in Env, ~In(q, x), NEW p, p = q \o <<x>>
    PROVE  /\ p \in Seq(Env) /\ Once(p) /\ p # <<>>
           /\ \A e \in Env : In(p, e) <=> In(q, e) \/ e = x
           /\ \A d, e \in Env : Before(q, d, e) => Before(p, d, e)
           /\ \A d \in Env : In(q, d) => Before(p, d, x)
           /\ q # <<>> => Head(p) = Head(q) /\ Tail(p) = Tail(q) \o <<x>>
  <1>1. /\ Len(q) \in Nat /\ p \in Seq(Env) /\ Len(p) = Len(q) + 1
        /\ \A i \in 1 .. Len(q) : p[i] = q[i]
        /\ p[Len(q) + 1] = x
    <2>1. <<x>> \in Seq(Env) /\ Len(<<x>>) = 1 /\ <<x>>[1] = x  OBVIOUS
    <2> QED BY <2>1, ConcatProperties, LenProperties
  <1>2. p # <<>>  BY <1>1, EmptySeq
  <1>3. Once(p)  BY <1>1 DEF Once, In
  <1>4. \A e \in Env : In(p, e) <=> In(q, e) \/ e = x  BY <1>1 DEF In
  <1>5. \A d, e \in Env : Before(q, d, e) => Before(p, d, e)  BY <1>1 DEF Before
  <1>6. \A d \in Env : In(q, d) => Before(p, d, x)  BY <1>1 DEF Before, In
  <1>7. ASSUME q # <<>> PROVE Head(p) = Head(q) /\ Tail(p) = Tail(q) \o <<x>>
    <2>1. /\ Len(q) \in Nat \ {0} /\ Head(q) = q[1] /\ Head(p) = p[1]
          /\ Tail(q) \in Seq(Env) /\ Len(Tail(q)) = Len(q) - 1
          /\ \A i \in 1 .. Len(q) - 1 : Tail(q)[i] = q[i + 1]
          /\ Tail(p) \in Seq(Env) /\ Len(Tail(p)) = Len(p) - 1
          /\ \A i \in 1 .. Len(p) - 1 : Tail(p)[i] = p[i + 1]
      BY <1>1, <1>2, <1>7, HeadIn
    <2>2. Head(p) = Head(q)  BY <1>1, <2>1
    <2> DEFINE t == Tail(q) \o <<x>>
    <2>3. /\ t \in Seq(Env) /\ Len(t) = Len(Tail(q)) + 1
          /\ \A i \in 1 .. Len(Tail(q)) : t[i] = Tail(q)[i]
          /\ t[Len(Tail(q)) + 1] = x
      <3>1. <<x>> \in Seq(Env) /\ Len(<<x>>) = 1 /\ <<x>>[1] = x  OBVIOUS
      <3> QED BY <2>1, <3>1, ConcatProperties
    <2> HIDE DEF t
    <2>4. Len(t) = Len(Tail(p)) /\ Len(t) = Len(q) /\ Len(q) \in Nat  BY <1>1, <2>1, <2>3
    <2>5. ASSUME NEW i \in 1 .. Len(t) PROVE t[i] = Tail(p)[i]
      <3>1. CASE i = Len(q)  BY <1>1, <2>1, <2>3, <2>4, <3>1
      <3>2. CASE i < Len(q)
        <4>1. i \in 1 .. Len(q) - 1 /\ i + 1 \in 1 .. Len(q)  BY <2>1, <3>2
        <4> QED BY <1>1, <2>1, <2>3, <2>4, <4>1
      <3>3. i = Len(q) \/ i < Len(q)
        <4>1. PICK n \in Nat : n = Len(q)  BY <2>4
        <4>2. i \in 1 .. n  BY <2>4, <4>1
        <4>3. i = n \/ i < n  BY <4>2
        <4> QED BY <4>1, <4>3
      <3> QED BY <3>1, <3>2, <3>3
    <2>6. t = Tail(p)  BY <2>1, <2>3, <2>4, <2>5, SeqEqual
    <2> QED BY <2>2, <2>6 DEF t
  <1> QED BY <1>1, <1>2, <1>3, <1>4, <1>5, <1>6, <1>7

\* Yields: the head goes to the end.
LEMMA RotateQueue ==
    ASSUME NEW q \in Seq(Env), q # <<>>, Once(q), NEW p, p = Tail(q) \o <<Head(q)>>
    PROVE  /\ p \in Seq(Env) /\ Once(p)
           /\ \A e \in Env : In(p, e) <=> In(q, e)
           /\ \A d, e \in Env : d # Head(q) /\ Before(q, d, e) => Before(p, d, e)
  <1> PICK t : t = Tail(q)  OBVIOUS
  <1>1. /\ t \in Seq(Env) /\ Once(t)
        /\ \A e \in Env : In(t, e) <=> In(q, e) /\ e # Head(q)
        /\ \A d, e \in Env : d # Head(q) /\ Before(q, d, e) => Before(t, d, e)
    BY LeaveQueue
  <1>2. Head(q) \in Env /\ In(q, Head(q))  BY HeadIn
  <1>3. /\ p \in Seq(Env) /\ Once(p)
        /\ \A e \in Env : In(p, e) <=> In(t, e) \/ e = Head(q)
        /\ \A d, e \in Env : Before(t, d, e) => Before(p, d, e)
    <2>1. p = t \o <<Head(q)>> /\ ~In(t, Head(q))  BY <1>1, <1>2
    <2> QED BY <1>1, <1>2, <2>1, AppendQueue
  <1> QED BY <1>1, <1>2, <1>3
-----------------------------------------------------------------------------
(***************************************************************************)
(* Envs and records.                                                       *)
(***************************************************************************)

LEMMA Names ==
    /\ Shell \in Env /\ Server \in Env /\ Slot \subseteq Env
    /\ Shell # Server /\ Shell \notin Slot /\ Server \notin Slot
    /\ \A e \in Env : e \in Slot \/ e = Shell \/ e = Server
  BY EnvAssumption DEF Env

\* Ids name envs, and none is NULL.
LEMMA IdFacts ==
    ASSUME Typed
    PROVE  /\ \A e \in Env : Id(e) \in Ids /\ Id(e) # NULL /\ Id(e) = <<e, env[e].gen>>
           /\ \A e \in Env : Id(e)[1] = e
           /\ \A d, e \in Env : Id(d) = Id(e) => d = e
           /\ NULL \notin Ids
  <1>1. \A e \in Env : env[e].gen \in 0 .. GenMod - 1  BY DEF Typed, Rec
  <1>2. NULL \notin Ids  BY IdAssumption DEF Ids
  <1>3. \A e \in Env : Id(e) \in Ids  BY <1>1 DEF Id, Ids
  <1> QED BY <1>2, <1>3 DEF Id

\* Who has the CPU runs.
LEMMA Running ==
    ASSUME Typed, Queued, queue # <<>>
    PROVE  /\ CPU \in Env /\ env[CPU] \in Rec /\ env[CPU].status = "RUNNABLE"
           /\ ~Blocked(env[CPU]) /\ Own(CPU, env[CPU])
           /\ In(queue, CPU) /\ queue \in Seq(Env) /\ Once(queue)
           /\ CPU = Head(queue)
           /\ \A s \in Env : ~Before(queue, s, CPU)
           /\ CPU \in Slot => env[CPU].pc \in SlotPc
  <1>1. queue \in Seq(Env) /\ Once(queue)  BY DEF Queued
  <1>2. CPU \in Env /\ In(queue, CPU)  BY <1>1, HeadIn DEF CPU
  <1>3. env[CPU] \in Rec /\ env[CPU].status = "RUNNABLE"  BY <1>2 DEF Queued, Typed
  <1>4. Own(CPU, env[CPU])  BY <1>2 DEF Typed
  <1>5. \A s \in Env : ~Before(queue, s, CPU)  BY <1>1, <1>2, HeadFirst DEF CPU, In
  <1>6. CPU \in Slot => env[CPU].pc \in SlotPc
    BY <1>3, <1>4, Names DEF Own, SlotRec
  <1> QED BY <1>1, <1>2, <1>3, <1>4, <1>5, <1>6 DEF Blocked, CPU

\* The records the programs go on with.
LEMMA AskRec ==
    ASSUME NEW x \in Rec, NEW n \in {0, 1}, NEW pc \in Pc
    PROVE  /\ Ask(x, n, pc) \in Rec
           /\ Ask(x, n, pc).status = x.status /\ Ask(x, n, pc).gen = x.gen
           /\ Ask(x, n, pc).parent = x.parent /\ Ask(x, n, pc).recving = x.recving
           /\ Ask(x, n, pc).value = x.value /\ Ask(x, n, pc).from = x.from
           /\ Ask(x, n, pc).files = x.files
           /\ Ask(x, n, pc).kids = x.kids /\ Ask(x, n, pc).r = x.r
           /\ n = 0 => Ask(x, n, pc).pc = pc /\ Ask(x, n, pc).next = x.next
           /\ n = 1 => /\ Ask(x, n, pc).pc = "request" /\ Ask(x, n, pc).next = pc
                       /\ Ask(x, n, pc).reqs = 1
  <1>1. CASE n = 0
    <2>1. Ask(x, n, pc) = [x EXCEPT !.pc = pc]  BY <1>1 DEF Ask, At
    <2> QED BY <1>1, <2>1 DEF Rec
  <1>2. CASE n = 1
    <2>1. Ask(x, n, pc) = [x EXCEPT !.pc = "request", !.reqs = 1, !.next = pc]
      BY <1>2 DEF Ask
    <2>2. "request" \in Pc  BY DEF Pc, SlotPc
    <2> PICK y : y = Ask(x, n, pc)  OBVIOUS
    <2>3. y \in Rec  BY <2>1, <2>2 DEF Rec
    <2>4. /\ y.status = x.status /\ y.gen = x.gen /\ y.parent = x.parent
          /\ y.recving = x.recving /\ y.value = x.value /\ y.from = x.from
          /\ y.files = x.files /\ y.kids = x.kids /\ y.r = x.r
          /\ y.pc = "request" /\ y.next = pc /\ y.reqs = 1
      BY <2>1 DEF Rec
    <2> QED BY <1>2, <2>3, <2>4
  <1> QED BY <1>1, <1>2

LEMMA AtRec ==
    ASSUME NEW x \in Rec, NEW pc \in Pc
    PROVE  /\ At(x, pc) \in Rec
           /\ At(x, pc).status = x.status /\ At(x, pc).gen = x.gen
           /\ At(x, pc).parent = x.parent /\ At(x, pc).recving = x.recving
           /\ At(x, pc).value = x.value /\ At(x, pc).from = x.from
           /\ At(x, pc).next = x.next /\ At(x, pc).reqs = x.reqs /\ At(x, pc).files = x.files
           /\ At(x, pc).kids = x.kids /\ At(x, pc).r = x.r /\ At(x, pc).pc = pc
  BY DEF At, Rec

\* exit: close_all, then send.
LEMMA ExitsRec ==
    ASSUME NEW x \in Rec, NEW r \in Msg
    PROVE  /\ Exits(x, r) \in Rec
           /\ Exits(x, r).status = x.status /\ Exits(x, r).gen = x.gen
           /\ Exits(x, r).parent = x.parent /\ Exits(x, r).recving = x.recving
           /\ Exits(x, r).kids = x.kids /\ Exits(x, r).r = r /\ Exits(x, r).files = 0
           /\ x.files = 0 => Exits(x, r).pc = "send"
           /\ Exits(x, r).pc = "send" \/
                (Exits(x, r).pc = "request" /\ Exits(x, r).next = "send" /\ Exits(x, r).reqs = 1)
  <1>1. PICK y : y = [x EXCEPT !.r = r, !.files = 0]  OBVIOUS
  <1>2. /\ y \in Rec /\ y.status = x.status /\ y.gen = x.gen /\ y.parent = x.parent
        /\ y.recving = x.recving /\ y.kids = x.kids /\ y.r = r /\ y.files = 0
    BY <1>1 DEF Rec
  <1>3. x.files \in {0, 1} /\ "send" \in Pc  BY DEF Rec, Pc, SlotPc
  <1>4. Exits(x, r) = Ask(y, x.files, "send")  BY <1>1 DEF Exits
  <1> HIDE DEF Rec
  <1> QED BY <1>2, <1>3, <1>4, AskRec
-----------------------------------------------------------------------------
(***************************************************************************)
(* Steps in general.                                                       *)
(***************************************************************************)

\* No slot becomes active, and none changes its parent or its part in the tree.
Calm == /\ \A f \in Env : env'[f].gen = env[f].gen
        /\ \A s \in Slot : Active(s)' =>
             /\ Active(s) /\ env'[s].parent = env[s].parent
             /\ Spawner(env'[s]) => Spawner(env[s])
             /\ Commander(env'[s]) => Commander(env[s])

\* f keeps its children in the tree.
Holds(f) == \A s \in Slot :
              Active(s) /\ Active(s)' /\ env[s].parent = Id(f)
                /\ HasKid(env[f], Id(s)) /\ Fits(env[s], env[f]) =>
              HasKid(env'[f], Id(s)) /\ Fits(env[s], env'[f])

LEMMA CalmIds ==
    ASSUME Calm
    PROVE  \A f \in Env : Id(f)' = Id(f)
  BY DEF Calm, Id

LEMMA TreeStep ==
    ASSUME Tree, Calm, \A f \in Env : Holds(f)
    PROVE  Tree'
  <1> SUFFICES ASSUME NEW s \in Slot, Active(s)'
               PROVE  \E p \in Env : /\ env'[s].parent = Id(p)'
                                     /\ HasKid(env'[p], Id(s)')
                                     /\ Fits(env'[s], env'[p])
    BY DEF Tree
  <1>1. /\ Active(s) /\ env'[s].parent = env[s].parent
        /\ Spawner(env'[s]) => Spawner(env[s])
        /\ Commander(env'[s]) => Commander(env[s])
    BY DEF Calm
  <1>2. PICK p \in Env : /\ env[s].parent = Id(p) /\ HasKid(env[p], Id(s))
                         /\ Fits(env[s], env[p])
    BY <1>1 DEF Tree
  <1>3. HasKid(env'[p], Id(s)) /\ Fits(env[s], env'[p])
    BY <1>1, <1>2 DEF Holds
  <1>4. Fits(env'[s], env'[p])  BY <1>1, <1>3 DEF Fits
  <1>5. Id(p)' = Id(p) /\ Id(s)' = Id(s)  BY CalmIds, Names
  <1> QED BY <1>1, <1>2, <1>3, <1>4, <1>5

\* Who had no children has none.
LEMMA NoKidsStep ==
    ASSUME Calm, NEW x \in Env, NoKids(x)
    PROVE  NoKids(x)'
  BY CalmIds DEF Calm, NoKids

\* Who has the same record waits as before.
LEMMA WaitsStep ==
    ASSUME Calm, NEW x \in Env, env'[x] = env[x], Waits(x)
    PROVE  Waits(x)'
  BY NoKidsStep DEF Waits

LEMMA ServedStep ==
    ASSUME Served, Calm, env'[Server] = env[Server], \A x \in Slot : Waits(x) => Waits(x)'
    PROVE  Served'
  BY CalmIds, Names DEF Served

LEMMA TurnsStep ==
    ASSUME Turns, Calm,
           env'[Shell].pc \in {"status", "taken"} => env[Shell].pc \in {"status", "taken"},
           \A s \in Slot : Active(s) /\ Active(s)' /\ Early(env[s])
                             /\ env'[Shell].pc \in {"status", "taken"}
                             /\ env[s].parent = Id(Shell) =>
             Early(env'[s]) \/ Before(queue', Shell, s),
           \A s \in Slot : env'[Shell].pc \in {"status", "taken"} /\ Before(queue, Shell, s) =>
             Before(queue', Shell, s)
    PROVE  Turns'
  BY CalmIds, Names DEF Turns, Calm

\* Whoever is not open has no children.
LEMMA ClosedNoKids ==
    ASSUME Typed, Tree, NEW x \in Env, ~Open(env[x])
    PROVE  NoKids(x)
  <1> SUFFICES ASSUME NEW s \in Slot, Active(s), env[s].parent = Id(x) PROVE FALSE
    BY DEF NoKids
  <1>1. PICK p \in Env : env[s].parent = Id(p) /\ Fits(env[s], env[p])  BY DEF Tree
  <1>2. p = x  BY <1>1, IdFacts
  <1> QED BY <1>1, <1>2 DEF Fits

\* The child of an open env is in its list, and fits.
LEMMA ParentFacts ==
    ASSUME Typed, Tree, NEW s \in Slot, Active(s), NEW p \in Env, env[s].parent = Id(p)
    PROVE  HasKid(env[p], Id(s)) /\ Fits(env[s], env[p]) /\ Open(env[p])
  <1>1. PICK d \in Env : /\ env[s].parent = Id(d) /\ Fits(env[s], env[d])
                         /\ HasKid(env[d], Id(s))
    BY DEF Tree
  <1>2. d = p  BY <1>1, IdFacts
  <1> QED BY <1>1, <1>2 DEF Fits
-----------------------------------------------------------------------------
(***************************************************************************)
(* Steps of one env.                                                       *)
(***************************************************************************)

LEMMA GoStays ==
    ASSUME Queued, queue # <<>>, Go(CPU, <<>>) \/ Yields(CPU, <<>>)
    PROVE  /\ queue' \in Seq(Env) /\ Once(queue')
           /\ \A e \in Env : In(queue', e) <=> In(queue, e)
           /\ \A d, e \in Env : d # CPU /\ Before(queue, d, e) => Before(queue', d, e)
  <1>1. queue \in Seq(Env) /\ Once(queue) /\ CPU = Head(queue)  BY DEF Queued, CPU
  <1>2. Tail(queue) \in Seq(Env)  BY <1>1, HeadIn
  <1>3. queue \o <<>> = queue /\ Tail(queue) \o <<>> = Tail(queue)
    BY <1>1, <1>2, ConcatEmptySeq
  <1>4. queue' = queue \/ queue' = Tail(queue) \o <<Head(queue)>>
    BY <1>1, <1>3 DEF Go, Yields
  <1>5. CASE queue' = queue  BY <1>1, <1>5
  <1>6. CASE queue' = Tail(queue) \o <<Head(queue)>>
    <2>1. PICK p : p = queue'  OBVIOUS
    <2>2. p = Tail(queue) \o <<Head(queue)>>  BY <1>6, <2>1
    <2> QED BY <1>1, <2>1, <2>2, RotateQueue
  <1> QED BY <1>4, <1>5, <1>6

LEMMA GoAdds ==
    ASSUME Queued, queue # <<>>, NEW x \in Env, ~In(queue, x), Go(CPU, <<x>>)
    PROVE  /\ queue' \in Seq(Env) /\ Once(queue')
           /\ \A e \in Env : In(queue', e) <=> In(queue, e) \/ e = x
           /\ \A d, e \in Env : d # CPU /\ Before(queue, d, e) => Before(queue', d, e)
           /\ \A d \in Env : In(queue, d) /\ d # CPU => Before(queue', d, x)
  <1>1. queue \in Seq(Env) /\ Once(queue) /\ CPU = Head(queue)  BY DEF Queued, CPU
  <1>2. PICK q : q = queue \o <<x>>  OBVIOUS
  <1>3. /\ q \in Seq(Env) /\ Once(q) /\ q # <<>>
        /\ \A e \in Env : In(q, e) <=> In(queue, e) \/ e = x
        /\ \A d, e \in Env : Before(queue, d, e) => Before(q, d, e)
        /\ \A d \in Env : In(queue, d) => Before(q, d, x)
        /\ Head(q) = Head(queue) /\ Tail(q) = Tail(queue) \o <<x>>
    BY <1>1, <1>2, AppendQueue
  <1>4. queue' = q \/ queue' = Tail(q) \o <<Head(q)>>
    BY <1>1, <1>2, <1>3 DEF Go
  <1>5. CASE queue' = q  BY <1>3, <1>5
  <1>6. CASE queue' = Tail(q) \o <<Head(q)>>
    <2>1. PICK p : p = queue'  OBVIOUS
    <2>2. p = Tail(q) \o <<Head(q)>>  BY <1>6, <2>1
    <2>3. /\ p \in Seq(Env) /\ Once(p)
          /\ \A e \in Env : In(p, e) <=> In(q, e)
          /\ \A d, e \in Env : d # Head(q) /\ Before(q, d, e) => Before(p, d, e)
      BY <1>3, <2>2, RotateQueue
    <2> QED BY <1>1, <1>3, <2>1, <2>3
  <1> QED BY <1>4, <1>5, <1>6

LEMMA GoLeaves ==
    ASSUME Queued, queue # <<>>, Leaves(<<>>)
    PROVE  /\ queue' \in Seq(Env) /\ Once(queue')
           /\ \A e \in Env : In(queue', e) <=> In(queue, e) /\ e # CPU
           /\ \A d, e \in Env : d # CPU /\ Before(queue, d, e) => Before(queue', d, e)
  <1>1. queue \in Seq(Env) /\ Once(queue) /\ CPU = Head(queue)  BY DEF Queued, CPU
  <1>2. Tail(queue) \in Seq(Env)  BY <1>1, HeadIn
  <1>3. queue' = Tail(queue)  BY <1>2, ConcatEmptySeq DEF Leaves
  <1>4. PICK p : p = queue'  OBVIOUS
  <1>5. p = Tail(queue)  BY <1>3, <1>4
  <1> QED BY <1>1, <1>4, <1>5, LeaveQueue

\* The env goes on with another record.
LEMMA MovesKeeps ==
    ASSUME Typed, Queued, Tree, Served, Turns, queue # <<>>,
           NEW e \in Env, e = CPU, e # Server, NEW x \in Rec, Moves(e, x),
           Own(e, x), x.status = "RUNNABLE", x.gen = env[e].gen,
           env[e].pc # "die", env[e].pc \notin {"await", "program"},
           e \in Slot => /\ x.parent = env[e].parent
                         /\ Spawner(x) => Spawner(env[e])
                         /\ Commander(x) => Commander(env[e])
                         /\ Early(env[e]) => Early(x)
                         /\ env[e].pc = "answer" /\ env[e].next = "program" => x.pc = "program",
           e = Shell => x.pc \notin {"status", "taken"},
           \A s \in Slot :
              Active(s) /\ env[s].parent = Id(e) /\ HasKid(env[e], Id(s)) /\ Fits(env[s], env[e])
                => HasKid(x, Id(s)) /\ Fits(env[s], x),
           panicked' = panicked, lost' \subseteq Env
    PROVE  Typed' /\ Queued' /\ Tree' /\ Served' /\ Turns'
  <1> HIDE DEF Rec, Active, Waits, Early, Fits, HasKid, Spawner, Commander, Own
  <1>1. /\ env' = [env EXCEPT ![e] = x] /\ Go(CPU, <<>>)
        /\ env \in [Env -> Rec]
    BY DEF Moves, Typed
  <1>2. env' \in [Env -> Rec] /\ env'[e] = x /\ \A f \in Env \ {e} : env'[f] = env[f]
    BY <1>1
  <1>3. Typed'
    <2>1. \A f \in Env : Own(f, env'[f])  BY <1>2 DEF Typed
    <2> QED BY <1>2, <2>1 DEF Typed
  <1>4. /\ queue' \in Seq(Env) /\ Once(queue')
        /\ \A f \in Env : In(queue', f) <=> In(queue, f)
        /\ \A d, f \in Env : d # CPU /\ Before(queue, d, f) => Before(queue', d, f)
    BY <1>1, GoStays
  <1>5. env[e].status = "RUNNABLE" /\ ~Blocked(env[e]) /\ \A s \in Env : ~Before(queue, s, e)
    BY Running
  <1>6. Queued'  BY <1>2, <1>4, <1>5 DEF Queued
  <1>7. e \in Slot => Active(e)  BY <1>5 DEF Active
  <1>8. \A s \in Slot \ {e} : Active(s)' <=> Active(s)  BY <1>2, Names DEF Active
  <1>9. Calm  BY <1>2, <1>7, <1>8, Names DEF Calm
  <1>10. ASSUME NEW f \in Env PROVE Holds(f)
    <2> SUFFICES ASSUME NEW s \in Slot, Active(s), env[s].parent = Id(f),
                        HasKid(env[f], Id(s)), Fits(env[s], env[f])
                 PROVE  HasKid(env'[f], Id(s)) /\ Fits(env[s], env'[f])
      BY DEF Holds
    <2>1. CASE f # e  BY <1>2, <2>1
    <2>2. CASE f = e  BY <1>2, <2>2
    <2> QED BY <2>1, <2>2
  <1>11. Tree'  BY <1>9, <1>10, TreeStep
  <1>12. ASSUME NEW s \in Slot, Waits(s) PROVE Waits(s)'
    <2>1. CASE s # e  BY <1>2, <1>9, <1>12, <2>1, Names, WaitsStep
    <2>2. CASE s = e
      <3>1. env[e].pc = "answer" /\ env[e].next = "program" /\ NoKids(e)
        BY <1>5, <1>12, <2>2 DEF Waits
      <3>2. env'[e].pc = "program"  BY <1>2, <2>2, <3>1
      <3>3. NoKids(e)'  BY <1>9, <3>1, NoKidsStep
      <3> QED BY <2>2, <3>2, <3>3 DEF Waits
    <2> QED BY <2>1, <2>2
  <1>13. Served'  BY <1>2, <1>9, <1>12, Names, ServedStep
  <1>14. Turns'
    <2>1. env'[Shell].pc \in {"status", "taken"} =>
            Shell # e /\ env[Shell].pc \in {"status", "taken"}
      BY <1>2, Names
    <2>2. \A s \in Slot : Early(env[s]) => Early(env'[s])  BY <1>2, Names
    <2>3. \A s \in Slot : env'[Shell].pc \in {"status", "taken"} /\ Before(queue, Shell, s) =>
            Before(queue', Shell, s)
      BY <1>4, <2>1, Names
    <2> QED BY <1>9, <2>1, <2>2, <2>3, TurnsStep
  <1> QED BY <1>3, <1>6, <1>11, <1>13, <1>14

\* Nothing but the turn changes.
LEMMA StayKeeps ==
    ASSUME Typed, Queued, Tree, Served, Turns, queue # <<>>,
           UNCHANGED env, Yields(CPU, <<>>) \/ Go(CPU, <<>>),
           CPU = Shell => env[Shell].pc \notin {"status", "taken"},
           panicked' = panicked, lost' \subseteq Env
    PROVE  Typed' /\ Queued' /\ Tree' /\ Served' /\ Turns'
  <1> HIDE DEF Rec, Active, Waits, Early, Fits, HasKid, Spawner, Commander, Own
  <1>1. Typed'  BY DEF Typed
  <1>2. /\ queue' \in Seq(Env) /\ Once(queue')
        /\ \A f \in Env : In(queue', f) <=> In(queue, f)
        /\ \A d, f \in Env : d # CPU /\ Before(queue, d, f) => Before(queue', d, f)
    BY GoStays
  <1>3. Queued'  BY <1>2 DEF Queued
  <1>4. Calm  BY Names DEF Calm, Active, Spawner, Commander
  <1>5. \A f \in Env : Holds(f)  BY DEF Holds
  <1>6. Tree'  BY <1>4, <1>5, TreeStep
  <1>7. \A s \in Slot : Waits(s) => Waits(s)'  BY <1>4, Names, WaitsStep
  <1>8. Served'  BY <1>4, <1>7, Names, ServedStep
  <1>9. Turns'
    <2>1. \A s \in Slot : Early(env[s]) => Early(env'[s])  BY Names
    <2>2. \A s \in Slot : env'[Shell].pc \in {"status", "taken"} /\ Before(queue, Shell, s) =>
            Before(queue', Shell, s)
      BY <1>2, Names
    <2> QED BY <1>4, <2>1, <2>2, TurnsStep
  <1> QED BY <1>1, <1>3, <1>6, <1>8, <1>9

\* The programs that receive, and where they go on.
Receives == {<<"status", "got">>, <<"taken", "redirected">>, <<"await", "answer">>,
             <<"program", "ended">>, <<"listen", "reply">>}

\* sys_ipc_recv.
LEMMA BlocksKeeps ==
    ASSUME Typed, Queued, Tree, Served, Turns, queue # <<>>,
           NEW e \in Env, e = CPU, NEW pc, <<env[e].pc, pc>> \in Receives,
           sys_ipc_recv(e, pc), UNCHANGED <<lost, panicked>>
    PROVE  Typed' /\ Queued' /\ Tree' /\ Served' /\ Turns'
  <1>1. /\ env[e].status = "RUNNABLE" /\ ~Blocked(env[e]) /\ \A s \in Env : ~Before(queue, s, e)
        /\ env[e] \in Rec /\ Own(e, env[e])
    BY Running
  <1> PICK x : x = [env[e] EXCEPT !.recving = TRUE, !.status = "NOT_RUNNABLE", !.pc = pc]
    OBVIOUS
  <1>2. /\ x \in Rec /\ x.pc = pc /\ x.status = "NOT_RUNNABLE" /\ x.recving = TRUE
        /\ x.gen = env[e].gen /\ x.parent = env[e].parent /\ x.next = env[e].next
        /\ x.kids = env[e].kids /\ x.reqs = env[e].reqs /\ x.files = env[e].files
    <2>1. pc \in Pc  BY DEF Receives, Pc, ShellPc, SlotPc
    <2> QED BY <1>1, <2>1 DEF Rec
  <1>3. env' = [env EXCEPT ![e] = x] /\ Leaves(<<>>) /\ env \in [Env -> Rec]
    BY DEF sys_ipc_recv, Typed
  <1>4. env' \in [Env -> Rec] /\ env'[e] = x /\ \A f \in Env \ {e} : env'[f] = env[f]
    BY <1>2, <1>3
  <1>5. Own(e, x)
    <2>1. KidCount(x)
      BY <1>1, <1>2 DEF Own, KidCount, Receives, Busy
    <2>2. x.recving <=> Blocked(x)  BY <1>2 DEF Blocked
    <2>3. CASE e = Shell
      BY <1>1, <1>2, <2>1, <2>2, <2>3, Names
         DEF Own, ShellRec, ShellPc, Receives, Blocked
    <2>4. CASE e \in Slot
      BY <1>1, <1>2, <2>1, <2>2, <2>4, Names
         DEF Own, SlotRec, SlotPc, Receives, Blocked, Busy
    <2>5. CASE e = Server
      BY <1>1, <1>2, <2>1, <2>2, <2>5, Names
         DEF Own, ServerRec, Receives, Blocked
    <2> QED BY <2>3, <2>4, <2>5, Names
  <1>6. Open(env[e]) => Open(x)
    BY <1>1, <1>2 DEF Open, Receives, Busy, Blocked
  <1>7. /\ \A s : Fits(s, env[e]) => Fits(s, x)
        /\ \A id : HasKid(env[e], id) => HasKid(x, id)
    BY <1>1, <1>2, <1>6 DEF Fits, Receives, HasKid
  <1>8. Spawner(x) = Spawner(env[e]) /\ Commander(x) = Commander(env[e])
    BY <1>2 DEF Spawner, Commander, Receives, Busy
  <1>9. Early(env[e]) => Early(x)
    BY <1>1, <1>2 DEF Early, Receives, Blocked
  <1>10. x.pc \notin {"status", "taken"} /\ x.pc # "die" /\ env[e].pc # "die"
    BY <1>2 DEF Receives
  <1> HIDE DEF Rec, Waits, Early, Fits, HasKid, Spawner, Commander, Own
  <1>11. Typed'
    <2>1. \A f \in Env : Own(f, env'[f])  BY <1>4, <1>5 DEF Typed
    <2> QED BY <1>4, <2>1 DEF Typed
  <1>12. /\ queue' \in Seq(Env) /\ Once(queue')
         /\ \A f \in Env : In(queue', f) <=> In(queue, f) /\ f # CPU
         /\ \A d, f \in Env : d # CPU /\ Before(queue, d, f) => Before(queue', d, f)
    BY <1>3, GoLeaves
  <1>13. Queued'
    <2>1. \A f \in Env : env'[f].status = "RUNNABLE" <=> env[f].status = "RUNNABLE" /\ f # e
      <3> TAKE f \in Env
      <3>1. CASE f = e
        <4>1. env'[f].status = "NOT_RUNNABLE"  BY <1>2, <1>4, <3>1
        <4> QED BY <3>1, <4>1
      <3>2. CASE f # e
        <4>1. env'[f] = env[f]  BY <1>4, <3>2
        <4> QED BY <3>2, <4>1
      <3> QED BY <3>1, <3>2
    <2> QED BY <1>12, <2>1 DEF Queued
  <1>14. ASSUME NEW s \in Slot PROVE Active(s)' <=> Active(s)
    <2>1. CASE s = e
      <3>1. env'[s].status # "FREE" /\ env'[s].pc # "die"  BY <1>2, <1>4, <1>10, <2>1
      <3>2. env[s].status # "FREE" /\ env[s].pc # "die"  BY <1>1, <1>10, <2>1
      <3> QED BY <3>1, <3>2 DEF Active
    <2>2. CASE s # e
      <3>1. env'[s] = env[s]  BY <1>4, <2>2, Names
      <3> QED BY <3>1 DEF Active
    <2> QED BY <2>1, <2>2
  <1>15. Calm  BY <1>2, <1>4, <1>8, <1>14, Names DEF Calm
  <1>16. ASSUME NEW f \in Env PROVE Holds(f)
    <2> SUFFICES ASSUME NEW s \in Slot, Active(s), env[s].parent = Id(f),
                        HasKid(env[f], Id(s)), Fits(env[s], env[f])
                 PROVE  HasKid(env'[f], Id(s)) /\ Fits(env[s], env'[f])
      BY DEF Holds
    <2>1. CASE f # e  BY <1>4, <2>1
    <2>2. CASE f = e  BY <1>4, <1>7, <2>2
    <2> QED BY <2>1, <2>2
  <1>17. Tree'  BY <1>15, <1>16, TreeStep
  <1>18. ASSUME NEW s \in Slot, Waits(s) PROVE Waits(s)'
    <2>1. CASE s # e  BY <1>4, <1>15, <1>18, <2>1, Names, WaitsStep
    <2>2. CASE s = e
      <3>1. env'[e].status = "NOT_RUNNABLE" /\ env'[e].pc = pc  BY <1>2, <1>4
      <3>2. CASE env[e].pc = "await"
        BY <2>2, <3>1, <3>2 DEF Waits, Receives, Blocked
      <3>3. CASE env[e].pc = "program"
        <4>1. NoKids(e)'  BY <1>15, <1>18, <2>2, <3>3, NoKidsStep DEF Waits
        <4> QED BY <2>2, <3>1, <3>3, <4>1 DEF Waits, Receives, Blocked
      <3> QED BY <1>1, <1>18, <2>2, <3>2, <3>3 DEF Waits, Receives
    <2> QED BY <2>1, <2>2
  <1>19. Served'
    <2>1. CASE e # Server  BY <1>4, <1>15, <1>18, <2>1, Names, ServedStep
    <2>2. CASE e = Server
      <3>1. Blocked(env'[Server])  BY <1>2, <1>4, <2>2 DEF Blocked
      <3> QED BY <3>1 DEF Served
    <2> QED BY <2>1, <2>2
  <1>20. Turns'
    <2>1. env'[Shell].pc \in {"status", "taken"} =>
            Shell # e /\ env[Shell].pc \in {"status", "taken"}
      BY <1>4, <1>10, Names
    <2>2. \A s \in Slot : Early(env[s]) => Early(env'[s])  BY <1>4, <1>9, Names
    <2>3. \A s \in Slot : env'[Shell].pc \in {"status", "taken"} /\ Before(queue, Shell, s) =>
            Before(queue', Shell, s)
      BY <1>12, <2>1, Names
    <2> QED BY <1>15, <2>1, <2>2, <2>3, TurnsStep
  <1> QED BY <1>11, <1>13, <1>17, <1>19, <1>20

LEMMA FreeRec ==
    /\ Free \in Rec
    /\ Free.status = "FREE" /\ Free.gen = 0 /\ Free.parent = NULL /\ Free.recving = FALSE
    /\ Free.from = NULL /\ Free.value = NULL /\ Free.pc = "idle" /\ Free.next = NULL
    /\ Free.reqs = 0 /\ Free.files = 0 /\ Free.kids = <<>> /\ Free.r = NULL
  <1>1. NULL \in Msg /\ <<>> \in Seq(Ids \cup {NULL}) /\ 0 \in 0 .. GenMod - 1
    BY IdAssumption DEF Msg
  <1>2. "idle" \in Pc  BY DEF Pc
  <1> HIDE DEF Msg, Pc
  <1> QED BY <1>1, <1>2 DEF Free, Rec

\* After a fork or spawn the parent's record is y, the child's z: one child more, and
\* the child a record of its own.
Forked(e, c, x, pc, files, g, y, z) ==
    /\ env' \in [Env -> Rec] /\ env'[e] = y /\ env'[c] = z /\ c # e
    /\ \A f \in Env \ {e, c} : env'[f] = env[f]
    /\ Go(e, <<c>>)
    /\ y.kids = Append(x.kids, <<c, g>>)
    /\ y.status = x.status /\ y.gen = x.gen /\ y.parent = x.parent
    /\ y.recving = x.recving /\ y.pc = x.pc /\ y.next = x.next /\ y.reqs = x.reqs
    /\ y.files = x.files /\ y.r = x.r /\ y.value = x.value
    /\ z.status = "RUNNABLE" /\ z.gen = g /\ z.parent = Id(e) /\ z.recving = FALSE
    /\ z.pc = pc /\ z.files = files /\ z.kids = <<>> /\ z.next = NULL

LEMMA BornFacts ==
    ASSUME Typed, NEW e \in Env, NEW c \in FreeSlots, env[e].status = "RUNNABLE",
           NEW x \in Rec, NEW pc \in Pc, NEW files \in {0, 1}, Born(e, c, x, pc, files)
    PROVE  \E g \in 0 .. GenMod - 1, y, z \in Rec : Forked(e, c, x, pc, files, g, y, z)
  <1> DEFINE g == (env[c].gen + 1) % GenMod
             y == [x EXCEPT !.kids = Append(x.kids, <<c, g>>)]
             z == [Free EXCEPT !.status = "RUNNABLE", !.gen = g, !.parent = Id(e), !.pc = pc,
                               !.files = files]
  <1>1. c \in Env /\ c # e /\ env[c] \in Rec
    BY Names DEF FreeSlots, Typed
  <1>2. g \in 0 .. GenMod - 1
    <2>1. env[c].gen \in Nat  BY <1>1 DEF Rec
    <2> QED BY <2>1, IdAssumption
  <1>3. env' = [env EXCEPT ![e] = y, ![c] = z] /\ Go(e, <<c>>)  BY DEF Born
  <1>4. Id(e) \in Ids /\ <<c, g>> \in Ids  BY <1>1, <1>2, IdFacts DEF Ids
  <1> HIDE DEF g
  <1>5. /\ y \in Rec /\ y.kids = Append(x.kids, <<c, g>>)
        /\ y.status = x.status /\ y.gen = x.gen /\ y.parent = x.parent
        /\ y.recving = x.recving /\ y.pc = x.pc /\ y.next = x.next /\ y.reqs = x.reqs
        /\ y.files = x.files /\ y.r = x.r /\ y.value = x.value
    <2>1. Append(x.kids, <<c, g>>) \in Seq(Ids \cup {NULL})  BY <1>4 DEF Rec
    <2> PICK k : k = Append(x.kids, <<c, g>>)  OBVIOUS
    <2>2. k \in Seq(Ids \cup {NULL}) /\ y = [x EXCEPT !.kids = k]  BY <2>1
    <2> HIDE DEF y
    <2>3. y \in Rec /\ y.kids = k  BY <2>2 DEF Rec
    <2>4. /\ y.status = x.status /\ y.gen = x.gen /\ y.parent = x.parent
          /\ y.recving = x.recving /\ y.pc = x.pc /\ y.next = x.next /\ y.reqs = x.reqs
          /\ y.files = x.files /\ y.r = x.r /\ y.value = x.value
      BY <2>2 DEF Rec
    <2> QED BY <2>3, <2>4
  <1>6. /\ z \in Rec /\ z.status = "RUNNABLE" /\ z.gen = g /\ z.parent = Id(e)
        /\ z.recving = FALSE /\ z.pc = pc /\ z.files = files /\ z.kids = <<>> /\ z.next = NULL
    <2> PICK d : d = Free  OBVIOUS
    <2>1. d \in Rec /\ d.recving = FALSE /\ d.kids = <<>> /\ d.next = NULL  BY FreeRec
    <2>2. z = [d EXCEPT !.status = "RUNNABLE", !.gen = g, !.parent = Id(e), !.pc = pc,
                        !.files = files]
      OBVIOUS
    <2> HIDE DEF z
    <2>3. z \in Rec
      <3> PICK i : i = Id(e)  OBVIOUS
      <3>1. i \in Ids /\ g \in 0 .. GenMod - 1  BY <1>2, <1>4
      <3>2. z = [[d EXCEPT !.status = "RUNNABLE", !.gen = g, !.parent = i] EXCEPT
                   !.pc = pc, !.files = files]
        BY <2>1, <2>2 DEF Rec
      <3>3. PICK w : w = [d EXCEPT !.status = "RUNNABLE", !.gen = g, !.parent = i]  OBVIOUS
      <3>4. w \in Rec
        <4>1. PICK u : u = [d EXCEPT !.status = "RUNNABLE"]  OBVIOUS
        <4>2. PICK v : v = [u EXCEPT !.gen = g]  OBVIOUS
        <4>3. u \in Rec  BY <2>1, <4>1 DEF Rec
        <4>4. v \in Rec  BY <3>1, <4>2, <4>3 DEF Rec
        <4>5. w = [v EXCEPT !.parent = i]  BY <2>1, <3>3, <4>1, <4>2 DEF Rec
        <4> QED BY <3>1, <4>4, <4>5 DEF Rec
      <3>5. z = [w EXCEPT !.pc = pc, !.files = files]  BY <3>2, <3>3
      <3> QED BY <3>4, <3>5 DEF Rec
    <2>4. /\ z.status = "RUNNABLE" /\ z.gen = g /\ z.parent = Id(e) /\ z.pc = pc
          /\ z.files = files /\ z.recving = FALSE /\ z.kids = <<>> /\ z.next = NULL
      BY <2>1, <2>2 DEF Rec
    <2> QED BY <2>3, <2>4
  <1> HIDE DEF y, z, Rec
  <1>7. /\ env' \in [Env -> Rec] /\ env'[e] = y /\ env'[c] = z
        /\ \A f \in Env \ {e, c} : env'[f] = env[f]
    BY <1>1, <1>3, <1>5, <1>6 DEF Typed
  <1>8. Forked(e, c, x, pc, files, g, y, z)
    BY <1>1, <1>3, <1>5, <1>6, <1>7 DEF Forked
  <1> QED BY <1>2, <1>5, <1>6, <1>8

LEMMA BirthKeeps ==
    ASSUME Typed, Queued, Tree, Served, Turns, queue # <<>>,
           NEW e \in Env, e = CPU, e # Server, NEW c \in FreeSlots, NEW g \in 0 .. GenMod - 1,
           NEW y \in Rec, NEW z \in Rec,
           env' \in [Env -> Rec], env'[e] = y, env'[c] = z, c # e,
           \A f \in Env \ {e, c} : env'[f] = env[f], Go(e, <<c>>),
           Own(e, y), y.status = "RUNNABLE", y.gen = env[e].gen,
           env[e].pc \notin {"die", "await", "answer", "program"},
           e \in Slot => /\ y.parent = env[e].parent
                         /\ Spawner(y) => Spawner(env[e])
                         /\ Commander(y) => Commander(env[e])
                         /\ ~Early(env[e]),
           e = Shell /\ y.pc \in {"status", "taken"} => NoKids(Shell) /\ Early(z),
           Own(c, z), z.status = "RUNNABLE", z.gen = g, z.parent = Id(e),
           HasKid(y, <<c, g>>), Fits(z, y),
           \A s \in Slot :
              Active(s) /\ env[s].parent = Id(e) /\ HasKid(env[e], Id(s)) /\ Fits(env[s], env[e])
                => HasKid(y, Id(s)) /\ Fits(env[s], y),
           UNCHANGED <<lost, panicked>>
    PROVE  Typed' /\ Queued' /\ Tree' /\ Served' /\ Turns'
  <1> HIDE DEF Rec, Early, Fits, HasKid, Spawner, Commander, Own
  <1>1. c \in Slot /\ c \in Env /\ env[c].status = "FREE" /\ ~Active(c) /\ c # Shell /\ c # Server
    BY Names DEF FreeSlots, Active
  <1>2. /\ env[e].status = "RUNNABLE" /\ \A s \in Env : ~Before(queue, s, e)
        /\ queue \in Seq(Env)
    BY Running
  <1>3. Typed'
    <2>1. \A f \in Env : Own(f, env'[f])  BY DEF Typed
    <2> QED BY <2>1 DEF Typed
  <1>4. ~In(queue, c)  BY <1>1 DEF Queued
  <1>5. /\ queue' \in Seq(Env) /\ Once(queue')
        /\ \A f \in Env : In(queue', f) <=> In(queue, f) \/ f = c
        /\ \A d, f \in Env : d # e /\ Before(queue, d, f) => Before(queue', d, f)
    BY <1>1, <1>4, GoAdds
  <1>6. Queued'
    <2>1. \A f \in Env : env'[f].status = "RUNNABLE" <=> env[f].status = "RUNNABLE" \/ f = c
      BY <1>1, <1>2
    <2> QED BY <1>5, <2>1 DEF Queued
  <1>7. \A f \in Env \ {c} : Id(f)' = Id(f)  BY DEF Id
  <1>8. Id(c)' = <<c, g>>  BY DEF Id
  <1>9. \A s \in Slot \ {c} : Active(s)' => Active(s)
    <2> TAKE s \in Slot \ {c}
    <2>1. CASE s = e  BY <1>2, <2>1 DEF Active
    <2>2. CASE s # e
      <3>1. env'[s] = env[s]  BY <2>2, Names
      <3> QED BY <3>1 DEF Active
    <2> QED BY <2>1, <2>2
  <1>10. \A s \in Slot \ {c} : env'[s].parent = env[s].parent
    BY Names
  <1>11. Tree'
    <2> SUFFICES ASSUME NEW s \in Slot, Active(s)'
                 PROVE  \E p \in Env : /\ env'[s].parent = Id(p)'
                                       /\ HasKid(env'[p], Id(s)')
                                       /\ Fits(env'[s], env'[p])
      BY DEF Tree
    <2>1. CASE s = c  BY <1>7, <1>8, <2>1
    <2>2. CASE s # c
      <3>1. Active(s) /\ env'[s].parent = env[s].parent /\ Id(s)' = Id(s)
        BY <1>7, <1>9, <1>10, <2>2, Names
      <3>2. PICK p \in Env : /\ env[s].parent = Id(p) /\ HasKid(env[p], Id(s))
                             /\ Fits(env[s], env[p])
        BY <3>1 DEF Tree
      <3>3. p # c
        <4>1. env[c].pc = "idle" /\ ~Blocked(env[c])
          BY <1>1, Names DEF Typed, Own, SlotRec, Blocked
        <4>2. ~Open(env[c])  BY <4>1 DEF Open, Busy
        <4> QED BY <3>2, <4>2 DEF Fits
      <3>4. HasKid(env'[p], Id(s)) /\ Fits(env[s], env'[p])
        <4>1. CASE p = e  BY <3>1, <3>2, <4>1
        <4>2. CASE p # e  BY <3>2, <3>3, <4>2
        <4> QED BY <4>1, <4>2
      <3>5. Fits(env'[s], env'[p])
        <4>1. CASE s = e  BY <3>4, <4>1 DEF Fits
        <4>2. CASE s # e  BY <2>2, <3>4, <4>2, Names
        <4> QED BY <4>1, <4>2
      <3> QED BY <1>7, <3>1, <3>2, <3>3, <3>4, <3>5
    <2> QED BY <2>1, <2>2
  <1>12. ASSUME NEW s \in Env \ {c, e}, NoKids(s) PROVE NoKids(s)'
    <2>1. Id(s)' = Id(s) /\ Id(s) # Id(e)  BY <1>7, IdFacts
    <2> QED BY <1>9, <1>10, <1>12, <2>1 DEF NoKids
  <1>13. ASSUME NEW s \in Slot, Waits(s) PROVE Waits(s)' /\ s # c
    <2>1. s # e /\ s # c
      <3>1. env[c].pc = "idle"  BY <1>1, Names DEF Typed, Own, SlotRec
      <3>2. ~Blocked(env[e])  BY <1>2 DEF Blocked
      <3> QED BY <1>13, <3>1, <3>2 DEF Waits
    <2>2. env'[s] = env[s]  BY <2>1, Names
    <2>3. NoKids(s) => NoKids(s)'  BY <1>12, <2>1, Names
    <2> QED BY <1>13, <2>1, <2>2, <2>3 DEF Waits
  <1>14. Served'
    <2>1. env'[Server] = env[Server]  BY <1>1, Names
    <2> QED BY <1>7, <1>13, <2>1, Names DEF Served
  <1>15. Turns'
    <2> SUFFICES ASSUME env'[Shell].pc \in {"status", "taken"},
                        NEW s \in Slot, Active(s)', env'[s].parent = Id(Shell)'
                 PROVE  Early(env'[s]) \/ Before(queue', Shell, s)
      BY DEF Turns
    <2>1. Id(Shell)' = Id(Shell)  BY <1>1, <1>7, Names
    <2>2. CASE e = Shell
      <3>1. NoKids(Shell) /\ Early(z)  BY <2>2
      <3>2. s = c  BY <1>9, <1>10, <2>1, <3>1 DEF NoKids
      <3> QED BY <3>1, <3>2
    <2>3. CASE e # Shell
      <3>1. env'[Shell] = env[Shell]  BY <1>1, <2>3, Names
      <3>2. s # c  BY <2>1, <2>3, IdFacts, Names
      <3>3. Active(s) /\ env[s].parent = Id(Shell)  BY <1>9, <1>10, <2>1, <3>2
      <3>4. Early(env[s]) \/ Before(queue, Shell, s)  BY <3>1, <3>3 DEF Turns
      <3>5. s # e  BY <1>2, <3>4, Names
      <3>6. env'[s] = env[s]  BY <3>2, <3>5, Names
      <3> QED BY <1>5, <2>3, <3>4, <3>6, Names
    <2> QED BY <2>2, <2>3
  <1> QED BY <1>3, <1>6, <1>11, <1>14, <1>15

\* env_destroy: the slot is free, its id the last it had.
LEMMA DestroyKeeps ==
    ASSUME Typed, Queued, Tree, Served, Turns, queue # <<>>,
           NEW e \in Slot, e = CPU, env_destroy(e)
    PROVE  Typed' /\ Queued' /\ Tree' /\ Served' /\ Turns'
  <1>1. /\ e \in Env /\ env[e].status = "RUNNABLE" /\ ~Blocked(env[e])
        /\ \A s \in Env : ~Before(queue, s, e)
        /\ env[e] \in Rec /\ env[e].pc = "die" /\ e # Shell /\ e # Server
    BY Running, Names DEF env_destroy
  <1> PICK x : x = [Free EXCEPT !.gen = env[e].gen]  OBVIOUS
  <1> PICK d : d = Free  OBVIOUS
  <1>2. /\ d \in Rec /\ d.status = "FREE" /\ d.recving = FALSE /\ d.pc = "idle"
        /\ d.kids = <<>>
    BY FreeRec
  <1>3. x = [d EXCEPT !.gen = env[e].gen] /\ env[e].gen \in 0 .. GenMod - 1
    BY <1>1 DEF Rec
  <1>4. /\ x \in Rec /\ x.status = "FREE" /\ x.gen = env[e].gen /\ x.recving = FALSE
        /\ x.pc = "idle" /\ x.kids = <<>>
    BY <1>2, <1>3 DEF Rec
  <1>5. Own(e, x)
    BY <1>1, <1>4, Names DEF Own, SlotRec, KidCount, Blocked, Busy
  <1>6. ~Spawner(x) /\ ~Commander(x)
    BY <1>4 DEF Spawner, Commander, Busy
  <1>7. env' = [env EXCEPT ![e] = x] /\ Leaves(<<>>) /\ env \in [Env -> Rec]
    BY DEF env_destroy, Typed
  <1>8. ~Open(env[e])  BY <1>1 DEF Open, Busy
  <1> HIDE DEF Rec, Early, Fits, HasKid, Spawner, Commander, Own
  <1>9. env' \in [Env -> Rec] /\ env'[e] = x /\ \A f \in Env \ {e} : env'[f] = env[f]
    BY <1>1, <1>4, <1>7
  <1>10. Typed'
    <2>1. \A f \in Env : Own(f, env'[f])  BY <1>1, <1>5, <1>9 DEF Typed
    <2> QED BY <1>9, <2>1 DEF Typed, env_destroy
  <1>11. /\ queue' \in Seq(Env) /\ Once(queue')
         /\ \A f \in Env : In(queue', f) <=> In(queue, f) /\ f # CPU
         /\ \A h, f \in Env : h # CPU /\ Before(queue, h, f) => Before(queue', h, f)
    BY <1>7, GoLeaves
  <1>12. Queued'
    <2>1. \A f \in Env : env'[f].status = "RUNNABLE" <=> env[f].status = "RUNNABLE" /\ f # e
      BY <1>1, <1>4, <1>9
    <2> QED BY <1>11, <2>1 DEF Queued
  <1>13. \A s \in Slot : Active(s)' => Active(s) /\ s # e
    <2> TAKE s \in Slot
    <2>1. CASE s = e  BY <1>4, <1>9, <2>1 DEF Active
    <2>2. CASE s # e
      <3>1. env'[s] = env[s]  BY <1>9, <2>2, Names
      <3> QED BY <2>2, <3>1 DEF Active
    <2> QED BY <2>1, <2>2
  <1>14. Calm  BY <1>4, <1>9, <1>13, Names DEF Calm
  <1>15. ASSUME NEW f \in Env PROVE Holds(f)
    BY <1>8, <1>9 DEF Holds, Fits
  <1>16. Tree'  BY <1>14, <1>15, TreeStep
  <1>17. ASSUME NEW s \in Slot, Waits(s) PROVE Waits(s)'
    <2>1. s # e  BY <1>1, <1>17 DEF Waits
    <2> QED BY <1>9, <1>14, <1>17, <2>1, Names, WaitsStep
  <1>18. Served'  BY <1>1, <1>9, <1>14, <1>17, Names, ServedStep
  <1>19. Turns'
    <2>1. env'[Shell] = env[Shell]  BY <1>1, <1>9, Names
    <2>2. \A s \in Slot : Active(s)' => env'[s] = env[s]  BY <1>9, <1>13, Names
    <2>3. \A s \in Slot : Before(queue, Shell, s) => Before(queue', Shell, s)
      BY <1>1, <1>11, Names
    <2> QED BY <1>14, <2>1, <2>2, <2>3, TurnsStep
  <1> QED BY <1>10, <1>12, <1>16, <1>18, <1>19
-----------------------------------------------------------------------------
(***************************************************************************)
(* Messages.                                                               *)
(***************************************************************************)

\* What a message changes: t runs again and has it, e goes on with record x.
Told(e, t, v, x, y) ==
    /\ env' \in [Env -> Rec] /\ env'[e] = x /\ env'[t] = y
    /\ \A f \in Env \ {e, t} : env'[f] = env[f]
    /\ y.status = "RUNNABLE" /\ y.recving = FALSE /\ y.from = Id(e) /\ y.value = v
    /\ y.gen = env[t].gen /\ y.parent = env[t].parent /\ y.pc = env[t].pc
    /\ y.next = env[t].next /\ y.reqs = env[t].reqs /\ y.files = env[t].files
    /\ y.kids = env[t].kids /\ y.r = env[t].r

LEMMA DeliveredFacts ==
    ASSUME Typed, NEW e \in Env, NEW t \in Env, t # e, NEW v \in Msg, NEW x \in Rec,
           env' = Delivered(e, t, v, [env EXCEPT ![e] = x])
    PROVE  \E y \in Rec : Told(e, t, v, x, y)
  <1>1. env \in [Env -> Rec] /\ env[t] \in Rec /\ Id(e) \in Ids  BY IdFacts DEF Typed
  <1> PICK i : i = Id(e)  OBVIOUS
  <1> PICK y : y = [env[t] EXCEPT !.recving = FALSE, !.status = "RUNNABLE", !.from = i,
                                  !.value = v]
    OBVIOUS
  <1>2. y \in Rec
    <2>1. PICK u : u = [env[t] EXCEPT !.recving = FALSE, !.status = "RUNNABLE"]  OBVIOUS
    <2>2. u \in Rec  BY <1>1, <2>1 DEF Rec
    <2>3. PICK w : w = [u EXCEPT !.from = i]  OBVIOUS
    <2>4. w \in Rec  BY <1>1, <2>2, <2>3 DEF Rec
    <2>5. y = [w EXCEPT !.value = v]  BY <1>1, <2>1, <2>3 DEF Rec
    <2> HIDE DEF Msg
    <2> QED BY <2>4, <2>5 DEF Rec
  <1>3. /\ y.status = "RUNNABLE" /\ y.recving = FALSE /\ y.from = i /\ y.value = v
        /\ y.gen = env[t].gen /\ y.parent = env[t].parent /\ y.pc = env[t].pc
        /\ y.next = env[t].next /\ y.reqs = env[t].reqs /\ y.files = env[t].files
        /\ y.kids = env[t].kids /\ y.r = env[t].r
    BY <1>1 DEF Rec
  <1>4. env' = [env EXCEPT ![e] = x, ![t] = y]
    <2> HIDE DEF Rec
    <2>1. PICK w : w = [env EXCEPT ![e] = x]  OBVIOUS
    <2>2. w \in [Env -> Rec] /\ w[t] = env[t]  BY <1>1, <2>1
    <2>3. env' = [w EXCEPT ![t].recving = FALSE, ![t].status = "RUNNABLE", ![t].from = i,
                           ![t].value = v]
      BY <2>1 DEF Delivered
    <2>4. env' = [w EXCEPT ![t] = y]  BY <1>1, <2>2, <2>3
    <2> QED BY <2>1, <2>4
  <1> HIDE DEF Rec
  <1>5. /\ env' \in [Env -> Rec] /\ env'[e] = x /\ env'[t] = y
        /\ \A f \in Env \ {e, t} : env'[f] = env[f]
    BY <1>1, <1>2, <1>4
  <1> QED BY <1>2, <1>3, <1>5 DEF Told

LEMMA DeliverKeeps ==
    ASSUME Typed, Queued, Tree, Turns, queue # <<>>,
           NEW e \in Env, e = CPU, e # Shell, NEW t \in Env, Blocked(env[t]),
           NEW v \in Msg, NEW x \in Rec, NEW y \in Rec, Told(e, t, v, x, y), Go(e, <<t>>),
           Own(e, x), x.status = "RUNNABLE", x.gen = env[e].gen, env[e].pc # "die",
           e \in Slot => /\ x.parent = env[e].parent
                         /\ Spawner(x) => Spawner(env[e])
                         /\ Commander(x) => Commander(env[e])
                         /\ Early(env[e]) => Early(x),
           Open(env[e]) => /\ x.kids = env[e].kids
                           /\ \A s : Fits(s, env[e]) => Fits(s, x),
           env[t].pc \in {"got", "redirected", "ended"} =>
             \A s \in Slot : Active(s) /\ env[s].parent = Id(t) => s = e /\ x.pc = "die",
           UNCHANGED <<lost, panicked>>
    PROVE  Typed' /\ Queued' /\ Tree' /\ Turns' /\ Calm
  <1> HIDE DEF Rec, Early, Fits, Spawner, Commander
  <1>1. /\ env[e].status = "RUNNABLE" /\ ~Blocked(env[e]) /\ \A s \in Env : ~Before(queue, s, e)
        /\ t # e /\ env[t].status = "NOT_RUNNABLE" /\ Own(t, env[t])
    BY Running DEF Blocked, Typed
  <1>2. /\ env' \in [Env -> Rec] /\ env'[e] = x /\ env'[t] = y
        /\ \A f \in Env \ {e, t} : env'[f] = env[f]
    BY DEF Told
  <1>3. /\ y.status = "RUNNABLE" /\ y.recving = FALSE
        /\ y.gen = env[t].gen /\ y.parent = env[t].parent /\ y.pc = env[t].pc
        /\ y.next = env[t].next /\ y.reqs = env[t].reqs /\ y.files = env[t].files
        /\ y.kids = env[t].kids
    BY DEF Told
  <1>4. Own(t, y)
    <2>1. KidCount(y)  BY <1>1, <1>3 DEF Own, KidCount, Busy
    <2>2. ~Blocked(y)  BY <1>3 DEF Blocked
    <2>3. ShellRec(env[t]) => ShellRec(y)  BY <1>3, <2>2 DEF ShellRec
    <2>4. ServerRec(env[t]) => ServerRec(y)  BY <1>3, <2>2 DEF ServerRec
    <2>5. SlotRec(env[t]) => SlotRec(y)  BY <1>1, <1>3, <2>2 DEF SlotRec, Busy
    <2> QED BY <1>1, <1>3, <2>1, <2>2, <2>3, <2>4, <2>5, Names DEF Own
  <1>5. Spawner(y) = Spawner(env[t]) /\ Commander(y) = Commander(env[t])
    BY <1>3 DEF Spawner, Commander, Busy
  <1>6. env[t].pc \notin {"got", "redirected", "ended"} => \A s : Fits(s, env[t]) => Fits(s, y)
    BY <1>3 DEF Fits, Open, Busy
  <1> HIDE DEF Own
  <1>7. Typed'
    <2>1. \A f \in Env : Own(f, env'[f])  BY <1>2, <1>4 DEF Typed
    <2> QED BY <1>2, <2>1 DEF Typed
  <1>8. ~In(queue, t)  BY <1>1 DEF Queued
  <1>9. /\ queue' \in Seq(Env) /\ Once(queue')
        /\ \A f \in Env : In(queue', f) <=> In(queue, f) \/ f = t
        /\ \A d, f \in Env : d # e /\ Before(queue, d, f) => Before(queue', d, f)
        /\ \A d \in Env : In(queue, d) /\ d # e => Before(queue', d, t)
    BY <1>8, GoAdds
  <1>10. Queued'
    <2>1. \A f \in Env : env'[f].status = "RUNNABLE" <=> env[f].status = "RUNNABLE" \/ f = t
      BY <1>1, <1>2, <1>3
    <2> QED BY <1>9, <2>1 DEF Queued
  <1>11. ASSUME NEW s \in Slot, Active(s)'
         PROVE  Active(s) /\ (s = e => x.pc # "die")
    <2>1. CASE s = e  BY <1>1, <1>2, <1>11, <2>1 DEF Active
    <2>2. CASE s = t  BY <1>1, <1>2, <1>3, <1>11, <2>2 DEF Active
    <2>3. CASE s # e /\ s # t
      <3>1. env'[s] = env[s]  BY <1>2, <2>3, Names
      <3> QED BY <1>11, <2>3, <3>1 DEF Active
    <2> QED BY <2>1, <2>2, <2>3
  <1>12. Calm
    <2>1. \A f \in Env : env'[f].gen = env[f].gen  BY <1>2, <1>3
    <2>2. ASSUME NEW s \in Slot, Active(s)'
          PROVE  /\ Active(s) /\ env'[s].parent = env[s].parent
                 /\ Spawner(env'[s]) => Spawner(env[s])
                 /\ Commander(env'[s]) => Commander(env[s])
      <3>1. CASE s = e  BY <1>2, <1>11, <2>2, <3>1
      <3>2. CASE s = t  BY <1>2, <1>3, <1>5, <1>11, <2>2, <3>2
      <3>3. CASE s # e /\ s # t  BY <1>2, <1>11, <2>2, <3>3, Names
      <3> QED BY <3>1, <3>2, <3>3
    <2> QED BY <2>1, <2>2 DEF Calm
  <1>13. ASSUME NEW f \in Env PROVE Holds(f)
    <2> SUFFICES ASSUME NEW s \in Slot, Active(s), Active(s)', env[s].parent = Id(f),
                        HasKid(env[f], Id(s)), Fits(env[s], env[f])
                 PROVE  HasKid(env'[f], Id(s)) /\ Fits(env[s], env'[f])
      BY DEF Holds
    <2>1. CASE f = e
      <3>1. Open(env[e])  BY <2>1 DEF Fits
      <3>2. HasKid(x, Id(s))  BY <2>1, <3>1 DEF HasKid
      <3> QED BY <1>2, <2>1, <3>1, <3>2
    <2>2. CASE f = t
      <3>1. HasKid(y, Id(s))  BY <1>3, <2>2 DEF HasKid
      <3>2. env[t].pc \notin {"got", "redirected", "ended"}  BY <1>11, <2>2
      <3> QED BY <1>2, <1>6, <2>2, <3>1, <3>2
    <2>3. CASE f # e /\ f # t  BY <1>2, <2>3
    <2> QED BY <2>1, <2>2, <2>3
  <1>14. Tree'  BY <1>12, <1>13, TreeStep
  <1>15. Turns'
    <2>1. env'[Shell].pc = env[Shell].pc  BY <1>2, <1>3, Names
    <2>2. ASSUME NEW s \in Slot, Early(env[s]), env'[Shell].pc \in {"status", "taken"}
          PROVE  Early(env'[s]) \/ Before(queue', Shell, s)
      <3>1. CASE s = e  BY <1>2, <2>2, <3>1
      <3>2. CASE s = t
        <4>1. env[Shell].status = "RUNNABLE"
          BY <2>1, <2>2, Names DEF Typed, Own, ShellRec, Rec, Blocked
        <4>2. In(queue, Shell)  BY <4>1, Names DEF Queued
        <4> QED BY <1>9, <3>2, <4>2, Names
      <3>3. CASE s # e /\ s # t  BY <1>2, <2>2, <3>3, Names
      <3> QED BY <3>1, <3>2, <3>3
    <2>3. \A s \in Slot : Before(queue, Shell, s) => Before(queue', Shell, s)
      BY <1>9, Names
    <2> QED BY <1>12, <2>1, <2>2, <2>3, TurnsStep
  <1> QED BY <1>7, <1>10, <1>12, <1>14, <1>15
-----------------------------------------------------------------------------
(***************************************************************************)
(* The actions.                                                            *)
(***************************************************************************)

\* The part of the invariant that the steps above keep.
Core == Typed /\ Queued /\ Tree /\ Served /\ Turns

\* A program and its record.
LEMMA Program1 ==
    ASSUME Core, queue # <<>>, NEW e \in Env, e = CPU
    PROVE  /\ env[e] \in Rec /\ env[e].status = "RUNNABLE" /\ env[e].recving = FALSE
           /\ ~Blocked(env[e]) /\ KidCount(env[e])
           /\ e = Shell => ShellRec(env[e])
           /\ e \in Slot => SlotRec(env[e]) /\ env[e].pc \in SlotPc
           /\ lost \subseteq Env /\ panicked = FALSE
  <1>1. /\ env[e] \in Rec /\ env[e].status = "RUNNABLE" /\ ~Blocked(env[e])
        /\ Own(e, env[e]) /\ lost \subseteq Env /\ panicked = FALSE
    BY Running DEF Core, Typed
  <1>2. env[e].recving = FALSE
    <2>1. env[e].recving \in BOOLEAN  BY <1>1 DEF Rec
    <2>2. ~env[e].recving  BY <1>1 DEF Own
    <2> QED BY <2>1, <2>2
  <1>3. e \in Slot => SlotRec(env[e]) /\ env[e].pc \in SlotPc
    BY <1>1, Names DEF Own, SlotRec
  <1> QED BY <1>1, <1>2, <1>3, Names DEF Own

\* The records with which a program may go on.
LEMMA OwnRunning ==
    ASSUME NEW e \in Env, e # Server, NEW x \in Rec, x.status = "RUNNABLE", x.recving = FALSE,
           KidCount(x), e = Shell => ShellRec(x),
           e \in Slot => /\ x.pc \in SlotPc
                         /\ Busy(x) => /\ x.reqs = 1
                                       /\ x.next \in {"spawned", "program", "failed", "return",
                                                      "builtin", "command", "send"}
    PROVE  Own(e, x)
  <1>1. ~Blocked(x) /\ ~x.recving  BY DEF Blocked
  <1>2. e \in Slot => SlotRec(x)  BY <1>1 DEF SlotRec
  <1> HIDE DEF ShellRec, SlotRec, KidCount, Blocked
  <1> QED BY <1>1, <1>2, Names DEF Own

\* A program that is not open goes on: fewer conditions.
LEMMA GoesOn ==
    ASSUME Core, queue # <<>>, NEW e \in Env, e = CPU, e # Server, NEW x \in Rec, Moves(e, x),
           Own(e, x), x.status = "RUNNABLE", x.gen = env[e].gen,
           env[e].pc \notin {"die", "await", "answer"}, ~Open(env[e]),
           e \in Slot => /\ x.parent = env[e].parent
                         /\ Spawner(x) => Spawner(env[e])
                         /\ Commander(x) => Commander(env[e])
                         /\ Early(env[e]) => Early(x),
           e = Shell => x.pc \notin {"status", "taken"},
           panicked' = panicked, lost' \subseteq Env
    PROVE  Core'
  <1>1. env[e].pc # "program"  BY DEF Open
  <1>2. \A s : ~Fits(s, env[e])  BY DEF Fits
  <1> HIDE DEF Rec, Early, Fits, HasKid, Spawner, Commander, Own, Open
  <1> QED BY <1>1, <1>2, MovesKeeps DEF Core

LEMMA RequestKeeps ==
    ASSUME Core, queue # <<>>, NEW e \in Env, e = CPU, e # Server, Request(e)
    PROVE  Core'
  <1>1. /\ env[e].pc = "request" /\ UNCHANGED <<lost, said, panicked>>
        /\ ipc_send(e, Id(Server), <<"request", 0>>, At(env[e], "await"))
    BY DEF Request
  <1>2. e \in Slot
    BY <1>1, Names, Program1 DEF ShellRec, ShellPc
  <1>3. /\ env[e] \in Rec /\ env[e].status = "RUNNABLE" /\ env[e].recving = FALSE
        /\ ~Blocked(env[e]) /\ KidCount(env[e]) /\ SlotRec(env[e])
        /\ lost \subseteq Env /\ panicked = FALSE
    BY <1>2, Program1
  <1>4. Id(Server)[1] = Server  BY Names, IdFacts DEF Core
  <1>5. CASE env[Server].recving
    <2>1. "await" \in Pc  BY DEF Pc, SlotPc
    <2> PICK x : x = At(env[e], "await")  OBVIOUS
    <2>2. /\ x \in Rec /\ x.status = "RUNNABLE" /\ x.gen = env[e].gen
          /\ x.parent = env[e].parent /\ x.recving = FALSE /\ x.next = env[e].next
          /\ x.reqs = env[e].reqs /\ x.kids = env[e].kids /\ x.pc = "await"
      BY <1>3, <2>1, AtRec
    <2>3. Own(e, x)
      <3>1. KidCount(x)  BY <1>1, <1>3, <2>2 DEF KidCount, Busy
      <3>2. x.pc \in SlotPc  BY <2>2 DEF SlotPc
      <3>3. Busy(x) => /\ x.reqs = 1
                       /\ x.next \in {"spawned", "program", "failed", "return", "builtin",
                                      "command", "send"}
        BY <1>1, <1>3, <2>2 DEF SlotRec, Busy
      <3> QED BY <1>2, <2>2, <3>1, <3>2, <3>3, Names, OwnRunning
    <2>4. <<"request", 0>> \in Msg  BY DEF Msg
    <2>5. /\ env' = Delivered(e, Server, <<"request", 0>>, [env EXCEPT ![e] = x])
          /\ Go(e, <<Server>>)
      BY <1>1, <1>4, <1>5 DEF ipc_send
    <2>6. PICK y \in Rec : Told(e, Server, <<"request", 0>>, x, y)
      BY <1>2, <2>2, <2>4, <2>5, Names, DeliveredFacts DEF Core
    <2>7. Blocked(env[Server]) /\ env[Server].pc = "reply"
      BY <1>5, Names DEF Core, Typed, Own, ServerRec
    <2>8. /\ Spawner(x) => Spawner(env[e])
          /\ Commander(x) => Commander(env[e])
          /\ Early(env[e]) => Early(x)
      BY <1>1, <2>2 DEF Spawner, Commander, Early, Busy
    <2>9. Open(env[e]) => /\ x.kids = env[e].kids
                          /\ \A s : Fits(s, env[e]) => Fits(s, x)
      BY <1>1, <2>2 DEF Open, Fits, Busy
    <2> HIDE DEF Msg
    <2>10. Typed' /\ Queued' /\ Tree' /\ Turns' /\ Calm
      BY <1>1, <1>2, <2>2, <2>3, <2>4, <2>5, <2>6, <2>7, <2>8, <2>9, Names, DeliverKeeps
         DEF Core
    <2>11. Served'
      <3>1. env'[Server].from = Id(e)  BY <2>6 DEF Told
      <3>2. Id(e)' = Id(e)  BY <1>2, <2>10, CalmIds, Names
      <3>3. Waits(e)'  BY <2>2, <2>6 DEF Told, Waits
      <3> QED BY <1>2, <3>1, <3>2, <3>3 DEF Served
    <2> QED BY <2>10, <2>11 DEF Core
  <1>6. CASE ~env[Server].recving
    <2>1. UNCHANGED env /\ Yields(e, <<>>)  BY <1>1, <1>4, <1>6 DEF ipc_send
    <2> QED BY <1>1, <1>2, <1>3, <2>1, Names, StayKeeps DEF Core
  <1> QED BY <1>5, <1>6

LEMMA AwaitKeeps ==
    ASSUME Core, queue # <<>>, NEW e \in Env, e = CPU, Await(e)
    PROVE  Core'
  <1>1. /\ env[e].pc = "await" /\ sys_ipc_recv(e, "answer") /\ UNCHANGED <<lost, panicked>>
    BY DEF Await
  <1>2. <<env[e].pc, "answer">> \in Receives  BY <1>1 DEF Receives
  <1> QED BY <1>1, <1>2, BlocksKeeps DEF Core

LEMMA AnswerKeeps ==
    ASSUME Core, queue # <<>>, NEW e \in Env, e = CPU, e # Server, Answer(e)
    PROVE  Core'
  <1>1. /\ env[e].pc = "answer" /\ UNCHANGED <<lost, said, panicked>>
        /\ Moves(e, Ask(env[e], env[e].reqs - 1, env[e].next))
    BY DEF Answer
  <1>2. e \in Slot
    BY <1>1, Names, Program1 DEF ShellRec, ShellPc
  <1>3. /\ env[e] \in Rec /\ env[e].status = "RUNNABLE" /\ env[e].recving = FALSE
        /\ ~Blocked(env[e]) /\ KidCount(env[e]) /\ SlotRec(env[e])
        /\ lost \subseteq Env /\ panicked = FALSE
    BY <1>2, Program1
  <1>4. /\ env[e].reqs = 1
        /\ env[e].next \in {"spawned", "program", "failed", "return", "builtin", "command", "send"}
    BY <1>1, <1>3 DEF SlotRec, Busy
  <1> PICK x : x = Ask(env[e], 0, env[e].next)  OBVIOUS
  <1>5. /\ x \in Rec /\ x.status = "RUNNABLE" /\ x.gen = env[e].gen
        /\ x.parent = env[e].parent /\ x.recving = FALSE
        /\ x.kids = env[e].kids /\ x.pc = env[e].next
    <2>1. env[e].next \in Pc  BY <1>4 DEF Pc, SlotPc
    <2> QED BY <1>3, <2>1, AskRec
  <1>6. Own(e, x)
    <2>1. KidCount(x)  BY <1>1, <1>3, <1>4, <1>5 DEF KidCount, Busy
    <2>2. x.pc \in SlotPc /\ ~Busy(x)  BY <1>4, <1>5 DEF SlotPc, Busy
    <2> QED BY <1>2, <1>5, <2>1, <2>2, Names, OwnRunning
  <1>7. /\ Spawner(x) => Spawner(env[e])
        /\ Commander(x) => Commander(env[e])
        /\ ~Early(env[e])
        /\ env[e].next = "program" => x.pc = "program"
    BY <1>1, <1>3, <1>4, <1>5 DEF Spawner, Commander, Early, Busy
  <1>8. \A s : /\ Fits(s, env[e]) => Fits(s, x)
               /\ HasKid(env[e], s) => HasKid(x, s)
    BY <1>1, <1>3, <1>4, <1>5 DEF Fits, Open, Busy, HasKid
  <1>9. Moves(e, x)  BY <1>1, <1>4
  <1>10. env[e].pc \notin {"die", "await", "program"}  BY <1>1
  <1> HIDE DEF Rec, Early, Fits, HasKid, Spawner, Commander, Own, Open
  <1> QED BY <1>1, <1>2, <1>3, <1>5, <1>6, <1>7, <1>8, <1>9, <1>10, Names, MovesKeeps DEF Core

LEMMA ListenKeeps ==
    ASSUME Core, queue # <<>>, Server = CPU, Listen
    PROVE  Core'
  <1>1. /\ env[Server].pc = "listen" /\ sys_ipc_recv(Server, "reply")
        /\ UNCHANGED <<lost, panicked>>
    BY DEF Listen
  <1>2. <<env[Server].pc, "reply">> \in Receives  BY <1>1 DEF Receives
  <1> QED BY <1>1, <1>2, Names, BlocksKeeps DEF Core

\* Who waits for the server is an env whose id is good.
LEMMA WaitsKnown ==
    ASSUME Core, NEW x \in Slot, Waits(x)
    PROVE  Known(Id(x)) /\ Id(x)[1] = x
  <1>1. Own(x, env[x]) /\ x \in Env  BY Names DEF Core, Typed
  <1>2. env[x].status # "FREE"  BY <1>1, Names DEF Own, SlotRec, Waits
  <1> QED BY <1>1, <1>2, IdFacts DEF Known, Core

LEMMA ReplyKeeps ==
    ASSUME Core, queue # <<>>, Server = CPU, Reply
    PROVE  Core'
  <1>1. /\ env[Server] \in Rec /\ env[Server].status = "RUNNABLE"
        /\ ~Blocked(env[Server]) /\ Own(Server, env[Server])
    BY Running DEF Core
  <1>2. env[Server].pc = "reply" /\ UNCHANGED lost  BY DEF Reply
  <1>3. PICK x \in Slot : env[Server].from = Id(x) /\ Waits(x)
    BY <1>1, <1>2 DEF Core, Served
  <1>4. Known(Id(x)) /\ Id(x)[1] = x  BY <1>3, WaitsKnown
  <1>5. /\ ipc_send(Server, Id(x), <<"answer", 0>>, At(env[Server], "listen"))
        /\ UNCHANGED panicked
    BY <1>3, <1>4 DEF Reply
  <1>6. CASE env[x].recving
    <2>1. "listen" \in Pc  BY DEF Pc
    <2> PICK z : z = At(env[Server], "listen")  OBVIOUS
    <2>2. /\ z \in Rec /\ z.status = "RUNNABLE" /\ z.gen = env[Server].gen
          /\ z.recving = env[Server].recving /\ z.kids = env[Server].kids /\ z.pc = "listen"
      BY <1>1, <2>1, AtRec
    <2>3. Own(Server, z)
      <3>1. KidCount(z)  BY <1>1, <1>2, <2>2 DEF Own, KidCount, Busy
      <3>2. ServerRec(z)
        BY <1>1, <2>2, Names DEF Own, ServerRec, Blocked
      <3>3. z.recving <=> Blocked(z)  BY <1>1, <2>2 DEF Own, Blocked
      <3> QED BY <3>1, <3>2, <3>3, Names DEF Own
    <2>4. <<"answer", 0>> \in Msg  BY DEF Msg
    <2>5. /\ env' = Delivered(Server, x, <<"answer", 0>>, [env EXCEPT ![Server] = z])
          /\ Go(Server, <<x>>)
      BY <1>4, <1>5, <1>6 DEF ipc_send
    <2>6. x \in Env /\ x # Server  BY Names
    <2>7. PICK y \in Rec : Told(Server, x, <<"answer", 0>>, z, y)
      BY <2>2, <2>4, <2>5, <2>6, Names, DeliveredFacts DEF Core
    <2>8. Blocked(env[x]) /\ SlotRec(env[x])
      BY <1>6, <2>6, Names DEF Core, Typed, Own
    <2>9. env[x].pc \in {"got", "redirected", "ended"} => NoKids(x)
      BY <1>3 DEF Waits
    <2>10. ~Open(env[Server])  BY <1>2 DEF Open, Busy
    <2> HIDE DEF Msg
    <2>11. Typed' /\ Queued' /\ Tree' /\ Turns' /\ Calm
      BY <1>1, <1>2, <1>5, <2>2, <2>3, <2>4, <2>5, <2>6, <2>7, <2>8, <2>9, <2>10, Names,
         DeliverKeeps DEF Core, NoKids
    <2>12. Served'  BY <2>2, <2>7 DEF Told, Served
    <2> QED BY <2>11, <2>12 DEF Core
  <1>7. CASE ~env[x].recving
    <2>1. UNCHANGED env /\ Yields(Server, <<>>)  BY <1>4, <1>5, <1>7 DEF ipc_send
    <2>2. lost' \subseteq Env  BY <1>2 DEF Core, Typed
    <2> QED BY <1>5, <2>1, <2>2, Names, StayKeeps DEF Core
  <1> QED BY <1>6, <1>7

\* A program at exit has a parent that has not heard of it, and no other child.
LEMMA SendFacts ==
    ASSUME Core, NEW e \in Slot, env[e].pc = "send"
    PROVE  \E d \in Env : /\ env[e].parent = Id(d) /\ Id(d)[1] = d /\ d # e /\ d # Server
                          /\ Known(Id(d)) /\ Open(env[d])
                          /\ Blocked(env[d]) =>
                               /\ env[d].pc \in {"answer", "ended", "got", "redirected"}
                               /\ \A s \in Slot : Active(s) /\ env[s].parent = Id(d) => s = e
  <1>1. e \in Env /\ Own(e, env[e])  BY Names DEF Core, Typed
  <1>2. Active(e)  BY <1>1, Names DEF Active, Own, SlotRec
  <1>3. PICK d \in Env : /\ env[e].parent = Id(d) /\ HasKid(env[d], Id(e))
                         /\ Fits(env[e], env[d])
    BY <1>2 DEF Core, Tree
  <1>4. Open(env[d])  BY <1>3 DEF Fits
  <1>5. d # e  BY <1>4 DEF Open, Busy
  <1>6. Own(d, env[d]) /\ env[d] \in Rec  BY DEF Core, Typed
  <1>7. d # Server  BY <1>4, <1>6, Names DEF Own, ServerRec, Open, Busy
  <1>8. env[d].status # "FREE"
    BY <1>4, <1>6, <1>7, Names DEF Own, ShellRec, SlotRec, Open, Busy
  <1>9. Known(Id(d)) /\ Id(d)[1] = d  BY <1>8, IdFacts DEF Known, Core
  <1>10. ASSUME Blocked(env[d]) PROVE env[d].pc \in {"answer", "ended", "got", "redirected"}
    BY <1>6, <1>7, <1>10, Names DEF Own, ShellRec, SlotRec
  <1>11. ASSUME Blocked(env[d]), NEW s \in Slot, Active(s), env[s].parent = Id(d)
         PROVE  s = e
    <2>1. HasKid(env[d], Id(s))  BY <1>11, ParentFacts DEF Core
    <2>2. Len(env[d].kids) <= 1  BY <1>6, <1>10, <1>11 DEF Own, KidCount
    <2>3. Len(env[d].kids) \in Nat  BY <1>6, LenProperties DEF Rec
    <2>4. Id(s) = Id(e)  BY <1>3, <2>1, <2>2, <2>3 DEF HasKid
    <2> QED BY <2>4, IdFacts, Names DEF Core
  <1> QED BY <1>3, <1>4, <1>5, <1>7, <1>9, <1>10, <1>11

LEMMA SendKeeps ==
    ASSUME Core, ShellHears, queue # <<>>, NEW e \in Env, e = CPU, e # Server, Send(e)
    PROVE  Core' /\ ShellHears'
  <1>1. env[e].pc = "send" /\ UNCHANGED <<said, panicked>>  BY DEF Send
  <1>2. e \in Slot
    BY <1>1, Names, Program1 DEF ShellRec, ShellPc
  <1>3. /\ env[e] \in Rec /\ env[e].status = "RUNNABLE" /\ env[e].recving = FALSE
        /\ ~Blocked(env[e]) /\ KidCount(env[e]) /\ SlotRec(env[e])
        /\ lost \subseteq Env /\ panicked = FALSE
    BY <1>2, Program1
  <1>4. PICK d \in Env :
          /\ env[e].parent = Id(d) /\ Id(d)[1] = d /\ d # e /\ d # Server
          /\ Known(Id(d)) /\ Open(env[d])
          /\ Blocked(env[d]) => /\ env[d].pc \in {"answer", "ended", "got", "redirected"}
                                /\ \A s \in Slot :
                                     Active(s) /\ env[s].parent = Id(d) => s = e
    BY <1>1, <1>2, SendFacts
  <1>5. "die" \in Pc  BY DEF Pc, SlotPc
  <1> PICK x : x = At(env[e], "die")  OBVIOUS
  <1>6. /\ x \in Rec /\ x.status = "RUNNABLE" /\ x.gen = env[e].gen
        /\ x.parent = env[e].parent /\ x.recving = FALSE /\ x.kids = env[e].kids /\ x.pc = "die"
    BY <1>3, <1>5, AtRec
  <1>7. Own(e, x)
    <2>1. KidCount(x)  BY <1>1, <1>3, <1>6 DEF KidCount, Busy
    <2>2. x.pc \in SlotPc /\ ~Busy(x)  BY <1>6 DEF SlotPc, Busy
    <2> QED BY <1>2, <1>6, <2>1, <2>2, Names, OwnRunning
  <1>8. /\ ~Spawner(x) /\ ~Commander(x) /\ ~Early(env[e]) /\ ~Open(env[e])
    BY <1>1, <1>6 DEF Spawner, Commander, Early, Open, Busy
  <1>9. env[d].recving <=> Blocked(env[d])  BY DEF Core, Typed, Own
  <1>10. CASE env[d].recving
    <2>1. /\ env' = Delivered(e, d, env[e].r, [env EXCEPT ![e].pc = "die"])
          /\ Go(e, <<d>>) /\ UNCHANGED lost
      BY <1>4, <1>10 DEF Send
    <2>2. [env EXCEPT ![e].pc = "die"] = [env EXCEPT ![e] = x]
      <3> PICK w : w = env[e]  OBVIOUS
      <3>1. x = [w EXCEPT !.pc = "die"]  BY DEF At
      <3> QED BY <1>2, <3>1, Names DEF Core, Typed
    <2>3. env[e].r \in Msg  BY <1>3 DEF Rec
    <2>4. PICK y \in Rec : Told(e, d, env[e].r, x, y)
      BY <1>4, <1>6, <2>1, <2>2, <2>3, DeliveredFacts DEF Core
    <2>5. Blocked(env[d])  BY <1>9, <1>10
    <2> PICK v : v = env[e].r  OBVIOUS
    <2>6. v \in Msg /\ Told(e, d, v, x, y)  BY <2>3, <2>4
    <2>7. \A s \in Slot : Active(s) /\ env[s].parent = Id(d) => s = e /\ x.pc = "die"
      BY <1>4, <1>6, <2>5
    <2> HIDE DEF Msg, Rec, Own, Open, Early, Spawner, Commander
    <2>8. Typed' /\ Queued' /\ Tree' /\ Turns' /\ Calm
      BY <1>1, <1>2, <1>6, <1>7, <1>8, <2>1, <2>5, <2>6, <2>7, Names,
         DeliverKeeps DEF Core
    <2>9. ASSUME NEW s \in Slot, Waits(s) PROVE Waits(s)'
      <3>1. s # e  BY <1>1, <2>9 DEF Waits
      <3>2. CASE s # d
        <4>1. env'[s] = env[s]  BY <2>6, <3>1, <3>2, Names DEF Told
        <4> QED BY <2>8, <2>9, <4>1, Names, WaitsStep
      <3>3. CASE s = d
        <4>1. Active(e)  BY <1>1, <1>2, <1>3 DEF Active
        <4>2. ~NoKids(d)  BY <1>2, <1>4, <4>1 DEF NoKids
        <4>3. env[d].pc = "answer"  BY <1>4, <2>5, <2>9, <3>3, <4>2 DEF Waits
        <4>4. env[d].next = "program"  BY <1>4, <4>3 DEF Open, Busy
        <4>5. env'[d].pc = "answer" /\ env'[d].next = "program"
          BY <2>6, <4>3, <4>4 DEF Told
        <4>6. NoKids(d)'
          <5> SUFFICES ASSUME NEW u \in Slot, Active(u)', env'[u].parent = Id(d)' PROVE FALSE
            BY DEF NoKids
          <5>1. Active(u) /\ env[u].parent = Id(d)  BY <2>8, CalmIds DEF Calm
          <5>2. u = e  BY <2>7, <5>1
          <5>3. env'[e].pc = "die"  BY <1>6, <2>6 DEF Told
          <5> QED BY <5>2, <5>3 DEF Active
        <4> QED BY <3>3, <4>5, <4>6 DEF Waits
      <3> QED BY <3>2, <3>3
    <2>10. env'[Server] = env[Server]  BY <1>4, <2>6, Names DEF Told
    <2>11. Served'  BY <2>8, <2>9, <2>10, ServedStep DEF Core
    <2>12. Line' = Line
      <3>1. Shell # e  BY <1>2, Names
      <3> QED BY <2>6, <3>1, Names DEF Told, Line
    <2> QED BY <2>1, <2>8, <2>11, <2>12 DEF Core, ShellHears
  <1>11. CASE ~env[d].recving
    <2>1. Moves(e, x) /\ lost' = lost \cup {d}  BY <1>4, <1>11 DEF Send
    <2>2. Core'
      <3>1. lost' \subseteq Env  BY <1>3, <2>1
      <3> HIDE DEF Msg, Rec, Own, Open, Early, Spawner, Commander
      <3> QED BY <1>1, <1>2, <1>3, <1>6, <1>7, <1>8, <2>1, <3>1, Names, GoesOn
    <2>3. Line' = Line
      <3>1. Shell # e  BY <1>2, Names
      <3> QED BY <2>1, <3>1, Names DEF Moves, Line, Core, Typed
    <2>4. ASSUME d = Shell PROVE Line = "builtin|"
      <3>1. ~Blocked(env[Shell]) /\ ShellRec(env[Shell])
        BY <1>9, <1>11, <2>4, Names DEF Core, Typed, Own
      <3>2. env[Shell].pc \notin {"status", "taken"}
        <4> SUFFICES ASSUME env[Shell].pc \in {"status", "taken"} PROVE FALSE  OBVIOUS
        <4>1. Active(e)  BY <1>1, <1>2, <1>3 DEF Active
        <4>2. Before(queue, Shell, e)  BY <1>2, <1>4, <1>8, <2>4, <4>1 DEF Core, Turns
        <4> QED BY <4>2, Running, Names DEF Core
      <3>3. env[Shell].pc \in {"right", "waitleft", "waitright"}
        BY <1>4, <2>4, <3>1, <3>2 DEF Open, ShellRec, ShellPc, Busy
      <3> QED BY <3>1, <3>3 DEF ShellRec, Line
    <2> QED BY <2>1, <2>2, <2>3, <2>4 DEF ShellHears
  <1> QED BY <1>10, <1>11

\* The line stays as it is, so what was lost before was lost rightly.
LEMMA MovesLine ==
    ASSUME Core, NEW e \in Env, NEW x, Moves(e, x), e = Shell => x.next = env[Shell].next
    PROVE  Line' = Line
  BY Names DEF Moves, Line, Core, Typed

LEMMA HearsStep ==
    ASSUME ShellHears, Line' = Line, lost' = lost
    PROVE  ShellHears'
  BY DEF ShellHears

\* A slot that is not open goes on.
LEMMA SlotGoesOn ==
    ASSUME Core, ShellHears, queue # <<>>, NEW e \in Slot, e = CPU, NEW x \in Rec, Moves(e, x),
           KidCount(x), x.pc \in SlotPc,
           Busy(x) => x.reqs = 1 /\ x.next \in {"spawned", "program", "failed", "return",
                                                "builtin", "command", "send"},
           x.status = env[e].status, x.gen = env[e].gen, x.parent = env[e].parent,
           x.recving = env[e].recving,
           env[e].pc \notin {"die", "await", "answer"}, ~Open(env[e]),
           Spawner(x) => Spawner(env[e]),
           Commander(x) => Commander(env[e]),
           Early(env[e]) => Early(x),
           UNCHANGED <<lost, panicked>>
    PROVE  Core' /\ ShellHears'
  <1>1. e \in Env /\ e # Shell /\ e # Server  BY Names
  <1>2. /\ env[e].status = "RUNNABLE" /\ env[e].recving = FALSE /\ lost \subseteq Env
    BY <1>1, Program1
  <1>3. Own(e, x)  BY <1>1, <1>2, OwnRunning
  <1>4. Line' = Line  BY <1>1, MovesLine
  <1> HIDE DEF Rec, Own, Open, Early, Spawner, Commander, KidCount, Busy
  <1>5. Core'  BY <1>1, <1>2, <1>3, GoesOn
  <1> QED BY <1>4, <1>5, HearsStep

\* What the rest of this part needs of a slot that runs.
LEMMA SlotFacts ==
    ASSUME Core, queue # <<>>, NEW e \in Env, e = CPU, e # Server, env[e].pc \notin ShellPc
    PROVE  /\ e \in Slot
           /\ env[e] \in Rec /\ env[e].status = "RUNNABLE" /\ env[e].recving = FALSE
           /\ ~Blocked(env[e]) /\ KidCount(env[e]) /\ SlotRec(env[e])
           /\ lost \subseteq Env /\ panicked = FALSE
  <1>1. e \in Slot  BY Names, Program1 DEF ShellRec
  <1> QED BY <1>1, Program1

LEMMA DestroyStep ==
    ASSUME Core, ShellHears, queue # <<>>, NEW e \in Env, e = CPU, e # Server, env_destroy(e)
    PROVE  Core' /\ ShellHears'
  <1>1. env[e].pc = "die"  BY DEF env_destroy
  <1>2. e \in Slot  BY <1>1, SlotFacts DEF ShellPc
  <1>3. Core'  BY <1>2, DestroyKeeps DEF Core
  <1>4. Line' = Line /\ lost' = lost
    BY <1>2, Names DEF env_destroy, Line, Core, Typed
  <1> QED BY <1>3, <1>4, HearsStep

LEMMA SpawnKeeps ==
    ASSUME Core, ShellHears, queue # <<>>, NEW e \in Env, e = CPU, e # Server, Spawn(e)
    PROVE  Core' /\ ShellHears'
  <1>1. /\ env[e].pc = "spawn" /\ UNCHANGED <<lost, said, panicked>>
        /\ Moves(e, Ask(env[e], 1, "spawned"))
    BY DEF Spawn
  <1>2. /\ e \in Slot /\ env[e] \in Rec /\ ~Blocked(env[e]) /\ KidCount(env[e])
    BY <1>1, SlotFacts DEF ShellPc
  <1> PICK x : x = Ask(env[e], 1, "spawned")  OBVIOUS
  <1>3. /\ x \in Rec /\ x.status = env[e].status /\ x.gen = env[e].gen
        /\ x.parent = env[e].parent /\ x.recving = env[e].recving /\ x.kids = env[e].kids
        /\ x.pc = "request" /\ x.next = "spawned" /\ x.reqs = 1
    <2>1. "spawned" \in Pc  BY DEF Pc, SlotPc
    <2> QED BY <1>2, <2>1, AskRec
  <1>4. /\ KidCount(x) /\ x.pc \in SlotPc /\ Spawner(env[e]) /\ ~Commander(x) /\ Early(x)
        /\ ~Open(env[e])
    BY <1>1, <1>2, <1>3 DEF KidCount, SlotPc, Spawner, Commander, Early, Open, Busy
  <1> HIDE DEF Rec, Open, Early, Spawner, Commander, KidCount, Busy
  <1> QED BY <1>1, <1>2, <1>3, <1>4, SlotGoesOn

\* exit: the program closes its descriptors and then sends.
LEMMA ExitsKeeps ==
    ASSUME Core, ShellHears, queue # <<>>, NEW e \in Env, e = CPU, e # Server,
           env[e].pc \in {"ended", "failed", "return", "builtin"},
           NEW r \in Msg, Moves(e, Exits(env[e], r)), UNCHANGED <<lost, panicked>>
    PROVE  Core' /\ ShellHears'
  <1>1. /\ e \in Slot /\ env[e] \in Rec /\ ~Blocked(env[e]) /\ KidCount(env[e])
    BY SlotFacts DEF ShellPc
  <1> PICK x : x = Exits(env[e], r)  OBVIOUS
  <1>2. /\ x \in Rec /\ x.status = env[e].status /\ x.gen = env[e].gen
        /\ x.parent = env[e].parent /\ x.recving = env[e].recving /\ x.kids = env[e].kids
        /\ x.pc = "send" \/ (x.pc = "request" /\ x.next = "send" /\ x.reqs = 1)
    BY <1>1, ExitsRec
  <1>3. /\ KidCount(x) /\ x.pc \in SlotPc /\ ~Spawner(x) /\ ~Commander(x) /\ ~Early(env[e])
        /\ ~Open(env[e]) /\ env[e].pc \notin {"die", "await", "answer"}
        /\ Busy(x) => x.reqs = 1 /\ x.next = "send"
    BY <1>1, <1>2 DEF KidCount, SlotPc, Spawner, Commander, Early, Open, Busy
  <1> HIDE DEF Rec, Open, Early, Spawner, Commander, KidCount, Busy
  <1> QED BY <1>1, <1>2, <1>3, SlotGoesOn

LEMMA ExitChildKeeps ==
    ASSUME Core, ShellHears, queue # <<>>, NEW e \in Env, e = CPU, e # Server, ExitChild(e)
    PROVE  Core' /\ ShellHears'
  <1>1. env[e].pc \in {"ended", "failed"} /\ UNCHANGED <<lost, panicked>>  BY DEF ExitChild
  <1>2. env[e].value \in Msg  BY Program1 DEF Rec
  <1>3. \A r \in Ended("none") : r \in Msg  BY DEF Ended, Msg
  <1>4. PICK r \in Msg : Moves(e, Exits(env[e], r))  BY <1>2, <1>3 DEF ExitChild
  <1> HIDE DEF Msg
  <1> QED BY <1>1, <1>4, ExitsKeeps

LEMMA ReturnKeeps ==
    ASSUME Core, ShellHears, queue # <<>>, NEW e \in Env, e = CPU, e # Server,
           Return(e) \/ Builtin(e)
    PROVE  Core' /\ ShellHears'
  <1>1. env[e].pc \in {"return", "builtin"} /\ UNCHANGED <<lost, panicked>>
    BY DEF Return, Builtin
  <1>2. \A r \in Ended("program") \cup Ended("builtin") : r \in Msg  BY DEF Ended, Msg
  <1>3. PICK r \in Msg : Moves(e, Exits(env[e], r))  BY <1>2 DEF Return, Builtin
  <1> HIDE DEF Msg
  <1> QED BY <1>1, <1>3, ExitsKeeps

LEMMA MainKeeps ==
    ASSUME Core, ShellHears, queue # <<>>, NEW e \in Env, e = CPU, e # Server, Main(e)
    PROVE  Core' /\ ShellHears'
  <1>1. env[e].pc = "main" /\ UNCHANGED <<lost, said, panicked>>  BY DEF Main
  <1>2. /\ e \in Slot /\ env[e] \in Rec /\ ~Blocked(env[e]) /\ KidCount(env[e])
    BY <1>1, SlotFacts DEF ShellPc
  <1>3. "return" \in Pc  BY DEF Pc, SlotPc
  <1>4. PICK x : Moves(e, x) /\ (x = Ask(env[e], 1, "return") \/ x = At(env[e], "return"))
    BY DEF Main
  <1>5. /\ x \in Rec /\ x.status = env[e].status /\ x.gen = env[e].gen
        /\ x.parent = env[e].parent /\ x.recving = env[e].recving /\ x.kids = env[e].kids
        /\ x.pc = "return" \/ (x.pc = "request" /\ x.next = "return" /\ x.reqs = 1)
    <2> HIDE DEF Rec, Pc
    <2>1. CASE x = Ask(env[e], 1, "return")  BY <1>2, <1>3, <2>1, AskRec
    <2>2. CASE x = At(env[e], "return")  BY <1>2, <1>3, <2>2, AtRec
    <2> QED BY <1>4, <2>1, <2>2
  <1>6. /\ KidCount(x) /\ x.pc \in SlotPc /\ ~Spawner(x) /\ ~Commander(x) /\ ~Early(env[e])
        /\ ~Open(env[e])
        /\ Busy(x) => x.reqs = 1 /\ x.next = "return"
    BY <1>1, <1>2, <1>5 DEF KidCount, SlotPc, Spawner, Commander, Early, Open, Busy
  <1> HIDE DEF Rec, Open, Early, Spawner, Commander, KidCount, Busy
  <1> QED BY <1>1, <1>2, <1>4, <1>5, <1>6, SlotGoesOn

LEMMA OpenFileKeeps ==
    ASSUME Core, ShellHears, queue # <<>>, NEW e \in Env, e = CPU, e # Server, OpenFile(e)
    PROVE  Core' /\ ShellHears'
  <1>1. env[e].pc \in {"openbuiltin", "opencommand"} /\ UNCHANGED <<lost, said, panicked>>
    BY DEF OpenFile
  <1>2. /\ e \in Slot /\ env[e] \in Rec /\ ~Blocked(env[e]) /\ KidCount(env[e])
    BY <1>1, SlotFacts DEF ShellPc
  <1> PICK n : n = IF env[e].pc = "openbuiltin" THEN "builtin" ELSE "command"  OBVIOUS
  <1>3. n \in Pc /\ n \in {"builtin", "command"}  BY DEF Pc, SlotPc
  <1> PICK y : y = Ask(env[e], 1, n)  OBVIOUS
  <1>4. /\ y \in Rec /\ y.status = env[e].status /\ y.gen = env[e].gen
        /\ y.parent = env[e].parent /\ y.recving = env[e].recving /\ y.kids = env[e].kids
        /\ y.pc = "request" /\ y.next = n /\ y.reqs = 1
    BY <1>2, <1>3, AskRec
  <1> PICK x : x = [y EXCEPT !.files = 1]  OBVIOUS
  <1>5. /\ x \in Rec /\ x.status = env[e].status /\ x.gen = env[e].gen
        /\ x.parent = env[e].parent /\ x.recving = env[e].recving /\ x.kids = env[e].kids
        /\ x.pc = "request" /\ x.next = n /\ x.reqs = 1
    BY <1>4 DEF Rec
  <1>6. Moves(e, x)  BY DEF OpenFile
  <1>7. /\ x.pc \in SlotPc /\ KidCount(x) /\ ~Spawner(x) /\ Early(x)
        /\ Commander(x) => Commander(env[e])
        /\ ~Open(env[e]) /\ env[e].pc \notin {"die", "await", "answer"}
        /\ Busy(x) => x.reqs = 1 /\ x.next \in {"builtin", "command"}
    <2>1. ~Open(env[e]) /\ env[e].pc \notin {"die", "await", "answer"}
      BY <1>1 DEF Open, Busy
    <2>2. ~Spawner(x) /\ Early(x) /\ x.pc \in SlotPc
      BY <1>3, <1>5 DEF Spawner, Early, Busy, SlotPc
    <2>3. Commander(x) => Commander(env[e])
      BY <1>1, <1>3, <1>5 DEF Commander, Busy
    <2>4. KidCount(x)
      <3>1. CASE env[e].pc = "openbuiltin"
        <4>1. n = "builtin"  BY <3>1
        <4> QED BY <1>2, <1>5, <3>1, <4>1 DEF KidCount, Busy
      <3>2. CASE env[e].pc = "opencommand"  BY <1>2, <1>3, <1>5, <3>2 DEF KidCount, Busy
      <3> QED BY <1>1, <3>1, <3>2
    <2> QED BY <1>3, <1>5, <2>1, <2>2, <2>3, <2>4
  <1> HIDE DEF Rec, Open, Early, Spawner, Commander, KidCount, Busy
  <1> QED BY <1>1, <1>2, <1>5, <1>6, <1>7, SlotGoesOn

\* The fork of a pipeline that failed is a child with no id.
LEMMA KnownKid ==
    ASSUME Core, NEW s \in Slot, Active(s)
    PROVE  Known(Id(s))
  <1>1. s \in Env  BY Names
  <1> QED BY <1>1, IdFacts DEF Known, Active, Core

\* Where execute_command ends.
LEMMA DoneRec ==
    ASSUME NEW e \in Env, NEW x \in Rec
    PROVE  /\ Done(e, x) \in Rec
           /\ Done(e, x).status = x.status /\ Done(e, x).gen = x.gen
           /\ Done(e, x).parent = x.parent /\ Done(e, x).recving = x.recving
           /\ Done(e, x).kids = x.kids /\ Done(e, x).r = x.r
           /\ e = Shell => /\ Done(e, x).pc = "prompt" /\ Done(e, x).next = x.next
                           /\ Done(e, x).files = x.files
           /\ e # Shell => Done(e, x).pc = "send" \/
                (Done(e, x).pc = "request" /\ Done(e, x).next = "send" /\ Done(e, x).reqs = 1)
  <1>1. CASE e = Shell
    <2>1. "prompt" \in Pc  BY DEF Pc, ShellPc
    <2>2. Done(e, x) = At(x, "prompt")  BY <1>1 DEF Done
    <2> HIDE DEF Rec
    <2> QED BY <1>1, <2>1, <2>2, AtRec
  <1>2. CASE e # Shell
    <2> PICK y : y = [x EXCEPT !.files = 0]  OBVIOUS
    <2>1. /\ y \in Rec /\ y.status = x.status /\ y.gen = x.gen /\ y.parent = x.parent
          /\ y.recving = x.recving /\ y.kids = x.kids /\ y.r = x.r
      BY DEF Rec
    <2>2. x.files \in {0, 1} /\ "send" \in Pc  BY DEF Rec, Pc, SlotPc
    <2>3. Done(e, x) = Ask(y, x.files, "send")  BY <1>2 DEF Done
    <2>4. \E n \in {0, 1}, w \in Rec :
            /\ Done(e, x) = Ask(w, n, "send")
            /\ w.status = x.status /\ w.gen = x.gen /\ w.parent = x.parent
            /\ w.recving = x.recving /\ w.kids = x.kids /\ w.r = x.r
      <3> HIDE DEF Rec
      <3> QED BY <2>1, <2>2, <2>3
    <2>5. PICK n \in {0, 1}, w \in Rec :
            /\ Done(e, x) = Ask(w, n, "send")
            /\ w.status = x.status /\ w.gen = x.gen /\ w.parent = x.parent
            /\ w.recving = x.recving /\ w.kids = x.kids /\ w.r = x.r
      BY <2>4
    <2> HIDE DEF Rec
    <2>6. /\ Ask(w, n, "send") \in Rec
          /\ Ask(w, n, "send").status = w.status /\ Ask(w, n, "send").gen = w.gen
          /\ Ask(w, n, "send").parent = w.parent /\ Ask(w, n, "send").recving = w.recving
          /\ Ask(w, n, "send").kids = w.kids /\ Ask(w, n, "send").r = w.r
          /\ n = 0 => Ask(w, n, "send").pc = "send"
          /\ n = 1 => /\ Ask(w, n, "send").pc = "request" /\ Ask(w, n, "send").next = "send"
                      /\ Ask(w, n, "send").reqs = 1
      BY <2>2, AskRec
    <2> QED BY <1>2, <2>5, <2>6
  <1> QED BY <1>1, <1>2

\* What the rest of this part needs of whoever runs commands.
LEMMA CommanderFacts ==
    ASSUME Core, queue # <<>>, NEW e \in Env, e = CPU, e # Server
    PROVE  /\ env[e] \in Rec /\ env[e].status = "RUNNABLE" /\ env[e].recving = FALSE
           /\ ~Blocked(env[e]) /\ KidCount(env[e])
           /\ lost \subseteq Env /\ panicked = FALSE
           /\ e = Shell => ShellRec(env[e])
           /\ e # Shell => e \in Slot /\ SlotRec(env[e]) /\ env[e].pc \in SlotPc
  BY Program1, Names

\* The command is done: the shell is at the prompt again, another env exits.
LEMMA EndKeeps ==
    ASSUME Core, ShellHears, queue # <<>>, NEW e \in Env, e = CPU, e # Server,
           env[e].pc \in {"command", "wait", "redirect", "redirected"},
           NEW x \in Rec, Moves(e, x), x.status = env[e].status, x.gen = env[e].gen,
           x.parent = env[e].parent, x.recving = env[e].recving, Len(x.kids) <= 1,
           e = Shell => x.pc = "prompt" /\ x.next = env[e].next /\ x.files = env[e].files,
           e # Shell => x.pc = "send" \/ (x.pc = "request" /\ x.next = "send" /\ x.reqs = 1),
           UNCHANGED <<lost, panicked>>
    PROVE  Core' /\ ShellHears'
  <1>1. /\ env[e] \in Rec /\ env[e].status = "RUNNABLE" /\ env[e].recving = FALSE
        /\ ~Blocked(env[e]) /\ lost \subseteq Env
        /\ e = Shell => ShellRec(env[e])
        /\ e # Shell => e \in Slot
    BY CommanderFacts
  <1>3. KidCount(x)
    <2>1. x.pc \in {"prompt", "send", "request"} /\ (x.pc = "request" => x.next = "send")
      OBVIOUS
    <2> QED BY <2>1 DEF KidCount, Busy
  <1>4. e = Shell => ShellRec(x)
    BY <1>1 DEF ShellRec, ShellPc, Blocked
  <1>5. e # Shell => /\ x.pc \in SlotPc
                     /\ Busy(x) => x.reqs = 1 /\ x.next = "send"
    BY DEF SlotPc, Busy
  <1>6. Own(e, x)
    <2> HIDE DEF Rec, KidCount, ShellRec, SlotPc
    <2> QED BY <1>1, <1>3, <1>4, <1>5, Names, OwnRunning
  <1>7. e # Shell => ~Spawner(x) /\ ~Commander(x) /\ ~Early(env[e])
    BY DEF Spawner, Commander, Early, Busy
  <1>8. ~Open(env[e]) /\ env[e].pc \notin {"die", "await", "answer"}
    BY <1>1 DEF Open, Busy
  <1>9. x.pc \notin {"status", "taken"}  OBVIOUS
  <1>10. Line' = Line  BY MovesLine
  <1> HIDE DEF Rec, Open, Early, Spawner, Commander, KidCount, Busy, Own
  <1>11. Core'
    <2>1. panicked' = panicked /\ lost' \subseteq Env  BY <1>1
    <2>2. e \in Slot => e # Shell  BY Names
    <2> QED BY <1>1, <1>6, <1>7, <1>8, <1>9, <2>1, <2>2, GoesOn
  <1> QED BY <1>10, <1>11, HearsStep

LEMMA WaitCommandKeeps ==
    ASSUME Core, ShellHears, queue # <<>>, NEW e \in Env, e = CPU, e # Server, WaitCommand(e)
    PROVE  Core' /\ ShellHears'
  <1>1. env[e].pc = "wait" /\ UNCHANGED <<lost, said, panicked>>  BY DEF WaitCommand, Wait
  <1>2. /\ env[e] \in Rec /\ KidCount(env[e]) /\ lost \subseteq Env
    BY CommanderFacts
  <1>3. CASE Known(Head(env[e].kids))
    <2>1. UNCHANGED env /\ Yields(e, <<>>)  BY <1>3 DEF WaitCommand, Wait
    <2>2. Core'  BY <1>1, <1>2, <2>1, StayKeeps DEF Core
    <2>3. Line' = Line  BY <2>1 DEF Line
    <2> QED BY <1>1, <2>2, <2>3, HearsStep
  <1>4. CASE ~Known(Head(env[e].kids))
    <2> PICK z : z = Done(e, env[e])  OBVIOUS
    <2>1. z \in Rec /\ z.kids = env[e].kids  BY <1>2, DoneRec
    <2>2. Moves(e, [z EXCEPT !.kids = Tail(z.kids)])  BY <1>4 DEF WaitCommand, Wait
    <2> PICK k : k = Tail(env[e].kids)  OBVIOUS
    <2>3. k \in Seq(Ids \cup {NULL}) /\ Len(k) = 0
      <3>1. Len(env[e].kids) = 1  BY <1>1, <1>2 DEF KidCount
      <3>2. env[e].kids \in Seq(Ids \cup {NULL})  BY <1>2 DEF Rec
      <3>3. env[e].kids # <<>>  BY <3>1, EmptySeq
      <3> QED BY <3>1, <3>2, <3>3, HeadTailProperties
    <2>4. PICK x : x = [z EXCEPT !.kids = k]  OBVIOUS
    <2>5. /\ x \in Rec /\ x.status = z.status /\ x.gen = z.gen /\ x.parent = z.parent
          /\ x.recving = z.recving /\ x.pc = z.pc /\ x.next = z.next /\ x.files = z.files
          /\ x.reqs = z.reqs /\ x.kids = k
      BY <2>1, <2>3, <2>4 DEF Rec
    <2>6. Moves(e, x) /\ Len(x.kids) <= 1  BY <2>1, <2>2, <2>3, <2>4, <2>5
    <2> HIDE DEF Rec
    <2>7. /\ z.status = env[e].status /\ z.gen = env[e].gen
          /\ z.parent = env[e].parent /\ z.recving = env[e].recving
          /\ e = Shell => z.pc = "prompt" /\ z.next = env[e].next /\ z.files = env[e].files
          /\ e # Shell => z.pc = "send" \/ (z.pc = "request" /\ z.next = "send" /\ z.reqs = 1)
      BY <1>2, DoneRec
    <2>8. /\ x.status = env[e].status /\ x.gen = env[e].gen
          /\ x.parent = env[e].parent /\ x.recving = env[e].recving
          /\ e = Shell => x.pc = "prompt" /\ x.next = env[e].next /\ x.files = env[e].files
          /\ e # Shell => x.pc = "send" \/ (x.pc = "request" /\ x.next = "send" /\ x.reqs = 1)
      BY <2>5, <2>7
    <2>9. UNCHANGED <<lost, panicked>> /\ x \in Rec  BY <1>1, <2>5
    <2> QED BY <1>1, <2>6, <2>8, <2>9, EndKeeps
  <1> QED BY <1>3, <1>4

\* A fork by an env without children: y is the parent's record after it, with the child listed.
LEMMA ForkKeeps ==
    ASSUME Core, ShellHears, queue # <<>>, NEW e \in Env, e = CPU, e # Server,
           NEW c \in FreeSlots, NEW x \in Rec, NEW pc \in SlotPc, NEW files \in {0, 1},
           Born(e, c, x, pc, files), UNCHANGED <<lost, panicked>>,
           ~Open(env[e]), env[e].pc \notin {"die", "await", "answer"}, ~Early(env[e]),
           x.status = env[e].status, x.gen = env[e].gen, x.parent = env[e].parent,
           x.recving = env[e].recving, Len(x.kids) = 0,
           e = Shell => /\ x.next = env[e].next /\ x.files = env[e].files
                        /\ \/ x.pc = "status" /\ x.next = "run" /\ pc = "spawn"
                           \/ /\ x.pc = "taken" /\ x.next \in {"run>", "builtin>"}
                              /\ pc \in {"opencommand", "openbuiltin"}
                           \/ x.pc = "right" /\ x.next = "builtin|" /\ pc = "builtin",
           e # Shell => \/ x.pc = "status" /\ pc = "spawn" /\ Commander(env[e])
                        \/ x.pc = "program" /\ pc = "main" /\ Spawner(env[e])
                        \/ /\ x.pc = "request" /\ x.next = "program" /\ x.reqs = 1
                           /\ pc = "main" /\ Spawner(env[e])
    PROVE  Core' /\ ShellHears'
  <1>1. /\ env[e].status = "RUNNABLE" /\ env[e].recving = FALSE /\ pc \in Pc
        /\ e = Shell => ShellRec(env[e])
        /\ e # Shell => e \in Slot
    BY CommanderFacts DEF Pc
  <1>2. Typed  BY DEF Core
  <1>3a. PICK g \in 0 .. GenMod - 1, y \in Rec, z \in Rec : Forked(e, c, x, pc, files, g, y, z)
    <2> HIDE DEF Rec, Pc, SlotPc, FreeSlots, Open, Early, Spawner, Commander
    <2> QED BY <1>1, <1>2, BornFacts
  <1>3. /\ env' \in [Env -> Rec] /\ env'[e] = y /\ env'[c] = z /\ c # e
        /\ \A f \in Env \ {e, c} : env'[f] = env[f]
        /\ Go(e, <<c>>)
        /\ y.kids = Append(x.kids, <<c, g>>)
        /\ y.status = x.status /\ y.gen = x.gen /\ y.parent = x.parent
        /\ y.recving = x.recving /\ y.pc = x.pc /\ y.next = x.next /\ y.reqs = x.reqs
        /\ y.files = x.files
        /\ z.status = "RUNNABLE" /\ z.gen = g /\ z.parent = Id(e) /\ z.recving = FALSE
        /\ z.pc = pc /\ z.kids = <<>>
    BY <1>3a DEF Forked
  <1>4. Len(y.kids) = 1 /\ HasKid(y, <<c, g>>)
    <2> PICK k : k = x.kids  OBVIOUS
    <2>1. k \in Seq(Ids \cup {NULL}) /\ Len(k) = 0  BY DEF Rec
    <2>2. y.kids = Append(k, <<c, g>>)  BY <1>3
    <2>3. <<c, g>> \in Ids \cup {NULL}
      <3>1. c \in Env  BY Names DEF FreeSlots
      <3> QED BY <3>1, <1>3 DEF Ids
    <2>4. Len(y.kids) = 1 /\ y.kids[1] = <<c, g>>  BY <2>1, <2>2, <2>3
    <2> QED BY <2>4 DEF HasKid
  <1>5. KidCount(y) /\ (Busy(y) => y.pc = "request" /\ y.next = "program" /\ y.reqs = 1)
        /\ (e # Shell => y.pc \in SlotPc)
    BY <1>3, <1>4 DEF KidCount, Busy, SlotPc
  <1>6. e = Shell => ShellRec(y)
    BY <1>1, <1>3 DEF ShellRec, ShellPc, Blocked
  <1>7. Own(e, y)
    <2> HIDE DEF Rec, KidCount, ShellRec, SlotPc
    <2> QED BY <1>1, <1>3, <1>5, <1>6, Names, OwnRunning
  <1>8. c \in Slot /\ c \in Env /\ c # Server /\ c # Shell /\ env[c].status = "FREE"
    BY Names DEF FreeSlots
  <1>9. /\ z.pc \in {"spawn", "opencommand", "openbuiltin", "builtin", "main"}
        /\ Len(z.kids) = 0
    BY <1>1, <1>3
  <1>10. Own(c, z)
    <2>1. KidCount(z) /\ ~Busy(z) /\ z.pc \in SlotPc  BY <1>9 DEF KidCount, Busy, SlotPc
    <2> HIDE DEF Rec, KidCount, ShellRec, SlotPc
    <2> QED BY <1>3, <1>8, <2>1, OwnRunning
  <1>11. Fits(z, y)
    BY <1>1, <1>3 DEF Fits, Open, Spawner, Commander, Busy
  <1>12. e = Shell /\ y.pc \in {"status", "taken"} => NoKids(Shell) /\ Early(z)
    <2>1. NoKids(e)
      <3> HIDE DEF Open
      <3> QED BY ClosedNoKids DEF Core
    <2>2. e = Shell /\ y.pc \in {"status", "taken"} => Early(z)  BY <1>3 DEF Early
    <2> QED BY <2>1, <2>2
  <1>13. e \in Slot => /\ y.parent = env[e].parent
                       /\ Spawner(y) => Spawner(env[e])
                       /\ Commander(y) => Commander(env[e])
    <2>1. e \in Slot => e # Shell  BY Names
    <2> SUFFICES ASSUME e \in Slot PROVE /\ Spawner(y) => Spawner(env[e])
                                         /\ Commander(y) => Commander(env[e])
      BY <1>3
    <2>2. \/ y.pc = "status" /\ Commander(env[e])
          \/ y.pc = "program" /\ Spawner(env[e])
          \/ y.pc = "request" /\ y.next = "program" /\ Spawner(env[e])
      BY <1>3, <2>1
    <2>3. /\ y.pc = "status" => ~Spawner(y)
          /\ y.pc = "program" => ~Commander(y)
          /\ y.pc = "request" /\ y.next = "program" => ~Commander(y)
      BY DEF Spawner, Commander, Busy
    <2> QED BY <2>2, <2>3
  <1>14. \A s : ~Fits(s, env[e])  BY DEF Fits
  <1>15. env[e].pc # "program"  BY DEF Open
  <1>16. Line' = Line
    <2>1. CASE e = Shell  BY <1>3, <2>1 DEF Line
    <2>2. CASE e # Shell  BY <1>3, <1>8, <2>2, Names DEF Line
    <2> QED BY <2>1, <2>2
  <1>17. y.status = "RUNNABLE" /\ y.gen = env[e].gen  BY <1>1, <1>3
  <1>18. Core'
    <2> HIDE DEF Rec, Own, Open, Early, Fits, HasKid, Spawner, Commander, FreeSlots
    <2> QED BY <1>3, <1>4, <1>7, <1>10, <1>11, <1>12, <1>13, <1>14, <1>15, <1>17,
               BirthKeeps DEF Core
  <1> QED BY <1>16, <1>18, HearsStep

LEMMA ForkCommandKeeps ==
    ASSUME Core, ShellHears, queue # <<>>, NEW e \in Env, e = CPU, e # Server, ForkCommand(e)
    PROVE  Core' /\ ShellHears'
  <1>1. env[e].pc = "command" /\ UNCHANGED <<lost, panicked>>  BY DEF ForkCommand
  <1>2. /\ env[e] \in Rec /\ KidCount(env[e]) /\ ~Blocked(env[e])
        /\ e = Shell => ShellRec(env[e])
    BY CommanderFacts
  <1>3. ~Open(env[e]) /\ ~Early(env[e]) /\ Commander(env[e]) /\ Len(env[e].kids) = 0
        /\ (e = Shell => env[e].next = "run")
    BY <1>1, <1>2 DEF Open, Early, Commander, KidCount, Busy, ShellRec
  <1>4. ASSUME NEW c \in FreeSlots, Born(e, c, At(env[e], "status"), "spawn", env[e].files)
        PROVE  Core' /\ ShellHears'
    <2>1. "status" \in Pc /\ "spawn" \in SlotPc /\ env[e].files \in {0, 1}
      BY <1>2 DEF Pc, SlotPc, Rec
    <2>2. PICK x : x = At(env[e], "status")  OBVIOUS
    <2> HIDE DEF Rec, Open, Early, Spawner, Commander, FreeSlots
    <2>3. /\ x \in Rec /\ x.status = env[e].status /\ x.gen = env[e].gen
          /\ x.parent = env[e].parent /\ x.recving = env[e].recving /\ x.next = env[e].next
          /\ x.files = env[e].files /\ x.pc = "status" /\ Len(x.kids) = 0
      BY <1>2, <1>3, <2>1, <2>2, AtRec
    <2>4. Born(e, c, x, "spawn", env[e].files)  BY <1>4, <2>2
    <2> QED BY <1>1, <1>3, <2>1, <2>3, <2>4, ForkKeeps
  <1>5. ASSUME Moves(e, Done(e, [env[e] EXCEPT !.r = <<"none", 1>>]))
        PROVE  Core' /\ ShellHears'
    <2>1. PICK y : y = [env[e] EXCEPT !.r = <<"none", 1>>]  OBVIOUS
    <2>2. <<"none", 1>> \in Msg  BY DEF Msg
    <2>3. /\ y \in Rec /\ y.status = env[e].status /\ y.gen = env[e].gen
          /\ y.parent = env[e].parent /\ y.recving = env[e].recving /\ y.next = env[e].next
          /\ y.files = env[e].files /\ y.kids = env[e].kids
      BY <1>2, <2>1, <2>2 DEF Rec
    <2>4. PICK x : x = Done(e, y)  OBVIOUS
    <2> HIDE DEF Rec
    <2>5. /\ x \in Rec
          /\ x.status = env[e].status /\ x.gen = env[e].gen
          /\ x.parent = env[e].parent /\ x.recving = env[e].recving
          /\ x.kids = env[e].kids
          /\ e = Shell => x.pc = "prompt" /\ x.next = env[e].next /\ x.files = env[e].files
          /\ e # Shell => x.pc = "send" \/ (x.pc = "request" /\ x.next = "send" /\ x.reqs = 1)
      BY <2>3, <2>4, DoneRec
    <2>6. Moves(e, x) /\ Len(x.kids) <= 1  BY <1>3, <1>5, <2>1, <2>4, <2>5
    <2> QED BY <1>1, <2>5, <2>6, EndKeeps
  <1> QED BY <1>4, <1>5 DEF ForkCommand

\* recv leaves the line alone.
LEMMA RecvLine ==
    ASSUME Core, NEW e \in Env, NEW pc, sys_ipc_recv(e, pc)
    PROVE  Line' = Line
  <1>1. env \in [Env -> Rec]  BY DEF Core, Typed
  <1> QED BY <1>1, Names DEF sys_ipc_recv, Line, Rec

LEMMA ReceivesKeeps ==
    ASSUME Core, ShellHears, queue # <<>>, NEW e \in Env, e = CPU,
           NEW pc, <<env[e].pc, pc>> \in Receives,
           sys_ipc_recv(e, pc), UNCHANGED <<lost, panicked>>
    PROVE  Core' /\ ShellHears'
  <1>1. Line' = Line  BY RecvLine
  <1>2. Core'
    <2> HIDE DEF Receives
    <2> QED BY BlocksKeeps DEF Core
  <1> QED BY <1>1, <1>2, HearsStep

LEMMA TakeKeeps ==
    ASSUME Core, ShellHears, queue # <<>>, NEW e \in Env, e = CPU,
           TakeStatus(e) \/ TakeProgram(e) \/ Await(e) \/ (e = Shell /\ TakeRedirect)
             \/ (e = Server /\ Listen)
    PROVE  Core' /\ ShellHears'
  <1>1. PICK pc : /\ <<env[e].pc, pc>> \in Receives /\ sys_ipc_recv(e, pc)
                  /\ UNCHANGED <<lost, panicked>>
    BY DEF TakeStatus, TakeProgram, Await, TakeRedirect, Listen, Receives
  <1> HIDE DEF Receives
  <1> QED BY <1>1, ReceivesKeeps

LEMMA GotStatusKeeps ==
    ASSUME Core, ShellHears, queue # <<>>, NEW e \in Env, e = CPU, e # Server, GotStatus(e)
    PROVE  Core' /\ ShellHears'
  <1>1. /\ env[e].pc = "got" /\ UNCHANGED <<lost, panicked>>
        /\ Moves(e, [env[e] EXCEPT !.r = env[e].value, !.pc = "wait"])
    BY DEF GotStatus
  <1>2. /\ env[e] \in Rec /\ env[e].status = "RUNNABLE" /\ env[e].recving = FALSE
        /\ ~Blocked(env[e]) /\ KidCount(env[e]) /\ lost \subseteq Env
        /\ e = Shell => ShellRec(env[e])
        /\ e # Shell => e \in Slot
    BY CommanderFacts
  <1>3. PICK x : x = [env[e] EXCEPT !.r = env[e].value, !.pc = "wait"]  OBVIOUS
  <1>4. /\ x \in Rec /\ x.status = env[e].status /\ x.gen = env[e].gen
        /\ x.parent = env[e].parent /\ x.recving = env[e].recving /\ x.next = env[e].next
        /\ x.files = env[e].files /\ x.kids = env[e].kids /\ x.pc = "wait"
    <2>1. PICK m : m = env[e].value  OBVIOUS
    <2>2. m \in Msg /\ "wait" \in Pc  BY <1>2, <2>1 DEF Rec, Pc, SlotPc
    <2>3. x = [env[e] EXCEPT !.r = m, !.pc = "wait"]  BY <1>3, <2>1
    <2> QED BY <1>2, <2>2, <2>3 DEF Rec
  <1>5. KidCount(x)  BY <1>1, <1>2, <1>4 DEF KidCount, Busy
  <1>6. e = Shell => ShellRec(x)
    BY <1>1, <1>2, <1>4 DEF ShellRec, ShellPc, Blocked
  <1>7. e # Shell => x.pc \in SlotPc /\ ~Busy(x)  BY <1>4 DEF SlotPc, Busy
  <1>8. Own(e, x)
    <2> HIDE DEF Rec, KidCount, ShellRec, SlotPc
    <2> QED BY <1>2, <1>4, <1>5, <1>6, <1>7, Names, OwnRunning
  <1>9. ~Spawner(x) /\ Commander(env[e]) /\ ~Early(env[e]) /\ ~Open(env[e])
    BY <1>1, <1>2, <1>4 DEF Spawner, Commander, Early, Busy, Open
  <1>10. Moves(e, x) /\ x.status = "RUNNABLE" /\ panicked' = panicked /\ lost' \subseteq Env
    BY <1>1, <1>2, <1>3, <1>4
  <1>11. Line' = Line  BY <1>4, <1>10, MovesLine
  <1>12. Core'
    <2> HIDE DEF Rec, Own, Open, Early, Spawner, Commander
    <2> QED BY <1>1, <1>4, <1>8, <1>9, <1>10, GoesOn
  <1> QED BY <1>1, <1>11, <1>12, HearsStep

LEMMA SpawnedKeeps ==
    ASSUME Core, ShellHears, queue # <<>>, NEW e \in Env, e = CPU, e # Server, Spawned(e)
    PROVE  Core' /\ ShellHears'
  <1>1. env[e].pc = "spawned" /\ UNCHANGED <<lost, panicked>>  BY DEF Spawned
  <1>2. /\ e \in Slot /\ env[e] \in Rec /\ ~Blocked(env[e]) /\ KidCount(env[e])
    BY <1>1, SlotFacts DEF ShellPc
  <1>3. /\ ~Open(env[e]) /\ ~Early(env[e]) /\ Spawner(env[e]) /\ Len(env[e].kids) = 0
        /\ env[e].files \in {0, 1} /\ e # Shell
    BY <1>1, <1>2, Names DEF Open, Early, Spawner, KidCount, Busy, Rec
  <1>4. PICK w : w = [env[e] EXCEPT !.files = 0]  OBVIOUS
  <1>5. /\ w \in Rec /\ w.status = env[e].status /\ w.gen = env[e].gen
        /\ w.parent = env[e].parent /\ w.recving = env[e].recving /\ w.kids = env[e].kids
    BY <1>2, <1>4 DEF Rec
  <1>6. ASSUME NEW pc \in {"program", "failed"}, NEW x, x = Ask(w, env[e].files, pc)
        PROVE  /\ x \in Rec /\ x.status = env[e].status /\ x.gen = env[e].gen
               /\ x.parent = env[e].parent /\ x.recving = env[e].recving
               /\ x.kids = env[e].kids
               /\ x.pc = pc \/ (x.pc = "request" /\ x.next = pc /\ x.reqs = 1)
    <2>1. PICK n \in {0, 1} : n = env[e].files  BY <1>3
    <2>2. pc \in Pc  BY DEF Pc, SlotPc
    <2> HIDE DEF Rec
    <2>3. x = Ask(w, n, pc)  BY <1>6, <2>1
    <2> QED BY <1>5, <2>2, <2>3, AskRec
  <1>7. ASSUME NEW g \in FreeSlots,
               Born(e, g, Ask(w, env[e].files, "program"), "main", env[e].files)
        PROVE  Core' /\ ShellHears'
    <2>1. PICK x : x = Ask(w, env[e].files, "program")  OBVIOUS
    <2>2. /\ x \in Rec /\ x.status = env[e].status /\ x.gen = env[e].gen
          /\ x.parent = env[e].parent /\ x.recving = env[e].recving /\ x.kids = env[e].kids
          /\ x.pc = "program" \/ (x.pc = "request" /\ x.next = "program" /\ x.reqs = 1)
      <3> HIDE DEF Rec
      <3> QED BY <1>6, <2>1
    <2>3. Born(e, g, x, "main", env[e].files) /\ "main" \in SlotPc
      BY <1>7, <2>1 DEF SlotPc
    <2> HIDE DEF Rec, Open, Early, Spawner, Commander, FreeSlots, SlotPc
    <2> QED BY <1>1, <1>3, <2>2, <2>3, ForkKeeps
  <1>8. ASSUME NEW pc \in {"program", "failed"}, Moves(e, Ask(w, env[e].files, pc))
        PROVE  Core' /\ ShellHears'
    <2>1. PICK x : x = Ask(w, env[e].files, pc)  OBVIOUS
    <2>2. /\ x \in Rec /\ x.status = env[e].status /\ x.gen = env[e].gen
          /\ x.parent = env[e].parent /\ x.recving = env[e].recving /\ x.kids = env[e].kids
          /\ x.pc = pc \/ (x.pc = "request" /\ x.next = pc /\ x.reqs = 1)
      <3> HIDE DEF Rec
      <3> QED BY <1>6, <2>1
    <2>3. Moves(e, x)  BY <1>8, <2>1
    <2>4. /\ KidCount(x) /\ x.pc \in SlotPc /\ ~Commander(x)
          /\ env[e].pc \notin {"die", "await", "answer"}
          /\ Busy(x) => x.reqs = 1 /\ x.next = pc
      BY <1>1, <1>3, <1>8, <2>2 DEF KidCount, SlotPc, Commander, Busy
    <2> HIDE DEF Rec, Open, Early, Spawner, Commander, KidCount, Busy, SlotPc
    <2> QED BY <1>1, <1>2, <1>3, <2>2, <2>3, <2>4, SlotGoesOn
  <1> QED BY <1>1, <1>4, <1>7, <1>8 DEF Spawned

LEMMA PromptKeeps ==
    ASSUME Core, ShellHears, queue # <<>>, Shell = CPU, Prompt
    PROVE  Core' /\ ShellHears'
  <1>1. env[Shell].pc = "prompt" /\ lost' = {} /\ panicked' = panicked  BY DEF Prompt
  <1>2. Shell \in Env /\ Shell # Server /\ Shell \notin Slot  BY Names
  <1>3. ShellRec(env[Shell])  BY <1>2, CommanderFacts
  <1>4. PICK k \in Kind :
          Moves(Shell, [Free EXCEPT
                         !.status = "RUNNABLE",
                         !.pc = CASE k = "run" -> "command" [] k = "builtin|" -> "pipeline"
                                  [] OTHER -> "redirect",
                         !.next = k])
    BY DEF Prompt
  <1>5. k \in {"run", "builtin|", "builtin>", "run>"}  BY KindAssumption DEF AllKinds
  <1>6. PICK pc : pc = CASE k = "run" -> "command" [] k = "builtin|" -> "pipeline"
                         [] OTHER -> "redirect"
    OBVIOUS
  <1>7. /\ pc \in {"command", "pipeline", "redirect"}
        /\ pc = "command" => k = "run"
        /\ pc = "pipeline" => k = "builtin|"
        /\ pc = "redirect" => k \in {"run>", "builtin>"}
    BY <1>5, <1>6
  <1>8. PICK d : d = Free  OBVIOUS
  <1>9. /\ d \in Rec /\ d.gen = 0 /\ d.recving = FALSE /\ d.kids = <<>> /\ d.files = 0
    BY <1>8, FreeRec
  <1>10. PICK x : x = [d EXCEPT !.status = "RUNNABLE", !.pc = pc, !.next = k]  OBVIOUS
  <1>11. Moves(Shell, x)  BY <1>4, <1>6, <1>8, <1>10
  <1>12. /\ x \in Rec /\ x.status = "RUNNABLE" /\ x.pc = pc /\ x.next = k
         /\ x.gen = 0 /\ x.recving = FALSE /\ x.kids = <<>> /\ x.files = 0
    <2>1. pc \in Pc /\ k \in Pc \cup AllKinds \cup {NULL}
      BY <1>5, <1>7 DEF Pc, ShellPc, AllKinds
    <2>2. PICK u : u = [d EXCEPT !.status = "RUNNABLE"]  OBVIOUS
    <2>3. PICK v : v = [u EXCEPT !.pc = pc]  OBVIOUS
    <2>4. u \in Rec  BY <1>9, <2>2 DEF Rec
    <2>5. v \in Rec  BY <2>1, <2>3, <2>4 DEF Rec
    <2>6. x = [v EXCEPT !.next = k]  BY <1>9, <1>10, <2>2, <2>3 DEF Rec
    <2>7. x \in Rec  BY <2>1, <2>5, <2>6 DEF Rec
    <2>8. /\ x.status = "RUNNABLE" /\ x.pc = pc /\ x.next = k
          /\ x.gen = 0 /\ x.recving = FALSE /\ x.kids = <<>> /\ x.files = 0
      BY <1>9, <1>10 DEF Rec
    <2> QED BY <2>7, <2>8
  <1>13. KidCount(x)
    <2>1. Len(x.kids) = 0  BY <1>12
    <2> QED BY <1>7, <1>12, <2>1 DEF KidCount, Busy
  <1>14. ShellRec(x)  BY <1>7, <1>12 DEF ShellRec, ShellPc, Blocked
  <1>15. Own(Shell, x)
    <2> HIDE DEF Rec, KidCount, ShellRec, SlotPc
    <2> QED BY <1>2, <1>12, <1>13, <1>14, OwnRunning
  <1>16. ~Open(env[Shell]) /\ x.gen = env[Shell].gen /\ x.pc \notin {"status", "taken"}
    BY <1>1, <1>3, <1>7, <1>12 DEF Open, Busy, ShellRec
  <1>17. Core'
    <2> HIDE DEF Rec, Own, Open, Early, Spawner, Commander
    <2> QED BY <1>1, <1>2, <1>11, <1>12, <1>15, <1>16, GoesOn
  <1> QED BY <1>1, <1>17 DEF ShellHears

LEMMA ForkRedirectKeeps ==
    ASSUME Core, ShellHears, queue # <<>>, Shell = CPU, ForkRedirect
    PROVE  Core' /\ ShellHears'
  <1>1. env[Shell].pc = "redirect" /\ UNCHANGED <<lost, panicked>>  BY DEF ForkRedirect
  <1>2. Shell \in Env /\ Shell # Server  BY Names
  <1>3. /\ env[Shell] \in Rec /\ KidCount(env[Shell]) /\ ~Blocked(env[Shell])
        /\ ShellRec(env[Shell])
    BY <1>2, CommanderFacts
  <1>4. ~Open(env[Shell]) /\ ~Early(env[Shell]) /\ Len(env[Shell].kids) = 0
        /\ env[Shell].next \in {"run>", "builtin>"}
    BY <1>1, <1>3 DEF Open, Early, KidCount, Busy, ShellRec
  <1>5. ASSUME NEW c \in FreeSlots,
               Born(Shell, c, At(env[Shell], "taken"),
                    IF env[Shell].next = "run>" THEN "opencommand" ELSE "openbuiltin", 0)
        PROVE  Core' /\ ShellHears'
    <2>1. PICK pc : pc = IF env[Shell].next = "run>" THEN "opencommand" ELSE "openbuiltin"
      OBVIOUS
    <2>2. "taken" \in Pc /\ pc \in SlotPc /\ pc \in {"opencommand", "openbuiltin"}
      BY <2>1 DEF Pc, ShellPc, SlotPc
    <2>3. PICK x : x = At(env[Shell], "taken")  OBVIOUS
    <2>4. Born(Shell, c, x, pc, 0)  BY <1>5, <2>1, <2>3
    <2> HIDE DEF Rec, Open, Early, Spawner, Commander, FreeSlots, SlotPc
    <2>5. /\ x \in Rec /\ x.status = env[Shell].status /\ x.gen = env[Shell].gen
          /\ x.parent = env[Shell].parent /\ x.recving = env[Shell].recving
          /\ x.next = env[Shell].next
          /\ x.files = env[Shell].files /\ x.pc = "taken" /\ Len(x.kids) = 0
      BY <1>3, <1>4, <2>2, <2>3, AtRec
    <2> QED BY <1>1, <1>2, <1>4, <2>2, <2>4, <2>5, ForkKeeps
  <1>6. ASSUME NEW r \in Ended("none"), Moves(Shell, At([env[Shell] EXCEPT !.r = r], "prompt"))
        PROVE  Core' /\ ShellHears'
    <2>1. PICK y : y = [env[Shell] EXCEPT !.r = r]  OBVIOUS
    <2>2. r \in Msg /\ "prompt" \in Pc  BY DEF Msg, Ended, Pc, ShellPc
    <2>3. /\ y \in Rec /\ y.status = env[Shell].status /\ y.gen = env[Shell].gen
          /\ y.parent = env[Shell].parent /\ y.recving = env[Shell].recving
          /\ y.next = env[Shell].next
          /\ y.files = env[Shell].files /\ y.kids = env[Shell].kids
      BY <1>3, <2>1, <2>2 DEF Rec
    <2>4. PICK x : x = At(y, "prompt")  OBVIOUS
    <2> HIDE DEF Rec
    <2>5. /\ x \in Rec /\ x.status = env[Shell].status /\ x.gen = env[Shell].gen
          /\ x.parent = env[Shell].parent /\ x.recving = env[Shell].recving
          /\ x.next = env[Shell].next /\ x.files = env[Shell].files
          /\ x.pc = "prompt" /\ Len(x.kids) <= 1
      BY <1>4, <2>2, <2>3, <2>4, AtRec
    <2>6. Moves(Shell, x)  BY <1>6, <2>1, <2>4
    <2> QED BY <1>1, <1>2, <2>5, <2>6, EndKeeps
  <1> QED BY <1>5, <1>6 DEF ForkRedirect

LEMMA GotRedirectKeeps ==
    ASSUME Core, ShellHears, queue # <<>>, Shell = CPU, GotRedirect
    PROVE  Core' /\ ShellHears'
  <1>1. /\ env[Shell].pc = "redirected" /\ UNCHANGED <<lost, panicked>>
        /\ Moves(Shell, [env[Shell] EXCEPT !.r = env[Shell].value, !.pc = "prompt"])
    BY DEF GotRedirect
  <1>2. Shell \in Env /\ Shell # Server  BY Names
  <1>3. env[Shell] \in Rec /\ KidCount(env[Shell])  BY <1>2, CommanderFacts
  <1>4. Len(env[Shell].kids) <= 1  BY <1>1, <1>3 DEF KidCount
  <1>5. PICK x : x = [env[Shell] EXCEPT !.r = env[Shell].value, !.pc = "prompt"]  OBVIOUS
  <1>6. /\ x \in Rec /\ x.status = env[Shell].status /\ x.gen = env[Shell].gen
        /\ x.parent = env[Shell].parent /\ x.recving = env[Shell].recving
        /\ x.next = env[Shell].next
        /\ x.files = env[Shell].files /\ x.kids = env[Shell].kids /\ x.pc = "prompt"
    <2>1. PICK m : m = env[Shell].value  OBVIOUS
    <2>2. m \in Msg /\ "prompt" \in Pc  BY <1>3, <2>1 DEF Rec, Pc, ShellPc
    <2>3. x = [env[Shell] EXCEPT !.r = m, !.pc = "prompt"]  BY <1>5, <2>1
    <2> QED BY <1>3, <2>2, <2>3 DEF Rec
  <1>7. Moves(Shell, x) /\ Len(x.kids) <= 1  BY <1>1, <1>4, <1>5, <1>6
  <1> HIDE DEF Rec
  <1> QED BY <1>1, <1>2, <1>6, <1>7, EndKeeps

(***************************************************************************)
(* The shell's own steps with a pipeline.                                  *)
(***************************************************************************)

LEMMA AppendKid ==
    ASSUME NEW S, NEW k \in Seq(S), NEW i \in S, NEW l, l = Append(k, i)
    PROVE  /\ l \in Seq(S) /\ Len(l) = Len(k) + 1 /\ Len(k) \in Nat /\ l[Len(l)] = i
           /\ \A n \in 1 .. Len(k) : n \in 1 .. Len(l) /\ l[n] = k[n]
  OBVIOUS

LEMMA TailKid ==
    ASSUME NEW S, NEW k \in Seq(S), Len(k) \in {1, 2}, NEW l, l = Tail(k),
           NEW n \in 1 .. Len(k), k[n] # Head(k)
    PROVE  Len(k) = 2 /\ l[1] = k[n] /\ 1 \in 1 .. Len(l)
  <1>1. Head(k) = k[1]  OBVIOUS
  <1>2. n = 2 /\ Len(k) = 2  BY <1>1
  <1>3. Len(l) = Len(k) - 1 /\ \A j \in 1 .. Len(k) - 1 : l[j] = k[j + 1]
    OBVIOUS
  <1>4. 1 \in 1 .. Len(k) - 1 /\ 1 + 1 = 2  BY <1>2
  <1>5. l[1] = k[2]  BY <1>3, <1>4
  <1>6. Len(l) = 1  BY <1>2, <1>3
  <1>7. l[1] = k[n]  BY <1>2, <1>5
  <1>8. 1 \in 1 .. Len(l)  BY <1>6
  <1> QED BY <1>2, <1>7, <1>8

\* The record in which the shell lists one child more.
Listed(x, i, pc, y) ==
    /\ y = [x EXCEPT !.kids = Append(x.kids, i), !.pc = pc]
    /\ y.status = x.status /\ y.gen = x.gen /\ y.parent = x.parent
    /\ y.recving = x.recving /\ y.next = x.next /\ y.files = x.files /\ y.pc = pc
    /\ Len(y.kids) = Len(x.kids) + 1
    /\ \A j : HasKid(x, j) => HasKid(y, j)

LEMMA MoreKids ==
    ASSUME NEW x \in Rec, NEW i \in Ids \cup {NULL}, NEW pc \in Pc
    PROVE  \E y \in Rec : Listed(x, i, pc, y)
  <1>0. PICK y : y = [x EXCEPT !.kids = Append(x.kids, i), !.pc = pc]  OBVIOUS
  <1>1. PICK k : k = x.kids  OBVIOUS
  <1>2. k \in Seq(Ids \cup {NULL})  BY <1>1 DEF Rec
  <1>3. PICK l : l = Append(k, i)  OBVIOUS
  <1>4. /\ l \in Seq(Ids \cup {NULL}) /\ Len(l) = Len(k) + 1 /\ Len(k) \in Nat
        /\ \A n \in 1 .. Len(k) : n \in 1 .. Len(l) /\ l[n] = k[n]
    BY <1>2, <1>3, AppendKid
  <1>5. /\ y \in Rec /\ y.status = x.status /\ y.gen = x.gen /\ y.parent = x.parent
        /\ y.recving = x.recving /\ y.next = x.next /\ y.files = x.files /\ y.pc = pc
        /\ y.kids = l
    <2>1. y = [x EXCEPT !.kids = l, !.pc = pc]  BY <1>0, <1>1, <1>3
    <2> QED BY <1>4, <2>1 DEF Rec
  <1>6. \A j : HasKid(x, j) => HasKid(y, j)
    BY <1>1, <1>4, <1>5 DEF HasKid
  <1> HIDE DEF Rec, HasKid
  <1>7. Listed(x, i, pc, y)  BY <1>0, <1>1, <1>4, <1>5, <1>6 DEF Listed
  <1> QED BY <1>5, <1>7

LEMMA ForkLeftKeeps ==
    ASSUME Core, ShellHears, queue # <<>>, Shell = CPU, ForkLeft
    PROVE  Core' /\ ShellHears'
  <1>1. env[Shell].pc = "pipeline" /\ UNCHANGED <<lost, panicked>> /\ ForkSide("right")
    BY DEF ForkLeft
  <1>2. Shell \in Env /\ Shell # Server /\ Shell \notin Slot  BY Names
  <1>3. /\ env[Shell] \in Rec /\ KidCount(env[Shell]) /\ ~Blocked(env[Shell])
        /\ env[Shell].status = "RUNNABLE" /\ env[Shell].recving = FALSE
        /\ ShellRec(env[Shell]) /\ lost \subseteq Env
    BY <1>2, CommanderFacts
  <1>4. ~Open(env[Shell]) /\ ~Early(env[Shell]) /\ Len(env[Shell].kids) = 0
        /\ env[Shell].next = "builtin|" /\ env[Shell].files = 0 /\ env[Shell].gen = 0
    BY <1>1, <1>3 DEF Open, Early, KidCount, Busy, ShellRec
  <1>5. "right" \in Pc /\ "builtin" \in SlotPc  BY DEF Pc, ShellPc, SlotPc
  <1>6. ASSUME NEW c \in FreeSlots, Born(Shell, c, At(env[Shell], "right"), "builtin", 0)
        PROVE  Core' /\ ShellHears'
    <2>1. PICK x : x = At(env[Shell], "right")  OBVIOUS
    <2>2. Born(Shell, c, x, "builtin", 0)  BY <1>6, <2>1
    <2> HIDE DEF Rec, Open, Early, Spawner, Commander, FreeSlots, SlotPc
    <2>3. /\ x \in Rec /\ x.status = env[Shell].status /\ x.gen = env[Shell].gen
          /\ x.parent = env[Shell].parent /\ x.recving = env[Shell].recving
          /\ x.next = env[Shell].next
          /\ x.files = env[Shell].files /\ x.pc = "right" /\ Len(x.kids) = 0
      BY <1>3, <1>4, <1>5, <2>1, AtRec
    <2> QED BY <1>1, <1>2, <1>4, <1>5, <2>2, <2>3, ForkKeeps
  <1>7. ASSUME Moves(Shell, [env[Shell] EXCEPT !.kids = Append(@, NULL), !.pc = "right"])
        PROVE  Core' /\ ShellHears'
    <2>0. PICK x \in Rec : Listed(env[Shell], NULL, "right", x)
      <3>1. NULL \in Ids \cup {NULL}  OBVIOUS
      <3> HIDE DEF Ids, Pc, HasKid, Rec
      <3> QED BY <1>3, <1>5, <3>1, MoreKids
    <2>1. /\ x \in Rec
          /\ x.status = env[Shell].status /\ x.gen = env[Shell].gen
          /\ x.recving = env[Shell].recving
          /\ x.next = env[Shell].next /\ x.files = env[Shell].files /\ x.pc = "right"
          /\ Len(x.kids) = Len(env[Shell].kids) + 1
          /\ \A j : HasKid(env[Shell], j) => HasKid(x, j)
      BY <2>0 DEF Listed
    <2>2. Len(x.kids) = 1  BY <1>4, <2>1
    <2>3. Moves(Shell, x)  BY <1>7, <2>0 DEF Listed
    <2>4. KidCount(x) /\ ShellRec(x)
      BY <1>3, <1>4, <2>1, <2>2 DEF KidCount, Busy, ShellRec, ShellPc, Blocked
    <2>5. Own(Shell, x)
      <3> HIDE DEF Rec, KidCount, ShellRec, SlotPc
      <3> QED BY <1>2, <1>3, <2>1, <2>2, <2>4, OwnRunning
    <2>6. Line' = Line  BY <1>2, <2>1, <2>2, <2>3, MovesLine
    <2>7. lost' \subseteq Env /\ panicked' = panicked  BY <1>1, <1>3
    <2>8. Core'
      <3> HIDE DEF Rec, Own, Open, Early, Spawner, Commander
      <3> QED BY <1>1, <1>2, <1>3, <1>4, <2>1, <2>2, <2>3, <2>5, <2>7, GoesOn
    <2> QED BY <1>1, <2>6, <2>8, HearsStep
  <1> QED BY <1>1, <1>6, <1>7 DEF ForkSide

\* No env that runs spawn or execute_command is the child of a shell in a pipeline.
LEMMA PipeFits ==
    ASSUME NEW s, NEW x, NEW y, Fits(s, x), x.pc \in {"right", "waitleft", "waitright"}, Open(y)
    PROVE  Fits(s, y)
  BY DEF Fits

LEMMA ForkRightKeeps ==
    ASSUME Core, ShellHears, queue # <<>>, Shell = CPU, ForkRight
    PROVE  Core' /\ ShellHears'
  <1>1. env[Shell].pc = "right" /\ UNCHANGED <<lost, panicked>> /\ ForkSide("waitleft")
    BY DEF ForkRight
  <1>2. Shell \in Env /\ Shell # Server /\ Shell \notin Slot  BY Names
  <1>3. /\ env[Shell] \in Rec /\ KidCount(env[Shell]) /\ ~Blocked(env[Shell])
        /\ env[Shell].status = "RUNNABLE" /\ env[Shell].recving = FALSE
        /\ ShellRec(env[Shell]) /\ lost \subseteq Env
    BY <1>2, CommanderFacts
  <1>4. Len(env[Shell].kids) = 1
        /\ env[Shell].next = "builtin|" /\ env[Shell].files = 0 /\ env[Shell].gen = 0
    BY <1>1, <1>3 DEF KidCount, ShellRec
  <1>5. "waitleft" \in Pc /\ "builtin" \in SlotPc /\ "builtin" \in Pc
    BY DEF Pc, ShellPc, SlotPc
  <1>6. ASSUME NEW x \in Rec, x.pc = "waitleft", Len(x.kids) = 2, x.next = env[Shell].next,
               x.files = env[Shell].files, x.gen = env[Shell].gen,
               x.status = env[Shell].status, x.recving = env[Shell].recving
        PROVE  /\ Own(Shell, x) /\ Open(x)
               /\ x.status = "RUNNABLE" /\ x.pc \notin {"status", "taken"}
    <2>1. KidCount(x) /\ ShellRec(x) /\ Open(x)
      BY <1>3, <1>4, <1>6 DEF KidCount, Busy, ShellRec, ShellPc, Blocked, Open
    <2> HIDE DEF Rec, KidCount, ShellRec, SlotPc
    <2> QED BY <1>2, <1>3, <1>6, <2>1, OwnRunning
  <1>7. ASSUME NEW c \in FreeSlots, Born(Shell, c, At(env[Shell], "waitleft"), "builtin", 0)
        PROVE  Core' /\ ShellHears'
    <2>1. PICK x : x = At(env[Shell], "waitleft")  OBVIOUS
    <2>2. /\ x \in Rec /\ x.status = env[Shell].status /\ x.gen = env[Shell].gen
          /\ x.parent = env[Shell].parent /\ x.recving = env[Shell].recving
          /\ x.next = env[Shell].next
          /\ x.files = env[Shell].files /\ x.pc = "waitleft" /\ x.kids = env[Shell].kids
      <3> HIDE DEF Rec
      <3> QED BY <1>3, <1>5, <2>1, AtRec
    <2>3. Born(Shell, c, x, "builtin", 0) /\ Typed  BY <1>7, <2>1 DEF Core
    <2>4. PICK g \in 0 .. GenMod - 1, y \in Rec, z \in Rec :
            Forked(Shell, c, x, "builtin", 0, g, y, z)
      <3> HIDE DEF Rec, Pc, FreeSlots
      <3> QED BY <1>2, <1>3, <1>5, <2>2, <2>3, BornFacts
    <2>5. /\ env' \in [Env -> Rec] /\ env'[Shell] = y /\ env'[c] = z /\ c # Shell
          /\ \A f \in Env \ {Shell, c} : env'[f] = env[f]
          /\ Go(Shell, <<c>>)
          /\ y.kids = Append(x.kids, <<c, g>>)
          /\ y.status = x.status /\ y.gen = x.gen
          /\ y.recving = x.recving /\ y.pc = x.pc /\ y.next = x.next
          /\ y.files = x.files
          /\ z.status = "RUNNABLE" /\ z.gen = g /\ z.parent = Id(Shell) /\ z.recving = FALSE
          /\ z.pc = "builtin" /\ z.kids = <<>>
      BY <2>4 DEF Forked
    <2>6. Len(y.kids) = 2 /\ HasKid(y, <<c, g>>) /\ \A j : HasKid(env[Shell], j) => HasKid(y, j)
      <3>1. PICK k : k = env[Shell].kids  OBVIOUS
      <3>2. k \in Seq(Ids \cup {NULL}) /\ Len(k) = 1  BY <1>3, <1>4, <3>1 DEF Rec
      <3>3. <<c, g>> \in Ids \cup {NULL}
        <4>1. c \in Env  BY Names DEF FreeSlots
        <4> QED BY <4>1 DEF Ids
      <3>4. y.kids = Append(k, <<c, g>>)  BY <2>2, <2>5, <3>1
      <3>5. Len(y.kids) = 2 /\ y.kids[2] = <<c, g>> /\ y.kids[1] = k[1]
        <4>1. PICK i \in Ids \cup {NULL} : i = <<c, g>>  BY <3>3
        <4>2. PICK l : l = Append(k, i)  OBVIOUS
        <4>3. /\ Len(l) = Len(k) + 1 /\ l[Len(l)] = i
              /\ \A n \in 1 .. Len(k) : l[n] = k[n]
          BY <3>2, <4>1, <4>2, AppendKid
        <4>4. Len(l) = 2 /\ l[2] = i /\ l[1] = k[1]  BY <3>2, <4>3
        <4> QED BY <3>4, <4>1, <4>2, <4>4
      <3>6. HasKid(y, <<c, g>>)  BY <3>5 DEF HasKid
      <3>7. \A j : HasKid(env[Shell], j) => HasKid(y, j)
        BY <3>1, <3>2, <3>5 DEF HasKid
      <3> QED BY <3>5, <3>6, <3>7
    <2>7. Own(Shell, y) /\ Open(y) /\ y.status = "RUNNABLE" /\ y.pc \notin {"status", "taken"}
      BY <1>6, <2>2, <2>5, <2>6
    <2>8. c \in Slot /\ c \in Env /\ c # Server  BY Names DEF FreeSlots
    <2>9. Own(c, z)
      <3>1. Len(z.kids) = 0  BY <2>5
      <3>2. KidCount(z) /\ ~Busy(z) /\ z.pc \in SlotPc
        BY <2>5, <3>1 DEF KidCount, Busy, SlotPc
      <3> HIDE DEF Rec, KidCount, ShellRec, SlotPc
      <3> QED BY <2>5, <2>8, <3>2, OwnRunning
    <2>10. Fits(z, y)  BY <2>5, <2>7 DEF Fits, Spawner, Commander, Busy
    <2>11. \A s : Fits(s, env[Shell]) => Fits(s, y)  BY <1>1, <2>7, PipeFits
    <2>12. Line' = Line  BY <2>2, <2>5 DEF Line
    <2>13. y.gen = env[Shell].gen /\ env[Shell].pc \notin {"die", "await", "answer", "program"}
      BY <1>1, <2>2, <2>5
    <2>14. Core'
      <3> HIDE DEF Rec, Own, Open, Early, Fits, HasKid, Spawner, Commander, FreeSlots
      <3> QED BY <1>1, <1>2, <2>5, <2>6, <2>7, <2>9, <2>10, <2>11, <2>13, BirthKeeps DEF Core
    <2> QED BY <1>1, <2>12, <2>14, HearsStep
  <1>8. ASSUME Moves(Shell, [env[Shell] EXCEPT !.kids = Append(@, NULL), !.pc = "waitleft"])
        PROVE  Core' /\ ShellHears'
    <2>0. PICK x \in Rec : Listed(env[Shell], NULL, "waitleft", x)
      <3>1. NULL \in Ids \cup {NULL}  OBVIOUS
      <3> HIDE DEF Ids, Pc, HasKid, Rec
      <3> QED BY <1>3, <1>5, <3>1, MoreKids
    <2>1. /\ x \in Rec
          /\ x.status = env[Shell].status /\ x.gen = env[Shell].gen
          /\ x.recving = env[Shell].recving
          /\ x.next = env[Shell].next /\ x.files = env[Shell].files /\ x.pc = "waitleft"
          /\ Len(x.kids) = Len(env[Shell].kids) + 1
          /\ \A j : HasKid(env[Shell], j) => HasKid(x, j)
      BY <2>0 DEF Listed
    <2>3. Moves(Shell, x) /\ Len(x.kids) = 2
      <3>1. Moves(Shell, x)  BY <1>8, <2>0 DEF Listed
      <3> QED BY <1>4, <2>1, <3>1
    <2>4. Own(Shell, x) /\ Open(x) /\ x.status = "RUNNABLE" /\ x.pc \notin {"status", "taken"}
      BY <1>6, <2>1, <2>3
    <2>5. \A s : Fits(s, env[Shell]) => Fits(s, x)  BY <1>1, <2>4, PipeFits
    <2>6. Line' = Line  BY <1>2, <2>1, <2>3, MovesLine
    <2>7. lost' \subseteq Env /\ panicked' = panicked  BY <1>1, <1>3
    <2>8. env[Shell].pc # "die" /\ env[Shell].pc \notin {"await", "program"}  BY <1>1
    <2>9. Core'
      <3> HIDE DEF Rec, Own, Open, Early, Fits, HasKid, Spawner, Commander
      <3> QED BY <1>2, <2>1, <2>3, <2>4, <2>5, <2>7, <2>8, MovesKeeps DEF Core
    <2> QED BY <1>1, <2>6, <2>9, HearsStep
  <1> QED BY <1>1, <1>7, <1>8 DEF ForkSide

LEMMA SideCount ==
    ASSUME NEW x, \/ x.pc = "waitright" /\ Len(x.kids) = 1
                  \/ x.pc = "prompt" /\ Len(x.kids) = 0
    PROVE  KidCount(x)
  <1>1. CASE x.pc = "waitright" /\ Len(x.kids) = 1  BY <1>1 DEF KidCount, Busy
  <1>2. CASE x.pc = "prompt" /\ Len(x.kids) = 0  BY <1>2 DEF KidCount, Busy
  <1> QED BY <1>1, <1>2

\* The wait for one side is over: its env is gone, and the other side is still listed.
LEMMA SideGone ==
    ASSUME Core, ShellHears, queue # <<>>, Shell = CPU,
           env[Shell].pc \in {"waitleft", "waitright"}, ~Known(Head(env[Shell].kids)),
           NEW x \in Rec, Moves(Shell, x), UNCHANGED <<lost, panicked>>,
           x.status = env[Shell].status, x.gen = env[Shell].gen, x.next = env[Shell].next,
           x.recving = env[Shell].recving, x.files = env[Shell].files,
           x.kids = Tail(env[Shell].kids),
           env[Shell].pc = "waitleft" => x.pc = "waitright",
           env[Shell].pc = "waitright" => x.pc = "prompt"
    PROVE  Core' /\ ShellHears'
  <1>1. Shell \in Env /\ Shell # Server /\ Shell \notin Slot  BY Names
  <1>2. /\ env[Shell] \in Rec /\ KidCount(env[Shell]) /\ ~Blocked(env[Shell])
        /\ env[Shell].status = "RUNNABLE" /\ env[Shell].recving = FALSE
        /\ ShellRec(env[Shell]) /\ lost \subseteq Env
    BY <1>1, CommanderFacts
  <1>3. PICK k : k = env[Shell].kids  OBVIOUS
  <1>4. /\ k \in Seq(Ids \cup {NULL})
        /\ env[Shell].pc = "waitleft" => Len(k) = 2
        /\ env[Shell].pc = "waitright" => Len(k) = 1
    BY <1>2, <1>3 DEF Rec, KidCount
  <1>5. PICK l : l = x.kids  OBVIOUS
  <1>6. /\ Head(k) = k[1]
        /\ env[Shell].pc = "waitleft" => Len(l) = 1 /\ l[1] = k[2]
        /\ env[Shell].pc = "waitright" => Len(l) = 0
    BY <1>3, <1>4, <1>5
  <1>7. KidCount(x) /\ ShellRec(x)
    <2>1. /\ env[Shell].pc = "waitleft" => Len(x.kids) = 1
          /\ env[Shell].pc = "waitright" => Len(x.kids) = 0
      BY <1>5, <1>6
    <2>2. /\ env[Shell].next = "builtin|" /\ env[Shell].files = 0 /\ env[Shell].gen = 0
      BY <1>2 DEF ShellRec
    <2>3. \/ x.pc = "waitright" /\ Len(x.kids) = 1
          \/ x.pc = "prompt" /\ Len(x.kids) = 0
      BY <2>1
    <2>4. KidCount(x)  BY <2>3, SideCount
    <2>5. ShellRec(x)  BY <1>2, <2>2, <2>3 DEF ShellRec, ShellPc, Blocked
    <2> QED BY <2>4, <2>5
  <1>8. Own(Shell, x)
    <2> HIDE DEF Rec, KidCount, ShellRec, SlotPc
    <2> QED BY <1>1, <1>2, <1>7, OwnRunning
  <1>9. ASSUME NEW s \in Slot, Active(s), HasKid(env[Shell], Id(s)), Fits(env[s], env[Shell])
        PROVE  HasKid(x, Id(s)) /\ Fits(env[s], x)
    <2>1. Known(Id(s))  BY <1>9, KnownKid
    <2>2. PICK n \in 1 .. Len(k) : k[n] = Id(s)  BY <1>3, <1>9 DEF HasKid
    <2>3. k[n] # Head(k)  BY <1>3, <2>1, <2>2
    <2>4. Len(k) \in {1, 2} /\ l = Tail(k)  BY <1>3, <1>4, <1>5
    <2>5. Len(k) = 2 /\ l[1] = Id(s) /\ 1 \in 1 .. Len(l)
      <3>1. Len(k) = 2 /\ l[1] = k[n] /\ 1 \in 1 .. Len(l)
        BY <1>4, <2>2, <2>3, <2>4, TailKid
      <3> QED BY <2>2, <3>1
    <2>6. HasKid(x, Id(s))  BY <1>5, <2>5 DEF HasKid
    <2>7. Open(x)  BY <1>4, <2>5 DEF Open
    <2> QED BY <1>9, <2>6, <2>7, PipeFits
  <1>10. x.pc \notin {"status", "taken"} /\ x.status = "RUNNABLE"
         /\ env[Shell].pc # "die" /\ env[Shell].pc \notin {"await", "program"}
    BY <1>2
  <1>11. Line' = Line  BY <1>1, MovesLine
  <1>12. lost' \subseteq Env  BY <1>2
  <1>13. Core'
    <2> HIDE DEF Rec, Own, Open, Early, Fits, HasKid, Spawner, Commander
    <2> QED BY <1>1, <1>8, <1>9, <1>10, <1>12, MovesKeeps DEF Core
  <1> QED BY <1>11, <1>13, HearsStep

LEMMA WaitSideKeeps ==
    ASSUME Core, ShellHears, queue # <<>>, Shell = CPU, WaitLeft \/ WaitRight
    PROVE  Core' /\ ShellHears'
  <1>1. Shell \in Env /\ Shell # Server /\ Shell \notin Slot  BY Names
  <1>2. env[Shell] \in Rec /\ lost \subseteq Env /\ KidCount(env[Shell])
    BY <1>1, CommanderFacts
  <1>3. PICK pc, rec :
          /\ Wait(Shell, pc, rec)
          /\ \/ pc = "waitleft" /\ rec = At(env[Shell], "waitright")
             \/ /\ pc = "waitright"
                /\ \E r \in Ended("none") : rec = [env[Shell] EXCEPT !.r = r, !.pc = "prompt"]
    BY DEF WaitLeft, WaitRight
  <1>4. env[Shell].pc = pc /\ UNCHANGED <<lost, said, panicked>>  BY <1>3 DEF Wait
  <1>5. CASE Known(Head(env[Shell].kids))
    <2>1. UNCHANGED env /\ Yields(Shell, <<>>)  BY <1>3, <1>5 DEF Wait
    <2>2. Core'  BY <1>2, <1>3, <1>4, <2>1, StayKeeps DEF Core
    <2>3. Line' = Line  BY <2>1 DEF Line
    <2> QED BY <1>4, <2>2, <2>3, HearsStep
  <1>6. CASE ~Known(Head(env[Shell].kids))
    <2>1. Moves(Shell, [rec EXCEPT !.kids = Tail(rec.kids)])  BY <1>3, <1>6 DEF Wait
    <2>2. /\ rec \in Rec /\ rec.status = env[Shell].status /\ rec.gen = env[Shell].gen
          /\ rec.next = env[Shell].next /\ rec.recving = env[Shell].recving
          /\ rec.files = env[Shell].files /\ rec.kids = env[Shell].kids
          /\ pc = "waitleft" => rec.pc = "waitright"
          /\ pc = "waitright" => rec.pc = "prompt"
      <3>1. "waitright" \in Pc /\ "prompt" \in Pc  BY DEF Pc, ShellPc
      <3>2. CASE pc = "waitleft"
        <4>1. rec = [env[Shell] EXCEPT !.pc = "waitright"]  BY <1>3, <3>2 DEF At
        <4> QED BY <1>2, <3>1, <3>2, <4>1 DEF Rec
      <3>3. CASE pc = "waitright"
        <4>1. PICK r \in Ended("none") : rec = [env[Shell] EXCEPT !.r = r, !.pc = "prompt"]
          BY <1>3, <3>3
        <4>2. r \in Msg  BY DEF Ended, Msg
        <4> QED BY <1>2, <3>1, <3>3, <4>1, <4>2 DEF Rec
      <3> QED BY <1>3, <3>2, <3>3
    <2>3. PICK k : k = Tail(env[Shell].kids)  OBVIOUS
    <2>4. k \in Seq(Ids \cup {NULL})
      <3>1. Len(env[Shell].kids) \in {1, 2}  BY <1>2, <1>3, <1>4 DEF KidCount
      <3>2. env[Shell].kids \in Seq(Ids \cup {NULL})  BY <1>2 DEF Rec
      <3>3. env[Shell].kids # <<>>  BY <3>1, EmptySeq
      <3> QED BY <2>3, <3>2, <3>3, HeadTailProperties
    <2>5. PICK x : x = [rec EXCEPT !.kids = k]  OBVIOUS
    <2>6. /\ x \in Rec /\ x.status = rec.status /\ x.gen = rec.gen /\ x.next = rec.next
          /\ x.recving = rec.recving /\ x.files = rec.files /\ x.kids = k /\ x.pc = rec.pc
      BY <2>2, <2>4, <2>5 DEF Rec
    <2>7. Moves(Shell, x)  BY <2>1, <2>2, <2>3, <2>5
    <2>8. /\ x.status = env[Shell].status /\ x.gen = env[Shell].gen
          /\ x.next = env[Shell].next /\ x.recving = env[Shell].recving
          /\ x.files = env[Shell].files /\ x.kids = Tail(env[Shell].kids)
          /\ env[Shell].pc = "waitleft" => x.pc = "waitright"
          /\ env[Shell].pc = "waitright" => x.pc = "prompt"
          /\ env[Shell].pc \in {"waitleft", "waitright"}
      BY <1>3, <1>4, <2>2, <2>3, <2>6
    <2>9. x \in Rec /\ UNCHANGED <<lost, panicked>>  BY <1>4, <2>6
    <2> HIDE DEF Rec
    <2> QED BY <1>6, <2>7, <2>8, <2>9, SideGone
  <1> QED BY <1>5, <1>6

(***************************************************************************)
(* The system.                                                             *)
(***************************************************************************)

\* A message leaves the line alone.
LEMMA SentLine ==
    ASSUME Core, NEW e \in Env, e # Shell, NEW id, NEW v, NEW x, ipc_send(e, id, v, x)
    PROVE  Line' = Line
  <1>1. CASE UNCHANGED env  BY <1>1 DEF Line
  <1>2. CASE env' = Delivered(e, id[1], v, [env EXCEPT ![e] = x])
    <2>1. env \in [Env -> Rec] /\ Shell \in Env  BY Names DEF Core, Typed
    <2>2. PICK f : f = [env EXCEPT ![e] = x]  OBVIOUS
    <2>3. f[Shell] = env[Shell] /\ DOMAIN f = Env  BY <2>1, <2>2
    <2>4. PICK t : t = id[1]  OBVIOUS
    <2>5. env' = [f EXCEPT ![t].recving = FALSE, ![t].status = "RUNNABLE",
                           ![t].from = Id(e), ![t].value = v]
      BY <1>2, <2>2, <2>4 DEF Delivered
    <2>6. CASE t # Shell
      <3>1. env'[Shell] = f[Shell]  BY <2>1, <2>3, <2>5, <2>6
      <3> QED BY <2>3, <3>1 DEF Line
    <2>7. CASE t = Shell
      <3>1. env[Shell] \in Rec  BY <2>1
      <3>2. env'[Shell].next = f[Shell].next
        BY <2>1, <2>3, <2>5, <2>7, <3>1 DEF Rec
      <3> QED BY <2>3, <3>2 DEF Line
    <2> QED BY <2>6, <2>7
  <1> QED BY <1>1, <1>2 DEF ipc_send

LEMMA FsipcKeeps ==
    ASSUME Core, ShellHears, queue # <<>>, NEW e \in Env, e = CPU, e # Server,
           Request(e) \/ Answer(e)
    PROVE  Core' /\ ShellHears'
  <1>1. lost' = lost /\ env[e].pc \in {"request", "answer"}  BY DEF Request, Answer
  <1>2. e # Shell  BY <1>1, CommanderFacts DEF ShellRec, ShellPc
  <1>3. Line' = Line
    <2>1. CASE Request(e)  BY <1>2, <2>1, SentLine DEF Request
    <2>2. CASE Answer(e)  BY <1>2, <2>2, MovesLine DEF Answer
    <2> QED BY <2>1, <2>2
  <1> QED BY <1>1, <1>3, RequestKeeps, AnswerKeeps, HearsStep

LEMMA ServeKeeps ==
    ASSUME Core, ShellHears, queue # <<>>, Server = CPU, ServerStep
    PROVE  Core' /\ ShellHears'
  <1>1. CASE Listen  BY <1>1, Names, TakeKeeps
  <1>2. CASE Reply
    <2>1. lost' = lost  BY <1>2 DEF Reply
    <2>2. Line' = Line
      <3>1. CASE Known(env[Server].from)
        BY <1>2, <3>1, Names, SentLine DEF Reply
      <3>2. CASE ~Known(env[Server].from)  BY <1>2, <3>2 DEF Reply, Line
      <3> QED BY <3>1, <3>2
    <2> QED BY <1>2, <2>1, <2>2, ReplyKeeps, HearsStep
  <1> QED BY <1>1, <1>2 DEF ServerStep

LEMMA RunsKeeps ==
    ASSUME Core, ShellHears, queue # <<>>, NEW e \in Env, e = CPU, e # Server, Runs(e)
    PROVE  Core' /\ ShellHears'
  BY FsipcKeeps, TakeKeeps, ForkCommandKeeps, GotStatusKeeps, WaitCommandKeeps, SpawnKeeps,
     SpawnedKeeps, ExitChildKeeps, MainKeeps, ReturnKeeps, OpenFileKeeps, SendKeeps, DestroyStep
     DEF Runs

LEMMA ShellKeeps ==
    ASSUME Core, ShellHears, queue # <<>>, Shell = CPU, ShellStep
    PROVE  Core' /\ ShellHears'
  BY Names, PromptKeeps, ForkRedirectKeeps, TakeKeeps, GotRedirectKeeps, ForkLeftKeeps,
     ForkRightKeeps, WaitSideKeeps DEF ShellStep

LEMMA StutterKeeps ==
    ASSUME IInv, UNCHANGED vars
    PROVE  IInv'
  BY DEF vars, IInv, Typed, Queued, Tree, Active, Id, Served, Waits, NoKids, Turns, ShellHears,
         Line

LEMMA StepKeeps ==
    ASSUME IInv, [Next]_vars
    PROVE  IInv'
  <1>1. CASE Next
    <2>1. Core /\ ShellHears /\ queue # <<>>  BY <1>1 DEF IInv, Core, Next
    <2>2. CPU \in Env  BY <2>1, Running DEF Core
    <2>3. CASE CPU = Shell /\ ShellStep  BY <2>1, <2>3, ShellKeeps DEF IInv, Core
    <2>4. CASE CPU = Server /\ ServerStep  BY <2>1, <2>4, ServeKeeps DEF IInv, Core
    <2>5. CASE CPU # Server /\ Runs(CPU)
      <3>1. PICK e \in Env : e = CPU  BY <2>2
      <3>2. e # Server /\ Runs(e)  BY <2>5, <3>1
      <3> QED BY <2>1, <3>1, <3>2, RunsKeeps DEF IInv, Core
    <2> QED BY <1>1, <2>3, <2>4, <2>5 DEF Next
  <1>2. CASE UNCHANGED vars  BY <1>2, StutterKeeps
  <1> QED BY <1>1, <1>2

LEMMA InitHolds ==
    ASSUME Init
    PROVE  IInv
  <1>1. PICK d : d = Free  OBVIOUS
  <1>2. /\ d \in Rec /\ d.status = "FREE" /\ d.gen = 0 /\ d.recving = FALSE
        /\ d.pc = "idle" /\ d.next = NULL /\ d.reqs = 0 /\ d.files = 0 /\ d.kids = <<>>
    BY <1>1, FreeRec
  <1>3. /\ env = [e \in Env |->
                    CASE e = Shell  -> [d EXCEPT !.status = "RUNNABLE", !.pc = "prompt"]
                      [] e = Server -> [d EXCEPT !.status = "RUNNABLE", !.pc = "listen"]
                      [] OTHER      -> d]
    BY <1>1 DEF Init
  <1>4. PICK a : a = [d EXCEPT !.status = "RUNNABLE", !.pc = "prompt"]  OBVIOUS
  <1>5. PICK b : b = [d EXCEPT !.status = "RUNNABLE", !.pc = "listen"]  OBVIOUS
  <1>6. "prompt" \in Pc /\ "listen" \in Pc  BY DEF Pc, ShellPc
  <1>7. /\ a \in Rec /\ a.status = "RUNNABLE" /\ a.gen = 0 /\ a.recving = FALSE
        /\ a.pc = "prompt" /\ a.files = 0 /\ a.kids = <<>>
    BY <1>2, <1>4, <1>6 DEF Rec
  <1>8. /\ b \in Rec /\ b.status = "RUNNABLE" /\ b.gen = 0 /\ b.recving = FALSE
        /\ b.pc = "listen" /\ b.files = 0 /\ b.kids = <<>>
    BY <1>2, <1>5, <1>6 DEF Rec
  <1> HIDE DEF Rec
  <1>9. env \in [Env -> Rec] /\ env[Shell] = a /\ env[Server] = b /\ \A s \in Slot : env[s] = d
    BY <1>2, <1>3, <1>4, <1>5, <1>7, <1>8, Names
  <1>10. \A s \in Slot : ~Active(s)  BY <1>2, <1>9 DEF Active
  <1>11. Typed
    <2>1. Own(Shell, a)
      BY <1>7, Names DEF Own, KidCount, Busy, ShellRec, ShellPc, Blocked
    <2>2. Own(Server, b)
      BY <1>8, Names DEF Own, KidCount, Busy, ServerRec, Blocked
    <2>3. \A s \in Slot : Own(s, d)
      BY <1>2, Names DEF Own, KidCount, Busy, SlotRec, Blocked
    <2>4. \A e \in Env : Own(e, env[e])
      <3> HIDE DEF Own
      <3> QED BY <1>9, <2>1, <2>2, <2>3, Names
    <2> QED BY <1>9, <2>4 DEF Init, Typed
  <1>12. Queued
    <2>1. queue = <<Server, Shell>>  BY DEF Init
    <2>2. queue \in Seq(Env) /\ Len(queue) = 2 /\ queue[1] = Server /\ queue[2] = Shell
      BY <2>1, Names
    <2>3. Once(queue)  BY <2>2, Names DEF Once
    <2>4. \A e : In(queue, e) <=> e = Server \/ e = Shell  BY <2>2 DEF In
    <2>5. \A e \in Env : env[e].status = "RUNNABLE" <=> e = Server \/ e = Shell
      BY <1>2, <1>7, <1>8, <1>9, Names
    <2> QED BY <2>2, <2>3, <2>4, <2>5 DEF Queued
  <1>13. Tree  BY <1>10 DEF Tree
  <1>14. Served  BY <1>8, <1>9 DEF Served
  <1>15. Turns  BY <1>10 DEF Turns
  <1>16. ShellHears  BY DEF Init, ShellHears
  <1> QED BY <1>11, <1>12, <1>13, <1>14, <1>15, <1>16 DEF IInv

(***************************************************************************)
(* Who runs, who is whose child and who is waited for is as IInv says,     *)
(* whatever the turns of the envs and the lines typed.                     *)
(***************************************************************************)
THEOREM ExitInvariant == Spec => []IInv
  <1>1. Init => IInv  BY InitHolds
  <1>2. IInv /\ [Next]_vars => IInv'  BY StepKeeps
  <1> QED BY <1>1, <1>2, PTL DEF Spec

(***************************************************************************)
(* The envs are well formed, each blocked one waits for a message, and the *)
(* server never answers an env that has died (ipc_send's user_assert).     *)
(***************************************************************************)
THEOREM ExitSound == Spec => []Sound
  <1>1. IInv => Sound
    <2> SUFFICES ASSUME IInv PROVE Sound  OBVIOUS
    <2>1. queue \in Seq(Env) /\ lost \subseteq Env /\ panicked = FALSE
      BY DEF IInv, Queued, Typed
    <2>2. ASSUME NEW e \in Env
          PROVE  /\ env[e].status \in {"FREE", "RUNNABLE", "NOT_RUNNABLE"}
                 /\ env[e].gen \in 0 .. GenMod - 1
                 /\ env[e].recving \in BOOLEAN
                 /\ env[e].recving <=> env[e].status = "NOT_RUNNABLE"
      <3>1. env[e] \in Rec /\ Own(e, env[e])  BY DEF IInv, Typed
      <3>2. env[e].recving <=> env[e].status = "NOT_RUNNABLE"
        BY <3>1 DEF Own, Blocked
      <3> QED BY <3>1, <3>2 DEF Rec
    <2> QED BY <2>1, <2>2 DEF Sound, TypeOK, ServerLives
  <1> QED BY <1>1, ExitInvariant, PTL

(***************************************************************************)
(* exit's one message is never lost on the shell but in a pipeline: the    *)
(* shell's turn comes before its child has its answer from the server.     *)
(***************************************************************************)
THEOREM ShellAlwaysHears == Spec => []ShellHears
  <1>1. IInv => ShellHears  BY DEF IInv
  <1> QED BY <1>1, ExitInvariant, PTL

\* Up the tree from any env of a line there is a shell that waits.
LEMMA UpToShell ==
    ASSUME Typed, Tree, NEW s \in Slot, Active(s)
    PROVE  Open(env[Shell])
  <1>1. ASSUME NEW p \in Slot, Open(env[p])
        PROVE  Active(p) /\ (Spawner(env[p]) \/ Commander(env[p]))
    <2>1. SlotRec(env[p])  BY Names DEF Typed, Own
    <2>2. env[p].status # "FREE"  BY <1>1, <2>1 DEF SlotRec, Open, Busy
    <2>3. env[p].pc \in SlotPc  BY <2>1, <2>2 DEF SlotRec
    <2> QED BY <1>1, <2>2, <2>3 DEF Active, Open, Busy, Spawner, Commander, SlotPc
  <1>2. ASSUME NEW p \in Slot, Active(p)
        PROVE  \E q \in Env : Fits(env[p], env[q]) /\ (q = Shell \/ q \in Slot)
    <2>1. PICK q \in Env : Fits(env[p], env[q])  BY <1>2 DEF Tree
    <2>2. Open(env[q])  BY <2>1 DEF Fits
    <2>3. q # Server  BY <2>2, Names DEF Typed, Own, ServerRec, Open, Busy
    <2> QED BY <2>1, <2>3, Names
  <1>3. ASSUME NEW p \in Slot, Active(p), Commander(env[p])
        PROVE  Open(env[Shell])
    <2>1. PICK q \in Env : Fits(env[p], env[q]) /\ (q = Shell \/ q \in Slot)  BY <1>2, <1>3
    <2>2. env[q].pc \in {"taken", "redirected"} /\ Open(env[q])  BY <1>3, <2>1 DEF Fits
    <2>3. q \notin Slot
      <3> SUFFICES ASSUME q \in Slot PROVE FALSE  OBVIOUS
      <3>1. SlotRec(env[q])  BY Names DEF Typed, Own
      <3> QED BY <2>2, <3>1 DEF SlotRec, SlotPc
    <2> QED BY <2>1, <2>2, <2>3
  <1>4. ASSUME NEW p \in Slot, Active(p), Spawner(env[p])
        PROVE  Open(env[Shell])
    <2>1. PICK q \in Env : Fits(env[p], env[q]) /\ (q = Shell \/ q \in Slot)  BY <1>2, <1>4
    <2>2. env[q].pc \in {"status", "got"} /\ Open(env[q])  BY <1>4, <2>1 DEF Fits
    <2>3. Commander(env[q])  BY <2>2 DEF Commander
    <2> QED BY <1>1, <1>3, <2>1, <2>2, <2>3
  <1>5. PICK p \in Env : Fits(env[s], env[p]) /\ (p = Shell \/ p \in Slot)  BY <1>2
  <1>6. Open(env[p])  BY <1>5 DEF Fits
  <1> HIDE DEF Open, Active, Spawner, Commander
  <1> QED BY <1>1, <1>3, <1>4, <1>5, <1>6

(***************************************************************************)
(* At the prompt the envs of the last line are gone, or at their last      *)
(* system call, though slots and ids are used again (wait).                *)
(***************************************************************************)
THEOREM PromptIsQuiet == Spec => []Quiet
  <1>1. IInv => Quiet
    <2> SUFFICES ASSUME IInv, AtPrompt, NEW s \in Slot, Active(s) PROVE FALSE
      BY DEF Quiet, Active
    <2>1. Open(env[Shell])  BY UpToShell DEF IInv
    <2> QED BY <2>1 DEF Open, Busy, AtPrompt
  <1> QED BY <1>1, ExitInvariant, PTL
-----------------------------------------------------------------------------
(***************************************************************************)
(* The status of a line without a redirected program, whose child takes    *)
(* the program's status for an answer of the server (AnswerFromServer).    *)
(***************************************************************************)
Exiting(x) == x.pc = "send" \/ (Busy(x) /\ x.next = "send")

\* The child in which execute_command calls spawn, where v is what was said.
RunnerRec(x, v) ==
    /\ \/ x.pc \in {"spawn", "spawned", "failed", "program", "ended", "send"}
       \/ Busy(x) /\ x.next = "spawned"
    /\ x.files = 0
    /\ x.pc = "ended" /\ ~Blocked(x) => x.value = v
    /\ x.pc = "send" /\ v # NULL => x.r = v
    /\ v # NULL => x.pc \in {"program", "ended", "send"}

\* The program, which spawn started.
ProgramRec(x, v) ==
    /\ x.pc \in {"main", "return", "send"} \/ (Busy(x) /\ x.next = "return")
    /\ x.files = 0
    /\ x.pc = "send" => x.r = v
    /\ v # NULL => x.pc = "send"

\* The child of a builtin's redirection.
BuiltinRec(x, v) ==
    /\ x.pc \in {"openbuiltin", "builtin"} \/ (Busy(x) /\ x.next = "builtin") \/ Exiting(x)
    /\ Exiting(x) => x.r = v
    /\ v # NULL => Exiting(x)

ShellId == <<Shell, 0>>

SlotStatus(l, x, v) ==
    /\ l = "run" /\ x.parent = ShellId => RunnerRec(x, v)
    /\ l = "run" /\ x.parent # ShellId => ProgramRec(x, v)
    /\ l = "builtin>" => BuiltinRec(x, v)

ShellStatus(x, v) ==
    /\ x.pc # "prompt" => x.next # "run>"
    /\ x.pc \in {"got", "redirected"} /\ ~Blocked(x) /\ v # NULL => x.value = v
    /\ x.pc \in {"wait", "prompt"} /\ x.next # "builtin|" /\ v # NULL => x.r = v
    /\ x.pc \in {"command", "redirect"} => v = NULL

Asked(x) == env[x].pc = "await" \/ (env[x].pc = "answer" /\ Blocked(env[x]))

\* The lines whose status somebody takes.
Taken == Line \in {"run", "builtin>"}

Answered == Taken /\ env[Server].pc = "reply" /\ ~Blocked(env[Server]) =>
              \E x \in Slot : env[Server].from = Id(x) /\ Asked(x)

Passing == /\ ShellStatus(env[Shell], said)
           /\ \A s \in Slot : Active(s) => SlotStatus(Line, env[s], said)
           /\ Answered

LEMMA ShellIs ==
    ASSUME Typed
    PROVE  Id(Shell) = ShellId /\ ShellRec(env[Shell]) /\ env[Shell] \in Rec
           /\ KidCount(env[Shell])
  <1>1. Own(Shell, env[Shell]) /\ env[Shell] \in Rec  BY Names DEF Typed
  <1>2. ShellRec(env[Shell]) /\ KidCount(env[Shell])  BY <1>1, Names DEF Own
  <1> QED BY <1>1, <1>2 DEF Id, ShellId, ShellRec

\* A step of a slot that writes its own record, and is not recv.
LEMMA SlotPasses ==
    ASSUME Core, Passing, queue # <<>>, NEW e \in Slot, e = CPU, NEW x \in Rec, Moves(e, x),
           x.gen = env[e].gen, x.parent = env[e].parent, said' = said,
           env[e].pc \notin {"await", "die"}, x.status # "FREE",
           x.pc # "die" /\ SlotStatus(Line, env[e], said) => SlotStatus(Line, x, said)
    PROVE  Passing'
  <1> HIDE DEF Rec, SlotStatus, ShellStatus
  <1>1. env \in [Env -> Rec] /\ e # Shell /\ e # Server /\ e \in Env  BY Names DEF Core, Typed
  <1>2. env' = [env EXCEPT ![e] = x]  BY DEF Moves
  <1>3. env'[e] = x /\ \A f \in Env \ {e} : env'[f] = env[f]  BY <1>1, <1>2
  <1>4. Line' = Line /\ env'[Shell] = env[Shell] /\ env'[Server] = env[Server]
    BY <1>1, <1>3, Names DEF Line
  <1>5. Active(e) /\ ~Blocked(env[e])
    BY <1>1, Running DEF Core, Active
  <1>6. ASSUME NEW s \in Slot, Active(s)' PROVE SlotStatus(Line', env'[s], said')
    <2>1. CASE s = e
      <3>1. x.pc # "die"  BY <1>3, <1>6, <2>1 DEF Active
      <3> QED BY <1>3, <1>4, <1>5, <2>1, <3>1 DEF Passing
    <2>2. CASE s # e
      <3>1. env'[s] = env[s] /\ Active(s)  BY <1>3, <1>6, <2>2, Names DEF Active
      <3> QED BY <1>4, <3>1 DEF Passing
    <2> QED BY <2>1, <2>2
  <1>7. Answered'
    <2> SUFFICES ASSUME Taken', env'[Server].pc = "reply", ~Blocked(env'[Server])
                 PROVE  \E y \in Slot : env'[Server].from = Id(y)' /\ Asked(y)'
      BY DEF Answered
    <2>1. PICK y \in Slot : env[Server].from = Id(y) /\ Asked(y)
      BY <1>4 DEF Passing, Answered, Taken
    <2>2. y # e  BY <1>5, <2>1 DEF Asked
    <2>3. env'[y] = env[y]  BY <1>3, <2>2, Names
    <2> QED BY <1>4, <2>1, <2>3 DEF Id, Asked
  <1>8. ShellStatus(env'[Shell], said')  BY <1>4 DEF Passing
  <1> QED BY <1>6, <1>7, <1>8 DEF Passing

\* A step that changes nobody's record.
LEMMA StillPasses ==
    ASSUME Passing, UNCHANGED <<env, said>>
    PROVE  Passing'
  BY DEF Passing, Active, Line, Answered, Taken, Id, Asked

\* A step of the shell in a line: the slots and the server see nothing of it.
LEMMA ShellPasses ==
    ASSUME Passing, NEW x, env'[Shell] = x, \A f \in Env \ {Shell} : env'[f] = env[f],
           x.next = env[Shell].next, said' = said, ShellStatus(x, said)
    PROVE  Passing'
  <1> HIDE DEF Rec, SlotStatus, ShellStatus
  <1>2. env'[Shell] = x /\ \A f \in Env \ {Shell} : env'[f] = env[f]  OBVIOUS
  <1>3. Line' = Line /\ env'[Server] = env[Server] /\ \A s \in Slot : env'[s] = env[s]
    BY <1>2, Names DEF Line
  <1>4. Answered'  BY <1>3 DEF Passing, Answered, Taken, Id, Asked
  <1>5. \A s \in Slot : Active(s)' => Active(s)  BY <1>3 DEF Active
  <1> QED BY <1>2, <1>3, <1>4, <1>5 DEF Passing

\* Nobody is there: nobody asked the server anything.
LEMMA NobodyThere ==
    ASSUME Core, ~Open(env[Shell])
    PROVE  /\ \A s \in Slot : ~Active(s)
           /\ ~(env[Server].pc = "reply" /\ ~Blocked(env[Server]))
  <1>1. \A s \in Slot : ~Active(s)  BY UpToShell DEF Core
  <1>2. ASSUME env[Server].pc = "reply", ~Blocked(env[Server]) PROVE FALSE
    <2>1. PICK x \in Slot : Waits(x)  BY <1>2 DEF Core, Served
    <2>2. SlotRec(env[x])  BY Names DEF Core, Typed, Own
    <2>3. Active(x)  BY <2>1, <2>2 DEF Waits, SlotRec, Active
    <2> QED BY <1>1, <2>3
  <1> QED BY <1>1, <1>2

\* The program's parent is the child of the shell, and the others are the shell's children.
LEMMA ParentIs ==
    ASSUME Core, Passing, Taken, NEW s \in Slot, Active(s)
    PROVE  \E p \in Env :
             /\ env[s].parent = Id(p) /\ HasKid(env[p], Id(s)) /\ Open(env[p])
             /\ \/ p = Shell /\ env[s].parent = ShellId
                \/ /\ p \in Slot /\ Active(p) /\ Line = "run" /\ env[s].parent # ShellId
                   /\ env[p].parent = ShellId /\ RunnerRec(env[p], said)
                   /\ env[p].pc = "program" \/ (env[p].pc = "ended" /\ Blocked(env[p]))
  <1>1. PICK p \in Env : /\ env[s].parent = Id(p) /\ HasKid(env[p], Id(s))
                         /\ Fits(env[s], env[p])
    BY DEF Core, Tree
  <1>2. Open(env[p])  BY <1>1 DEF Fits
  <1>3. CASE p = Shell  BY <1>1, <1>2, <1>3, ShellIs DEF Core
  <1>4. CASE p = Server  BY <1>2, <1>4, Names DEF Core, Typed, Own, ServerRec, Open, Busy
  <1>5. CASE p \in Slot
    <2>1. SlotRec(env[p])  BY <1>5, Names DEF Core, Typed, Own
    <2>2. env[p].status # "FREE"  BY <1>2, <2>1 DEF SlotRec, Open, Busy
    <2>3. Active(p)  BY <1>2, <1>5, <2>2 DEF Active, Open, Busy
    <2>4. SlotStatus(Line, env[p], said)  BY <1>5, <2>3 DEF Passing
    <2>5. env[p].pc \in SlotPc  BY <2>1, <2>2 DEF SlotRec
    <2>6. Line = "run"
      <3>1. ~BuiltinRec(env[p], said)
        BY <1>2, <2>5 DEF Open, Busy, BuiltinRec, Exiting, SlotPc
      <3> QED BY <2>4, <3>1 DEF SlotStatus, Taken
    <2>7. ~ProgramRec(env[p], said)  BY <1>2, <2>5 DEF Open, Busy, ProgramRec, SlotPc
    <2>8. env[p].parent = ShellId /\ RunnerRec(env[p], said)
      BY <2>4, <2>6, <2>7 DEF SlotStatus
    <2>9. env[p].pc = "program" \/ (env[p].pc = "ended" /\ Blocked(env[p]))
      BY <1>2, <2>5, <2>8 DEF RunnerRec, Open, Busy, SlotPc
    <2>10. env[s].parent # ShellId
      <3>1. Id(p) # Id(Shell)  BY <1>5, Names, IdFacts DEF Core
      <3> QED BY <1>1, <3>1, ShellIs DEF Core
    <2> QED BY <1>1, <1>2, <1>5, <2>3, <2>6, <2>8, <2>9, <2>10
  <1> QED BY <1>3, <1>4, <1>5, Names

\* The status is said once, while its line waits for it.
LEMMA SaidOnce ==
    ASSUME Core, Passing, Taken, NEW e \in Slot, Active(e), env[e].pc \in {"return", "builtin"},
           NEW s \in Slot, Active(s), s # e
    PROVE  /\ Line = "run" /\ env[s].parent = ShellId /\ RunnerRec(env[s], said)
           /\ env[s].pc = "program" \/ (env[s].pc = "ended" /\ Blocked(env[s]))
  <1>1. Shell \in Env /\ Id(Shell) = ShellId /\ ShellRec(env[Shell])
        /\ env[Shell] \in Rec /\ KidCount(env[Shell])
    BY Names, ShellIs DEF Core
  <1>2. ASSUME NEW p \in Env, KidCount(env[p]), env[p] \in Rec, env[p].pc # "waitleft",
               NEW c \in Slot, NEW d \in Slot, HasKid(env[p], Id(c)), HasKid(env[p], Id(d))
        PROVE  c = d
    <2>1. PICK k : k = env[p].kids  OBVIOUS
    <2>2. k \in Seq(Ids \cup {NULL}) /\ Len(k) <= 1  BY <1>2, <2>1 DEF Rec, KidCount
    <2>3. PICK m \in 1 .. Len(k) : k[m] = Id(c)  BY <1>2, <2>1 DEF HasKid
    <2>4. PICK n \in 1 .. Len(k) : k[n] = Id(d)  BY <1>2, <2>1 DEF HasKid
    <2>5. m = 1 /\ n = 1  BY <2>2, <2>3, <2>4
    <2>6. Id(c) = Id(d)  BY <2>3, <2>4, <2>5
    <2> QED BY <2>6, Names, IdFacts DEF Core
  <1>3. env[Shell].pc # "waitleft"  BY <1>1 DEF ShellRec, Taken, Line
  <1>4. ASSUME NEW p \in Slot, Active(p) PROVE env[p].pc # "waitleft" /\ KidCount(env[p])
                                               /\ env[p] \in Rec /\ p \in Env
    BY <1>4, Names DEF Core, Typed, Own, SlotRec, SlotPc, Active
  <1>5. PICK p \in Env :
             /\ env[e].parent = Id(p) /\ HasKid(env[p], Id(e))
             /\ \/ p = Shell /\ env[e].parent = ShellId
                \/ /\ p \in Slot /\ Active(p) /\ Line = "run" /\ env[e].parent # ShellId
                   /\ env[p].parent = ShellId /\ RunnerRec(env[p], said)
                   /\ env[p].pc = "program" \/ (env[p].pc = "ended" /\ Blocked(env[p]))
    BY ParentIs
  <1>6. PICK q \in Env :
             /\ env[s].parent = Id(q) /\ HasKid(env[q], Id(s))
             /\ \/ q = Shell /\ env[s].parent = ShellId
                \/ /\ q \in Slot /\ Active(q) /\ Line = "run" /\ env[s].parent # ShellId
                   /\ env[q].parent = ShellId /\ RunnerRec(env[q], said)
                   /\ env[q].pc = "program" \/ (env[q].pc = "ended" /\ Blocked(env[q]))
    BY ParentIs
  <1>7. ASSUME NEW c \in Slot, Active(c), env[c].parent = ShellId
        PROVE  HasKid(env[Shell], Id(c))
    <2>1. PICK d \in Env : env[c].parent = Id(d) /\ HasKid(env[d], Id(c))
      BY <1>7, ParentIs
    <2>2. d = Shell  BY <1>1, <1>7, <2>1, IdFacts DEF Core
    <2> QED BY <2>1, <2>2
  <1> HIDE DEF Rec, KidCount, HasKid, Active, RunnerRec, ShellRec
  <1>8. ASSUME NEW c \in Slot, NEW d \in Slot, Active(c), Active(d),
               env[c].parent = ShellId, env[d].parent = ShellId
        PROVE  c = d
    BY <1>1, <1>2, <1>3, <1>7, <1>8
  <1>9. CASE p = Shell
    <2>1. env[e].parent = ShellId  BY <1>1, <1>5, <1>9
    <2>2. Line # "run"
      <3> SUFFICES ASSUME Line = "run" PROVE FALSE  OBVIOUS
      <3>1. SlotStatus(Line, env[e], said)  BY DEF Passing
      <3> QED BY <2>1, <3>1 DEF SlotStatus, RunnerRec, Busy
    <2>3. q = Shell /\ env[s].parent = ShellId  BY <1>6, <2>2
    <2> QED BY <1>8, <2>1, <2>3
  <1>10. CASE p # Shell
    <2>1. /\ p \in Slot /\ Active(p) /\ Line = "run" /\ env[p].parent = ShellId
          /\ RunnerRec(env[p], said)
          /\ env[p].pc = "program" \/ (env[p].pc = "ended" /\ Blocked(env[p]))
      BY <1>5, <1>10
    <2>2. CASE q = Shell
      <3>1. env[s].parent = ShellId  BY <1>6, <2>2, Names
      <3>2. s = p  BY <1>8, <2>1, <3>1
      <3> QED BY <2>1, <3>1, <3>2
    <2>3. CASE q # Shell
      <3>1. q \in Slot /\ Active(q) /\ env[q].parent = ShellId  BY <1>6, <2>3
      <3>2. q = p  BY <1>8, <2>1, <3>1
      <3>3. HasKid(env[p], Id(s)) /\ HasKid(env[p], Id(e))  BY <1>5, <1>6, <3>2
      <3> QED BY <1>2, <1>4, <2>1, <3>3
    <2> QED BY <2>2, <2>3
  <1> QED BY <1>9, <1>10

\* The program, or the builtin, says its status.
LEMMA SayPasses ==
    ASSUME Core, Passing, queue # <<>>, NEW e \in Env, e = CPU, e # Server,
           Return(e) \/ Builtin(e)
    PROVE  Passing'
  <1>1. env[e].pc \in {"return", "builtin"}  BY DEF Return, Builtin
  <1>2. e \in Slot /\ env[e] \in Rec /\ ~Blocked(env[e]) /\ env[e].status = "RUNNABLE"
    BY <1>1, SlotFacts DEF ShellPc
  <1>3. PICK r \in Msg : Moves(e, Exits(env[e], r)) /\ said' = r
    <2>1. \A r \in Ended("program") \cup Ended("builtin") : r \in Msg  BY DEF Ended, Msg
    <2> QED BY <2>1 DEF Return, Builtin
  <1>4. PICK x \in Rec :
          /\ x = Exits(env[e], r)
          /\ x.status = env[e].status /\ x.gen = env[e].gen /\ x.parent = env[e].parent
          /\ x.r = r /\ x.files = 0
          /\ env[e].files = 0 => x.pc = "send"
          /\ x.pc = "send" \/ (x.pc = "request" /\ x.next = "send" /\ x.reqs = 1)
    <2> HIDE DEF Rec, Msg
    <2> QED BY <1>2, ExitsRec
  <1>5. env \in [Env -> Rec] /\ e # Shell  BY <1>2, Names DEF Core, Typed
  <1>6. env'[e] = x /\ \A f \in Env \ {e} : env'[f] = env[f]
    BY <1>3, <1>4, <1>5 DEF Moves
  <1>7. Line' = Line /\ env'[Shell] = env[Shell] /\ env'[Server] = env[Server]
    BY <1>5, <1>6, Names DEF Line
  <1>8. Active(e)  BY <1>1, <1>2 DEF Active
  <1>9. ShellStatus(env'[Shell], said')
    <2>1. Open(env[Shell]) /\ ShellRec(env[Shell])  BY <1>2, <1>8, UpToShell, ShellIs DEF Core
    <2>2. env[Shell].pc # "prompt"  BY <2>1 DEF Open, Busy
    <2>3. env[Shell].next # "run>"  BY <2>2 DEF Passing, ShellStatus
    <2> QED BY <1>7, <2>1, <2>2, <2>3 DEF ShellStatus, Open, Busy
  <1>10. ASSUME NEW s \in Slot, Active(s)' PROVE SlotStatus(Line', env'[s], said')
    <2>1. CASE ~Taken  BY <1>7, <2>1 DEF Taken, SlotStatus
    <2>2. CASE Taken /\ s = e
      <3>1. SlotStatus(Line, env[e], said)  BY <1>2, <1>8 DEF Passing
      <3>2. CASE Line = "run"
        <4>1. env[e].parent # ShellId /\ env[e].files = 0
          BY <1>1, <3>1, <3>2 DEF SlotStatus, RunnerRec, ProgramRec, Busy
        <4>2. ProgramRec(x, r)  BY <1>4, <4>1 DEF ProgramRec
        <4> QED BY <1>3, <1>4, <1>6, <1>7, <2>2, <3>2, <4>1, <4>2 DEF SlotStatus
      <3>3. CASE Line = "builtin>"
        <4>1. BuiltinRec(x, r)  BY <1>4 DEF BuiltinRec, Exiting, Busy
        <4> QED BY <1>3, <1>6, <1>7, <2>2, <3>3, <4>1 DEF SlotStatus
      <3> QED BY <2>2, <3>2, <3>3 DEF Taken
    <2>3. CASE Taken /\ s # e
      <3>1. env'[s] = env[s] /\ Active(s)  BY <1>6, <1>10, <2>3, Names DEF Active
      <3>2. /\ Line = "run" /\ env[s].parent = ShellId /\ RunnerRec(env[s], said)
            /\ env[s].pc = "program" \/ (env[s].pc = "ended" /\ Blocked(env[s]))
        BY <1>1, <1>2, <1>8, <2>3, <3>1, SaidOnce
      <3>3. RunnerRec(env[s], said')  BY <3>2 DEF RunnerRec
      <3> QED BY <1>7, <3>1, <3>2, <3>3 DEF SlotStatus
    <2> QED BY <2>1, <2>2, <2>3
  <1>11. Answered'
    <2> SUFFICES ASSUME Taken', env'[Server].pc = "reply", ~Blocked(env'[Server])
                 PROVE  \E y \in Slot : env'[Server].from = Id(y)' /\ Asked(y)'
      BY DEF Answered
    <2>1. PICK y \in Slot : env[Server].from = Id(y) /\ Asked(y)
      BY <1>7 DEF Passing, Answered, Taken
    <2>2. y # e  BY <1>1, <1>2, <2>1 DEF Asked
    <2>3. env'[y] = env[y]  BY <1>6, <2>2, Names
    <2> QED BY <1>7, <2>1, <2>3 DEF Id, Asked
  <1> QED BY <1>9, <1>10, <1>11 DEF Passing

\* A message to env t, from env e whose record is then x.
LEMMA ToldFacts ==
    ASSUME Core, NEW e \in Env, NEW t \in Env, t # e, NEW v, NEW x, NEW y, Told(e, t, v, x, y),
           e = Shell => x.next = env[Shell].next, x.gen = env[e].gen
    PROVE  /\ Line' = Line
           /\ env'[e] = x /\ env'[t] = y /\ \A f \in Env \ {e, t} : env'[f] = env[f]
           /\ \A f \in Env : Id(f)' = Id(f)
  BY Names DEF Told, Line, Id

LEMMA RequestPasses ==
    ASSUME Core, Passing, queue # <<>>, NEW e \in Env, e = CPU, e # Server, Request(e)
    PROVE  Passing'
  <1>1. env[e].pc = "request" /\ UNCHANGED <<lost, said, panicked>>
        /\ ipc_send(e, Id(Server), <<"request", 0>>, At(env[e], "await"))
    BY DEF Request
  <1>2. e \in Slot /\ env[e] \in Rec /\ ~Blocked(env[e]) /\ env[e].status = "RUNNABLE"
    BY <1>1, SlotFacts DEF ShellPc
  <1>3. Id(Server)[1] = Server /\ Server \in Env /\ Shell \in Env /\ e # Shell /\ Shell # Server
    BY <1>2, Names, IdFacts DEF Core
  <1>4. CASE ~env[Server].recving
    BY <1>1, <1>3, <1>4, StillPasses DEF ipc_send
  <1>5. CASE env[Server].recving
    <2>1. "await" \in Pc /\ <<"request", 0>> \in Msg  BY DEF Pc, SlotPc, Msg
    <2>2. PICK x : x = At(env[e], "await")  OBVIOUS
    <2>3. /\ x \in Rec /\ x.status = "RUNNABLE" /\ x.gen = env[e].gen
          /\ x.parent = env[e].parent /\ x.next = env[e].next /\ x.value = env[e].value
          /\ x.files = env[e].files /\ x.r = env[e].r /\ x.pc = "await"
      <3> HIDE DEF Rec, Pc
      <3> QED BY <1>2, <2>1, <2>2, AtRec
    <2>4. env' = Delivered(e, Server, <<"request", 0>>, [env EXCEPT ![e] = x])
      BY <1>1, <1>3, <1>5, <2>2 DEF ipc_send
    <2>5. PICK y \in Rec : Told(e, Server, <<"request", 0>>, x, y)
      <3> HIDE DEF Rec, Msg
      <3> QED BY <1>3, <2>1, <2>3, <2>4, DeliveredFacts DEF Core
    <2>6. /\ Line' = Line
          /\ env'[e] = x /\ env'[Server] = y /\ \A f \in Env \ {e, Server} : env'[f] = env[f]
          /\ \A f \in Env : Id(f)' = Id(f)
      <3> HIDE DEF Rec, Told
      <3> QED BY <1>3, <2>3, <2>5, ToldFacts
    <2>7. env'[Shell] = env[Shell]  BY <1>3, <2>6
    <2>8. ASSUME NEW s \in Slot, Active(s)' PROVE SlotStatus(Line', env'[s], said')
      <3>1. CASE s = e
        <4>1. Active(e)  BY <1>1, <1>2 DEF Active
        <4>2. SlotStatus(Line, env[e], said)  BY <1>2, <4>1 DEF Passing
        <4>3. SlotStatus(Line, x, said)
          <5>1. RunnerRec(env[e], said) => RunnerRec(x, said)
            BY <1>1, <2>3 DEF RunnerRec, Busy
          <5>2. ProgramRec(env[e], said) => ProgramRec(x, said)
            BY <1>1, <2>3 DEF ProgramRec, Busy
          <5>3. BuiltinRec(env[e], said) => BuiltinRec(x, said)
            BY <1>1, <2>3 DEF BuiltinRec, Busy, Exiting
          <5> QED BY <2>3, <4>2, <5>1, <5>2, <5>3 DEF SlotStatus
        <4> QED BY <1>1, <2>6, <3>1, <4>3
      <3>2. CASE s # e
        <4>1. env'[s] = env[s] /\ Active(s)  BY <2>6, <2>8, <3>2, Names DEF Active
        <4> QED BY <1>1, <2>6, <4>1 DEF Passing
      <3> QED BY <3>1, <3>2
    <2>9. Answered'
      <3>1. y.from = Id(e)  BY <2>5 DEF Told
      <3>2. Asked(e)'  BY <2>3, <2>6 DEF Asked
      <3> QED BY <1>2, <1>3, <2>6, <3>1, <3>2 DEF Answered
    <2>10. ShellStatus(env'[Shell], said')  BY <1>1, <2>7 DEF Passing
    <2> QED BY <2>8, <2>9, <2>10 DEF Passing
  <1> QED BY <1>4, <1>5

LEMMA ReplyPasses ==
    ASSUME Core, Passing, queue # <<>>, Server = CPU, Reply
    PROVE  Passing'
  <1>1. UNCHANGED <<lost, said>> /\ env[Server].pc = "reply"  BY DEF Reply
  <1>2. Server \in Env /\ Shell \in Env /\ Shell # Server /\ Server \notin Slot  BY Names
  <1>3. env[Server] \in Rec /\ ~Blocked(env[Server]) /\ env[Server].status = "RUNNABLE"
    BY <1>2, Running DEF Core
  <1>4. PICK t \in Slot : env[Server].from = Id(t) /\ Waits(t)
    BY <1>1, <1>3 DEF Core, Served
  <1>5. t \in Env /\ t # Server /\ t # Shell /\ Known(Id(t)) /\ Id(t)[1] = t
    BY <1>4, Names, WaitsKnown
  <1>6. ipc_send(Server, Id(t), <<"answer", 0>>, At(env[Server], "listen"))
    BY <1>4, <1>5 DEF Reply
  <1>7. CASE ~env[t].recving
    BY <1>1, <1>5, <1>6, <1>7, StillPasses DEF ipc_send
  <1>8. CASE env[t].recving
    <2>1. "listen" \in Pc /\ <<"answer", 0>> \in Msg  BY DEF Pc, Msg
    <2>2. PICK x : x = At(env[Server], "listen")  OBVIOUS
    <2>3. x \in Rec /\ x.gen = env[Server].gen /\ x.pc = "listen"
      <3> HIDE DEF Rec, Pc
      <3> QED BY <1>3, <2>1, <2>2, AtRec
    <2>4. env' = Delivered(Server, t, <<"answer", 0>>, [env EXCEPT ![Server] = x])
      BY <1>5, <1>6, <1>8, <2>2 DEF ipc_send
    <2>5. PICK y \in Rec : Told(Server, t, <<"answer", 0>>, x, y)
      <3> HIDE DEF Rec, Msg
      <3> QED BY <1>2, <1>5, <2>1, <2>3, <2>4, DeliveredFacts DEF Core
    <2>6. /\ Line' = Line
          /\ env'[Server] = x /\ env'[t] = y /\ \A f \in Env \ {Server, t} : env'[f] = env[f]
          /\ \A f \in Env : Id(f)' = Id(f)
      <3> HIDE DEF Rec, Told
      <3> QED BY <1>2, <1>5, <2>3, <2>5, ToldFacts
    <2>7. env'[Shell] = env[Shell]  BY <1>2, <1>5, <2>6
    <2>8. ASSUME NEW s \in Slot, Active(s)' PROVE SlotStatus(Line', env'[s], said')
      <3>1. CASE s = t
        <4>1. CASE ~Taken  BY <2>6, <4>1 DEF Taken, SlotStatus
        <4>2. CASE Taken
          <5>1. PICK a \in Slot : env[Server].from = Id(a) /\ Asked(a)
            BY <1>1, <1>3, <4>2 DEF Passing, Answered
          <5>2. a = t  BY <1>4, <1>5, <5>1, Names, IdFacts DEF Core
          <5>3. Blocked(env[t])  BY <1>5, <1>8 DEF Core, Typed, Own
          <5>4. env[t].pc = "answer"
            <6>1. Own(t, env[t])  BY <1>5 DEF Core, Typed
            <6>2. SlotRec(env[t])  BY <1>5, <6>1 DEF Own
            <6> QED BY <5>1, <5>2, <5>3, <6>2 DEF Asked, SlotRec
          <5>5. Active(t)  BY <5>3, <5>4 DEF Active, Blocked
          <5>6. SlotStatus(Line, env[t], said)  BY <5>5 DEF Passing
          <5>7. /\ y.pc = env[t].pc /\ y.next = env[t].next /\ y.files = env[t].files
                /\ y.r = env[t].r /\ y.parent = env[t].parent
            BY <2>5 DEF Told
          <5>8. RunnerRec(env[t], said) => RunnerRec(y, said)
            BY <5>4, <5>7 DEF RunnerRec, Busy
          <5>9. ProgramRec(env[t], said) => ProgramRec(y, said)
            BY <5>4, <5>7 DEF ProgramRec, Busy
          <5>10. BuiltinRec(env[t], said) => BuiltinRec(y, said)
            BY <5>4, <5>7 DEF BuiltinRec, Busy, Exiting
          <5>11. SlotStatus(Line, y, said)  BY <5>6, <5>7, <5>8, <5>9, <5>10 DEF SlotStatus
          <5> QED BY <1>1, <2>6, <3>1, <5>11
        <4> QED BY <4>1, <4>2
      <3>2. CASE s # t
        <4>1. env'[s] = env[s] /\ Active(s)  BY <1>2, <2>6, <2>8, <3>2, Names DEF Active
        <4> QED BY <1>1, <2>6, <4>1 DEF Passing
      <3> QED BY <3>1, <3>2
    <2>9. Answered'  BY <2>3, <2>6 DEF Answered
    <2>10. ShellStatus(env'[Shell], said')  BY <1>1, <2>7 DEF Passing
    <2> QED BY <2>8, <2>9, <2>10 DEF Passing
  <1> QED BY <1>7, <1>8

\* exit: the one send to the parent.
LEMMA SendPasses ==
    ASSUME Core, Passing, queue # <<>>, NEW e \in Env, e = CPU, e # Server, Send(e)
    PROVE  Passing'
  <1>1. env[e].pc = "send" /\ said' = said  BY DEF Send
  <1>2. /\ e \in Slot /\ env[e] \in Rec /\ ~Blocked(env[e]) /\ env[e].status = "RUNNABLE"
        /\ e # Shell /\ Active(e)
    BY <1>1, SlotFacts, Names DEF ShellPc, Active
  <1>3. PICK d \in Env : /\ env[e].parent = Id(d) /\ Id(d)[1] = d /\ d # e /\ d # Server
                         /\ Known(Id(d)) /\ Open(env[d])
    BY <1>1, <1>2, SendFacts
  <1>4. PICK x : x = At(env[e], "die")  OBVIOUS
  <1>5. /\ x \in Rec /\ x.status = "RUNNABLE" /\ x.gen = env[e].gen
        /\ x.parent = env[e].parent /\ x.pc = "die"
    <2>1. "die" \in Pc  BY DEF Pc, SlotPc
    <2> HIDE DEF Rec, Pc
    <2> QED BY <1>2, <1>4, <2>1, AtRec
  <1>6. CASE ~env[d].recving
    <2>1. Moves(e, x)  BY <1>3, <1>4, <1>6 DEF Send
    <2>2. env[e].pc \notin {"await", "die"} /\ x.status # "FREE"  BY <1>1, <1>5
    <2> HIDE DEF Rec, SlotStatus
    <2> QED BY <1>1, <1>2, <1>5, <2>1, <2>2, SlotPasses
  <1>7. CASE env[d].recving
    <2>1. PICK v \in Msg : v = env[e].r  BY <1>2 DEF Rec
    <2>2. env' = Delivered(e, d, v, [env EXCEPT ![e] = x])
      BY <1>3, <1>4, <1>7, <2>1 DEF Send, At
    <2>3. PICK y \in Rec : Told(e, d, v, x, y)
      <3> HIDE DEF Rec, Msg
      <3> QED BY <1>3, <1>5, <2>1, <2>2, DeliveredFacts DEF Core
    <2>4. /\ Line' = Line
          /\ env'[e] = x /\ env'[d] = y /\ \A f \in Env \ {e, d} : env'[f] = env[f]
          /\ \A f \in Env : Id(f)' = Id(f)
      <3> HIDE DEF Rec, Told
      <3> QED BY <1>2, <1>3, <1>5, <2>3, ToldFacts
    <2>5. /\ y.value = v /\ y.status = "RUNNABLE" /\ y.pc = env[d].pc /\ y.next = env[d].next
          /\ y.files = env[d].files /\ y.r = env[d].r /\ y.parent = env[d].parent
      BY <2>3 DEF Told
    <2>6. Blocked(env[d])  BY <1>7, <1>3 DEF Core, Typed, Own
    <2>7. SlotStatus(Line, env[e], said)  BY <1>2 DEF Passing
    <2>8. Shell \in Env /\ Server \in Env /\ Server # Shell /\ Server # e /\ Server \notin Slot
      BY <1>2, Names
    <2>9. Id(Shell) = ShellId /\ ShellRec(env[Shell])  BY ShellIs DEF Core
    <2>10. CASE d = Shell
      <3>1. env[e].parent = ShellId  BY <1>3, <2>9, <2>10
      <3>2. env[Shell].pc \in {"got", "redirected"} /\ env[Shell].next # "run>"
        BY <2>6, <2>9, <2>10 DEF ShellRec, Passing, ShellStatus
      <3>3. Taken  BY <2>9, <3>2 DEF ShellRec, Taken, Line, Passing, ShellStatus
      <3>4. said # NULL => v = said
        <4>1. CASE Line = "run"
          BY <1>1, <2>1, <2>7, <3>1, <4>1 DEF SlotStatus, RunnerRec
        <4>2. CASE Line = "builtin>"
          BY <1>1, <2>1, <2>7, <4>2 DEF SlotStatus, BuiltinRec, Exiting
        <4> QED BY <3>3, <4>1, <4>2 DEF Taken
      <3>5. ShellStatus(y, said)
        BY <2>5, <2>10, <3>2, <3>4 DEF ShellStatus
      <3>6. ASSUME NEW s \in Slot, Active(s)' PROVE SlotStatus(Line', env'[s], said')
        <4>1. s # e  BY <1>5, <2>4, <3>6 DEF Active
        <4>2. env'[s] = env[s] /\ Active(s)  BY <2>4, <2>10, <3>6, <4>1, Names DEF Active
        <4> QED BY <1>1, <2>4, <4>2 DEF Passing
      <3>7. Answered'
        <4> SUFFICES ASSUME Taken', env'[Server].pc = "reply", ~Blocked(env'[Server])
                     PROVE  \E a \in Slot : env'[Server].from = Id(a)' /\ Asked(a)'
          BY DEF Answered
        <4>1. env'[Server] = env[Server]  BY <2>4, <2>8, <2>10
        <4>2. PICK a \in Slot : env[Server].from = Id(a) /\ Asked(a)
          BY <2>4, <4>1 DEF Passing, Answered, Taken
        <4>3. a # e  BY <1>1, <4>2 DEF Asked
        <4>4. env'[a] = env[a]  BY <2>4, <2>10, <4>3, Names
        <4> QED BY <2>4, <4>1, <4>2, <4>4, Names DEF Asked
      <3> QED BY <1>1, <2>4, <2>10, <3>5, <3>6, <3>7 DEF Passing
    <2>11. CASE d # Shell
      <3>1. d \in Slot /\ env'[Shell] = env[Shell] /\ env'[Server] = env[Server]
        BY <1>2, <1>3, <2>4, <2>8, <2>11, Names
      <3>2. ASSUME Taken
            PROVE  /\ Line = "run" /\ env[e].parent # ShellId
                   /\ env[d].parent = ShellId /\ RunnerRec(env[d], said)
                   /\ env[d].pc = "ended"
        <4>1. PICK p \in Env :
             /\ env[e].parent = Id(p)
             /\ \/ p = Shell /\ env[e].parent = ShellId
                \/ /\ p \in Slot /\ Active(p) /\ Line = "run" /\ env[e].parent # ShellId
                   /\ env[p].parent = ShellId /\ RunnerRec(env[p], said)
                   /\ env[p].pc = "program" \/ (env[p].pc = "ended" /\ Blocked(env[p]))
          BY <1>2, <3>2, ParentIs
        <4>2. p = d  BY <1>3, <4>1, IdFacts DEF Core
        <4>3. SlotRec(env[d])  BY <1>3, <2>11 DEF Core, Typed, Own
        <4>4. env[d].pc # "program"  BY <2>6, <4>3 DEF SlotRec
        <4> QED BY <2>11, <4>1, <4>2, <4>4
      <3>3. ASSUME NEW s \in Slot, Active(s)' PROVE SlotStatus(Line', env'[s], said')
        <4>1. s # e  BY <1>5, <2>4, <3>3 DEF Active
        <4>2. CASE s # d
          <5>1. env'[s] = env[s] /\ Active(s)  BY <2>4, <3>3, <4>1, <4>2, Names DEF Active
          <5> QED BY <1>1, <2>4, <5>1 DEF Passing
        <4>3. CASE s = d /\ ~Taken  BY <2>4, <4>3 DEF Taken, SlotStatus
        <4>4. CASE s = d /\ Taken
          <5>1. v = said  BY <1>1, <2>1, <2>7, <3>2, <4>4 DEF SlotStatus, ProgramRec
          <5>2. RunnerRec(y, said)  BY <2>5, <3>2, <4>4, <5>1 DEF RunnerRec, Busy
          <5> QED BY <1>1, <2>4, <2>5, <3>2, <4>4, <5>2 DEF SlotStatus
        <4> QED BY <4>2, <4>3, <4>4
      <3>4. Answered'
        <4> SUFFICES ASSUME Taken', env'[Server].pc = "reply", ~Blocked(env'[Server])
                     PROVE  \E a \in Slot : env'[Server].from = Id(a)' /\ Asked(a)'
          BY DEF Answered
        <4>1. Taken  BY <2>4 DEF Taken
        <4>2. PICK a \in Slot : env[Server].from = Id(a) /\ Asked(a)
          BY <3>1, <4>1 DEF Passing, Answered
        <4>3. a # e /\ a # d  BY <1>1, <3>2, <4>1, <4>2 DEF Asked
        <4>4. env'[a] = env[a]  BY <2>4, <4>3, Names
        <4> QED BY <2>4, <3>1, <4>2, <4>4, Names DEF Asked
      <3> QED BY <1>1, <3>1, <3>3, <3>4 DEF Passing
    <2> QED BY <2>10, <2>11
  <1> QED BY <1>6, <1>7

\* In a line whose status nobody takes there is nothing to keep but the shell's part.
LEMMA UntakenPasses ==
    ASSUME ~Taken, Line' = Line, ShellStatus(env'[Shell], said')
    PROVE  Passing'
  BY DEF Passing, Taken, SlotStatus, Answered

LEMMA RecvFacts ==
    ASSUME Core, NEW e \in Env, NEW pc, sys_ipc_recv(e, pc)
    PROVE  \E y : /\ env'[e] = y /\ \A f \in Env \ {e} : env'[f] = env[f]
                  /\ Blocked(y) /\ y.pc = pc /\ y.gen = env[e].gen /\ y.parent = env[e].parent
                  /\ y.next = env[e].next /\ y.files = env[e].files /\ y.r = env[e].r
  <1>1. env \in [Env -> Rec] /\ env[e] \in Rec  BY DEF Core, Typed
  <1>2. env' = [env EXCEPT ![e].recving = TRUE, ![e].status = "NOT_RUNNABLE", ![e].pc = pc]
    BY DEF sys_ipc_recv
  <1>3. \A f \in Env \ {e} : env'[f] = env[f]  BY <1>1, <1>2
  <1>4. env'[e] = [env[e] EXCEPT !.recving = TRUE, !.status = "NOT_RUNNABLE", !.pc = pc]
    BY <1>1, <1>2 DEF Rec
  <1>5. /\ env'[e].status = "NOT_RUNNABLE" /\ env'[e].pc = pc /\ env'[e].gen = env[e].gen
        /\ env'[e].parent = env[e].parent
        /\ env'[e].next = env[e].next /\ env'[e].files = env[e].files /\ env'[e].r = env[e].r
    BY <1>1, <1>4 DEF Rec
  <1> QED BY <1>3, <1>5 DEF Blocked

\* A slot waits for a message.
LEMMA SlotRecvPasses ==
    ASSUME Core, Passing, queue # <<>>, NEW e \in Slot, e = CPU,
           \/ env[e].pc = "await" /\ sys_ipc_recv(e, "answer")
           \/ env[e].pc = "program" /\ sys_ipc_recv(e, "ended"),
           said' = said
    PROVE  Passing'
  <1>1. e \in Env /\ e # Shell /\ e # Server /\ Shell \in Env /\ Server \in Env  BY Names
  <1>2. Active(e) /\ ~Blocked(env[e])  BY <1>1, Running DEF Core, Active
  <1>3. PICK pc : /\ sys_ipc_recv(e, pc)
                  /\ \/ env[e].pc = "await" /\ pc = "answer"
                     \/ env[e].pc = "program" /\ pc = "ended"
    OBVIOUS
  <1>4. PICK y : /\ env'[e] = y /\ \A f \in Env \ {e} : env'[f] = env[f]
                 /\ Blocked(y) /\ y.pc = pc /\ y.gen = env[e].gen /\ y.parent = env[e].parent
                 /\ y.next = env[e].next /\ y.files = env[e].files /\ y.r = env[e].r
    BY <1>1, <1>3, RecvFacts
  <1>5. Line' = Line /\ env'[Shell] = env[Shell] /\ env'[Server] = env[Server]
    BY <1>1, <1>4 DEF Line
  <1>6. \A f \in Env : Id(f)' = Id(f)  BY <1>4 DEF Id
  <1>7. SlotStatus(Line, y, said)
    <2>1. SlotStatus(Line, env[e], said)  BY <1>2 DEF Passing
    <2>2. RunnerRec(env[e], said) => RunnerRec(y, said)  BY <1>3, <1>4 DEF RunnerRec, Busy
    <2>3. ProgramRec(env[e], said) => ProgramRec(y, said)  BY <1>3, <1>4 DEF ProgramRec, Busy
    <2>4. BuiltinRec(env[e], said) => BuiltinRec(y, said)
      BY <1>3, <1>4 DEF BuiltinRec, Busy, Exiting
    <2> QED BY <1>4, <2>1, <2>2, <2>3, <2>4 DEF SlotStatus
  <1>8. ASSUME NEW s \in Slot, Active(s)' PROVE SlotStatus(Line', env'[s], said')
    <2>1. CASE s = e  BY <1>4, <1>5, <1>7, <2>1
    <2>2. CASE s # e
      <3>1. env'[s] = env[s] /\ Active(s)  BY <1>4, <1>8, <2>2, Names DEF Active
      <3> QED BY <1>5, <3>1 DEF Passing
    <2> QED BY <2>1, <2>2
  <1>9. Answered'
    <2> SUFFICES ASSUME Taken', env'[Server].pc = "reply", ~Blocked(env'[Server])
                 PROVE  \E a \in Slot : env'[Server].from = Id(a)' /\ Asked(a)'
      BY DEF Answered
    <2>1. PICK a \in Slot : env[Server].from = Id(a) /\ Asked(a)
      BY <1>5 DEF Passing, Answered, Taken
    <2>2. Asked(a)'
      <3>1. CASE a = e  BY <1>2, <1>3, <1>4, <2>1, <3>1 DEF Asked
      <3>2. CASE a # e
        <4>1. env'[a] = env[a]  BY <1>4, <3>2, Names
        <4> QED BY <2>1, <4>1 DEF Asked
      <3> QED BY <3>1, <3>2
    <2> QED BY <1>5, <1>6, <2>1, <2>2, Names
  <1>10. ShellStatus(env'[Shell], said')  BY <1>5 DEF Passing
  <1> QED BY <1>8, <1>9, <1>10 DEF Passing

LEMMA ListenPasses ==
    ASSUME Core, Passing, Listen
    PROVE  Passing'
  <1>1. sys_ipc_recv(Server, "reply") /\ said' = said  BY DEF Listen
  <1>2. PICK y : /\ env'[Server] = y /\ \A f \in Env \ {Server} : env'[f] = env[f]
                 /\ Blocked(y)
    BY <1>1, Names, RecvFacts
  <1>3. Line' = Line /\ env'[Shell] = env[Shell] /\ \A s \in Slot : env'[s] = env[s]
    BY <1>2, Names DEF Line
  <1>4. Answered'  BY <1>2 DEF Answered
  <1>5. \A s \in Slot : Active(s)' => Active(s)  BY <1>3 DEF Active
  <1> QED BY <1>1, <1>3, <1>4, <1>5 DEF Passing

\* The shell waits for a message.
LEMMA ShellRecvPasses ==
    ASSUME Core, Passing, NEW pc \in {"got", "redirected"}, sys_ipc_recv(Shell, pc),
           said' = said, env[Shell].pc \in {"status", "taken"}
    PROVE  Passing'
  <1>1. PICK y : /\ env'[Shell] = y /\ \A f \in Env \ {Shell} : env'[f] = env[f]
                 /\ Blocked(y) /\ y.pc = pc /\ y.next = env[Shell].next
    BY Names, RecvFacts
  <1>2. env[Shell].next # "run>"  BY DEF Passing, ShellStatus
  <1>3. ShellStatus(y, said)  BY <1>1, <1>2 DEF ShellStatus
  <1> QED BY <1>1, <1>3, ShellPasses

\* A slot that runs execute_command is of a line whose status nobody takes.
LEMMA CommandUntaken ==
    ASSUME Core, Passing, queue # <<>>, NEW e \in Slot, e = CPU,
           env[e].pc \in {"opencommand", "command", "status", "got", "wait"}
    PROVE  ~Taken
  <1>1. Active(e)
    <2>1. env[e].status = "RUNNABLE"  BY Names, Running DEF Core
    <2> QED BY <2>1 DEF Active
  <1>2. SlotStatus(Line, env[e], said)  BY <1>1 DEF Passing
  <1>3. ~RunnerRec(env[e], said) /\ ~ProgramRec(env[e], said) /\ ~BuiltinRec(env[e], said)
    BY DEF RunnerRec, ProgramRec, BuiltinRec, Exiting, Busy
  <1> QED BY <1>2, <1>3 DEF SlotStatus, Taken

\* Whatever such a slot does, the shell is as it was.
LEMMA CommandPasses ==
    ASSUME Core, Passing, queue # <<>>, NEW e \in Slot, e = CPU,
           ForkCommand(e) \/ TakeStatus(e) \/ GotStatus(e) \/ WaitCommand(e)
    PROVE  Passing'
  <1>1. env[e].pc \in {"command", "status", "got", "wait"} /\ said' = said
    BY DEF ForkCommand, TakeStatus, GotStatus, WaitCommand, Wait
  <1>2. ~Taken  BY <1>1, CommandUntaken
  <1>3. env \in [Env -> Rec] /\ e # Shell /\ Shell \in Env  BY Names DEF Core, Typed
  <1> HIDE DEF Rec
  <1>4. env'[Shell] = env[Shell]
    <2>1. ASSUME NEW x, Moves(e, x) PROVE env'[Shell] = env[Shell]
      BY <1>3, <2>1 DEF Moves
    <2>2. ASSUME NEW c \in FreeSlots, NEW x, NEW pc, NEW files, Born(e, c, x, pc, files)
          PROVE  env'[Shell] = env[Shell]
      <3>1. c # Shell  BY Names DEF FreeSlots
      <3> QED BY <1>3, <2>2, <3>1 DEF Born
    <2>3. CASE ForkCommand(e)  BY <2>1, <2>2, <2>3 DEF ForkCommand
    <2>4. CASE TakeStatus(e)  BY <1>3, <2>4 DEF TakeStatus, sys_ipc_recv
    <2>5. CASE GotStatus(e)  BY <2>1, <2>5 DEF GotStatus
    <2>6. CASE WaitCommand(e)  BY <2>1, <2>6 DEF WaitCommand, Wait
    <2> QED BY <2>3, <2>4, <2>5, <2>6
  <1>5. Line' = Line /\ ShellStatus(env'[Shell], said')
    BY <1>1, <1>4 DEF Line, Passing
  <1> QED BY <1>2, <1>5, UntakenPasses

LEMMA DestroyPasses ==
    ASSUME Core, Passing, queue # <<>>, NEW e \in Slot, e = CPU, env_destroy(e)
    PROVE  Passing'
  <1>1. env \in [Env -> Rec] /\ e # Shell /\ e # Server /\ e \in Env  BY Names DEF Core, Typed
  <1>2. env[e].pc = "die" /\ said' = said  BY DEF env_destroy
  <1>3. PICK x : x.status = "FREE" /\ env'[e] = x /\ \A f \in Env \ {e} : env'[f] = env[f]
    <2>1. env' = [env EXCEPT ![e] = [Free EXCEPT !.gen = env[e].gen]]  BY DEF env_destroy
    <2>2. [Free EXCEPT !.gen = env[e].gen].status = "FREE"  BY DEF Free
    <2> HIDE DEF Rec
    <2> QED BY <1>1, <2>1, <2>2
  <1>4. Line' = Line /\ env'[Shell] = env[Shell] /\ env'[Server] = env[Server]
    BY <1>1, <1>3, Names DEF Line
  <1>5. ASSUME NEW s \in Slot, Active(s)' PROVE SlotStatus(Line', env'[s], said')
    <2>1. s # e  BY <1>3, <1>5 DEF Active
    <2>2. env'[s] = env[s] /\ Active(s)  BY <1>3, <1>5, <2>1, Names DEF Active
    <2> QED BY <1>2, <1>4, <2>2 DEF Passing
  <1>6. Answered'
    <2> SUFFICES ASSUME Taken', env'[Server].pc = "reply", ~Blocked(env'[Server])
                 PROVE  \E a \in Slot : env'[Server].from = Id(a)' /\ Asked(a)'
      BY DEF Answered
    <2>1. PICK a \in Slot : env[Server].from = Id(a) /\ Asked(a)
      BY <1>4 DEF Passing, Answered, Taken
    <2>2. a # e  BY <1>2, <2>1 DEF Asked
    <2>3. env'[a] = env[a]  BY <1>3, <2>2, Names
    <2> QED BY <1>4, <2>1, <2>3 DEF Id, Asked
  <1>7. ShellStatus(env'[Shell], said')  BY <1>2, <1>4 DEF Passing
  <1> QED BY <1>5, <1>6, <1>7 DEF Passing

\* A fork, or a spawn: the parent's record and the child's fit the line.
LEMMA ForkPasses ==
    ASSUME Core, Passing, queue # <<>>, NEW e \in Env, e = CPU, e # Server,
           NEW c \in FreeSlots, NEW x, NEW pc, NEW files, NEW g, NEW y, NEW z,
           Forked(e, c, x, pc, files, g, y, z), said' = said, x.gen = env[e].gen,
           e \in Slot => env[e].pc # "await" /\ SlotStatus(Line, y, said),
           e = Shell => y.next = env[e].next /\ ShellStatus(y, said),
           SlotStatus(Line, z, said)
    PROVE  Passing'
  <1>1. /\ env'[e] = y /\ env'[c] = z /\ c # e /\ y.gen = env[e].gen
        /\ \A f \in Env \ {e, c} : env'[f] = env[f]
    BY DEF Forked
  <1>2. c \in Slot /\ c # Shell /\ c # Server /\ env[c].status = "FREE"  BY Names DEF FreeSlots
  <1> HIDE DEF FreeSlots, SlotStatus, ShellStatus
  <1>3. Line' = Line /\ env'[Server] = env[Server] /\ ShellStatus(env'[Shell], said')
    <2>1. env'[Server] = env[Server]  BY <1>1, <1>2, Names
    <2>2. CASE e = Shell  BY <1>1, <2>1, <2>2 DEF Line
    <2>3. CASE e # Shell
      <3>1. env'[Shell] = env[Shell]  BY <1>1, <1>2, <2>3, Names
      <3> QED BY <2>1, <3>1 DEF Line, Passing
    <2> QED BY <2>2, <2>3
  <1>4. ASSUME NEW s \in Slot, Active(s)' PROVE SlotStatus(Line', env'[s], said')
    <2>1. CASE s = c  BY <1>1, <1>3, <2>1
    <2>2. CASE s = e  BY <1>1, <1>3, <2>2
    <2>3. CASE s # c /\ s # e
      <3>1. env'[s] = env[s] /\ Active(s)  BY <1>1, <1>4, <2>3, Names DEF Active
      <3> QED BY <1>3, <3>1 DEF Passing
    <2> QED BY <2>1, <2>2, <2>3
  <1>5. Answered'
    <2> SUFFICES ASSUME Taken', env'[Server].pc = "reply", ~Blocked(env'[Server])
                 PROVE  \E a \in Slot : env'[Server].from = Id(a)' /\ Asked(a)'
      BY DEF Answered
    <2>1. PICK a \in Slot : env[Server].from = Id(a) /\ Asked(a)
      BY <1>3 DEF Passing, Answered, Taken
    <2>2. a # e
      <3>1. ~Blocked(env[e])  BY Running DEF Core
      <3> QED BY <2>1, <3>1 DEF Asked
    <2>3. a # c
      <3>1. SlotRec(env[c])  BY <1>2, Names DEF Core, Typed, Own
      <3>2. env[c].pc = "idle"  BY <1>2, <3>1 DEF SlotRec
      <3> QED BY <2>1, <3>2 DEF Asked
    <2>4. env'[a] = env[a]  BY <1>1, <2>2, <2>3, Names
    <2> QED BY <1>3, <2>1, <2>4 DEF Id, Asked
  <1> QED BY <1>3, <1>4, <1>5 DEF Passing

LEMMA AnswerPasses ==
    ASSUME Core, Passing, queue # <<>>, NEW e \in Env, e = CPU, e # Server, Answer(e)
    PROVE  Passing'
  <1>1. env[e].pc = "answer" /\ said' = said  BY DEF Answer
  <1>2. e \in Slot /\ env[e] \in Rec /\ env[e].status = "RUNNABLE" /\ SlotRec(env[e])
    BY <1>1, SlotFacts DEF ShellPc
  <1>3. PICK n : n = env[e].next  OBVIOUS
  <1>4. env[e].reqs = 1 /\ n \in {"spawned", "program", "failed", "return", "builtin",
                                  "command", "send"}
    BY <1>1, <1>2, <1>3 DEF SlotRec, Busy
  <1>5. n \in Pc  BY <1>4 DEF Pc, SlotPc
  <1>6. PICK x : x = Ask(env[e], 0, n)  OBVIOUS
  <1>7. /\ x \in Rec /\ x.status = env[e].status /\ x.gen = env[e].gen
        /\ x.parent = env[e].parent /\ x.files = env[e].files /\ x.r = env[e].r /\ x.pc = n
    <2> HIDE DEF Rec, Pc
    <2> QED BY <1>2, <1>5, <1>6, AskRec
  <1>8. Moves(e, x)
    <2>1. env[e].reqs - 1 = 0  BY <1>4
    <2> QED BY <1>3, <1>6, <2>1 DEF Answer
  <1>9. SlotStatus(Line, env[e], said) => SlotStatus(Line, x, said)
    <2>1. RunnerRec(env[e], said) => RunnerRec(x, said)
      BY <1>1, <1>3, <1>7 DEF RunnerRec, Busy
    <2>2. ProgramRec(env[e], said) => ProgramRec(x, said)
      BY <1>1, <1>3, <1>7 DEF ProgramRec, Busy
    <2>3. BuiltinRec(env[e], said) => BuiltinRec(x, said)
      BY <1>1, <1>3, <1>7 DEF BuiltinRec, Busy, Exiting
    <2> QED BY <1>7, <2>1, <2>2, <2>3 DEF SlotStatus
  <1>10. env[e].pc \notin {"await", "die"} /\ x.status # "FREE"  BY <1>1, <1>2, <1>7
  <1> HIDE DEF Rec, SlotStatus
  <1> QED BY <1>1, <1>2, <1>7, <1>8, <1>9, <1>10, SlotPasses

LEMMA SpawnPasses ==
    ASSUME Core, Passing, queue # <<>>, NEW e \in Env, e = CPU, e # Server, Spawn(e)
    PROVE  Passing'
  <1>1. env[e].pc = "spawn" /\ said' = said  BY DEF Spawn
  <1>2. e \in Slot /\ env[e] \in Rec /\ env[e].status = "RUNNABLE"
    BY <1>1, SlotFacts DEF ShellPc
  <1>3. PICK x : x = Ask(env[e], 1, "spawned")  OBVIOUS
  <1>4. /\ x \in Rec /\ x.status = env[e].status /\ x.gen = env[e].gen
        /\ x.parent = env[e].parent /\ x.files = env[e].files
        /\ x.pc = "request" /\ x.next = "spawned"
    <2>1. "spawned" \in Pc  BY DEF Pc, SlotPc
    <2> HIDE DEF Rec, Pc
    <2> QED BY <1>2, <1>3, <2>1, AskRec
  <1>5. Moves(e, x)  BY <1>3 DEF Spawn
  <1>6. SlotStatus(Line, env[e], said) => SlotStatus(Line, x, said)
    <2>1. RunnerRec(env[e], said) => RunnerRec(x, said)  BY <1>1, <1>4 DEF RunnerRec, Busy
    <2>2. ~ProgramRec(env[e], said) /\ ~BuiltinRec(env[e], said)
      BY <1>1 DEF ProgramRec, BuiltinRec, Busy, Exiting
    <2> QED BY <1>4, <2>1, <2>2 DEF SlotStatus
  <1>7. env[e].pc \notin {"await", "die"} /\ x.status # "FREE"  BY <1>1, <1>2, <1>4
  <1> HIDE DEF Rec, SlotStatus
  <1> QED BY <1>1, <1>2, <1>4, <1>5, <1>6, <1>7, SlotPasses

LEMMA MainPasses ==
    ASSUME Core, Passing, queue # <<>>, NEW e \in Env, e = CPU, e # Server, Main(e)
    PROVE  Passing'
  <1>1. env[e].pc = "main" /\ said' = said  BY DEF Main
  <1>2. e \in Slot /\ env[e] \in Rec /\ env[e].status = "RUNNABLE"
    BY <1>1, SlotFacts DEF ShellPc
  <1>3. PICK x : Moves(e, x) /\ (x = Ask(env[e], 1, "return") \/ x = At(env[e], "return"))
    BY DEF Main
  <1>4. /\ x \in Rec /\ x.status = env[e].status /\ x.gen = env[e].gen
        /\ x.parent = env[e].parent /\ x.files = env[e].files
        /\ x.pc = "return" \/ (x.pc = "request" /\ x.next = "return")
    <2>1. "return" \in Pc  BY DEF Pc, SlotPc
    <2> HIDE DEF Rec, Pc
    <2>2. CASE x = Ask(env[e], 1, "return")  BY <1>2, <2>1, <2>2, AskRec
    <2>3. CASE x = At(env[e], "return")  BY <1>2, <2>1, <2>3, AtRec
    <2> QED BY <1>3, <2>2, <2>3
  <1>5. SlotStatus(Line, env[e], said) => SlotStatus(Line, x, said)
    <2>1. ProgramRec(env[e], said) => ProgramRec(x, said)  BY <1>1, <1>4 DEF ProgramRec, Busy
    <2>2. ~RunnerRec(env[e], said) /\ ~BuiltinRec(env[e], said)
      BY <1>1 DEF RunnerRec, BuiltinRec, Busy, Exiting
    <2> QED BY <1>4, <2>1, <2>2 DEF SlotStatus
  <1>6. env[e].pc \notin {"await", "die"} /\ x.status # "FREE"  BY <1>1, <1>2, <1>4
  <1> HIDE DEF Rec, SlotStatus
  <1> QED BY <1>1, <1>2, <1>3, <1>4, <1>5, <1>6, SlotPasses

\* The child hands on what it took.
LEMMA ExitChildPasses ==
    ASSUME Core, Passing, queue # <<>>, NEW e \in Env, e = CPU, e # Server, ExitChild(e)
    PROVE  Passing'
  <1>1. env[e].pc \in {"ended", "failed"} /\ said' = said  BY DEF ExitChild
  <1>2. e \in Slot /\ env[e] \in Rec /\ env[e].status = "RUNNABLE" /\ ~Blocked(env[e])
    BY <1>1, SlotFacts DEF ShellPc
  <1>3. PICK r \in Msg : /\ Moves(e, Exits(env[e], r))
                         /\ env[e].pc = "ended" => r = env[e].value
    <2>1. \A r \in Ended("none") : r \in Msg  BY DEF Ended, Msg
    <2>2. env[e].value \in Msg  BY <1>2 DEF Rec
    <2> HIDE DEF Msg
    <2> QED BY <1>1, <2>1, <2>2 DEF ExitChild
  <1>4. PICK x : x = Exits(env[e], r)  OBVIOUS
  <1>5. /\ x \in Rec /\ x.status = env[e].status /\ x.gen = env[e].gen
        /\ x.parent = env[e].parent /\ x.r = r /\ x.files = 0
        /\ env[e].files = 0 => x.pc = "send"
    <2> HIDE DEF Rec, Msg
    <2> QED BY <1>2, <1>4, ExitsRec
  <1>6. SlotStatus(Line, env[e], said) => SlotStatus(Line, x, said)
    <2>1. RunnerRec(env[e], said) => RunnerRec(x, said)
      BY <1>1, <1>2, <1>3, <1>5 DEF RunnerRec, Busy
    <2>2. ~ProgramRec(env[e], said) /\ ~BuiltinRec(env[e], said)
      BY <1>1 DEF ProgramRec, BuiltinRec, Busy, Exiting
    <2> QED BY <1>5, <2>1, <2>2 DEF SlotStatus
  <1>7. env[e].pc \notin {"await", "die"} /\ x.status # "FREE" /\ Moves(e, x)
    BY <1>1, <1>2, <1>3, <1>4, <1>5
  <1> HIDE DEF Rec, SlotStatus
  <1> QED BY <1>1, <1>2, <1>5, <1>6, <1>7, SlotPasses

LEMMA OpenFilePasses ==
    ASSUME Core, Passing, queue # <<>>, NEW e \in Env, e = CPU, e # Server, OpenFile(e)
    PROVE  Passing'
  <1>1. env[e].pc \in {"openbuiltin", "opencommand"} /\ said' = said  BY DEF OpenFile
  <1>2. e \in Slot /\ env[e] \in Rec /\ env[e].status = "RUNNABLE"
    BY <1>1, SlotFacts DEF ShellPc
  <1>3. PICK n : n = IF env[e].pc = "openbuiltin" THEN "builtin" ELSE "command"  OBVIOUS
  <1>4. PICK y : y = Ask(env[e], 1, n)  OBVIOUS
  <1>5. /\ y \in Rec /\ y.status = env[e].status /\ y.gen = env[e].gen
        /\ y.parent = env[e].parent /\ y.pc = "request" /\ y.next = n
    <2>1. n \in Pc  BY <1>3 DEF Pc, SlotPc
    <2> HIDE DEF Rec, Pc
    <2> QED BY <1>2, <1>4, <2>1, AskRec
  <1>6. PICK x : x = [y EXCEPT !.files = 1]  OBVIOUS
  <1>7. /\ x \in Rec /\ x.status = env[e].status /\ x.gen = env[e].gen
        /\ x.parent = env[e].parent /\ x.pc = "request" /\ x.next = n
    BY <1>5, <1>6 DEF Rec
  <1>8. Moves(e, x)  BY <1>3, <1>4, <1>6 DEF OpenFile
  <1>9. SlotStatus(Line, env[e], said) => SlotStatus(Line, x, said)
    <2>1. ~RunnerRec(env[e], said) /\ ~ProgramRec(env[e], said)
      BY <1>1 DEF RunnerRec, ProgramRec, Busy
    <2>2. BuiltinRec(env[e], said) => BuiltinRec(x, said)
      <3>1. BuiltinRec(env[e], said) => env[e].pc = "openbuiltin" /\ said = NULL
        BY <1>1 DEF BuiltinRec, Exiting, Busy
      <3>2. env[e].pc = "openbuiltin" => n = "builtin"  BY <1>3
      <3>3. n = "builtin" => ~Exiting(x) /\ Busy(x)  BY <1>7 DEF Exiting, Busy
      <3> QED BY <1>7, <3>1, <3>2, <3>3 DEF BuiltinRec
    <2> QED BY <2>1, <2>2 DEF SlotStatus
  <1>10. env[e].pc \notin {"await", "die"} /\ x.status # "FREE"  BY <1>1, <1>2, <1>7
  <1> HIDE DEF Rec, SlotStatus
  <1> QED BY <1>1, <1>2, <1>7, <1>8, <1>9, <1>10, SlotPasses

\* spawn: the program is the child of an env that is not the shell.
LEMMA SpawnedPasses ==
    ASSUME Core, Passing, queue # <<>>, NEW e \in Env, e = CPU, e # Server, Spawned(e)
    PROVE  Passing'
  <1>1. env[e].pc = "spawned" /\ said' = said  BY DEF Spawned
  <1>2. /\ e \in Slot /\ env[e] \in Rec /\ env[e].status = "RUNNABLE" /\ ~Blocked(env[e])
        /\ e # Shell /\ Shell \in Env /\ Active(e)
    BY <1>1, SlotFacts, Names DEF ShellPc, Active
  <1>3. PICK w : w = [env[e] EXCEPT !.files = 0]  OBVIOUS
  <1>4. /\ w \in Rec /\ w.status = env[e].status /\ w.gen = env[e].gen
        /\ w.parent = env[e].parent /\ w.files = 0
    BY <1>2, <1>3 DEF Rec
  <1>5. env[e].files \in {0, 1}  BY <1>2 DEF Rec
  <1>6. ASSUME NEW pc \in {"program", "failed"}, NEW x, x = Ask(w, env[e].files, pc)
        PROVE  /\ x \in Rec /\ x.status = env[e].status /\ x.gen = env[e].gen
               /\ x.parent = env[e].parent /\ x.files = 0
               /\ x.pc # "await" /\ (env[e].files = 0 => x.pc = pc)
    <2>1. PICK n \in {0, 1} : n = env[e].files  BY <1>5
    <2>2. pc \in Pc  BY DEF Pc, SlotPc
    <2> HIDE DEF Rec, Pc
    <2>3. x = Ask(w, n, pc)  BY <1>6, <2>1
    <2> QED BY <1>4, <2>1, <2>2, <2>3, AskRec
  <1>7. SlotStatus(Line, env[e], said)  BY <1>2 DEF Passing
  <1>8. ASSUME Taken
        PROVE  Line = "run" /\ env[e].parent = ShellId /\ env[e].files = 0 /\ said = NULL
    <2>1. ~ProgramRec(env[e], said) /\ ~BuiltinRec(env[e], said)
      BY <1>1 DEF ProgramRec, BuiltinRec, Busy, Exiting
    <2>2. RunnerRec(env[e], said) => env[e].files = 0 /\ said = NULL
      BY <1>1 DEF RunnerRec
    <2> QED BY <1>7, <1>8, <2>1, <2>2 DEF SlotStatus, Taken
  <1>9. ASSUME NEW g \in FreeSlots,
               Born(e, g, Ask(w, env[e].files, "program"), "main", env[e].files)
        PROVE  Passing'
    <2>1. PICK x : x = Ask(w, env[e].files, "program")  OBVIOUS
    <2>2. /\ x \in Rec /\ x.gen = env[e].gen
          /\ x.parent = env[e].parent /\ x.files = 0
          /\ (env[e].files = 0 => x.pc = "program")
      <3> HIDE DEF Rec
      <3> QED BY <1>6, <2>1
    <2>3. "main" \in Pc  BY DEF Pc, SlotPc
    <2>4. PICK f \in {0, 1} : f = env[e].files  BY <1>5
    <2>5. Born(e, g, x, "main", f)  BY <1>9, <2>1, <2>4
    <2>6. PICK h \in 0 .. GenMod - 1, y \in Rec, z \in Rec : Forked(e, g, x, "main", f, h, y, z)
      <3> HIDE DEF Rec, Pc, FreeSlots
      <3> QED BY <1>2, <2>2, <2>3, <2>5, BornFacts DEF Core
    <2>7. /\ y.parent = x.parent /\ y.pc = x.pc /\ y.files = x.files
          /\ z.pc = "main" /\ z.files = f /\ z.parent = Id(e)
      BY <2>6 DEF Forked
    <2>8. Taken => Line = "run" /\ y.parent = ShellId /\ RunnerRec(y, said)
      BY <1>8, <2>2, <2>7 DEF RunnerRec
    <2>9. Taken => z.parent # ShellId /\ ProgramRec(z, said)
      <3>1. Id(e) # ShellId  BY <1>2, IdFacts, ShellIs DEF Core
      <3> QED BY <1>8, <2>4, <2>7, <3>1 DEF ProgramRec
    <2>10. SlotStatus(Line, y, said) /\ SlotStatus(Line, z, said)
      BY <1>8, <2>8, <2>9 DEF SlotStatus, Taken
    <2> HIDE DEF Rec, SlotStatus, ShellStatus, Forked, FreeSlots
    <2> QED BY <1>1, <1>2, <2>2, <2>6, <2>10, ForkPasses
  <1>10. ASSUME NEW pc \in {"program", "failed"}, Moves(e, Ask(w, env[e].files, pc))
         PROVE  Passing'
    <2>1. PICK x : x = Ask(w, env[e].files, pc)  OBVIOUS
    <2>2. /\ x \in Rec /\ x.status = env[e].status /\ x.gen = env[e].gen
          /\ x.parent = env[e].parent /\ x.files = 0
          /\ (env[e].files = 0 => x.pc = pc)
      <3> HIDE DEF Rec
      <3> QED BY <1>6, <2>1
    <2>3. Taken => Line = "run" /\ x.parent = ShellId /\ RunnerRec(x, said)
      BY <1>8, <1>10, <2>2 DEF RunnerRec
    <2>4. SlotStatus(Line, x, said)  BY <2>3 DEF SlotStatus, Taken
    <2>5. env[e].pc \notin {"await", "die"} /\ x.status # "FREE" /\ Moves(e, x)
      BY <1>1, <1>2, <1>10, <2>1, <2>2
    <2> HIDE DEF Rec, SlotStatus
    <2> QED BY <1>1, <1>2, <2>2, <2>4, <2>5, SlotPasses
  <1> QED BY <1>3, <1>9, <1>10 DEF Spawned

LEMMA ShellMoves ==
    ASSUME Core, Passing, NEW x, Moves(Shell, x), said' = said,
           x.next = env[Shell].next, ShellStatus(x, said)
    PROVE  Passing'
  <1>1. env \in [Env -> Rec] /\ Shell \in Env  BY Names DEF Core, Typed
  <1>2. env'[Shell] = x /\ \A f \in Env \ {Shell} : env'[f] = env[f]
    <2> HIDE DEF Rec
    <2> QED BY <1>1 DEF Moves
  <1> HIDE DEF ShellStatus
  <1> QED BY <1>2, ShellPasses

\* execute_command, in the shell itself.
LEMMA ShellCommandPasses ==
    ASSUME Core, Passing, queue # <<>>, Shell = CPU,
           ForkCommand(Shell) \/ TakeStatus(Shell) \/ GotStatus(Shell) \/ WaitCommand(Shell)
    PROVE  Passing'
  <1>1. Shell \in Env /\ Shell # Server /\ Shell \notin Slot  BY Names
  <1>2. /\ env[Shell] \in Rec /\ ~Blocked(env[Shell]) /\ ShellRec(env[Shell])
        /\ env[Shell].status = "RUNNABLE"
    BY <1>1, CommanderFacts
  <1>3. said' = said /\ env[Shell].pc \in {"command", "status", "got", "wait"}
    BY DEF ForkCommand, TakeStatus, GotStatus, WaitCommand, Wait
  <1>4. env[Shell].next = "run" /\ Line = "run"  BY <1>2, <1>3 DEF ShellRec, Line
  <1>5. ShellStatus(env[Shell], said)  BY DEF Passing
  <1>6. CASE TakeStatus(Shell)  BY <1>3, <1>6, ShellRecvPasses DEF TakeStatus
  <1>7. CASE GotStatus(Shell)
    <2>1. PICK x : x = [env[Shell] EXCEPT !.r = env[Shell].value, !.pc = "wait"]  OBVIOUS
    <2>2. x.next = env[Shell].next /\ x.pc = "wait" /\ x.r = env[Shell].value
      BY <1>2, <2>1 DEF Rec
    <2>3. Moves(Shell, x) /\ env[Shell].pc = "got"  BY <1>7, <2>1 DEF GotStatus
    <2>4. ShellStatus(x, said)  BY <1>2, <1>4, <1>5, <2>2, <2>3 DEF ShellStatus
    <2> QED BY <1>3, <2>2, <2>3, <2>4, ShellMoves
  <1>8. CASE WaitCommand(Shell)
    <2>1. Wait(Shell, "wait", Done(Shell, env[Shell]))  BY <1>8 DEF WaitCommand
    <2>2. CASE UNCHANGED env  BY <1>3, <2>2, StillPasses
    <2>3. CASE Moves(Shell, [Done(Shell, env[Shell]) EXCEPT
                                !.kids = Tail(Done(Shell, env[Shell]).kids)])
      <3>1. PICK d : d = Done(Shell, env[Shell])  OBVIOUS
      <3>2. d \in Rec /\ d.r = env[Shell].r /\ d.pc = "prompt" /\ d.next = env[Shell].next
        <4> HIDE DEF Rec
        <4> QED BY <1>1, <1>2, <3>1, DoneRec
      <3>3. PICK x : x = [d EXCEPT !.kids = Tail(d.kids)]  OBVIOUS
      <3>4. x.r = env[Shell].r /\ x.pc = "prompt" /\ x.next = env[Shell].next
        BY <3>2, <3>3 DEF Rec
      <3>5. env[Shell].pc = "wait"  BY <2>1 DEF Wait
      <3>6. ShellStatus(x, said)  BY <1>4, <1>5, <3>4, <3>5 DEF ShellStatus
      <3>7. Moves(Shell, x)  BY <2>3, <3>1, <3>3
      <3> QED BY <1>3, <3>4, <3>6, <3>7, ShellMoves
    <2> QED BY <2>1, <2>2, <2>3 DEF Wait
  <1>9. CASE ForkCommand(Shell)
    <2>0. env[Shell].pc = "command" /\ said = NULL
      BY <1>5, <1>9 DEF ForkCommand, ShellStatus
    <2>1. ASSUME NEW c \in FreeSlots,
                 Born(Shell, c, At(env[Shell], "status"), "spawn", env[Shell].files)
          PROVE  Passing'
      <3>1. "status" \in Pc /\ "spawn" \in Pc  BY DEF Pc, SlotPc
      <3>2. env[Shell].files = 0  BY <1>2 DEF ShellRec
      <3>3. PICK x : x = At(env[Shell], "status")  OBVIOUS
      <3>4. x \in Rec /\ x.gen = env[Shell].gen /\ x.next = env[Shell].next /\ x.pc = "status"
        <4> HIDE DEF Rec, Pc
        <4> QED BY <1>2, <3>1, <3>3, AtRec
      <3>5. Born(Shell, c, x, "spawn", 0)  BY <2>1, <3>2, <3>3
      <3>6. PICK g \in 0 .. GenMod - 1, y \in Rec, z \in Rec :
              Forked(Shell, c, x, "spawn", 0, g, y, z)
        <4>1. 0 \in {0, 1}  OBVIOUS
        <4> HIDE DEF Rec, Pc, FreeSlots
        <4> QED BY <1>1, <1>2, <3>1, <3>4, <3>5, <4>1, BornFacts DEF Core
      <3>7. /\ y.next = env[Shell].next /\ y.pc = "status"
            /\ z.pc = "spawn" /\ z.files = 0 /\ z.parent = Id(Shell)
        BY <3>4, <3>6 DEF Forked
      <3>8. ShellStatus(y, said)  BY <1>4, <3>7 DEF ShellStatus
      <3>9. SlotStatus(Line, z, said)
        <4>1. z.parent = ShellId  BY <3>7, ShellIs DEF Core
        <4>2. RunnerRec(z, said)  BY <2>0, <3>7 DEF RunnerRec
        <4> QED BY <1>4, <4>1, <4>2 DEF SlotStatus
      <3> HIDE DEF Rec, SlotStatus, ShellStatus, Forked, FreeSlots
      <3> QED BY <1>1, <1>3, <3>4, <3>6, <3>7, <3>8, <3>9, ForkPasses
    <2>2. ASSUME Moves(Shell, Done(Shell, [env[Shell] EXCEPT !.r = <<"none", 1>>]))
          PROVE  Passing'
      <3>1. PICK y : y = [env[Shell] EXCEPT !.r = <<"none", 1>>]  OBVIOUS
      <3>2. <<"none", 1>> \in Msg  BY DEF Msg
      <3>3. y \in Rec /\ y.next = env[Shell].next  BY <1>2, <3>1, <3>2 DEF Rec
      <3>4. PICK x : x = Done(Shell, y)  OBVIOUS
      <3>5. x.pc = "prompt" /\ x.next = env[Shell].next
        <4> HIDE DEF Rec
        <4> QED BY <1>1, <3>3, <3>4, DoneRec
      <3>6. ShellStatus(x, said)  BY <2>0, <3>5 DEF ShellStatus
      <3>7. Moves(Shell, x)  BY <2>2, <3>1, <3>4
      <3> QED BY <1>3, <3>5, <3>6, <3>7, ShellMoves
    <2> QED BY <1>9, <2>1, <2>2 DEF ForkCommand
  <1> QED BY <1>6, <1>7, <1>8, <1>9

\* execute_redirection of a builtin.
LEMMA RedirectPasses ==
    ASSUME Core, Passing, queue # <<>>, Shell = CPU, ForkRedirect \/ TakeRedirect \/ GotRedirect
    PROVE  Passing'
  <1>1. Shell \in Env /\ Shell # Server /\ Shell \notin Slot  BY Names
  <1>2. /\ env[Shell] \in Rec /\ ~Blocked(env[Shell]) /\ ShellRec(env[Shell])
        /\ env[Shell].status = "RUNNABLE"
    BY <1>1, CommanderFacts
  <1>3. said' = said /\ env[Shell].pc \in {"redirect", "taken", "redirected"}
    BY DEF ForkRedirect, TakeRedirect, GotRedirect
  <1>4. ShellStatus(env[Shell], said)  BY DEF Passing
  <1>5. env[Shell].next = "builtin>" /\ Line = "builtin>"
    BY <1>2, <1>3, <1>4 DEF ShellRec, ShellStatus, Line
  <1>6. CASE TakeRedirect  BY <1>3, <1>6, ShellRecvPasses DEF TakeRedirect
  <1>7. CASE GotRedirect
    <2>1. PICK x : x = [env[Shell] EXCEPT !.r = env[Shell].value, !.pc = "prompt"]  OBVIOUS
    <2>2. x.next = env[Shell].next /\ x.pc = "prompt" /\ x.r = env[Shell].value
      BY <1>2, <2>1 DEF Rec
    <2>3. Moves(Shell, x) /\ env[Shell].pc = "redirected"  BY <1>7, <2>1 DEF GotRedirect
    <2>4. ShellStatus(x, said)  BY <1>2, <1>5, <1>4, <2>2, <2>3 DEF ShellStatus
    <2> QED BY <1>3, <2>2, <2>3, <2>4, ShellMoves
  <1>8. CASE ForkRedirect
    <2>1. env[Shell].pc = "redirect" /\ said = NULL
      BY <1>4, <1>8 DEF ForkRedirect, ShellStatus
    <2>2. ASSUME NEW c \in FreeSlots, Born(Shell, c, At(env[Shell], "taken"), "openbuiltin", 0)
          PROVE  Passing'
      <3>1. "taken" \in Pc /\ "openbuiltin" \in Pc  BY DEF Pc, ShellPc, SlotPc
      <3>2. PICK x : x = At(env[Shell], "taken")  OBVIOUS
      <3>3. x \in Rec /\ x.gen = env[Shell].gen /\ x.next = env[Shell].next /\ x.pc = "taken"
        <4> HIDE DEF Rec, Pc
        <4> QED BY <1>2, <3>1, <3>2, AtRec
      <3>4. Born(Shell, c, x, "openbuiltin", 0)  BY <2>2, <3>2
      <3>5. PICK g \in 0 .. GenMod - 1, y \in Rec, z \in Rec :
              Forked(Shell, c, x, "openbuiltin", 0, g, y, z)
        <4>1. 0 \in {0, 1}  OBVIOUS
        <4> HIDE DEF Rec, Pc, FreeSlots
        <4> QED BY <1>1, <1>2, <3>1, <3>3, <3>4, <4>1, BornFacts DEF Core
      <3>6. y.next = env[Shell].next /\ y.pc = "taken" /\ z.pc = "openbuiltin"
        BY <3>3, <3>5 DEF Forked
      <3>7. ShellStatus(y, said)  BY <1>5, <3>6 DEF ShellStatus
      <3>8. SlotStatus(Line, z, said)
        <4>1. BuiltinRec(z, said)  BY <2>1, <3>6 DEF BuiltinRec, Exiting, Busy
        <4> QED BY <1>5, <4>1 DEF SlotStatus
      <3> HIDE DEF Rec, SlotStatus, ShellStatus, Forked, FreeSlots
      <3> QED BY <1>1, <1>3, <3>3, <3>5, <3>6, <3>7, <3>8, ForkPasses
    <2>3. ASSUME NEW r \in Ended("none"), Moves(Shell, At([env[Shell] EXCEPT !.r = r], "prompt"))
          PROVE  Passing'
      <3>1. PICK y : y = [env[Shell] EXCEPT !.r = r]  OBVIOUS
      <3>2. r \in Msg /\ "prompt" \in Pc  BY DEF Msg, Ended, Pc, ShellPc
      <3>3. y \in Rec /\ y.next = env[Shell].next  BY <1>2, <3>1, <3>2 DEF Rec
      <3>4. PICK x : x = At(y, "prompt")  OBVIOUS
      <3>5. x.pc = "prompt" /\ x.next = env[Shell].next
        <4> HIDE DEF Rec, Pc
        <4> QED BY <3>2, <3>3, <3>4, AtRec
      <3>6. ShellStatus(x, said)  BY <2>1, <3>5 DEF ShellStatus
      <3>7. Moves(Shell, x)  BY <2>3, <3>1, <3>4
      <3> QED BY <1>3, <3>5, <3>6, <3>7, ShellMoves
    <2>4. env[Shell].next # "run>"  BY <1>5
    <2> QED BY <1>8, <2>2, <2>3, <2>4 DEF ForkRedirect
  <1> QED BY <1>6, <1>7, <1>8

\* execute_pipeline: nobody takes a status.
LEMMA PipelinePasses ==
    ASSUME Core, Passing, queue # <<>>, Shell = CPU,
           ForkLeft \/ ForkRight \/ WaitLeft \/ WaitRight
    PROVE  Passing'
  <1>1. Shell \in Env /\ Shell # Server /\ Shell \notin Slot  BY Names
  <1>2. env[Shell] \in Rec /\ ShellRec(env[Shell])  BY <1>1, CommanderFacts
  <1>3. said' = said /\ env[Shell].pc \in {"pipeline", "right", "waitleft", "waitright"}
    BY DEF ForkLeft, ForkRight, WaitLeft, WaitRight, Wait
  <1>4. env[Shell].next = "builtin|" /\ ~Taken
    BY <1>2, <1>3 DEF ShellRec, Taken, Line
  <1>5. env \in [Env -> Rec]  BY DEF Core, Typed
  <1>6. ASSUME NEW x, env'[Shell] = x, x.next = "builtin|",
               x.pc \in {"right", "waitleft", "waitright", "prompt"}
        PROVE  Passing'
    <2>1. Line' = Line  BY <1>4, <1>6 DEF Line
    <2>2. ShellStatus(x, said')  BY <1>6 DEF ShellStatus
    <2> QED BY <1>4, <1>6, <2>1, <2>2, UntakenPasses
  <1>7. ASSUME NEW x, Moves(Shell, x) PROVE env'[Shell] = x
    BY <1>1, <1>5, <1>7 DEF Moves
  <1>8. ASSUME NEW pc \in {"right", "waitleft"}, ForkSide(pc) PROVE Passing'
    <2>1. ASSUME NEW c \in FreeSlots, Born(Shell, c, At(env[Shell], pc), "builtin", 0)
          PROVE  Passing'
      <3>1. c # Shell  BY <1>1 DEF FreeSlots
      <3>2. PICK k : k = Append(At(env[Shell], pc).kids, <<c, (env[c].gen + 1) % GenMod>>)
        OBVIOUS
      <3>3. PICK x : x = [At(env[Shell], pc) EXCEPT !.kids = k]  OBVIOUS
      <3>4. PICK z : z = [Free EXCEPT !.status = "RUNNABLE", !.gen = (env[c].gen + 1) % GenMod,
                                      !.parent = Id(Shell), !.pc = "builtin", !.files = 0]
        OBVIOUS
      <3>5. env' = [env EXCEPT ![Shell] = x, ![c] = z]  BY <2>1, <3>2, <3>3, <3>4 DEF Born
      <3>6. env'[Shell] = x
        <4> HIDE DEF Rec
        <4> QED BY <1>1, <1>5, <3>1, <3>5
      <3>7. x.next = env[Shell].next /\ x.pc = pc  BY <1>2, <3>3 DEF At, Rec
      <3> QED BY <1>4, <1>6, <3>6, <3>7
    <2>2. ASSUME Moves(Shell, [env[Shell] EXCEPT !.kids = Append(@, NULL), !.pc = pc])
          PROVE  Passing'
      <3>1. PICK k : k = Append(env[Shell].kids, NULL)  OBVIOUS
      <3>2. PICK x : x = [env[Shell] EXCEPT !.kids = k, !.pc = pc]  OBVIOUS
      <3>3. Moves(Shell, x)  BY <2>2, <3>1, <3>2
      <3>4. x.next = env[Shell].next /\ x.pc = pc  BY <1>2, <3>2 DEF Rec
      <3>5. env'[Shell] = x  BY <1>7, <3>3
      <3> QED BY <1>4, <1>6, <3>4, <3>5
    <2> QED BY <1>8, <2>1, <2>2 DEF ForkSide
  <1>9. ASSUME NEW pc, NEW rec, Wait(Shell, pc, rec), rec.next = "builtin|",
               rec \in Rec, rec.pc \in {"waitright", "prompt"}
        PROVE  Passing'
    <2>1. CASE UNCHANGED env  BY <1>3, <2>1, StillPasses
    <2>2. CASE Moves(Shell, [rec EXCEPT !.kids = Tail(rec.kids)])
      <3>1. PICK x : x = [rec EXCEPT !.kids = Tail(rec.kids)]  OBVIOUS
      <3>2. x.next = rec.next /\ x.pc = rec.pc  BY <1>9, <3>1 DEF Rec
      <3>3. env'[Shell] = x  BY <1>7, <2>2, <3>1
      <3> QED BY <1>6, <1>9, <3>2, <3>3
    <2> QED BY <1>9, <2>1, <2>2 DEF Wait
  <1>10. CASE WaitLeft
    <2>1. PICK rec : rec = At(env[Shell], "waitright")  OBVIOUS
    <2>2. Wait(Shell, "waitleft", rec)  BY <1>10, <2>1 DEF WaitLeft
    <2>3. "waitright" \in Pc  BY DEF Pc, ShellPc
    <2>4. rec \in Rec /\ rec.next = env[Shell].next /\ rec.pc = "waitright"
      <3> HIDE DEF Rec, Pc
      <3> QED BY <1>2, <2>1, <2>3, AtRec
    <2> HIDE DEF Rec
    <2> QED BY <1>4, <1>9, <2>2, <2>4
  <1>11. CASE WaitRight
    <2>1. PICK r \in Ended("none") :
            Wait(Shell, "waitright", [env[Shell] EXCEPT !.r = r, !.pc = "prompt"])
      BY <1>11 DEF WaitRight
    <2>2. PICK rec : rec = [env[Shell] EXCEPT !.r = r, !.pc = "prompt"]  OBVIOUS
    <2>3. r \in Msg /\ "prompt" \in Pc  BY DEF Msg, Ended, Pc, ShellPc
    <2>4. rec \in Rec /\ rec.next = env[Shell].next /\ rec.pc = "prompt"
      BY <1>2, <2>2, <2>3 DEF Rec
    <2>5. Wait(Shell, "waitright", rec)  BY <2>1, <2>2
    <2> HIDE DEF Rec
    <2> QED BY <1>4, <1>9, <2>4, <2>5
  <1> QED BY <1>8, <1>10, <1>11 DEF ForkLeft, ForkRight

\* A new line: nothing is left of the last one.
LEMMA PromptPasses ==
    ASSUME "run>" \notin Kind, Core, Passing, Prompt
    PROVE  Passing'
  <1>1. env[Shell].pc = "prompt" /\ said' = NULL  BY DEF Prompt
  <1>2. PICK k \in Kind :
          Moves(Shell, [Free EXCEPT
                         !.status = "RUNNABLE",
                         !.pc = CASE k = "run" -> "command" [] k = "builtin|" -> "pipeline"
                                  [] OTHER -> "redirect",
                         !.next = k])
    BY DEF Prompt
  <1>3. PICK pc : pc = CASE k = "run" -> "command" [] k = "builtin|" -> "pipeline"
                         [] OTHER -> "redirect"
    OBVIOUS
  <1>4. PICK x : x = [Free EXCEPT !.status = "RUNNABLE", !.pc = pc, !.next = k]  OBVIOUS
  <1>5. env' = [env EXCEPT ![Shell] = x]  BY <1>2, <1>3, <1>4 DEF Moves
  <1>6. x.next = k  BY <1>4 DEF Free
  <1>7. k # "run>"  OBVIOUS
  <1>8. env \in [Env -> Rec] /\ Shell \in Env  BY Names DEF Core, Typed
  <1> HIDE DEF Rec
  <1>9. env'[Shell] = x /\ \A f \in Env \ {Shell} : env'[f] = env[f]  BY <1>5, <1>8
  <1>10. ShellStatus(x, said')  BY <1>1, <1>6, <1>7 DEF ShellStatus
  <1>11. ~Open(env[Shell])  BY <1>1 DEF Open, Busy
  <1>12. /\ \A s \in Slot : ~Active(s)
         /\ ~(env[Server].pc = "reply" /\ ~Blocked(env[Server]))
    BY <1>11, NobodyThere
  <1>13. \A s \in Slot : ~Active(s)'  BY <1>9, <1>12, Names DEF Active
  <1>14. Answered'
    <2>1. env'[Server] = env[Server]  BY <1>9, Names
    <2> QED BY <1>12, <2>1 DEF Answered
  <1> QED BY <1>9, <1>10, <1>13, <1>14 DEF Passing

LEMMA RunsPasses ==
    ASSUME Core, Passing, queue # <<>>, NEW e \in Env, e = CPU, e # Server, Runs(e)
    PROVE  Passing'
  <1>1. CASE Request(e)  BY <1>1, RequestPasses
  <1>2. CASE Answer(e)  BY <1>2, AnswerPasses
  <1>3. CASE Await(e)
    <2>1. e \in Slot  BY <1>3, SlotFacts DEF Await, ShellPc
    <2> QED BY <1>3, <2>1, SlotRecvPasses DEF Await
  <1>4. CASE TakeProgram(e)
    <2>1. e \in Slot  BY <1>4, SlotFacts DEF TakeProgram, ShellPc
    <2> QED BY <1>4, <2>1, SlotRecvPasses DEF TakeProgram
  <1>5. CASE ForkCommand(e) \/ TakeStatus(e) \/ GotStatus(e) \/ WaitCommand(e)
    <2>1. CASE e = Shell  BY <1>5, <2>1, ShellCommandPasses
    <2>2. CASE e # Shell
      <3>1. e \in Slot  BY <2>2, Names
      <3> QED BY <1>5, <3>1, CommandPasses
    <2> QED BY <2>1, <2>2
  <1>6. CASE env_destroy(e)
    <2>1. e \in Slot  BY <1>6, SlotFacts DEF env_destroy, ShellPc
    <2> QED BY <1>6, <2>1, DestroyPasses
  <1>7. CASE \/ Spawn(e) \/ Spawned(e) \/ ExitChild(e) \/ Main(e) \/ OpenFile(e) \/ Send(e)
             \/ Return(e) \/ Builtin(e)
    BY <1>7, SpawnPasses, SpawnedPasses, ExitChildPasses, MainPasses, OpenFilePasses, SendPasses,
       SayPasses
  <1> QED BY <1>1, <1>2, <1>3, <1>4, <1>5, <1>6, <1>7 DEF Runs

LEMMA StepPasses ==
    ASSUME "run>" \notin Kind, IInv, Passing, [Next]_vars
    PROVE  Passing'
  <1>1. CASE Next
    <2>1. Core /\ queue # <<>>  BY <1>1 DEF IInv, Core, Next
    <2>2. CPU \in Env  BY <2>1, Running DEF Core
    <2>3. CASE CPU = Shell /\ ShellStep
      BY <2>1, <2>3, PromptPasses, RedirectPasses, PipelinePasses DEF ShellStep
    <2>4. CASE CPU = Server /\ ServerStep
      BY <2>1, <2>4, ListenPasses, ReplyPasses DEF ServerStep
    <2>5. CASE CPU # Server /\ Runs(CPU)
      <3>1. PICK e \in Env : e = CPU  BY <2>2
      <3>2. e # Server /\ Runs(e)  BY <2>5, <3>1
      <3> QED BY <2>1, <3>1, <3>2, RunsPasses
    <2> QED BY <1>1, <2>3, <2>4, <2>5 DEF Next
  <1>2. CASE UNCHANGED vars  BY <1>2, StillPasses DEF vars
  <1> QED BY <1>1, <1>2

LEMMA InitPasses ==
    ASSUME Init
    PROVE  Passing
  <1>1. /\ Shell \in Env /\ Server \in Env /\ Shell # Server
        /\ \A s \in Slot : s \in Env
        /\ \A s \in Slot : s # Shell /\ s # Server
    BY Names
  <1>2. PICK a : a = [Free EXCEPT !.status = "RUNNABLE", !.pc = "prompt"]  OBVIOUS
  <1>3. PICK b : b = [Free EXCEPT !.status = "RUNNABLE", !.pc = "listen"]  OBVIOUS
  <1>4. a.pc = "prompt" /\ a.next = NULL /\ b.pc = "listen" /\ Free.status = "FREE"
    BY <1>2, <1>3 DEF Free
  <1>5. env[Shell] = a /\ env[Server] = b /\ \A s \in Slot : env[s] = Free
    BY <1>1, <1>2, <1>3 DEF Init
  <1>6. said = NULL  BY DEF Init
  <1>7. ShellStatus(a, said)  BY <1>4, <1>6 DEF ShellStatus
  <1>8. \A s \in Slot : ~Active(s)  BY <1>4, <1>5 DEF Active
  <1>9. Answered  BY <1>4, <1>5 DEF Answered
  <1> QED BY <1>5, <1>7, <1>8, <1>9 DEF Passing

(***************************************************************************)
(* The status the shell goes on with is the one the command of the line    *)
(* ended with, however many envs it passed through and whatever ran in     *)
(* between, on every line but one that redirects a program.                *)
(***************************************************************************)
THEOREM StatusIsPassed ==
    ASSUME "run>" \notin Kind
    PROVE  Spec => []StatusPassed
  <1>1. Init => IInv /\ Passing  BY InitHolds, InitPasses
  <1>2. IInv /\ Passing /\ [Next]_vars => IInv' /\ Passing'  BY StepKeeps, StepPasses
  <1>3. IInv /\ Passing => StatusPassed
    <2> SUFFICES ASSUME Passing, AtPrompt, said # NULL, Line # "builtin|"
                 PROVE  env[Shell].r = said
      BY DEF StatusPassed
    <2> QED BY DEF Passing, ShellStatus, AtPrompt, Line
  <1> QED BY <1>1, <1>2, <1>3, PTL DEF Spec
=============================================================================
