------------------------------ MODULE EnvVars ------------------------------
(* The environment variables of os25-shell: the table each env carries      *)
(* (kern/syscall_all.c), the copy a new env takes of its parent's exported   *)
(* variables (sys_exofork) and the copy it gives back when it dies           *)
(* (kern/env.c: env_destroy, sync_penv_var).                                 *)
(*                                                                           *)
(* A table is a set of records: the order of its entries is only seen by a   *)
(* listing.  Envs are the slots of envs[]; a parent id names a slot and its  *)
(* generation, so an env whose parent has died has the parent NoParent.      *)
EXTENDS FiniteSets, Integers

CONSTANTS Env,       \* the slots of envs[]
          Root,      \* the first shell: created at boot, without a parent
          Name, Val, \* names and values of variables, the empty value included
          NVARS,     \* entries of env_vars[] (20 in include/env.h)
          NoParent

ASSUME RootAssumption == Root \in Env
ASSUME NoParentAssumption == NoParent \notin Env

VARIABLES live,      \* the slots in use
          parent,    \* env_parent_id of each
          table,     \* env_vars[0 .. env_cnt-1] of each
          stale      \* history: the envs whose copy of their parent's exports
                     \* was taken before the last change of them

vars == <<live, parent, table, stale>>

Var == [name : Name, val : Val, export : BOOLEAN, readonly : BOOLEAN]

\* Mutant: only the variables that may still change.
ExportedFree(t) == {r \in t : r.export /\ ~r.readonly}
Exported(t) == {r \in t : r.export}
Local(t)    == {r \in t : ~r.export}
Named(t, n) == {r \in t : r.name = n}
Names(t)    == {r.name : r \in t}
Children(e) == {c \in live : parent[c] = e}

Init ==
    /\ live = {Root}
    /\ parent = [e \in Env |-> NoParent]
    /\ table = [e \in Env |-> {}]
    /\ stale = {}

\* A change of e's own table: the copies its children hold are now old.
Update(e, t) ==
    /\ table' = [table EXCEPT ![e] = t]
    /\ stale' = stale \cup Children(e)
    /\ UNCHANGED <<live, parent>>

(* sys_declare_env_var: define a variable, or change one that is not read    *)
(* only.  A new one takes the next entry, whether or not there is one.       *)
sys_declare_env_var(e, v) ==
    /\ \A r \in Named(table[e], v.name) : ~r.readonly
    /\ Update(e, (table[e] \ Named(table[e], v.name)) \cup {v})

\* Mutant: the test for read only variables forgotten.
sys_unset_env_varAny(e, n) ==
    /\ n \in Names(table[e])
    /\ Update(e, {r \in table[e] : r.name # n})

(* sys_unset_env_var: forget a variable that is not read only.               *)
sys_unset_env_var(e, n) ==
    /\ \E r \in Named(table[e], n) : ~r.readonly
    /\ Update(e, {r \in table[e] : r.name # n \/ r.readonly})

(* The builtin declare: -x exports, -r makes read only; the value is the     *)
(* empty one if the word has no =.                                           *)
declare(e, x, r, n, v) ==
    sys_declare_env_var(e, [name |-> n, val |-> v, export |-> x, readonly |-> r])

(* The builtin unset: one name, whatever its attributes.                     *)
unset(e, n) == sys_unset_env_var(e, n)

(* sys_exofork: the new env takes the exported variables of its parent.      *)
sys_exofork(e, c) ==
    /\ c \in Env \ live
    /\ live' = live \cup {c}
    /\ parent' = [parent EXCEPT ![c] = e]
    /\ table' = [table EXCEPT ![c] = Exported(table[e])]
    /\ UNCHANGED stale

\* Mutant: as in sys_sync_penv_var, the parent's locals of every name stay.
sync_penv_varAll(child, par) == Exported(child) \cup Local(par)
\* Mutant: none of the parent's locals stays.
sync_penv_varNone(child, par) == Exported(child)

(* sync_penv_var: the parent's exported variables are replaced by the        *)
(* child's, and of its locals those stay whose name the child does not       *)
(* export.                                                                   *)
sync_penv_var(child, par) ==
    Exported(child) \cup {r \in Local(par) : r.name \notin Names(Exported(child))}

(* env_destroy: sync, if envid2env still finds the parent, then env_free.    *)
(* Called by the env itself (exit, a fault, an option declare does not know) *)
(* or by its parent.                                                         *)
env_destroy(e) ==
    LET p == parent[e]
        found == p \in live
    IN  /\ table' = [x \in Env |->
                       IF x = e THEN {}
                       ELSE IF found /\ x = p THEN sync_penv_var(table[e], table[p])
                       ELSE table[x]]
        /\ live' = live \ {e}
        /\ parent' = [x \in Env |-> IF x = e \/ parent[x] = e THEN NoParent ELSE parent[x]]
        /\ stale' = (stale \cup (IF found THEN Children(p) ELSE {})
                           \cup (IF found /\ e \in stale THEN {p} ELSE {}))
                    \ ({e} \cup Children(e))

(* No table has more entries than env_vars[NVARS] and the buffers of that     *)
(* size in sync_penv_var.  Nothing in the code keeps to it.                  *)
TableFits == \A e \in Env : Cardinality(table[e]) <= NVARS

(* Behind the last entry lie env_cnt itself and the next struct Env: after a *)
(* table was overrun anything may happen, and the model stops.               *)
Next ==
    /\ TableFits
    /\ \E e \in live :
        \/ \E x, r \in BOOLEAN, n \in Name, v \in Val : declare(e, x, r, n, v)
        \/ \E n \in Name : unset(e, n)
        \/ \E c \in Env : sys_exofork(e, c)
        \/ env_destroy(e)

Spec == Init /\ [][Next]_vars
-----------------------------------------------------------------------------
(* Type invariant of the tables of variables.                                *)
TypeOK ==
    /\ live \subseteq Env
    /\ parent \in [Env -> Env \cup {NoParent}]
    /\ table \in [Env -> SUBSET Var]
    /\ stale \subseteq live

(* No table holds two variables of one name, although a table is put         *)
(* together from a child's exports and its parent's locals each time a child *)
(* dies: find and replace_token_var take the first entry they meet           *)
(* (sync_penv_var, sys_declare_env_var).                                     *)
NamesUnique == \A e \in Env : \A r, s \in table[e] : r.name = s.name => r = s

(* A child whose parent has not changed its variables since the fork holds   *)
(* every exported read only variable of the parent: what makes giving the    *)
(* table back safe.                                                          *)
Inherited ==
    \A c \in live \ stale : parent[c] \in live =>
        \A r \in table[parent[c]] : r.export /\ r.readonly => r \in table[c]

(* An exported read only variable of a running env never changes and never   *)
(* goes, except when a child dies that was forked before the last change of  *)
(* the parent's variables, and so gives back an old copy.                    *)
ReadonlyKept ==
    [][\A e \in live \cap live' : \A r \in table[e] :
          r.export /\ r.readonly /\ r \notin table'[e] =>
              \E c \in stale : parent[c] = e /\ c \notin live']_vars

(* A local variable outlives every command its env runs: the death of a      *)
(* child takes a local from its parent only to put an exported variable of   *)
(* that name in its place (even where the local is read only).               *)
LocalKept ==
    [][\A e \in live \cap live' : \A r \in Local(table[e]) :
          live' # live => r \in table'[e] \/ \E s \in Exported(table'[e]) : s.name = r.name]_vars
(* What the code does not do.  That TableFits always holds is refuted by one *)
(* env that declares a name too many; that at least a death never overruns   *)
(* tables that fit, by a child that joins its exports to the locals of its   *)
(* parent (the loops at the end of sync_penv_var).                           *)
SyncFits == [][live' # live => TableFits']_vars
=============================================================================
