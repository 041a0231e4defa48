--------------------------- MODULE EnvVarsProofs ---------------------------
(***************************************************************************)
(* Proofs about EnvVars, for any sets of envs, names and values, and up to *)
(* and including the step, if there is one, that overruns a table.         *)
(***************************************************************************)
EXTENDS EnvVars, TLAPS

(***************************************************************************)
(* The inductive invariant.  Inherited is not inductive alone: it needs    *)
(* that a dead env has no table and is nobody's parent, or a slot used     *)
(* again would take over the children of the env that held it before.      *)
(***************************************************************************)
DeadAreGone ==
    /\ \A e \in Env \ live : table[e] = {} /\ parent[e] = NoParent
    /\ \A e \in Env : parent[e] \in live \cup {NoParent}
    /\ \A e \in Env : parent[e] # e

IInv == TypeOK /\ DeadAreGone /\ NamesUnique /\ Inherited

USE DEF Var

\* At most one variable of each name.
Unique(t) == \A r, s \in t : r.name = s.name => r = s

LEMMA UniqueSubset ==
    ASSUME NEW t, NEW u, u \subseteq t, Unique(t)
    PROVE  Unique(u)
  BY DEF Unique

\* Putting a child's exports before the parent's other locals repeats no name.
LEMMA SyncUnique ==
    ASSUME NEW t, NEW u, Unique(t), Unique(u)
    PROVE  Unique(sync_penv_var(t, u))
  <1> SUFFICES ASSUME NEW r \in sync_penv_var(t, u), NEW s \in sync_penv_var(t, u),
                      r.name = s.name
               PROVE  r = s
    BY DEF Unique
  <1>1. CASE r \in Exported(t) /\ s \in Exported(t)
    BY <1>1 DEF Unique, Exported
  <1>2. CASE r \notin Exported(t) /\ s \notin Exported(t)
    BY <1>2 DEF Unique, Local, sync_penv_var
  <1>3. CASE r \in Exported(t) /\ s \notin Exported(t)
    BY <1>3 DEF Names, sync_penv_var
  <1>4. CASE r \notin Exported(t) /\ s \in Exported(t)
    BY <1>4 DEF Names, sync_penv_var
  <1> QED BY <1>1, <1>2, <1>3, <1>4

LEMMA SyncType ==
    ASSUME NEW t \in SUBSET Var, NEW u \in SUBSET Var
    PROVE  sync_penv_var(t, u) \in SUBSET Var
  BY DEF sync_penv_var, Exported, Local

(***************************************************************************)
(* A change of an env's own table keeps the invariant when the new table   *)
(* has one variable per name and keeps its exported read only variables.   *)
(***************************************************************************)
LEMMA UpdateKeeps ==
    ASSUME IInv, NEW e \in live, NEW t \in SUBSET Var, Unique(t),
           \A r \in table[e] : r.readonly => r \in t,
           Update(e, t)
    PROVE  IInv'
  <1> USE DEF IInv, Update
  <1>1. TypeOK'  BY DEF TypeOK, Children
  <1>2. DeadAreGone'  BY DEF TypeOK, DeadAreGone
  <1>3. NamesUnique'  BY DEF TypeOK, NamesUnique, Unique
  <1>4. Inherited'
    <2> SUFFICES ASSUME NEW c \in live', c \notin stale', parent'[c] \in live',
                        NEW r \in table'[parent'[c]], r.export, r.readonly
                 PROVE  r \in table'[c]
      BY DEF Inherited
    <2>1. c \in live \ stale /\ parent[c] \in live /\ parent[c] # e
      BY DEF Children
    <2>2. r \in table[c]
      BY <2>1 DEF Inherited, TypeOK
    <2> QED BY <2>1, <2>2 DEF TypeOK
  <1> QED BY <1>1, <1>2, <1>3, <1>4

LEMMA DeclareKeeps ==
    ASSUME IInv, NEW e \in live, NEW x \in BOOLEAN, NEW y \in BOOLEAN,
           NEW n \in Name, NEW w \in Val, declare(e, x, y, n, w)
    PROVE  IInv'
  <1> DEFINE v == [name |-> n, val |-> w, export |-> x, readonly |-> y]
  <1>0. v \in Var /\ sys_declare_env_var(e, v)  BY DEF declare
  <1> HIDE DEF v
  <1> DEFINE t == (table[e] \ Named(table[e], v.name)) \cup {v}
  <1>1. t \in SUBSET Var  BY <1>0 DEF IInv, TypeOK
  <1>2. Unique(t)
    BY DEF IInv, TypeOK, NamesUnique, Unique, Named
  <1>3. \A r \in table[e] : r.readonly => r \in t
    BY <1>0 DEF sys_declare_env_var
  <1>4. Update(e, t)  BY <1>0 DEF sys_declare_env_var
  <1> HIDE DEF t
  <1> QED BY <1>1, <1>2, <1>3, <1>4, UpdateKeeps

LEMMA UnsetKeeps ==
    ASSUME IInv, NEW e \in live, NEW n \in Name, unset(e, n)
    PROVE  IInv'
  <1> DEFINE t == {r \in table[e] : r.name # n \/ r.readonly}
  <1>1. t \in SUBSET Var  BY DEF IInv, TypeOK
  <1>2. Unique(t)
    BY DEF IInv, TypeOK, NamesUnique, Unique
  <1>3. \A r \in table[e] : r.readonly => r \in t
    OBVIOUS
  <1>4. Update(e, t)  BY DEF unset, sys_unset_env_var
  <1> HIDE DEF t
  <1> QED BY <1>1, <1>2, <1>3, <1>4, UpdateKeeps

LEMMA ExoforkKeeps ==
    ASSUME IInv, NEW e \in live, NEW c \in Env, sys_exofork(e, c)
    PROVE  IInv'
  <1> USE NoParentAssumption DEF IInv, sys_exofork
  <1>1. TypeOK'  BY DEF TypeOK, Exported
  <1>2. DeadAreGone'  BY DEF TypeOK, DeadAreGone
  <1>3. NamesUnique'  BY DEF TypeOK, NamesUnique, Exported
  <1>4. Inherited'
    <2> SUFFICES ASSUME NEW x \in live', x \notin stale', parent'[x] \in live',
                        NEW r \in table'[parent'[x]], r.export, r.readonly
                 PROVE  r \in table'[x]
      BY DEF Inherited
    <2>1. CASE x = c
      BY <2>1 DEF TypeOK, Exported
    <2>2. CASE x # c
      <3>1. x \in live \ stale /\ parent'[x] = parent[x] /\ table'[x] = table[x]
        BY <2>2 DEF TypeOK
      <3>2. parent[x] \in live
        BY <3>1 DEF DeadAreGone, TypeOK
      <3>3. table'[parent[x]] = table[parent[x]]
        BY <3>2 DEF TypeOK
      <3> QED BY <3>1, <3>2, <3>3 DEF Inherited
    <2> QED BY <2>1, <2>2
  <1> QED BY <1>1, <1>2, <1>3, <1>4

(***************************************************************************)
(* The death of an env: its parent's new table is the join of two tables.  *)
(***************************************************************************)
LEMMA DestroyKeeps ==
    ASSUME IInv, NEW e \in live, env_destroy(e)
    PROVE  IInv'
  <1> DEFINE p == parent[e]
  <1> USE NoParentAssumption
  <1>0. /\ live' = live \ {e} /\ live \subseteq Env /\ e \in Env
        /\ p # e /\ p \in Env \cup {NoParent}
        /\ \A x \in Env : parent'[x] = IF x = e \/ parent[x] = e THEN NoParent ELSE parent[x]
        /\ table'[e] = {}
        /\ \A x \in Env \ {e} : x # p \/ p \notin live => table'[x] = table[x]
        /\ p \in live => table'[p] = sync_penv_var(table[e], table[p])
    BY DEF env_destroy, IInv, TypeOK, DeadAreGone
  <1>1. TypeOK'
    <2>1. parent' \in [Env -> Env \cup {NoParent}]
      BY DEF env_destroy, IInv, TypeOK
    <2>2. table' \in [Env -> SUBSET Var]
      <3>1. p \in live => sync_penv_var(table[e], table[p]) \in SUBSET Var
        BY <1>0, SyncType DEF IInv, TypeOK
      <3>2. \A x \in Env : table'[x] \in SUBSET Var
        BY <1>0, <3>1 DEF IInv, TypeOK
      <3>3. table' = [x \in Env |-> table'[x]]
        BY DEF env_destroy
      <3> QED BY <3>2, <3>3
    <2>3. stale' \subseteq live'
      BY <1>0 DEF env_destroy, IInv, TypeOK, Children
    <2> QED BY <1>0, <2>1, <2>2, <2>3 DEF TypeOK
  <1>2. DeadAreGone'
    BY <1>0 DEF IInv, TypeOK, DeadAreGone
  <1>3. NamesUnique'
    <2>1. \A x \in Env : Unique(table[x])
      BY DEF IInv, NamesUnique, Unique
    <2>2. p \in live => Unique(sync_penv_var(table[e], table[p]))
      BY <1>0, <2>1, SyncUnique
    <2>3. \A x \in Env : Unique(table'[x])
      <3>1. Unique({})  BY DEF Unique
      <3> QED BY <1>0, <2>1, <2>2, <3>1
    <2> QED BY <2>3 DEF NamesUnique, Unique
  <1>4. Inherited'
    <2> SUFFICES ASSUME NEW c \in live', c \notin stale', parent'[c] \in live',
                        NEW r \in table'[parent'[c]], r.export, r.readonly
                 PROVE  r \in table'[c]
      BY DEF Inherited
    <2> DEFINE q == parent[c]
    <2>1. /\ c \in live /\ c # e /\ c \in Env /\ q # e /\ parent'[c] = q
          /\ q \in live /\ q \in Env
      BY <1>0 DEF IInv, TypeOK
    <2>2. p \in live => q # p /\ (c = p => e \notin stale)
      BY <2>1, <1>0 DEF env_destroy, Children
    <2>3. c \notin stale
      BY <2>1 DEF env_destroy, Children, IInv, DeadAreGone
    <2>4. table'[q] = table[q]
      BY <1>0, <2>1, <2>2
    <2>5. r \in table[c]
      BY <2>1, <2>3, <2>4 DEF IInv, Inherited
    <2>6. CASE c # p \/ p \notin live
      BY <1>0, <2>1, <2>5, <2>6
    <2>7. CASE c = p /\ p \in live
      <3>1. r \in table[e]
        BY <1>0, <2>2, <2>5, <2>7 DEF IInv, Inherited
      <3> QED BY <1>0, <2>7, <3>1 DEF sync_penv_var, Exported
    <2> QED BY <2>6, <2>7
  <1> QED BY <1>1, <1>2, <1>3, <1>4 DEF IInv

LEMMA InitIInv == Init => IInv
  BY RootAssumption, NoParentAssumption
     DEF Init, IInv, TypeOK, DeadAreGone, NamesUnique, Inherited

LEMMA NextIInv == IInv /\ [Next]_vars => IInv'
  <1> SUFFICES ASSUME IInv, [Next]_vars PROVE IInv'  OBVIOUS
  <1>1. CASE Next
    <2> PICK e \in live :
            \/ \E x, r \in BOOLEAN, n \in Name, v \in Val : declare(e, x, r, n, v)
            \/ \E n \in Name : unset(e, n)
            \/ \E c \in Env : sys_exofork(e, c)
            \/ env_destroy(e)
      BY <1>1 DEF Next
    <2>1. CASE \E x, r \in BOOLEAN, n \in Name, v \in Val : declare(e, x, r, n, v)
      BY <2>1, DeclareKeeps
    <2>2. CASE \E n \in Name : unset(e, n)
      BY <2>2, UnsetKeeps
    <2>3. CASE \E c \in Env : sys_exofork(e, c)
      BY <2>3, ExoforkKeeps
    <2>4. CASE env_destroy(e)
      BY <2>4, DestroyKeeps
    <2> QED BY <2>1, <2>2, <2>3, <2>4
  <1>2. CASE UNCHANGED vars
    BY <1>2 DEF IInv, vars, TypeOK, DeadAreGone, NamesUnique, Inherited
  <1> QED BY <1>1, <1>2

LEMMA SpecIInv == Spec => []IInv
  BY InitIInv, NextIInv, PTL DEF Spec

(* Every reachable state has its type.                                     *)
THEOREM TypeCorrect == Spec => []TypeOK
  BY SpecIInv, PTL DEF IInv

(* The tables put together when a child dies never hold a name twice, in   *)
(* whatever order envs declare, fork and die.                              *)
THEOREM NamesAlwaysUnique == Spec => []NamesUnique
  BY SpecIInv, PTL DEF IInv

(* A child forked since its parent's last change holds the parent's        *)
(* exported read only variables, through any depth of forks and any use of *)
(* a slot again.                                                           *)
THEOREM AlwaysInherited == Spec => []Inherited
  BY SpecIInv, PTL DEF IInv

(***************************************************************************)
(* What ReadonlyKept says of one step.                                     *)
(***************************************************************************)
ReadonlyStep ==
    \A e \in live \cap live' : \A r \in table[e] :
        r.export /\ r.readonly /\ r \notin table'[e] =>
            \E c \in stale : parent[c] = e /\ c \notin live'

LEMMA NextReadonly == IInv /\ [Next]_vars => ReadonlyStep \/ UNCHANGED vars
  <1> SUFFICES ASSUME IInv, Next, NEW x \in live \cap live', NEW r \in table[x],
                      r.export, r.readonly, r \notin table'[x]
               PROVE  \E c \in stale : parent[c] = x /\ c \notin live'
    BY DEF ReadonlyStep
  <1> PICK e \in live :
            \/ \E ex, ro \in BOOLEAN, n \in Name, v \in Val : declare(e, ex, ro, n, v)
            \/ \E n \in Name : unset(e, n)
            \/ \E c \in Env : sys_exofork(e, c)
            \/ env_destroy(e)
    BY DEF Next
  <1>0. x \in Env /\ e \in Env  BY DEF IInv, TypeOK
  <1>1. ASSUME NEW ex \in BOOLEAN, NEW ro \in BOOLEAN, NEW n \in Name, NEW v \in Val,
               declare(e, ex, ro, n, v)
        PROVE  FALSE
    BY <1>0, <1>1 DEF declare, sys_declare_env_var, Update, Named, IInv, TypeOK
  <1>2. ASSUME NEW n \in Name, unset(e, n) PROVE FALSE
    BY <1>0, <1>2 DEF unset, sys_unset_env_var, Update, IInv, TypeOK
  <1>3. ASSUME NEW c \in Env, sys_exofork(e, c) PROVE FALSE
    BY <1>0, <1>3 DEF sys_exofork, IInv, TypeOK
  <1>4. CASE env_destroy(e)
    <2>1. /\ x # e /\ live' = live \ {e}
          /\ parent[e] = x /\ parent[e] \in live
          /\ table'[x] = sync_penv_var(table[e], table[x])
      BY <1>0, <1>4 DEF env_destroy
    <2>2. r \notin table[e]
      BY <2>1 DEF sync_penv_var, Exported
    <2>3. e \in stale
      BY <2>1, <2>2 DEF IInv, Inherited
    <2> QED BY <2>1, <2>3
  <1> QED BY <1>1, <1>2, <1>3, <1>4

(* An exported read only variable is lost by a running env only to a child *)
(* that was forked before the env's variables last changed: running one    *)
(* command at a time, the shell never loses one.                           *)
THEOREM ReadonlyAlwaysKept == Spec => ReadonlyKept
  <1>1. IInv /\ [Next]_vars => [ReadonlyStep]_vars
    BY NextReadonly
  <1>2. [][ReadonlyStep]_vars => ReadonlyKept
    BY PTL DEF ReadonlyKept, ReadonlyStep
  <1> QED BY <1>1, <1>2, SpecIInv, PTL DEF Spec

(***************************************************************************)
(* What LocalKept says of one step.                                        *)
(***************************************************************************)
LocalStep ==
    \A e \in live \cap live' : \A r \in Local(table[e]) :
        live' # live => r \in table'[e] \/ \E s \in Exported(table'[e]) : s.name = r.name

LEMMA NextLocal == IInv /\ [Next]_vars => LocalStep \/ UNCHANGED vars
  <1> SUFFICES ASSUME IInv, Next, NEW x \in live \cap live', NEW r \in Local(table[x]),
                      live' # live, r \notin table'[x]
               PROVE  \E s \in Exported(table'[x]) : s.name = r.name
    BY DEF LocalStep
  <1> PICK e \in live :
            \/ \E ex, ro \in BOOLEAN, n \in Name, v \in Val : declare(e, ex, ro, n, v)
            \/ \E n \in Name : unset(e, n)
            \/ \E c \in Env : sys_exofork(e, c)
            \/ env_destroy(e)
    BY DEF Next
  <1>0. x \in Env /\ e \in Env /\ r \in table[x]  BY DEF IInv, TypeOK, Local
  <1>1. ASSUME NEW ex \in BOOLEAN, NEW ro \in BOOLEAN, NEW n \in Name, NEW v \in Val,
               declare(e, ex, ro, n, v)
        PROVE  FALSE
    BY <1>1 DEF declare, sys_declare_env_var, Update
  <1>2. ASSUME NEW n \in Name, unset(e, n) PROVE FALSE
    BY <1>2 DEF unset, sys_unset_env_var, Update
  <1>3. ASSUME NEW c \in Env, sys_exofork(e, c) PROVE FALSE
    BY <1>0, <1>3 DEF sys_exofork, IInv, TypeOK
  <1>4. CASE env_destroy(e)
    <2>1. x # e /\ table'[x] = sync_penv_var(table[e], table[x])
      BY <1>0, <1>4 DEF env_destroy
    <2>2. r.name \in Names(Exported(table[e]))
      BY <2>1 DEF sync_penv_var
    <2>3. PICK s \in Exported(table[e]) : s.name = r.name
      BY <2>2 DEF Names
    <2>4. s \in Exported(table'[x])
      BY <2>1 DEF sync_penv_var, Exported
    <2> QED BY <2>3, <2>4
  <1> QED BY <1>1, <1>2, <1>3, <1>4

(* A command that ends never takes a local variable from its shell, but    *)
(* for an exported one of that name that it gives back in its place.       *)
THEOREM LocalAlwaysKept == Spec => LocalKept
  <1>1. IInv /\ [Next]_vars => [LocalStep]_vars
    BY NextLocal
  <1>2. [][LocalStep]_vars => LocalKept
    BY PTL DEF LocalKept, LocalStep
  <1> QED BY <1>1, <1>2, SpecIInv, PTL DEF Spec
=============================================================================
