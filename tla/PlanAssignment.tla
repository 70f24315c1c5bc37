--------------------------- MODULE PlanAssignment ---------------------------
(***************************************************************************)
(* Plans, who has which, and the log of changes: apps/plans/services.py,   *)
(* the post_save signal of User, the plan administration and seed_plans.   *)
(*                                                                         *)
(* Registration is a sequence of autocommitted statements: ATOMIC_REQUESTS *)
(* is off and nothing opens a transaction around user.save() and its       *)
(* signal.  assign_plan is one transaction that holds the lock of the      *)
(* user's UserPlan row, taken by SELECT ... FOR UPDATE or by inserting it. *)
(***************************************************************************)
EXTENDS Integers, Sequences

CONSTANTS
    Users, Workers,
    Plans,        \* primary keys of plans_plan, never reused (a bound on insertions)
    Codes,        \* plan codes; FREE and PREMIUM are those of the program
    FREE, PREMIUM,
    Limits,       \* daily_interaction_limit values an administrator types
    SeedLimit,    \* the limits of seed_plans, by code
    MaxLog,       \* bound: no change of plan starts once a log is this long
    None,         \* NULL, or a row that does not exist yet
    Deleted       \* a row that was deleted

Rows == [code : Codes, limit : Nat, active : BOOLEAN]
Entries == [previous : Plans \cup {None}, new : Plans, by : {"system", "admin"}]

ASSUME CodesAssumption == FREE \in Codes /\ PREMIUM \in Codes /\ FREE # PREMIUM
ASSUME LimitsAssumption == Limits \subseteq Nat /\ SeedLimit \in [{FREE, PREMIUM} -> Nat]
ASSUME MaxLogAssumption == MaxLog \in Nat
ASSUME NoneAssumption ==
    /\ None \notin Plans /\ None \notin Users /\ None \notin Rows /\ None \notin Nat
    /\ Deleted \notin Rows /\ Deleted # None

VARIABLES
    plan,      \* plans_plan by primary key
    member,    \* users_user: whether the row is committed
    assigned,  \* plans_userplan: the plan of a user
    log,       \* plans_planchangelog of a user, oldest first
    pc, tx     \* the statement a worker is at, and its locals

vars == <<plan, member, assigned, log, pc, tx>>

Labels == {"idle", "freePlan", "default", "logDefault", "lock", "commit"}
Blank == [user |-> None, new |-> None, previous |-> None]
Locals == [user : Users \cup {None}, new : Plans \cup {None}, previous : Plans \cup {None}]

Exists(p) == plan[p] \in Rows
HasCode(c) == {p \in Plans : Exists(p) /\ plan[p].code = c}
Free(p) == plan[p] = None
SeedRow(c) == [code |-> c, limit |-> SeedLimit[c], active |-> TRUE]
Entry(p, n, by) == [previous |-> p, new |-> n, by |-> by]

-----------------------------------------------------------------------------
(* The tables as migrate and seed_plans leave them, before gunicorn starts.*)
Init ==
    /\ \E f, p \in Plans :
          /\ f # p
          /\ plan = [[q \in Plans |-> None] EXCEPT ![f] = SeedRow(FREE),
                                                   ![p] = SeedRow(PREMIUM)]
    /\ member = [u \in Users |-> FALSE]
    /\ assigned = [u \in Users |-> None]
    /\ log = [u \in Users |-> <<>>]
    /\ pc = [w \in Workers |-> "idle"]
    /\ tx = [w \in Workers |-> Blank]

Goto(w, label, locals) ==
    /\ pc' = [pc EXCEPT ![w] = label]
    /\ tx' = [tx EXCEPT ![w] = locals]

Finish(w) == Goto(w, "idle", Blank)

UnlockedRow(w, u) == FALSE        \* mutant: get_or_create() without select_for_update()

(* w holds the lock of the UserPlan row of u, or is inserting that row.    *)
HoldsAssignment(w, u) == pc[w] = "commit" /\ tx[w].user = u

RowFree(w) == \A v \in Workers \ {w} : ~HoldsAssignment(v, tx[w].user)

-----------------------------------------------------------------------------
(* Registration: user.save(), then the signal runs assign_default_plan.    *)
Register(w, u) ==
    /\ pc[w] = "idle" /\ ~member[u]
    /\ member' = [member EXCEPT ![u] = TRUE]
    /\ Goto(w, "freePlan", [Blank EXCEPT !.user = u])
    /\ UNCHANGED <<plan, assigned, log>>

(* Plan.objects.get_or_create(code="FREE", ...), inactive or not.          *)
FreePlan(w) ==
    /\ pc[w] = "freePlan"
    /\ \E p \in Plans :
          /\ IF HasCode(FREE) # {}
             THEN p \in HasCode(FREE) /\ UNCHANGED plan
             ELSE Free(p) /\ plan' = [plan EXCEPT ![p] = SeedRow(FREE)]
          /\ Goto(w, "default", [tx[w] EXCEPT !.new = p])
    /\ UNCHANGED <<member, assigned, log>>

DefaultOverwrites(w) ==           \* mutant: update_or_create()
    /\ pc[w] = "default" /\ RowFree(w) /\ Exists(tx[w].new)
    /\ assigned' = [assigned EXCEPT ![tx[w].user] = tx[w].new]
    /\ Goto(w, "logDefault", tx[w])
    /\ UNCHANGED <<plan, member, log>>

DefaultAlwaysLogged(w) ==         \* mutant: `created` is not looked at
    LET u == tx[w].user IN
    /\ pc[w] = "default" /\ Exists(tx[w].new)
    /\ assigned[u] # None \/ RowFree(w)
    /\ assigned' = [assigned EXCEPT ![u] = IF @ = None THEN tx[w].new ELSE @]
    /\ Goto(w, "logDefault", tx[w])
    /\ UNCHANGED <<plan, member, log>>

(* UserPlan.objects.get_or_create: the insert waits for another one of the *)
(* same user; a plan deleted meanwhile fails its foreign key.              *)
AssignDefault(w) ==
    LET u == tx[w].user IN
    /\ pc[w] = "default"
    /\ assigned[u] # None \/ RowFree(w)
    /\ IF assigned[u] = None /\ Exists(tx[w].new)
       THEN /\ assigned' = [assigned EXCEPT ![u] = tx[w].new]
            /\ Goto(w, "logDefault", tx[w])
       ELSE UNCHANGED assigned /\ Finish(w)
    /\ UNCHANGED <<plan, member, log>>

LogDefault(w) ==
    /\ pc[w] = "logDefault"
    /\ log' = IF Exists(tx[w].new)
              THEN [log EXCEPT ![tx[w].user] = Append(@, Entry(None, tx[w].new, "system"))]
              ELSE log
    /\ Finish(w)
    /\ UNCHANGED <<plan, member, assigned>>

-----------------------------------------------------------------------------
(* assign_plan, from the user form, the plan form or a bulk action.        *)
StartAssign(w, u, c) ==
    /\ pc[w] = "idle" /\ member[u]
    /\ Len(log[u]) < MaxLog
    /\ \E p \in HasCode(c) :
          plan[p].active /\ Goto(w, "lock", [Blank EXCEPT !.user = u, !.new = p])
    /\ UNCHANGED <<plan, member, assigned, log>>

LockAssignment(w) ==
    /\ pc[w] = "lock" /\ RowFree(w)
    /\ Goto(w, "commit", [tx[w] EXCEPT !.previous = assigned[tx[w].user]])
    /\ UNCHANGED <<plan, member, assigned, log>>

(* A created row and an unchanged plan return before the log is written.   *)
Logged(t) == t.previous # None /\ t.previous # t.new

Change(t) == log' = [log EXCEPT ![t.user] = Append(@, Entry(t.previous, t.new, "admin"))]

AutocommittedSave(w) ==           \* mutant: no @transaction.atomic
    LET t == tx[w] IN
    /\ pc[w] = "commit" /\ Exists(t.new)
    /\ IF assigned[t.user] # t.new
       THEN /\ assigned' = [assigned EXCEPT ![t.user] = t.new]
            /\ UNCHANGED <<log, pc, tx>>
       ELSE /\ IF Logged(t) THEN Change(t) ELSE UNCHANGED log
            /\ Finish(w)
            /\ UNCHANGED assigned
    /\ UNCHANGED <<plan, member>>

(* COMMIT checks the foreign keys of the new plan.                         *)
CommitAssign(w) ==
    LET t == tx[w] IN
    /\ pc[w] = "commit" /\ Exists(t.new)
    /\ IF t.previous = t.new THEN UNCHANGED assigned
       ELSE assigned' = [assigned EXCEPT ![t.user] = t.new]
    /\ IF Logged(t) THEN Change(t) ELSE UNCHANGED log
    /\ Finish(w)
    /\ UNCHANGED <<plan, member>>

(* A worker dies, or its statement fails: the open transaction is undone,  *)
(* what was autocommitted stays.                                           *)
Abort(w) ==
    /\ pc[w] # "idle"
    /\ Finish(w)
    /\ UNCHANGED <<plan, member, assigned, log>>

-----------------------------------------------------------------------------
(* PlanAdmin: any field of a plan may be edited; codes are unique.         *)
SavePlan(p, row) ==
    /\ plan[p] # Deleted /\ plan[p] # row
    /\ HasCode(row.code) \subseteq {p}
    /\ plan' = [plan EXCEPT ![p] = row]
    /\ UNCHANGED <<member, assigned, log, pc, tx>>

NullsNewPlan(p) ==                \* mutant: new_plan with on_delete=SET_NULL
    /\ Exists(p)
    /\ \A u \in Users : assigned[u] # p
    /\ plan' = [plan EXCEPT ![p] = Deleted]
    /\ log' = [u \in Users |-> [i \in DOMAIN log[u] |->
                 IF log[u][i].new = p THEN [log[u][i] EXCEPT !.new = None] ELSE log[u][i]]]
    /\ UNCHANGED <<member, assigned, pc, tx>>

(* on_delete: PROTECT for an assigned plan and for the new plan of a log   *)
(* entry, SET_NULL for the previous one.  Bound: a fresh key must be left.  *)
DeletePlan(p) ==
    /\ Exists(p) /\ \E q \in Plans : Free(q)
    /\ \A u \in Users : assigned[u] # p /\ \A i \in DOMAIN log[u] : log[u][i].new # p
    /\ plan' = [plan EXCEPT ![p] = Deleted]
    /\ log' = [u \in Users |-> [i \in DOMAIN log[u] |->
                 IF log[u][i].previous = p THEN [log[u][i] EXCEPT !.previous = None]
                 ELSE log[u][i]]]
    /\ UNCHANGED <<member, assigned, pc, tx>>

(* The row update_or_create writes: the one with the code, or a new one.   *)
SeedTarget(p, c) == IF HasCode(c) # {} THEN p \in HasCode(c) ELSE Free(p)

(* The container starts again: every call is lost, then seed_plans runs    *)
(* update_or_create for both codes before gunicorn serves.                 *)
Restart ==
    /\ \E f, p \in Plans :
          /\ f # p /\ SeedTarget(f, FREE) /\ SeedTarget(p, PREMIUM)
          /\ plan' = [plan EXCEPT ![f] = SeedRow(FREE), ![p] = SeedRow(PREMIUM)]
    /\ pc' = [w \in Workers |-> "idle"]
    /\ tx' = [w \in Workers |-> Blank]
    /\ UNCHANGED <<member, assigned, log>>

-----------------------------------------------------------------------------
Step(w) ==
    \/ FreePlan(w) \/ AssignDefault(w) \/ LogDefault(w)
    \/ LockAssignment(w) \/ CommitAssign(w)

Call(w) ==
    \E u \in Users : Register(w, u) \/ \E c \in Codes : StartAssign(w, u, c)

EditPlans ==
    \E p \in Plans :
        \/ \E c \in Codes, l \in Limits, b \in BOOLEAN :
              SavePlan(p, [code |-> c, limit |-> l, active |-> b])
        \/ DeletePlan(p)

Next ==
    \/ \E w \in Workers : Call(w) \/ Step(w) \/ Abort(w)
    \/ EditPlans
    \/ Restart

Spec == Init /\ [][Next]_vars

-----------------------------------------------------------------------------
(* Properties                                                              *)

(* Every variable keeps its type, codes stay unique and no assignment or   *)
(* log entry points to a plan that was deleted.                            *)
TypeOK ==
    /\ plan \in [Plans -> Rows \cup {None, Deleted}]
    /\ \A p, q \in Plans : Exists(p) /\ Exists(q) /\ plan[p].code = plan[q].code => p = q
    /\ member \in [Users -> BOOLEAN]
    /\ assigned \in [Users -> Plans \cup {None}]
    /\ log \in [Users -> Seq(Entries)]
    /\ pc \in [Workers -> Labels]
    /\ tx \in [Workers -> Locals]
    /\ \A u \in Users : assigned[u] # None => Exists(assigned[u])
    /\ \A u \in Users : \A i \in DOMAIN log[u] : Exists(log[u][i].new)

ByAdmin(u, i) == i \in DOMAIN log[u] /\ log[u][i].by = "admin"

(* i is the last administrator's entry before position j.                  *)
LastBefore(u, i, j) ==
    ByAdmin(u, i) /\ i < j /\ \A k \in DOMAIN log[u] : i < k /\ k < j => ~ByAdmin(u, k)

(* The log of a user is a chain: every change starts from the plan the     *)
(* change before it led to, so no two administrators ever change the same  *)
(* plan of a user away (the row lock), and deleting plans cuts no link.    *)
ChangesChain ==
    \A u \in Users : \A j \in DOMAIN log[u] : \A i \in DOMAIN log[u] :
        ByAdmin(u, j) /\ LastBefore(u, i, j) => log[u][j].previous = log[u][i].new

(* The last change of the log is the plan in force, although the initial   *)
(* assignment runs outside any transaction and may end after the change.   *)
LastChangeIsCurrentPlan ==
    \A u \in Users : \A i \in DOMAIN log[u] :
        LastBefore(u, i, Len(log[u]) + 1) => assigned[u] = log[u][i].new

(* A user who has a plan only leaves it by a change that is logged in the  *)
(* same commit, with both plans ("los cambios de plan deben pasar por el   *)
(* servicio auditado").                                                    *)
NoSilentChange ==
    [][\A u \in Users :
          assigned[u] # None /\ assigned'[u] # assigned[u] =>
              log'[u] = Append(log[u], Entry(assigned[u], assigned'[u], "admin"))]_vars

(* The row lock and the transaction of assign_plan, and get_or_create      *)
(* outside of any, implement PlanHistory: what the system has granted and  *)
(* not logged is with the worker that is about to log it.                  *)
Owed == {<<tx[w].user, tx[w].new>> : w \in {v \in Workers : pc[v] = "logDefault"}}

History == INSTANCE PlanHistory WITH owed <- Owed

ImplementsHistory == History!Spec

(* docs/production-tour.md: "Todo usuario nuevo recibe FREE automaticamente*)
(* y genera un registro de asignacion inicial".                            *)
NewUsersAreLogged ==
    \A u \in Users :
        member[u] /\ (\A w \in Workers : tx[w].user # u) =>
            assigned[u] # None /\ \E i \in DOMAIN log[u] : log[u][i].by = "system"

=============================================================================
