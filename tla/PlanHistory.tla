---------------------------- MODULE PlanHistory ----------------------------
(***************************************************************************)
(* What the audited plan service promises, without workers, row locks,     *)
(* transactions or plan rows: a user's first plan, then changes that are   *)
(* each in the log with both plans, and an entry of the system only for    *)
(* the plan the system granted, once.                                      *)
(***************************************************************************)
EXTENDS Integers, Sequences

CONSTANTS Users, Plans, None

VARIABLES
    assigned,   \* the plan of a user, None before the first
    log,        \* the entries of a user, oldest first
    owed        \* <<user, plan>>: granted by the system, not in the log yet

vars == <<assigned, log, owed>>

Init ==
    /\ assigned = [u \in Users |-> None]
    /\ log = [u \in Users |-> <<>>]
    /\ owed = {}

First(u, p) ==
    /\ assigned[u] = None
    /\ assigned' = [assigned EXCEPT ![u] = p]
    /\ UNCHANGED log

Write(u, entry) == log' = [log EXCEPT ![u] = Append(@, entry)]

(* An administrator gives a plan to a user who has none.                   *)
Grant(u, p) == First(u, p) /\ UNCHANGED owed

(* The system gives a newcomer the initial plan ...                        *)
GrantDefault(u, p) == First(u, p) /\ owed' = owed \cup {<<u, p>>}

(* ... and says so, unless the record is lost.                             *)
Note(u, p) ==
    /\ <<u, p>> \in owed
    /\ owed' = owed \ {<<u, p>>}
    /\ Write(u, [previous |-> None, new |-> p, by |-> "system"])
    /\ UNCHANGED assigned

Lose ==
    /\ owed' \subseteq owed
    /\ UNCHANGED <<assigned, log>>

(* The plan a user leaves is the one the entry names, in the same step.    *)
Change(u, p) ==
    /\ assigned[u] # None /\ assigned[u] # p
    /\ assigned' = [assigned EXCEPT ![u] = p]
    /\ Write(u, [previous |-> assigned[u], new |-> p, by |-> "admin"])
    /\ UNCHANGED owed

(* A plan goes that nobody has and no entry led to.                        *)
Forget(p) ==
    /\ \A u \in Users : assigned[u] # p /\ \A i \in DOMAIN log[u] : log[u][i].new # p
    /\ log' = [u \in Users |-> [i \in DOMAIN log[u] |->
                 IF log[u][i].previous = p THEN [log[u][i] EXCEPT !.previous = None]
                 ELSE log[u][i]]]
    /\ UNCHANGED <<assigned, owed>>

Next ==
    \/ Lose
    \/ \E p \in Plans :
          \/ Forget(p)
          \/ \E u \in Users : Grant(u, p) \/ GrantDefault(u, p) \/ Note(u, p) \/ Change(u, p)

Spec == Init /\ [][Next]_vars

=============================================================================
