------------------------ MODULE PlanAssignmentProofs ------------------------
(***************************************************************************)
(* Proofs about PlanAssignment, for any number of users, workers, plans,   *)
(* codes and changes.                                                      *)
(*                                                                         *)
(* LockInv is the heart: between LockAssignment and the commit nobody else *)
(* writes the user's row, so the plan that was read is still the plan.     *)
(***************************************************************************)
EXTENDS PlanAssignment, TLAPS

DataOK ==
    /\ plan \in [Plans -> Rows \cup {None, Deleted}]
    /\ member \in [Users -> BOOLEAN]
    /\ assigned \in [Users -> Plans \cup {None}]
    /\ log \in [Users -> Seq(Entries)]

(* What the locals of a worker hold at each statement.                     *)
Shaped(label, t) ==
    /\ label \in Labels /\ t \in Locals
    /\ label # "idle" => t.user \in Users
    /\ label \in {"default", "logDefault", "lock", "commit"} => t.new \in Plans

CallsOK ==
    /\ pc \in [Workers -> Labels]
    /\ tx \in [Workers -> Locals]
    /\ \A w \in Workers : Shaped(pc[w], tx[w])

UniqueCodes == \A p, q \in Plans : Exists(p) /\ Exists(q) /\ plan[p].code = plan[q].code => p = q

(* No assignment and no entry points to a deleted plan.                    *)
NoDangling ==
    /\ \A u \in Users : assigned[u] # None => Exists(assigned[u])
    /\ \A u \in Users : \A i \in DOMAIN log[u] : Exists(log[u][i].new)

TypeInv == DataOK /\ CallsOK /\ UniqueCodes /\ NoDangling

LockInv ==
    /\ \A w \in Workers : pc[w] = "commit" => tx[w].previous = assigned[tx[w].user]
    /\ \A v, w \in Workers :
          pc[v] = "commit" /\ pc[w] = "commit" /\ tx[v].user = tx[w].user => v = w

(* A user with a change in the log has the plan of the last change.        *)
ChainInv == ChangesChain /\ LastChangeIsCurrentPlan

-----------------------------------------------------------------------------
LEMMA BlankShaped == Shaped("idle", Blank)
  BY DEF Shaped, Labels, Blank, Locals

LEMMA SeedRowTyped ==
    ASSUME NEW c \in {FREE, PREMIUM}
    PROVE  SeedRow(c) \in Rows /\ SeedRow(c).code = c
  BY CodesAssumption, LimitsAssumption DEF SeedRow, Rows

LEMMA InitType == Init => TypeInv
  <1> SUFFICES ASSUME Init PROVE TypeInv
    OBVIOUS
  <1>1. PICK f, p \in Plans :
           /\ f # p
           /\ plan = [[q \in Plans |-> None] EXCEPT ![f] = SeedRow(FREE),
                                                    ![p] = SeedRow(PREMIUM)]
    BY DEF Init
  <1>2. \A q \in Plans : plan[q] = IF q = p THEN SeedRow(PREMIUM)
                                   ELSE IF q = f THEN SeedRow(FREE) ELSE None
    BY <1>1
  <1>3. plan \in [Plans -> Rows \cup {None, Deleted}]
    BY <1>1, <1>2, SeedRowTyped
  <1>4. DataOK
    BY <1>3 DEF Init, DataOK
  <1>5. CallsOK
    BY BlankShaped DEF Init, CallsOK, Shaped
  <1>6. UniqueCodes
    BY <1>2, SeedRowTyped, CodesAssumption, NoneAssumption DEF UniqueCodes, Exists
  <1>7. NoDangling
    BY DEF Init, NoDangling
  <1>8. QED
    BY <1>4, <1>5, <1>6, <1>7 DEF TypeInv

(* What is known of an entry of the log.                                   *)
LEMMA EntryTyped ==
    ASSUME TypeInv, NEW u \in Users, NEW i \in DOMAIN log[u]
    PROVE  /\ log[u] \in Seq(Entries) /\ Len(log[u]) \in Nat
           /\ DOMAIN log[u] = 1..Len(log[u]) /\ log[u][i] \in Entries
           /\ log[u][i].new \in Plans /\ Exists(log[u][i].new)
  <1>1. log[u] \in Seq(Entries)
    BY DEF TypeInv, DataOK
  <1>2. Len(log[u]) \in Nat /\ DOMAIN log[u] = 1..Len(log[u])
    BY <1>1
  <1>3. log[u][i] \in Entries
    BY <1>1
  <1>4. log[u][i].new \in Plans
    BY <1>3 DEF Entries
  <1>5. QED
    BY <1>1, <1>2, <1>3, <1>4 DEF TypeInv, NoDangling

(* A worker moves; the rows of the plans only grow in the step.            *)
LEMMA GotoCalls ==
    ASSUME CallsOK, NEW w \in Workers, NEW label, NEW locals,
           Goto(w, label, locals), Shaped(label, locals)
    PROVE  CallsOK'
  <1>1. label \in Labels /\ locals \in Locals
    BY DEF Shaped
  <1>2. pc' \in [Workers -> Labels] /\ tx' \in [Workers -> Locals]
    BY <1>1 DEF CallsOK, Goto
  <1>3. ASSUME NEW v \in Workers PROVE Shaped(pc'[v], tx'[v])
    BY DEF CallsOK, Goto
  <1>4. QED
    BY <1>2, <1>3 DEF CallsOK

(* A step that leaves plans, assignments and log alone.                    *)
LEMMA QuietTypes ==
    ASSUME TypeInv, CallsOK', member' \in [Users -> BOOLEAN],
           UNCHANGED <<plan, assigned, log>>
    PROVE  TypeInv'
  BY DEF TypeInv, DataOK, UniqueCodes, NoDangling, Exists

(* An entry is added to the log of one user.                               *)
LEMMA AppendType ==
    ASSUME TypeInv, NEW u \in Users, NEW e \in Entries, Exists(e.new),
           log' = [log EXCEPT ![u] = Append(@, e)], plan' = plan
    PROVE  /\ log' \in [Users -> Seq(Entries)]
           /\ \A x \in Users : \A i \in DOMAIN log'[x] : Exists(log[x][i].new)'
           /\ \A x \in Users : x # u => log'[x] = log[x]
           /\ DOMAIN log[u] = 1..Len(log[u]) /\ DOMAIN log'[u] = 1..(Len(log[u]) + 1)
           /\ Len(log[u]) \in Nat /\ Len(log'[u]) = Len(log[u]) + 1
           /\ \A i \in DOMAIN log[u] : log'[u][i] = log[u][i]
           /\ log'[u][Len(log[u]) + 1] = e
  <1>1. log[u] \in Seq(Entries) /\ log'[u] = Append(log[u], e)
    BY DEF TypeInv, DataOK
  <1>2. log'[u] \in Seq(Entries)
    BY <1>1
  <1>3. log' \in [Users -> Seq(Entries)] /\ \A x \in Users : x # u => log'[x] = log[x]
    BY <1>2 DEF TypeInv, DataOK
  <1>4. /\ DOMAIN log[u] = 1..Len(log[u]) /\ DOMAIN log'[u] = 1..(Len(log[u]) + 1)
        /\ Len(log[u]) \in Nat /\ Len(log'[u]) = Len(log[u]) + 1
        /\ \A i \in DOMAIN log[u] : log'[u][i] = log[u][i]
        /\ log'[u][Len(log[u]) + 1] = e
    BY <1>1
  <1>5. ASSUME NEW x \in Users, NEW i \in DOMAIN log'[x] PROVE Exists(log[x][i].new)'
    <2>1. CASE x = u /\ i = Len(log[u]) + 1
      BY <1>4, <2>1 DEF Exists
    <2>2. CASE x = u /\ i # Len(log[u]) + 1
      <3>1. i \in DOMAIN log[u] /\ log'[x][i] = log[u][i]
        BY <1>4, <2>2
      <3>2. QED
        BY <3>1 DEF TypeInv, NoDangling, Exists
    <2>3. CASE x # u
      BY <1>3, <2>3 DEF TypeInv, NoDangling, Exists
    <2>4. QED
      BY <2>1, <2>2, <2>3
  <1>6. QED
    BY <1>3, <1>4, <1>5

-----------------------------------------------------------------------------
(* Type preservation, action by action.                                    *)

(* A row is written under a code no other row has.                         *)
LEMMA PutRow ==
    ASSUME TypeInv, NEW p \in Plans, NEW row \in Rows, HasCode(row.code) \subseteq {p},
           plan' = [plan EXCEPT ![p] = row]
    PROVE  /\ plan' \in [Plans -> Rows \cup {None, Deleted}]
           /\ UniqueCodes'
           /\ \A q \in Plans : Exists(q) => Exists(q)'
  <1>1. \A q \in Plans : plan'[q] = IF q = p THEN row ELSE plan[q]
    BY DEF TypeInv, DataOK
  <1>2. \A q \in Plans : q # p /\ Exists(q) => plan[q].code # row.code
    BY DEF HasCode
  <1>3. UniqueCodes'
    BY <1>1, <1>2 DEF TypeInv, UniqueCodes, Exists
  <1>4. QED
    BY <1>1, <1>3 DEF TypeInv, DataOK, Exists

(* Rows stay, assignments and log are left alone.                          *)
LEMMA PlansGrow ==
    ASSUME TypeInv, plan' \in [Plans -> Rows \cup {None, Deleted}], UniqueCodes',
           \A q \in Plans : Exists(q) => Exists(q)',
           CallsOK',
           UNCHANGED <<member, assigned, log>>
    PROVE  TypeInv'
  <1>1. DataOK'
    BY DEF TypeInv, DataOK
  <1>2. \A u \in Users : assigned[u] # None => assigned[u] \in Plans
    BY DEF TypeInv, DataOK
  <1>3. \A u \in Users : \A i \in DOMAIN log[u] : log[u][i].new \in Plans
    BY EntryTyped
  <1>4. NoDangling'
    BY <1>2, <1>3 DEF TypeInv, NoDangling
  <1>5. QED
    BY <1>1, <1>4 DEF TypeInv

LEMMA CallTypes ==
    ASSUME TypeInv, NEW w \in Workers, Call(w)
    PROVE  TypeInv'
  <1>1. ASSUME NEW u \in Users, Register(w, u) PROVE TypeInv'
    <2>1. Shaped("freePlan", [Blank EXCEPT !.user = u])
      BY DEF Shaped, Labels, Blank, Locals
    <2>2. CallsOK'
      BY <1>1, <2>1, GotoCalls DEF Register, TypeInv
    <2>3. member' \in [Users -> BOOLEAN]
      BY <1>1 DEF Register, TypeInv, DataOK
    <2>4. QED
      BY <1>1, <2>2, <2>3, QuietTypes DEF Register
  <1>2. ASSUME NEW u \in Users, NEW c \in Codes, StartAssign(w, u, c) PROVE TypeInv'
    <2>1. PICK p \in Plans : Goto(w, "lock", [Blank EXCEPT !.user = u, !.new = p])
      BY <1>2 DEF StartAssign, HasCode
    <2>2. Shaped("lock", [Blank EXCEPT !.user = u, !.new = p])
      BY DEF Shaped, Labels, Blank, Locals
    <2>3. CallsOK'
      BY <2>1, <2>2, GotoCalls DEF TypeInv
    <2>4. QED
      BY <1>2, <2>3, QuietTypes DEF StartAssign, TypeInv, DataOK
  <1>3. QED
    BY <1>1, <1>2 DEF Call

LEMMA FreePlanTypes ==
    ASSUME TypeInv, NEW w \in Workers, FreePlan(w)
    PROVE  TypeInv'
  <1>1. PICK p \in Plans :
           /\ IF HasCode(FREE) # {}
              THEN p \in HasCode(FREE) /\ UNCHANGED plan
              ELSE Free(p) /\ plan' = [plan EXCEPT ![p] = SeedRow(FREE)]
           /\ Goto(w, "default", [tx[w] EXCEPT !.new = p])
    BY DEF FreePlan
  <1>2. Shaped("default", [tx[w] EXCEPT !.new = p])
    BY DEF FreePlan, TypeInv, CallsOK, Shaped, Labels, Locals
  <1>3. CallsOK'
    BY <1>1, <1>2, GotoCalls DEF TypeInv
  <1>4. CASE HasCode(FREE) # {}
    BY <1>1, <1>3, <1>4, QuietTypes DEF FreePlan, TypeInv, DataOK
  <1>5. CASE HasCode(FREE) = {}
    <2>1. /\ plan' \in [Plans -> Rows \cup {None, Deleted}] /\ UniqueCodes'
          /\ \A q \in Plans : Exists(q) => Exists(q)'
      BY <1>1, <1>5, PutRow, SeedRowTyped
    <2>2. QED
      BY <1>3, <2>1, PlansGrow DEF FreePlan, TypeInv, DataOK
  <1>6. QED
    BY <1>4, <1>5

LEMMA EndType ==
    ASSUME TypeInv, NEW w \in Workers, Finish(w)
    PROVE  CallsOK'
  BY BlankShaped, GotoCalls DEF Finish, TypeInv

(* The tables after a change of one user's plan to an existing one.        *)
LEMMA AssignType ==
    ASSUME TypeInv, NEW u \in Users, NEW p \in Plans, Exists(p), plan' = plan,
           assigned' = [assigned EXCEPT ![u] = p]
    PROVE  /\ assigned' \in [Users -> Plans \cup {None}]
           /\ assigned'[u] = p /\ \A x \in Users : x # u => assigned'[x] = assigned[x]
           /\ \A x \in Users : assigned'[x] # None => Exists(assigned[x])'
  BY DEF TypeInv, DataOK, NoDangling, Exists

LEMMA AssignDefaultTypes ==
    ASSUME TypeInv, NEW w \in Workers, AssignDefault(w)
    PROVE  TypeInv'
  <1> DEFINE t == tx[w]
  <1>1. t.user \in Users /\ t.new \in Plans /\ Shaped("logDefault", t)
    BY DEF AssignDefault, TypeInv, CallsOK, Shaped, Labels
  <1>2. CASE assigned[t.user] = None /\ Exists(t.new)
    <2>1. assigned' = [assigned EXCEPT ![t.user] = t.new] /\ Goto(w, "logDefault", t)
      BY <1>2 DEF AssignDefault
    <2>2. CallsOK'
      BY <1>1, <2>1, GotoCalls DEF TypeInv
    <2>3. /\ assigned' \in [Users -> Plans \cup {None}]
          /\ \A x \in Users : assigned'[x] # None => Exists(assigned[x])'
      BY <1>1, <1>2, <2>1, AssignType DEF AssignDefault
    <2>4. QED
      BY <2>2, <2>3 DEF AssignDefault, TypeInv, DataOK, UniqueCodes, NoDangling, Exists
  <1>3. CASE ~(assigned[t.user] = None /\ Exists(t.new))
    <2>1. CallsOK'
      BY <1>3, EndType DEF AssignDefault
    <2>2. QED
      BY <1>3, <2>1, QuietTypes DEF AssignDefault, TypeInv, DataOK
  <1>4. QED
    BY <1>2, <1>3

LEMMA LogDefaultTypes ==
    ASSUME TypeInv, NEW w \in Workers, LogDefault(w)
    PROVE  TypeInv'
  <1> DEFINE t == tx[w]
             e == Entry(None, t.new, "system")
  <1>1. t.user \in Users /\ t.new \in Plans
    BY DEF LogDefault, TypeInv, CallsOK, Shaped
  <1>2. e \in Entries /\ e.new = t.new
    BY <1>1 DEF Entry, Entries
  <1>3. CallsOK'
    BY EndType DEF LogDefault
  <1>4. CASE Exists(t.new)
    <2>1. log' = [log EXCEPT ![t.user] = Append(@, e)] /\ plan' = plan
      BY <1>4 DEF LogDefault
    <2>2. /\ log' \in [Users -> Seq(Entries)]
          /\ \A x \in Users : \A i \in DOMAIN log'[x] : Exists(log[x][i].new)'
      BY <1>1, <1>2, <1>4, <2>1, AppendType
    <2>3. QED
      BY <1>3, <2>2 DEF LogDefault, TypeInv, DataOK, UniqueCodes, NoDangling, Exists
  <1>5. CASE ~Exists(t.new)
    BY <1>3, <1>5, QuietTypes DEF LogDefault, TypeInv, DataOK
  <1>6. QED
    BY <1>4, <1>5

LEMMA LockTypes ==
    ASSUME TypeInv, NEW w \in Workers, LockAssignment(w)
    PROVE  TypeInv'
  <1>1. assigned[tx[w].user] \in Plans \cup {None}
    BY DEF LockAssignment, TypeInv, DataOK, CallsOK, Shaped
  <1>2. Shaped("commit", [tx[w] EXCEPT !.previous = assigned[tx[w].user]])
    BY <1>1 DEF LockAssignment, TypeInv, CallsOK, Shaped, Labels, Locals
  <1>3. CallsOK'
    BY <1>2, GotoCalls DEF LockAssignment, TypeInv
  <1>4. QED
    BY <1>3, QuietTypes DEF LockAssignment, TypeInv, DataOK

LEMMA CommitTypes ==
    ASSUME TypeInv, NEW w \in Workers, CommitAssign(w)
    PROVE  TypeInv'
  <1> DEFINE t == tx[w]
             e == Entry(t.previous, t.new, "admin")
  <1>1. /\ t.user \in Users /\ t.new \in Plans /\ t.previous \in Plans \cup {None}
        /\ Exists(t.new) /\ plan' = plan
    BY DEF CommitAssign, TypeInv, CallsOK, Shaped, Locals
  <1>2. e \in Entries /\ e.new = t.new
    BY <1>1 DEF Entry, Entries
  <1>3. CallsOK'
    BY EndType DEF CommitAssign
  <1>4. /\ assigned' \in [Users -> Plans \cup {None}]
        /\ \A x \in Users : assigned'[x] # None => Exists(assigned[x])'
    <2>1. CASE t.previous = t.new
      BY <1>1, <2>1 DEF CommitAssign, TypeInv, DataOK, NoDangling, Exists
    <2>2. CASE t.previous # t.new
      BY <1>1, <2>2, AssignType DEF CommitAssign
    <2>3. QED
      BY <2>1, <2>2
  <1>5. /\ log' \in [Users -> Seq(Entries)]
        /\ \A x \in Users : \A i \in DOMAIN log'[x] : Exists(log[x][i].new)'
    <2>1. CASE Logged(t)
      <3>1. log' = [log EXCEPT ![t.user] = Append(@, e)]
        BY <2>1 DEF CommitAssign, Change
      <3>2. QED
        BY <1>1, <1>2, <3>1, AppendType
    <2>2. CASE ~Logged(t)
      BY <1>1, <2>2 DEF CommitAssign, TypeInv, DataOK, NoDangling, Exists
    <2>3. QED
      BY <2>1, <2>2
  <1>6. QED
    BY <1>1, <1>3, <1>4, <1>5 DEF CommitAssign, TypeInv, DataOK, UniqueCodes, NoDangling, Exists

LEMMA SavePlanTypes ==
    ASSUME TypeInv, NEW p \in Plans, NEW c \in Codes, NEW l \in Limits, NEW b \in BOOLEAN,
           SavePlan(p, [code |-> c, limit |-> l, active |-> b])
    PROVE  TypeInv'
  <1> DEFINE row == [code |-> c, limit |-> l, active |-> b]
  <1>1. row \in Rows
    BY LimitsAssumption DEF Rows
  <1>2. /\ plan' \in [Plans -> Rows \cup {None, Deleted}] /\ UniqueCodes'
        /\ \A q \in Plans : Exists(q) => Exists(q)'
    BY <1>1, PutRow DEF SavePlan
  <1>3. CallsOK'
    BY DEF SavePlan, TypeInv, CallsOK
  <1>4. QED
    BY <1>2, <1>3, PlansGrow DEF SavePlan

(* What deleting a plan does to the log: entries keep everything but a     *)
(* previous plan that is gone.                                             *)
LEMMA DeleteLog ==
    ASSUME TypeInv, NEW p \in Plans, DeletePlan(p), NEW u \in Users
    PROVE  /\ log'[u] \in Seq(Entries) /\ DOMAIN log'[u] = DOMAIN log[u]
           /\ \A i \in DOMAIN log[u] :
                 /\ log'[u][i].new = log[u][i].new /\ log'[u][i].by = log[u][i].by
                 /\ log[u][i].previous # p => log'[u][i].previous = log[u][i].previous
           /\ Len(log'[u]) = Len(log[u])
  <1> DEFINE s == log[u]
             f(i) == IF s[i].previous = p THEN [s[i] EXCEPT !.previous = None] ELSE s[i]
  <1>1. s \in Seq(Entries) /\ log'[u] = [i \in DOMAIN s |-> f(i)]
    BY DEF DeletePlan, TypeInv, DataOK
  <1>2. Len(s) \in Nat /\ DOMAIN s = 1..Len(s) /\ \A i \in 1..Len(s) : s[i] \in Entries
    BY <1>1
  <1>3. \A i \in 1..Len(s) :
           /\ f(i) \in Entries /\ f(i).new = s[i].new /\ f(i).by = s[i].by
           /\ s[i].previous # p => f(i).previous = s[i].previous
    BY <1>2 DEF Entries
  <1> HIDE DEF f
  <1>4. [i \in 1..Len(s) |-> f(i)] \in Seq(Entries)
    BY <1>2, <1>3
  <1>5. log'[u] = [i \in 1..Len(s) |-> f(i)]
    BY <1>1, <1>2
  <1>6. Len(log'[u]) = Len(s)
    BY <1>2, <1>5
  <1>7. QED
    BY <1>2, <1>3, <1>4, <1>5, <1>6

LEMMA DeleteTypes ==
    ASSUME TypeInv, NEW p \in Plans, DeletePlan(p)
    PROVE  TypeInv'
  <1>1. \A q \in Plans : plan'[q] = IF q = p THEN Deleted ELSE plan[q]
    BY DEF DeletePlan, TypeInv, DataOK
  <1>2. plan' \in [Plans -> Rows \cup {None, Deleted}]
    BY DEF DeletePlan, TypeInv, DataOK
  <1>3. log' \in [Users -> Seq(Entries)]
    <2>1. DOMAIN log' = Users /\ log' = [u \in Users |-> log'[u]]
      BY DEF DeletePlan
    <2>2. QED
      BY <2>1, DeleteLog
  <1>4. DataOK'
    BY <1>2, <1>3 DEF DeletePlan, TypeInv, DataOK
  <1>5. CallsOK'
    BY DEF DeletePlan, TypeInv, CallsOK
  <1>6. UniqueCodes'
    BY <1>1, NoneAssumption DEF TypeInv, UniqueCodes, Exists
  <1>7. \A u \in Users : assigned'[u] # None => Exists(assigned[u])'
    BY <1>1 DEF DeletePlan, TypeInv, DataOK, NoDangling, Exists
  <1>8. ASSUME NEW u \in Users, NEW i \in DOMAIN log'[u] PROVE Exists(log[u][i].new)'
    <2>1. i \in DOMAIN log[u] /\ log'[u][i].new = log[u][i].new
      BY DeleteLog
    <2>2. log[u][i].new # p /\ Exists(log[u][i].new) /\ log[u][i].new \in Plans
      BY <2>1, EntryTyped DEF DeletePlan
    <2>3. QED
      BY <1>1, <2>1, <2>2 DEF Exists
  <1>9. QED
    BY <1>4, <1>5, <1>6, <1>7, <1>8 DEF TypeInv, NoDangling

LEMMA RestartTypes ==
    ASSUME TypeInv, Restart
    PROVE  TypeInv'
  <1>1. PICK f, p \in Plans :
           /\ f # p /\ SeedTarget(f, FREE) /\ SeedTarget(p, PREMIUM)
           /\ plan' = [plan EXCEPT ![f] = SeedRow(FREE), ![p] = SeedRow(PREMIUM)]
    BY DEF Restart
  <1>2. \A q \in Plans : plan'[q] = IF q = p THEN SeedRow(PREMIUM)
                                    ELSE IF q = f THEN SeedRow(FREE) ELSE plan[q]
    BY <1>1 DEF TypeInv, DataOK
  <1>3. HasCode(FREE) \subseteq {f} /\ HasCode(PREMIUM) \subseteq {p}
    BY <1>1 DEF SeedTarget, HasCode, TypeInv, UniqueCodes
  <1>4. plan' \in [Plans -> Rows \cup {None, Deleted}]
    BY <1>1, SeedRowTyped DEF TypeInv, DataOK
  <1>5. UniqueCodes'
    <2>1. \A q \in Plans : q \notin {f, p} /\ Exists(q) => plan[q].code \notin {FREE, PREMIUM}
      BY <1>3 DEF HasCode
    <2>2. SeedRow(FREE).code = FREE /\ SeedRow(PREMIUM).code = PREMIUM
      BY SeedRowTyped
    <2>3. QED
      BY <1>2, <2>1, <2>2, CodesAssumption DEF TypeInv, UniqueCodes, Exists
  <1>6. \A q \in Plans : Exists(q) => Exists(q)'
    BY <1>2, SeedRowTyped DEF Exists
  <1>7. CallsOK'
    BY BlankShaped DEF Restart, CallsOK, Shaped
  <1>8. QED
    BY <1>4, <1>5, <1>6, <1>7, PlansGrow DEF Restart, TypeInv, DataOK

LEMMA NextTypes == TypeInv /\ [Next]_vars => TypeInv'
  <1> SUFFICES ASSUME TypeInv, [Next]_vars PROVE TypeInv'
    OBVIOUS
  <1>1. ASSUME NEW w \in Workers, Abort(w) PROVE TypeInv'
    BY <1>1, EndType, QuietTypes DEF Abort, TypeInv, DataOK
  <1>2. CASE UNCHANGED vars
    BY <1>2, QuietTypes DEF vars, TypeInv, DataOK, CallsOK
  <1>3. QED
    BY <1>1, <1>2, CallTypes, FreePlanTypes, AssignDefaultTypes, LogDefaultTypes, LockTypes,
       CommitTypes, SavePlanTypes, DeleteTypes, RestartTypes DEF Next, Step, EditPlans

(* Every variable keeps its type, codes stay unique and neither deletions  *)
(* nor races leave an assignment or an entry without its plan.             *)
THEOREM TypeCorrect == Spec => []TypeOK
  <1>1. TypeInv => TypeOK
    BY DEF TypeInv, DataOK, CallsOK, UniqueCodes, NoDangling, TypeOK
  <1>2. QED
    BY <1>1, InitType, NextTypes, PTL DEF Spec

-----------------------------------------------------------------------------
(* The lock of a user's row.                                               *)

LEMMA InitLock == Init => LockInv
  BY DEF Init, LockInv

(* A worker that does not come to hold a lock leaves LockInv true if it    *)
(* leaves alone the plans of the users other workers have locked.          *)
LEMMA LockKept ==
    ASSUME CallsOK, LockInv, NEW w \in Workers, NEW label, NEW locals,
           Goto(w, label, locals), label # "commit",
           \A v \in Workers \ {w} : pc[v] = "commit" => assigned'[tx[v].user] = assigned[tx[v].user]
    PROVE  LockInv'
  <1>1. pc'[w] = label
    BY DEF Goto, CallsOK
  <1>2. \A v \in Workers \ {w} : pc'[v] = pc[v] /\ tx'[v] = tx[v]
    BY DEF Goto, CallsOK
  <1>3. QED
    BY <1>1, <1>2 DEF LockInv

LEMMA FinishKeepsLock ==
    ASSUME CallsOK, LockInv, NEW w \in Workers, Finish(w),
           \A v \in Workers \ {w} : pc[v] = "commit" => assigned'[tx[v].user] = assigned[tx[v].user]
    PROVE  LockInv'
  BY LockKept DEF Finish

LEMMA AssignDefaultLock ==
    ASSUME TypeInv, LockInv, NEW w \in Workers, AssignDefault(w)
    PROVE  LockInv'
  <1> DEFINE u == tx[w].user
  <1>1. CallsOK
    BY DEF TypeInv
  <1>2. CASE assigned[u] = None /\ Exists(tx[w].new)
    <2>1. RowFree(w) /\ assigned' = [assigned EXCEPT ![u] = tx[w].new]
          /\ Goto(w, "logDefault", tx[w])
      BY <1>2 DEF AssignDefault
    <2>2. \A v \in Workers \ {w} : pc[v] = "commit" => tx[v].user # u /\ tx[v].user \in Users
      BY <2>1 DEF RowFree, HoldsAssignment, TypeInv, CallsOK, Shaped
    <2>3. \A v \in Workers \ {w} : pc[v] = "commit" => assigned'[tx[v].user] = assigned[tx[v].user]
      BY <2>1, <2>2 DEF TypeInv, DataOK
    <2>4. QED
      BY <1>1, <2>1, <2>3, LockKept
  <1>3. CASE ~(assigned[u] = None /\ Exists(tx[w].new))
    BY <1>1, <1>3, FinishKeepsLock DEF AssignDefault
  <1>4. QED
    BY <1>2, <1>3

LEMMA LockAssignmentLock ==
    ASSUME TypeInv, LockInv, NEW w \in Workers, LockAssignment(w)
    PROVE  LockInv'
  <1> DEFINE locals == [tx[w] EXCEPT !.previous = assigned[tx[w].user]]
  <1>1. /\ RowFree(w) /\ assigned' = assigned
        /\ pc'[w] = "commit" /\ tx'[w] = locals
        /\ \A v \in Workers \ {w} : pc'[v] = pc[v] /\ tx'[v] = tx[v]
    BY DEF LockAssignment, Goto, TypeInv, CallsOK
  <1>2. locals.user = tx[w].user /\ locals.previous = assigned[tx[w].user]
    BY DEF TypeInv, CallsOK, Locals
  <1> HIDE DEF locals
  <1>3. \A v \in Workers \ {w} : pc[v] = "commit" => tx[v].user # tx[w].user
    BY <1>1 DEF RowFree, HoldsAssignment
  <1>4. \A v \in Workers : pc'[v] = "commit" => tx'[v].previous = assigned[tx'[v].user]
    BY <1>1, <1>2 DEF LockInv
  <1>5. \A v, x \in Workers :
           pc'[v] = "commit" /\ pc'[x] = "commit" /\ tx'[v].user = tx'[x].user => v = x
    BY <1>1, <1>2, <1>3 DEF LockInv
  <1>6. QED
    BY <1>1, <1>4, <1>5 DEF LockInv

LEMMA CommitLock ==
    ASSUME TypeInv, LockInv, NEW w \in Workers, CommitAssign(w)
    PROVE  LockInv'
  <1>1. \A v \in Workers \ {w} : pc[v] = "commit" => tx[v].user # tx[w].user
    BY DEF CommitAssign, LockInv
  <1>2. \A x \in Users : x # tx[w].user => assigned'[x] = assigned[x]
    BY DEF CommitAssign, TypeInv, DataOK
  <1>3. \A v \in Workers : pc[v] = "commit" => tx[v].user \in Users
    BY DEF TypeInv, CallsOK, Shaped
  <1>4. QED
    BY <1>1, <1>2, <1>3, FinishKeepsLock DEF CommitAssign, TypeInv

LEMMA NextLock == TypeInv /\ LockInv /\ [Next]_vars => LockInv'
  <1> SUFFICES ASSUME TypeInv, LockInv, [Next]_vars PROVE LockInv'
    OBVIOUS
  <1>0. CallsOK
    BY DEF TypeInv
  <1>1. ASSUME NEW w \in Workers, Call(w) PROVE LockInv'
    <2>1. ASSUME NEW u \in Users, Register(w, u) PROVE LockInv'
      BY <1>0, <2>1, LockKept DEF Register
    <2>2. ASSUME NEW u \in Users, NEW c \in Codes, StartAssign(w, u, c) PROVE LockInv'
      <3>1. PICK p \in HasCode(c) : Goto(w, "lock", [Blank EXCEPT !.user = u, !.new = p])
        BY <2>2 DEF StartAssign
      <3>2. QED
        BY <1>0, <2>2, <3>1, LockKept DEF StartAssign
    <2>3. QED
      BY <1>1, <2>1, <2>2 DEF Call
  <1>2. ASSUME NEW w \in Workers, FreePlan(w) PROVE LockInv'
    <2>1. PICK p \in Plans : Goto(w, "default", [tx[w] EXCEPT !.new = p])
      BY <1>2 DEF FreePlan
    <2>2. QED
      BY <1>0, <1>2, <2>1, LockKept DEF FreePlan
  <1>3. ASSUME NEW w \in Workers, LogDefault(w) \/ Abort(w) PROVE LockInv'
    BY <1>0, <1>3, FinishKeepsLock DEF LogDefault, Abort
  <1>4. CASE EditPlans
    BY <1>4 DEF EditPlans, SavePlan, DeletePlan, LockInv
  <1>5. CASE Restart
    BY <1>5 DEF Restart, LockInv
  <1>6. CASE UNCHANGED vars
    BY <1>6 DEF vars, LockInv
  <1>7. QED
    BY <1>1, <1>2, <1>3, <1>4, <1>5, <1>6, AssignDefaultLock, LockAssignmentLock, CommitLock
       DEF Next, Step

-----------------------------------------------------------------------------
(* A change of plan is logged in the commit that makes it.                 *)

Unlogged(u) == assigned[u] # None /\ assigned'[u] # assigned[u]

LEMMA CommitIsLogged ==
    ASSUME TypeInv, LockInv, NEW w \in Workers, CommitAssign(w), NEW u \in Users, Unlogged(u)
    PROVE  log'[u] = Append(log[u], Entry(assigned[u], assigned'[u], "admin"))
  <1> DEFINE t == tx[w]
  <1>1. t.previous = assigned[t.user] /\ t.user \in Users
    BY DEF CommitAssign, LockInv, TypeInv, CallsOK, Shaped
  <1>2. u = t.user /\ assigned'[u] = t.new /\ t.previous # t.new
    BY <1>1 DEF CommitAssign, Unlogged, TypeInv, DataOK
  <1>3. Logged(t)
    BY <1>1, <1>2 DEF Logged, Unlogged
  <1>4. log' = [log EXCEPT ![t.user] = Append(@, Entry(t.previous, t.new, "admin"))]
    BY <1>3 DEF CommitAssign, Change
  <1>5. QED
    BY <1>1, <1>2, <1>4 DEF TypeInv, DataOK

LEMMA NextIsLogged ==
    ASSUME TypeInv, LockInv, [Next]_vars, NEW u \in Users, Unlogged(u)
    PROVE  log'[u] = Append(log[u], Entry(assigned[u], assigned'[u], "admin"))
  <1>1. ASSUME NEW w \in Workers, AssignDefault(w) PROVE FALSE
    BY <1>1 DEF AssignDefault, Unlogged, TypeInv, DataOK
  <1>2. ASSUME NEW w \in Workers,
               Call(w) \/ FreePlan(w) \/ LogDefault(w) \/ LockAssignment(w) \/ Abort(w)
        PROVE  FALSE
    BY <1>2 DEF Call, Register, StartAssign, FreePlan, LogDefault, LockAssignment, Abort, Unlogged
  <1>3. CASE EditPlans \/ Restart \/ UNCHANGED vars
    BY <1>3 DEF EditPlans, SavePlan, DeletePlan, Restart, vars, Unlogged
  <1>4. QED
    BY <1>1, <1>2, <1>3, CommitIsLogged DEF Next, Step

(* Whoever has a plan only leaves it by a change that is logged in the same*)
(* commit with both plans, whatever races with it.                         *)
THEOREM NoChangeIsSilent == Spec => NoSilentChange
  <1>1. TypeInv /\ LockInv /\ [Next]_vars =>
            [\A u \in Users :
               assigned[u] # None /\ assigned'[u] # assigned[u] =>
                  log'[u] = Append(log[u], Entry(assigned[u], assigned'[u], "admin"))]_vars
    BY NextIsLogged DEF Unlogged
  <1>2. QED
    BY <1>1, InitType, NextTypes, InitLock, NextLock, PTL DEF Spec, NoSilentChange

-----------------------------------------------------------------------------
(* The chain of the changes.                                               *)

LastIn(s, i, j) ==
    s[i].by = "admin" /\ i < j /\ \A k \in DOMAIN s : i < k /\ k < j => s[k].by # "admin"

(* The log s is a chain that ends at plan a.                               *)
Chained(s, a) ==
    /\ \A i, j \in DOMAIN s :
          s[j].by = "admin" /\ LastIn(s, i, j) => s[j].previous = s[i].new
    /\ \A i \in DOMAIN s : LastIn(s, i, Len(s) + 1) => a = s[i].new

LEMMA ChainByUser == ChainInv <=> \A u \in Users : Chained(log[u], assigned[u])
  BY DEF ChainInv, ChangesChain, LastChangeIsCurrentPlan, Chained, LastIn, LastBefore, ByAdmin

(* Without a plan there is no change in the log, and any plan may come.    *)
LEMMA FirstPlanChain ==
    ASSUME TypeInv, NEW u \in Users, Chained(log[u], assigned[u]), assigned[u] = None, NEW a
    PROVE  Chained(log[u], a)
  BY EntryTyped, NoneAssumption DEF Chained

(* An entry of the system leaves the chain as it is; one of an             *)
(* administrator must start from the plan at its end.                      *)
LEMMA AppendChain ==
    ASSUME NEW s \in Seq(Entries), NEW a, NEW b, Chained(s, a), NEW e \in Entries,
           e.by = "admin" => e.previous = a /\ b = e.new,
           e.by # "admin" => b = a
    PROVE  Chained(Append(s, e), b)
  <1> DEFINE n == Len(s)
             z == Append(s, e)
  <1>1. /\ DOMAIN s = 1..n /\ DOMAIN z = 1..(n + 1) /\ n \in Nat /\ Len(z) = n + 1
        /\ \A i \in 1..n : z[i] = s[i]
        /\ z[n + 1] = e
    OBVIOUS
  <1> HIDE DEF n, z
  <1>2. ASSUME NEW i \in 1..n, NEW j \in 1..(n + 1), LastIn(z, i, j) PROVE LastIn(s, i, j)
    BY <1>1, <1>2 DEF LastIn
  <1>3. ASSUME NEW i \in 1..(n + 1), NEW j \in 1..(n + 1), z[j].by = "admin", LastIn(z, i, j)
        PROVE  z[j].previous = z[i].new
    <2>1. i \in 1..n
      BY <1>1, <1>3 DEF LastIn
    <2>2. LastIn(s, i, j)
      BY <1>2, <1>3, <2>1
    <2>3. CASE j \in 1..n
      BY <1>1, <1>3, <2>1, <2>2, <2>3 DEF Chained
    <2>4. CASE j = n + 1
      BY <1>1, <1>3, <2>1, <2>2, <2>4 DEF Chained, n
    <2>5. QED
      BY <1>1, <1>3, <2>3, <2>4
  <1>4. ASSUME NEW i \in 1..(n + 1), LastIn(z, i, n + 2) PROVE b = z[i].new
    <2>1. CASE e.by = "admin"
      <3>1. i = n + 1
        BY <1>1, <1>4, <2>1 DEF LastIn
      <3>2. QED
        BY <1>1, <2>1, <3>1
    <2>2. CASE e.by # "admin"
      <3>1. i \in 1..n
        BY <1>1, <1>4, <2>2 DEF LastIn
      <3>2. LastIn(z, i, n + 1)
        BY <1>1, <1>4, <3>1 DEF LastIn
      <3>3. LastIn(s, i, n + 1)
        BY <1>1, <1>2, <3>1, <3>2
      <3>4. QED
        BY <1>1, <2>2, <3>1, <3>3 DEF Chained, n
    <2>3. QED
      BY <2>1, <2>2
  <1>5. Len(z) + 1 = n + 2
    BY <1>1
  <1>6. Chained(z, b)
    BY <1>1, <1>3, <1>4, <1>5 DEF Chained
  <1>7. QED
    BY <1>6 DEF z

LEMMA AssignDefaultChain ==
    ASSUME TypeInv, NEW w \in Workers, AssignDefault(w), NEW u \in Users,
           Chained(log[u], assigned[u])
    PROVE  Chained(log'[u], assigned'[u])
  <1>1. log'[u] = log[u] /\ (assigned'[u] = assigned[u] \/ assigned[u] = None)
    BY DEF AssignDefault, TypeInv, DataOK
  <1>2. QED
    BY <1>1, FirstPlanChain

LEMMA LogDefaultChain ==
    ASSUME TypeInv, NEW w \in Workers, LogDefault(w), NEW u \in Users,
           Chained(log[u], assigned[u])
    PROVE  Chained(log'[u], assigned'[u])
  <1> DEFINE t == tx[w]
             e == Entry(None, t.new, "system")
  <1>1. t.user \in Users /\ t.new \in Plans /\ assigned' = assigned /\ plan' = plan
    BY DEF LogDefault, TypeInv, CallsOK, Shaped
  <1>2. e \in Entries /\ e.new = t.new /\ e.by = "system"
    BY <1>1 DEF Entry, Entries
  <1>3. CASE Exists(t.new) /\ u = t.user
    <2>1. log[u] \in Seq(Entries) /\ log'[u] = Append(log[u], e)
      BY <1>1, <1>3 DEF LogDefault, TypeInv, DataOK
    <2> HIDE DEF e
    <2>2. QED
      BY <1>1, <1>2, <1>3, <2>1, AppendChain
  <1>4. CASE ~(Exists(t.new) /\ u = t.user)
    <2>1. log'[u] = log[u]
      BY <1>1, <1>4 DEF LogDefault, TypeInv, DataOK
    <2>2. QED
      BY <1>1, <2>1
  <1>5. QED
    BY <1>3, <1>4

LEMMA CommitChain ==
    ASSUME TypeInv, LockInv, NEW w \in Workers, CommitAssign(w), NEW u \in Users,
           Chained(log[u], assigned[u])
    PROVE  Chained(log'[u], assigned'[u])
  <1> DEFINE t == tx[w]
             e == Entry(t.previous, t.new, "admin")
  <1>1. /\ t.user \in Users /\ t.new \in Plans /\ t.previous \in Plans \cup {None}
        /\ t.previous = assigned[t.user] /\ Exists(t.new) /\ plan' = plan
    BY DEF CommitAssign, LockInv, TypeInv, CallsOK, Shaped, Locals
  <1>2. e \in Entries /\ e.new = t.new /\ e.previous = t.previous /\ e.by = "admin"
    BY <1>1 DEF Entry, Entries
  <1>3. CASE Logged(t) /\ u = t.user
    <2>1. log[u] \in Seq(Entries) /\ log'[u] = Append(log[u], e)
      BY <1>1, <1>3 DEF CommitAssign, Change, TypeInv, DataOK
    <2>2. assigned'[u] = t.new
      BY <1>1, <1>3 DEF CommitAssign, Logged, TypeInv, DataOK
    <2> HIDE DEF e
    <2>3. QED
      BY <1>1, <1>2, <1>3, <2>1, <2>2, AppendChain
  <1>4. CASE ~Logged(t) /\ u = t.user
    <2>1. log'[u] = log[u]
      BY <1>4 DEF CommitAssign
    <2>2. assigned[u] = None \/ assigned'[u] = assigned[u]
      BY <1>1, <1>4 DEF CommitAssign, Logged
    <2>3. QED
      BY <2>1, <2>2, FirstPlanChain
  <1>5. CASE u # t.user
    <2>1. log'[u] = log[u] /\ assigned'[u] = assigned[u]
      BY <1>5 DEF CommitAssign, Change, TypeInv, DataOK
    <2>2. QED
      BY <2>1
  <1>6. QED
    BY <1>3, <1>4, <1>5

(* A plan that a later entry starts from is the new plan of an earlier one,*)
(* which protects it from deletion.                                        *)
LEMMA DeleteChain ==
    ASSUME TypeInv, NEW p \in Plans, DeletePlan(p), NEW u \in Users,
           Chained(log[u], assigned[u])
    PROVE  Chained(log'[u], assigned'[u])
  <1>1. /\ DOMAIN log'[u] = DOMAIN log[u] /\ Len(log'[u]) = Len(log[u])
        /\ \A i \in DOMAIN log[u] :
              /\ log'[u][i].new = log[u][i].new /\ log'[u][i].by = log[u][i].by
              /\ log[u][i].previous # p => log'[u][i].previous = log[u][i].previous
    BY DeleteLog
  <1>2. assigned'[u] = assigned[u] /\ \A i \in DOMAIN log[u] : log[u][i].new # p
    BY DEF DeletePlan
  <1>3. \A i, j \in DOMAIN log[u] : LastIn(log'[u], i, j) => LastIn(log[u], i, j)
    BY <1>1 DEF LastIn
  <1>4. \A i \in DOMAIN log[u] :
           LastIn(log'[u], i, Len(log[u]) + 1) => LastIn(log[u], i, Len(log[u]) + 1)
    BY <1>1 DEF LastIn
  <1>5. ASSUME NEW i \in DOMAIN log[u], NEW j \in DOMAIN log[u],
               log'[u][j].by = "admin", LastIn(log'[u], i, j)
        PROVE  log'[u][j].previous = log'[u][i].new
    <2>1. log[u][j].previous = log[u][i].new
      BY <1>1, <1>3, <1>5 DEF Chained
    <2>2. QED
      BY <1>1, <1>2, <2>1
  <1>6. QED
    BY <1>1, <1>2, <1>4, <1>5 DEF Chained

LEMMA NextChain == TypeInv /\ LockInv /\ ChainInv /\ [Next]_vars => ChainInv'
  <1> SUFFICES ASSUME TypeInv, LockInv, ChainInv, [Next]_vars, NEW u \in Users
               PROVE  Chained(log'[u], assigned'[u])
    <2>1. ChainInv' <=> \A u \in Users : Chained(log'[u], assigned'[u])
      BY DEF ChainInv, ChangesChain, LastChangeIsCurrentPlan, Chained, LastIn, LastBefore, ByAdmin
    <2>2. QED
      BY <2>1
  <1>0. Chained(log[u], assigned[u])
    BY ChainByUser
  <1>1. ASSUME NEW w \in Workers, Call(w) \/ FreePlan(w) \/ LockAssignment(w) \/ Abort(w)
        PROVE  log' = log /\ assigned' = assigned
    BY <1>1 DEF Call, Register, StartAssign, FreePlan, LockAssignment, Abort
  <1>2. ASSUME Restart \/ UNCHANGED vars PROVE log' = log /\ assigned' = assigned
    BY <1>2 DEF Restart, vars
  <1>3. CASE EditPlans
    <2>1. ASSUME NEW p \in Plans, NEW row, SavePlan(p, row) PROVE Chained(log'[u], assigned'[u])
      BY <1>0, <2>1 DEF SavePlan
    <2>2. QED
      BY <1>0, <1>3, <2>1, DeleteChain DEF EditPlans
  <1>4. QED
    BY <1>0, <1>1, <1>2, <1>3, AssignDefaultChain, LogDefaultChain, CommitChain
       DEF Next, Step

LEMMA InitChain == Init => ChainInv
  BY DEF Init, ChainInv, ChangesChain, LastChangeIsCurrentPlan

LEMMA ChainHolds == Spec => []ChainInv
  BY InitType, NextTypes, InitLock, NextLock, InitChain, NextChain, PTL DEF Spec

(* The changes of a user form a chain: assign_plan logs, as the plan it    *)
(* replaces, the one the change before it put in force, for any number of  *)
(* administrators, deletions and restarts.                                 *)
THEOREM ChangesFormAChain == Spec => []ChangesChain
<1>1. ChainInv => ChangesChain
  BY DEF ChainInv
<1> QED
  BY <1>1, ChainHolds, PTL

(* The last change logged for a user is the plan in force: assign_plan and *)
(* assign_default_plan, whose own entry may come later.                    *)
THEOREM LastChangeInForce == Spec => []LastChangeIsCurrentPlan
<1>1. ChainInv => LastChangeIsCurrentPlan
  BY DEF ChainInv
<1> QED
  BY <1>1, ChainHolds, PTL

-----------------------------------------------------------------------------
(* Registrations.  A user is registered once, so at most one worker is     *)
(* about to grant, or to log, the initial plan of a user.                  *)

Registration == {"freePlan", "default", "logDefault"}

RegisterInv ==
    /\ \A w \in Workers : pc[w] \in Registration => member[tx[w].user]
    /\ \A v, w \in Workers :
          pc[v] \in Registration /\ pc[w] \in Registration /\ tx[v].user = tx[w].user => v = w

LEMMA RegisterMoves ==
    ASSUME CallsOK, RegisterInv, NEW w \in Workers, NEW label, NEW locals,
           Goto(w, label, locals), member' = member,
           pc[w] \in Registration, locals.user = tx[w].user
    PROVE  RegisterInv'
  <1>1. /\ pc'[w] = label /\ tx'[w] = locals
        /\ \A v \in Workers \ {w} : pc'[v] = pc[v] /\ tx'[v] = tx[v]
    BY DEF Goto, CallsOK
  <1>2. QED
    BY <1>1 DEF RegisterInv

LEMMA RegisterEnds ==
    ASSUME CallsOK, RegisterInv, NEW w \in Workers, NEW label, NEW locals,
           Goto(w, label, locals), member' = member, label \notin Registration
    PROVE  RegisterInv'
  <1>1. /\ pc'[w] = label
        /\ \A v \in Workers \ {w} : pc'[v] = pc[v] /\ tx'[v] = tx[v]
    BY DEF Goto, CallsOK
  <1>2. QED
    BY <1>1 DEF RegisterInv

LEMMA RegisterStarts ==
    ASSUME TypeInv, RegisterInv, NEW w \in Workers, NEW u \in Users, Register(w, u)
    PROVE  RegisterInv'
  <1>1. /\ pc'[w] = "freePlan" /\ tx'[w].user = u
        /\ \A v \in Workers \ {w} : pc'[v] = pc[v] /\ tx'[v] = tx[v]
    BY DEF Register, Goto, TypeInv, CallsOK, Blank
  <1>2. ~member[u] /\ member'[u] /\ \A x \in Users : member[x] => member'[x]
    BY DEF Register, TypeInv, DataOK
  <1>3. \A v \in Workers : pc[v] \in Registration => tx[v].user \in Users /\ tx[v].user # u
    BY <1>2 DEF RegisterInv, Registration, TypeInv, CallsOK, Shaped
  <1>4. QED
    BY <1>1, <1>2, <1>3 DEF RegisterInv

LEMMA NextRegister == TypeInv /\ RegisterInv /\ [Next]_vars => RegisterInv'
  <1> SUFFICES ASSUME TypeInv, RegisterInv, [Next]_vars PROVE RegisterInv'
    OBVIOUS
  <1>0. CallsOK
    BY DEF TypeInv
  <1>1. ASSUME NEW w \in Workers, NEW u \in Users, NEW c \in Codes, StartAssign(w, u, c)
        PROVE  RegisterInv'
    <2>1. PICK p \in HasCode(c) : Goto(w, "lock", [Blank EXCEPT !.user = u, !.new = p])
      BY <1>1 DEF StartAssign
    <2>2. QED
      BY <1>0, <1>1, <2>1, RegisterEnds DEF StartAssign, Registration
  <1>2. ASSUME NEW w \in Workers, FreePlan(w) PROVE RegisterInv'
    <2>1. PICK p \in Plans : Goto(w, "default", [tx[w] EXCEPT !.new = p])
      BY <1>2 DEF FreePlan
    <2>2. [tx[w] EXCEPT !.new = p].user = tx[w].user
      BY <1>0 DEF CallsOK, Locals
    <2>3. QED
      BY <1>0, <1>2, <2>1, <2>2, RegisterMoves DEF FreePlan, Registration
  <1>3. ASSUME NEW w \in Workers, AssignDefault(w) PROVE RegisterInv'
    <2>1. Goto(w, "logDefault", tx[w]) \/ Goto(w, "idle", Blank)
      BY <1>3 DEF AssignDefault, Finish
    <2>2. QED
      BY <1>0, <1>3, <2>1, RegisterMoves, RegisterEnds DEF AssignDefault, Registration
  <1>4. ASSUME NEW w \in Workers, LogDefault(w) \/ CommitAssign(w) \/ Abort(w)
        PROVE  RegisterInv'
    BY <1>0, <1>4, RegisterEnds DEF LogDefault, CommitAssign, Abort, Finish, Registration
  <1>5. ASSUME NEW w \in Workers, LockAssignment(w) PROVE RegisterInv'
    BY <1>0, <1>5, RegisterEnds DEF LockAssignment, Registration
  <1>6. CASE EditPlans \/ Restart \/ UNCHANGED vars
    BY <1>6 DEF EditPlans, SavePlan, DeletePlan, Restart, vars, RegisterInv, Registration
  <1>7. QED
    BY <1>1, <1>2, <1>3, <1>4, <1>5, <1>6, RegisterStarts DEF Next, Call, Step

LEMMA InitRegister == Init => RegisterInv
  BY DEF Init, RegisterInv, Registration

-----------------------------------------------------------------------------
(* The service implements PlanHistory.                                     *)

HistoryStep == [History!Next]_(History!vars)

(* A worker that neither has an initial plan to log nor gets one.          *)
LEMMA OwedStays ==
    ASSUME NEW w \in Workers, pc[w] # "logDefault", pc'[w] # "logDefault",
           \A v \in Workers \ {w} : pc'[v] = pc[v] /\ tx'[v] = tx[v]
    PROVE  Owed' = Owed
  BY DEF Owed

LEMMA GotoOthers ==
    ASSUME CallsOK, NEW w \in Workers, NEW label, NEW locals, Goto(w, label, locals)
    PROVE  /\ pc'[w] = label /\ tx'[w] = locals
           /\ \A v \in Workers \ {w} : pc'[v] = pc[v] /\ tx'[v] = tx[v]
  BY DEF CallsOK, Goto

LEMMA FinishOthers ==
    ASSUME TypeInv, NEW w \in Workers, Finish(w)
    PROVE  pc'[w] = "idle" /\ \A v \in Workers \ {w} : pc'[v] = pc[v] /\ tx'[v] = tx[v]
  BY GotoOthers DEF Finish, TypeInv

LEMMA HistoryStutters ==
    ASSUME Owed' = Owed, UNCHANGED <<assigned, log>>
    PROVE  HistoryStep
  BY DEF HistoryStep, History!vars

LEMMA HistoryLoses ==
    ASSUME Owed' \subseteq Owed, UNCHANGED <<assigned, log>>
    PROVE  HistoryStep
  BY DEF HistoryStep, History!Lose, History!Next

LEMMA DefaultIsGranted ==
    ASSUME TypeInv, NEW w \in Workers, AssignDefault(w)
    PROVE  HistoryStep
  <1> PICK t : t = tx[w]
    OBVIOUS
  <1>1. t.user \in Users /\ t.new \in Plans /\ CallsOK /\ pc[w] = "default"
    BY DEF AssignDefault, TypeInv, CallsOK, Shaped
  <1>2. CASE assigned[t.user] = None /\ Exists(t.new)
    <2>1. /\ assigned' = [assigned EXCEPT ![t.user] = t.new] /\ log' = log
          /\ pc'[w] = "logDefault" /\ tx'[w] = t
          /\ \A v \in Workers \ {w} : pc'[v] = pc[v] /\ tx'[v] = tx[v]
      BY <1>1, <1>2, GotoOthers DEF AssignDefault
    <2>2. Owed' = Owed \cup {<<t.user, t.new>>}
      BY <1>1, <2>1 DEF Owed
    <2>3. History!GrantDefault(t.user, t.new)
      BY <1>2, <2>1, <2>2 DEF History!GrantDefault, History!First
    <2>4. QED
      BY <1>1, <2>3 DEF HistoryStep, History!Next
  <1>3. CASE ~(assigned[t.user] = None /\ Exists(t.new))
    <2>1. UNCHANGED <<assigned, log>> /\ Finish(w)
      BY <1>3 DEF AssignDefault
    <2>2. Owed' = Owed
      BY <1>1, <2>1, FinishOthers, OwedStays
    <2>3. QED
      BY <2>1, <2>2, HistoryStutters
  <1>4. QED
    BY <1>2, <1>3

LEMMA DefaultIsNoted ==
    ASSUME TypeInv, RegisterInv, NEW w \in Workers, LogDefault(w)
    PROVE  HistoryStep
  <1> PICK t : t = tx[w]
    OBVIOUS
  <1>1. /\ t.user \in Users /\ t.new \in Plans /\ pc[w] = "logDefault" /\ pc'[w] = "idle"
        /\ \A v \in Workers \ {w} : pc'[v] = pc[v] /\ tx'[v] = tx[v]
        /\ assigned' = assigned
    BY FinishOthers DEF LogDefault, TypeInv, CallsOK, Shaped
  <1>2. \A v \in Workers \ {w} : pc[v] = "logDefault" => tx[v].user # t.user
    BY <1>1 DEF RegisterInv, Registration
  <1>3. <<t.user, t.new>> \in Owed /\ Owed' = Owed \ {<<t.user, t.new>>}
    BY <1>1, <1>2 DEF Owed
  <1>4. CASE Exists(t.new)
    <2>1. log' = [log EXCEPT ![t.user] = Append(@, Entry(None, t.new, "system"))]
      BY <1>4 DEF LogDefault
    <2>2. History!Note(t.user, t.new)
      BY <1>1, <1>3, <2>1 DEF History!Note, History!Write, Entry
    <2>3. QED
      BY <1>1, <2>2 DEF HistoryStep, History!Next
  <1>5. CASE ~Exists(t.new)
    BY <1>1, <1>3, <1>5, HistoryLoses DEF LogDefault
  <1>6. QED
    BY <1>4, <1>5

LEMMA CommitIsAChange ==
    ASSUME TypeInv, LockInv, NEW w \in Workers, CommitAssign(w)
    PROVE  HistoryStep
  <1> PICK t : t = tx[w]
    OBVIOUS
  <1>1. /\ t.user \in Users /\ t.new \in Plans /\ pc[w] = "commit" /\ Finish(w)
        /\ t.previous = assigned[t.user]
    BY DEF CommitAssign, LockInv, TypeInv, CallsOK, Shaped
  <1>2. Owed' = Owed
    BY <1>1, FinishOthers, OwedStays
  <1>3. CASE t.previous = t.new
    BY <1>2, <1>3, HistoryStutters DEF CommitAssign, Logged
  <1>4. CASE t.previous # t.new /\ t.previous = None
    <2>1. assigned' = [assigned EXCEPT ![t.user] = t.new] /\ log' = log
      BY <1>4 DEF CommitAssign, Logged
    <2>2. History!Grant(t.user, t.new)
      BY <1>1, <1>2, <1>4, <2>1 DEF History!Grant, History!First
    <2>3. QED
      BY <1>1, <2>2 DEF HistoryStep, History!Next
  <1>5. CASE t.previous # t.new /\ t.previous # None
    <2>1. /\ assigned' = [assigned EXCEPT ![t.user] = t.new]
          /\ log' = [log EXCEPT ![t.user] = Append(@, Entry(t.previous, t.new, "admin"))]
      BY <1>5 DEF CommitAssign, Logged, Change
    <2>2. History!Change(t.user, t.new)
      BY <1>1, <1>2, <1>5, <2>1 DEF History!Change, History!Write, Entry
    <2>3. QED
      BY <1>1, <2>2 DEF HistoryStep, History!Next
  <1>6. QED
    BY <1>3, <1>4, <1>5

LEMMA NextHistory == TypeInv /\ LockInv /\ RegisterInv /\ [Next]_vars => HistoryStep
  <1> SUFFICES ASSUME TypeInv, LockInv, RegisterInv, [Next]_vars PROVE HistoryStep
    OBVIOUS
  <1>0. CallsOK
    BY DEF TypeInv
  <1>1. ASSUME NEW w \in Workers, Call(w) PROVE HistoryStep
    <2>1. ASSUME NEW u \in Users, Register(w, u) PROVE HistoryStep
      BY <1>0, <2>1, GotoOthers, OwedStays, HistoryStutters DEF Register
    <2>2. ASSUME NEW u \in Users, NEW c \in Codes, StartAssign(w, u, c) PROVE HistoryStep
      <3>1. PICK p \in HasCode(c) : Goto(w, "lock", [Blank EXCEPT !.user = u, !.new = p])
        BY <2>2 DEF StartAssign
      <3>2. QED
        BY <1>0, <2>2, <3>1, GotoOthers, OwedStays, HistoryStutters DEF StartAssign
    <2>3. QED
      BY <1>1, <2>1, <2>2 DEF Call
  <1>2. ASSUME NEW w \in Workers, FreePlan(w) PROVE HistoryStep
    <2>1. PICK p \in Plans : Goto(w, "default", [tx[w] EXCEPT !.new = p])
      BY <1>2 DEF FreePlan
    <2>2. QED
      BY <1>0, <1>2, <2>1, GotoOthers, OwedStays, HistoryStutters DEF FreePlan
  <1>3. ASSUME NEW w \in Workers, LockAssignment(w) PROVE HistoryStep
    BY <1>0, <1>3, GotoOthers, OwedStays, HistoryStutters DEF LockAssignment
  <1>4. ASSUME NEW w \in Workers, Abort(w) PROVE HistoryStep
    <2>1. Owed' \subseteq Owed
      BY <1>4, FinishOthers DEF Abort, Owed
    <2>2. QED
      BY <1>4, <2>1, HistoryLoses DEF Abort
  <1>5. CASE EditPlans
    <2>1. ASSUME NEW p \in Plans, NEW row, SavePlan(p, row) PROVE HistoryStep
      <3>1. Owed' = Owed
        BY <2>1 DEF SavePlan, Owed
      <3>2. QED
        BY <2>1, <3>1, HistoryStutters DEF SavePlan
    <2>2. ASSUME NEW p \in Plans, DeletePlan(p) PROVE HistoryStep
      <3>1. Owed' = Owed
        BY <2>2 DEF DeletePlan, Owed
      <3>2. History!Forget(p)
        BY <2>2, <3>1 DEF DeletePlan, History!Forget
      <3>3. QED
        BY <3>2 DEF HistoryStep, History!Next
    <2>3. QED
      BY <1>5, <2>1, <2>2 DEF EditPlans
  <1>6. CASE Restart
    <2>1. Owed' = {}
      BY <1>6 DEF Restart, Owed
    <2>2. QED
      BY <1>6, <2>1, HistoryLoses DEF Restart
  <1>7. CASE UNCHANGED vars
    <2>1. Owed' = Owed
      BY <1>7 DEF vars, Owed
    <2>2. QED
      BY <1>7, <2>1, HistoryStutters DEF vars
  <1>8. QED
    BY <1>1, <1>2, <1>3, <1>4, <1>5, <1>6, <1>7, DefaultIsGranted, DefaultIsNoted,
       CommitIsAChange DEF Next, Step

(* The audited plan service, with its row lock, its transaction and what   *)
(* registration commits outside of any, implements PlanHistory: nobody's   *)
(* plan changes but by a step that names it in the log, and the system     *)
(* logs at most the one plan it granted.                                   *)
THEOREM HistoryImplemented == Spec => ImplementsHistory
  <1>1. Init => History!Init
    BY DEF Init, Owed, History!Init
  <1>2. TypeInv /\ LockInv /\ RegisterInv /\ [Next]_vars => [History!Next]_(History!vars)
    BY NextHistory DEF HistoryStep
  <1>3. QED
    BY <1>1, <1>2, InitType, NextTypes, InitLock, NextLock, InitRegister, NextRegister, PTL
       DEF Spec, ImplementsHistory, History!Spec

-----------------------------------------------------------------------------
(* Newcomers.  NewUsersAreLogged does not hold of Spec.  It holds once four*)
(* things are left out: a call that dies, a restart, the deletion of plans,*)
(* and an administrator who assigns a plan before registration has ended.  *)

BeingRegistered(u) == \E w \in Workers : pc[w] \in Registration /\ tx[w].user = u

CalmNext ==
    \/ \E w \in Workers :
          \/ Step(w)
          \/ \E u \in Users :
                \/ Register(w, u)
                \/ \E c \in Codes : ~BeingRegistered(u) /\ StartAssign(w, u, c)
    \/ \E p \in Plans, c \in Codes, l \in Limits, b \in BOOLEAN :
          SavePlan(p, [code |-> c, limit |-> l, active |-> b])

CalmSpec == Init /\ [][CalmNext]_vars

LEMMA CalmIsNext == CalmNext => Next
  BY DEF CalmNext, Next, Call, EditPlans

Noted(u) == \E i \in DOMAIN log[u] : log[u][i].by = "system"

(* A newcomer is with one worker, who finds no plan assigned and whose     *)
(* plan exists, until both the assignment and its entry are there.         *)
NewcomerInv ==
    /\ \A w \in Workers : pc[w] # "idle" => member[tx[w].user]
    /\ \A w \in Workers : pc[w] \in {"freePlan", "default"} => assigned[tx[w].user] = None
    /\ \A w \in Workers : pc[w] = "logDefault" => assigned[tx[w].user] # None
    /\ \A w \in Workers : pc[w] \in {"default", "logDefault"} => Exists(tx[w].new)
    /\ \A v, w \in Workers :
          pc[v] \in Registration /\ pc[w] \in {"lock", "commit"} => tx[v].user # tx[w].user
    /\ \A u \in Users : member[u] => (assigned[u] # None /\ Noted(u)) \/ BeingRegistered(u)
    /\ \A u \in Users : ~member[u] => assigned[u] = None

CalmInv == TypeInv /\ RegisterInv /\ NewcomerInv

LEMMA InitNewcomer == Init => NewcomerInv
  BY DEF Init, NewcomerInv, Registration

(* An entry that is there stays.                                           *)
LEMMA AppendNoted ==
    ASSUME TypeInv, NEW u \in Users, NEW e,
           log' = [log EXCEPT ![u] = Append(@, e)]
    PROVE  /\ \A x \in Users : Noted(x) => Noted(x)'
           /\ e.by = "system" => Noted(u)'
  <1>1. log[u] \in Seq(Entries) /\ log'[u] = Append(log[u], e)
        /\ \A x \in Users \ {u} : log'[x] = log[x]
    BY DEF TypeInv, DataOK
  <1>2. /\ DOMAIN log[u] = 1..Len(log[u]) /\ DOMAIN log'[u] = 1..(Len(log[u]) + 1)
        /\ Len(log[u]) \in Nat
        /\ \A i \in DOMAIN log[u] : log'[u][i] = log[u][i]
        /\ log'[u][Len(log[u]) + 1] = e
    BY <1>1
  <1>3. \A i \in DOMAIN log[u] : i \in DOMAIN log'[u]
    BY <1>2
  <1>4. Noted(u) => Noted(u)'
    BY <1>2, <1>3 DEF Noted
  <1>5. Len(log[u]) + 1 \in DOMAIN log'[u]
    BY <1>2
  <1>6. QED
    BY <1>1, <1>2, <1>4, <1>5 DEF Noted

(* A worker moves in a step that touches neither assignments nor log.      *)
LEMMA NewcomersMove ==
    ASSUME CalmInv, NEW w \in Workers,
           pc[w] # "idle", pc'[w] # "idle", tx'[w].user = tx[w].user,
           \A v \in Workers \ {w} : pc'[v] = pc[v] /\ tx'[v] = tx[v],
           pc'[w] \in {"freePlan", "default"} <=> pc[w] \in {"freePlan", "default"},
           pc'[w] = "logDefault" <=> pc[w] = "logDefault",
           pc'[w] \in {"lock", "commit"} <=> pc[w] \in {"lock", "commit"},
           pc'[w] \in {"default", "logDefault"} => Exists(tx[w].new)',
           \A q \in Plans : Exists(q) => Exists(q)',
           UNCHANGED <<member, assigned, log>>
    PROVE  NewcomerInv'
  <1>0. \A v \in Workers : pc[v] \in {"default", "logDefault"} => tx[v].new \in Plans
    BY DEF CalmInv, TypeInv, CallsOK, Shaped
  <1>1. \A u \in Users : Noted(u)' <=> Noted(u)
    BY DEF Noted
  <1>2. pc'[w] \in Registration <=> pc[w] \in Registration
    BY DEF Registration
  <1>3. \A u \in Users : BeingRegistered(u) => BeingRegistered(u)'
    BY <1>2 DEF BeingRegistered
  <1>4. \A v \in Workers : pc'[v] \in {"default", "logDefault"} => Exists(tx[v].new)'
    <2>1. ASSUME NEW v \in Workers \ {w}, pc'[v] \in {"default", "logDefault"}
          PROVE  Exists(tx[v].new)'
      BY <1>0, <2>1 DEF CalmInv, NewcomerInv, Exists
    <2>2. QED
      BY <2>1
  <1>5. \A v, x \in Workers :
          pc'[v] \in Registration /\ pc'[x] \in {"lock", "commit"} => tx'[v].user # tx'[x].user
    BY <1>2 DEF CalmInv, NewcomerInv
  <1>6. QED
    BY <1>1, <1>3, <1>4, <1>5 DEF CalmInv, NewcomerInv

LEMMA RegisterWelcomes ==
    ASSUME CalmInv, NEW w \in Workers, NEW u \in Users, Register(w, u)
    PROVE  NewcomerInv'
  <1>1. /\ pc'[w] = "freePlan" /\ tx'[w].user = u
        /\ \A v \in Workers \ {w} : pc'[v] = pc[v] /\ tx'[v] = tx[v]
    BY DEF Register, Goto, CalmInv, TypeInv, CallsOK, Blank
  <1>2. /\ ~member[u] /\ member'[u] /\ \A x \in Users \ {u} : member'[x] = member[x]
        /\ UNCHANGED <<plan, assigned, log>>
    BY DEF Register, CalmInv, TypeInv, DataOK
  <1>3. \A v \in Workers : pc[v] # "idle" => tx[v].user \in Users /\ tx[v].user # u
    BY <1>2 DEF CalmInv, NewcomerInv, TypeInv, CallsOK, Shaped
  <1>4. BeingRegistered(u)' /\ \A x \in Users : BeingRegistered(x) => BeingRegistered(x)'
    BY <1>1 DEF BeingRegistered, Registration, Register
  <1>5. \A x \in Users : Noted(x)' <=> Noted(x)
    BY <1>2 DEF Noted
  <1>6. \A v \in Workers : pc'[v] \in {"default", "logDefault"} => Exists(tx[v].new)'
    BY <1>1, <1>2 DEF CalmInv, NewcomerInv, Exists
  <1>7. \A v, x \in Workers :
          pc'[v] \in Registration /\ pc'[x] \in {"lock", "commit"} => tx'[v].user # tx'[x].user
    BY <1>1, <1>3 DEF CalmInv, NewcomerInv
  <1>8. QED
    BY <1>1, <1>2, <1>3, <1>4, <1>5, <1>6, <1>7 DEF CalmInv, NewcomerInv

LEMMA AssignmentWaits ==
    ASSUME CalmInv, NEW w \in Workers, NEW u \in Users, NEW c \in Codes,
           ~BeingRegistered(u), StartAssign(w, u, c)
    PROVE  NewcomerInv'
  <1>1. /\ pc'[w] = "lock" /\ tx'[w].user = u
        /\ \A v \in Workers \ {w} : pc'[v] = pc[v] /\ tx'[v] = tx[v]
    BY DEF StartAssign, Goto, CalmInv, TypeInv, CallsOK, Blank
  <1>2. pc[w] = "idle" /\ member[u] /\ UNCHANGED <<plan, member, assigned, log>>
    BY DEF StartAssign
  <1>3. \A v \in Workers : pc[v] \in Registration => tx[v].user # u
    BY DEF BeingRegistered
  <1>4. \A x \in Users : BeingRegistered(x) => BeingRegistered(x)'
    BY <1>1, <1>2 DEF BeingRegistered, Registration
  <1>5. \A x \in Users : Noted(x)' <=> Noted(x)
    BY <1>2 DEF Noted
  <1>6. \A v \in Workers : pc'[v] \in {"default", "logDefault"} => Exists(tx[v].new)'
    BY <1>1, <1>2 DEF CalmInv, NewcomerInv, Exists
  <1>7. \A v, x \in Workers :
          pc'[v] \in Registration /\ pc'[x] \in {"lock", "commit"} => tx'[v].user # tx'[x].user
    BY <1>1, <1>3 DEF CalmInv, NewcomerInv, Registration
  <1>8. QED
    BY <1>1, <1>2, <1>4, <1>5, <1>6, <1>7 DEF CalmInv, NewcomerInv

LEMMA FreePlanFinds ==
    ASSUME CalmInv, NEW w \in Workers, FreePlan(w)
    PROVE  NewcomerInv'
  <1>0. TypeInv
    BY DEF CalmInv
  <1>1. PICK p \in Plans :
           /\ IF HasCode(FREE) # {}
              THEN p \in HasCode(FREE) /\ UNCHANGED plan
              ELSE Free(p) /\ plan' = [plan EXCEPT ![p] = SeedRow(FREE)]
           /\ Goto(w, "default", [tx[w] EXCEPT !.new = p])
    BY DEF FreePlan
  <1>2. /\ pc[w] = "freePlan" /\ pc'[w] = "default" /\ tx'[w].user = tx[w].user /\ tx'[w].new = p
        /\ \A v \in Workers \ {w} : pc'[v] = pc[v] /\ tx'[v] = tx[v]
        /\ UNCHANGED <<member, assigned, log>>
    BY <1>0, <1>1 DEF FreePlan, Goto, TypeInv, CallsOK, Locals
  <1>3. Exists(p)' /\ \A q \in Plans : Exists(q) => Exists(q)'
    <2>1. CASE HasCode(FREE) # {}
      BY <1>1, <2>1 DEF HasCode, Exists
    <2>2. CASE HasCode(FREE) = {}
      BY <1>0, <1>1, <2>2, SeedRowTyped DEF Exists, TypeInv, DataOK
    <2>3. QED
      BY <2>1, <2>2
  <1>4. QED
    BY <1>2, <1>3, NewcomersMove

LEMMA DefaultWelcomes ==
    ASSUME CalmInv, NEW w \in Workers, AssignDefault(w)
    PROVE  NewcomerInv'
  <1> PICK t : t = tx[w]
    OBVIOUS
  <1>0. TypeInv /\ RegisterInv /\ NewcomerInv
    BY DEF CalmInv
  <1>1. t.user \in Users /\ t.new \in Plans /\ pc[w] = "default"
    BY <1>0 DEF AssignDefault, TypeInv, CallsOK, Shaped
  <1>2. assigned[t.user] = None /\ Exists(t.new)
    BY <1>0, <1>1 DEF NewcomerInv
  <1>3. /\ assigned' = [assigned EXCEPT ![t.user] = t.new]
        /\ Goto(w, "logDefault", t) /\ UNCHANGED <<plan, member, log>>
    BY <1>2 DEF AssignDefault
  <1>4. /\ pc'[w] = "logDefault" /\ tx'[w] = t
        /\ \A v \in Workers \ {w} : pc'[v] = pc[v] /\ tx'[v] = tx[v]
    BY <1>0, <1>3 DEF Goto, TypeInv, CallsOK
  <1>5. /\ assigned'[t.user] # None
        /\ \A x \in Users : x # t.user => assigned'[x] = assigned[x]
    BY <1>0, <1>1, <1>3, NoneAssumption DEF TypeInv, DataOK
  <1>6. \A v \in Workers \ {w} : pc[v] \in Registration => tx[v].user # t.user
    BY <1>0, <1>1 DEF RegisterInv, Registration
  <1>7. \A v \in Workers : pc[v] # "idle" => tx[v].user \in Users
    BY <1>0 DEF TypeInv, CallsOK, Shaped
  <1>8. \A x \in Users : (BeingRegistered(x) => BeingRegistered(x)') /\ (Noted(x)' <=> Noted(x))
    BY <1>1, <1>3, <1>4 DEF BeingRegistered, Registration, Noted
  <1>9. \A v \in Workers : pc'[v] \in {"freePlan", "default"} => assigned'[tx'[v].user] = None
    BY <1>0, <1>4, <1>5, <1>6, <1>7 DEF NewcomerInv, Registration
  <1>10. \A v \in Workers : pc'[v] = "logDefault" => assigned'[tx'[v].user] # None
    BY <1>0, <1>4, <1>5, <1>6, <1>7 DEF NewcomerInv, Registration
  <1>11. \A v \in Workers : pc'[v] \in {"default", "logDefault"} => Exists(tx[v].new)'
    BY <1>0, <1>2, <1>3, <1>4 DEF NewcomerInv, Exists
  <1>12. \A v, x \in Workers :
          pc'[v] \in Registration /\ pc'[x] \in {"lock", "commit"} => tx'[v].user # tx'[x].user
    BY <1>0, <1>1, <1>4 DEF NewcomerInv, Registration
  <1>13. \A u \in Users : ~member[u] => u # t.user
    BY <1>0, <1>1 DEF NewcomerInv
  <1>14. \A v \in Workers : pc'[v] # "idle" => member'[tx'[v].user]
    BY <1>0, <1>1, <1>3, <1>4 DEF NewcomerInv
  <1>15. \A u \in Users :
            member'[u] => (assigned'[u] # None /\ Noted(u)') \/ BeingRegistered(u)'
    <2>1. BeingRegistered(t.user)'
      BY <1>4 DEF BeingRegistered, Registration
    <2>2. QED
      BY <1>0, <1>3, <1>5, <1>8, <2>1 DEF NewcomerInv
  <1>16. \A u \in Users : ~member'[u] => assigned'[u] = None
    BY <1>0, <1>3, <1>5, <1>13 DEF NewcomerInv
  <1>17. QED
    BY <1>9, <1>10, <1>11, <1>12, <1>14, <1>15, <1>16 DEF NewcomerInv

LEMMA NoteWelcomes ==
    ASSUME CalmInv, NEW w \in Workers, LogDefault(w)
    PROVE  NewcomerInv'
  <1> PICK t : t = tx[w]
    OBVIOUS
  <1>0. TypeInv /\ RegisterInv /\ NewcomerInv
    BY DEF CalmInv
  <1>1. /\ t.user \in Users /\ t.new \in Plans /\ pc[w] = "logDefault" /\ pc'[w] = "idle"
        /\ \A v \in Workers \ {w} : pc'[v] = pc[v] /\ tx'[v] = tx[v]
        /\ UNCHANGED <<plan, member, assigned>>
    BY <1>0, FinishOthers DEF LogDefault, TypeInv, CallsOK, Shaped
  <1>2. Exists(t.new) /\ assigned[t.user] # None
    BY <1>0, <1>1 DEF NewcomerInv
  <1>3. log' = [log EXCEPT ![t.user] = Append(@, Entry(None, t.new, "system"))]
    BY <1>2 DEF LogDefault
  <1>4. Entry(None, t.new, "system").by = "system"
    BY DEF Entry
  <1>5. Noted(t.user)' /\ \A x \in Users : Noted(x) => Noted(x)'
    BY <1>0, <1>1, <1>3, <1>4, AppendNoted
  <1>6. \A x \in Users : x # t.user => (BeingRegistered(x) => BeingRegistered(x)')
    BY <1>1 DEF BeingRegistered
  <1>7. \A v \in Workers : pc'[v] \in {"default", "logDefault"} => Exists(tx[v].new)'
    BY <1>0, <1>1 DEF NewcomerInv, Exists
  <1>8. \A v, x \in Workers :
          pc'[v] \in Registration /\ pc'[x] \in {"lock", "commit"} => tx'[v].user # tx'[x].user
    BY <1>0, <1>1 DEF NewcomerInv, Registration
  <1>9. \A u \in Users :
            member'[u] => (assigned'[u] # None /\ Noted(u)') \/ BeingRegistered(u)'
    BY <1>0, <1>1, <1>2, <1>5, <1>6 DEF NewcomerInv
  <1>10. QED
    BY <1>0, <1>1, <1>7, <1>8, <1>9 DEF NewcomerInv

LEMMA CommitSparesNewcomers ==
    ASSUME CalmInv, NEW w \in Workers, CommitAssign(w)
    PROVE  NewcomerInv'
  <1> DEFINE t == tx[w]
             e == Entry(t.previous, t.new, "admin")
  <1>0. TypeInv /\ NewcomerInv
    BY DEF CalmInv
  <1>1. /\ t.user \in Users /\ t.new \in Plans /\ pc[w] = "commit" /\ pc'[w] = "idle"
        /\ \A v \in Workers \ {w} : pc'[v] = pc[v] /\ tx'[v] = tx[v]
        /\ UNCHANGED <<plan, member>>
    BY <1>0, FinishOthers DEF CommitAssign, TypeInv, CallsOK, Shaped
  <1>2. \A x \in Users : x # t.user => assigned'[x] = assigned[x]
    BY <1>0, <1>1 DEF CommitAssign, TypeInv, DataOK
  <1>3. \A x \in Users : assigned[x] # None => assigned'[x] # None
    BY <1>0, <1>1, NoneAssumption DEF CommitAssign, TypeInv, DataOK
  <1>4. \A x \in Users : Noted(x) => Noted(x)'
    <2>1. CASE Logged(t)
      BY <1>0, <1>1, <2>1, AppendNoted DEF CommitAssign, Change
    <2>2. CASE ~Logged(t)
      BY <2>2 DEF CommitAssign, Noted
    <2>3. QED
      BY <2>1, <2>2
  <1>5. \A v \in Workers : pc[v] \in Registration => tx[v].user # t.user /\ tx[v].user \in Users
    BY <1>0, <1>1 DEF NewcomerInv, Registration, TypeInv, CallsOK, Shaped
  <1>6. \A x \in Users : BeingRegistered(x) => BeingRegistered(x)'
    BY <1>1 DEF BeingRegistered, Registration
  <1>7. \A v \in Workers : pc'[v] \in {"default", "logDefault"} => Exists(tx[v].new)'
    BY <1>0, <1>1 DEF NewcomerInv, Exists
  <1>8. \A v, x \in Workers :
          pc'[v] \in Registration /\ pc'[x] \in {"lock", "commit"} => tx'[v].user # tx'[x].user
    BY <1>0, <1>1 DEF NewcomerInv, Registration
  <1>9. \A v \in Workers : pc'[v] \in {"freePlan", "default"} => assigned'[tx'[v].user] = None
    BY <1>0, <1>1, <1>2, <1>5 DEF NewcomerInv, Registration
  <1>10. \A v \in Workers : pc'[v] = "logDefault" => assigned'[tx'[v].user] # None
    BY <1>0, <1>1, <1>2, <1>5 DEF NewcomerInv, Registration
  <1>11. \A u \in Users : ~member'[u] => u # t.user /\ assigned'[u] = None
    BY <1>0, <1>1, <1>2 DEF NewcomerInv
  <1>12. \A v \in Workers : pc'[v] # "idle" => member'[tx'[v].user]
    BY <1>0, <1>1 DEF NewcomerInv
  <1>13. \A u \in Users :
            member'[u] => (assigned'[u] # None /\ Noted(u)') \/ BeingRegistered(u)'
    BY <1>0, <1>1, <1>3, <1>4, <1>6 DEF NewcomerInv
  <1>14. QED
    BY <1>7, <1>8, <1>9, <1>10, <1>11, <1>12, <1>13 DEF NewcomerInv

LEMMA NextNewcomer == CalmInv /\ [CalmNext]_vars => CalmInv'
  <1> SUFFICES ASSUME CalmInv, [CalmNext]_vars PROVE NewcomerInv'
    BY CalmIsNext, NextTypes, NextRegister DEF CalmInv
  <1>0. TypeInv
    BY DEF CalmInv
  <1>1. ASSUME NEW w \in Workers, LockAssignment(w) PROVE NewcomerInv'
    <2>1. /\ pc[w] = "lock" /\ pc'[w] = "commit" /\ tx'[w].user = tx[w].user
          /\ \A v \in Workers \ {w} : pc'[v] = pc[v] /\ tx'[v] = tx[v]
          /\ UNCHANGED <<plan, member, assigned, log>>
      BY <1>0, <1>1 DEF LockAssignment, Goto, TypeInv, CallsOK, Locals
    <2>2. \A q \in Plans : Exists(q) => Exists(q)'
      BY <2>1 DEF Exists
    <2>3. QED
      BY <2>1, <2>2, NewcomersMove
  <1>2. ASSUME NEW p \in Plans, NEW c \in Codes, NEW l \in Limits, NEW b \in BOOLEAN,
               SavePlan(p, [code |-> c, limit |-> l, active |-> b])
        PROVE  NewcomerInv'
    <2>1. [code |-> c, limit |-> l, active |-> b] \in Rows
      BY LimitsAssumption DEF Rows
    <2>2. \A q \in Plans : Exists(q) => Exists(q)'
      BY <1>0, <1>2, <2>1, PutRow DEF SavePlan
    <2>3. UNCHANGED <<member, assigned, log, pc, tx>>
      BY <1>2 DEF SavePlan
    <2>4. \A v \in Workers : pc[v] \in {"default", "logDefault"} => tx[v].new \in Plans
      BY <1>0 DEF TypeInv, CallsOK, Shaped
    <2>5. \A v \in Workers : pc'[v] \in {"default", "logDefault"} => Exists(tx[v].new)'
      BY <2>2, <2>3, <2>4 DEF CalmInv, NewcomerInv
    <2>6. QED
      BY <2>3, <2>5 DEF CalmInv, NewcomerInv, Noted, BeingRegistered
  <1>3. CASE UNCHANGED vars
    BY <1>3 DEF vars, CalmInv, NewcomerInv, Noted, BeingRegistered, Exists
  <1>4. QED
    BY <1>1, <1>2, <1>3, RegisterWelcomes, AssignmentWaits, FreePlanFinds, DefaultWelcomes,
       NoteWelcomes, CommitSparesNewcomers DEF CalmNext, Step

(* What docs/production-tour.md says of newcomers - FREE and an entry of   *)
(* the system - is true of registration as long as no call dies, nothing   *)
(* restarts, no plan is deleted and no administrator assigns a plan to a   *)
(* user who is still being registered: create_user's signal, then          *)
(* assign_default_plan, for any number of users and workers.               *)
THEOREM CalmNewcomersAreLogged == CalmSpec => []NewUsersAreLogged
  <1>1. Init => CalmInv
    BY InitType, InitRegister, InitNewcomer DEF CalmInv
  <1>2. CalmInv => NewUsersAreLogged
    BY DEF CalmInv, NewcomerInv, NewUsersAreLogged, BeingRegistered, Noted
  <1>3. QED
    BY <1>1, <1>2, NextNewcomer, PTL DEF CalmSpec

=============================================================================
