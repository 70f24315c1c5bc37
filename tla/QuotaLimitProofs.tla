-------------------------- MODULE QuotaLimitProofs --------------------------
(***************************************************************************)
(* The daily limit and the lock of the counter: theorem LimitRespected.    *)
(* usage <= limit is not inductive.  It needs that the row lock excludes   *)
(* (UsageExclusive), so that the count a transaction read is still the     *)
(* count when it writes (FreshCount), and that the transaction decided on  *)
(* that count (RoomLeft).                                                  *)
(***************************************************************************)
EXTENDS QuotaServiceProofs

UsageExclusive ==
    \A v, w \in Workers, u \in Users, d \in Days :
        HoldsUsage(v, u, d) /\ HoldsUsage(w, u, d) => v = w

FreshCount ==
    \A w \in Workers, u \in Users, d \in Days :
        HoldsUsage(w, u, d) => tx[w].count = usage[u][d]

RoomLeft ==
    \A w \in Workers :
        pc[w] \in CommitLabels /\ Charges(tx[w]) => tx[w].count < tx[w].limit

LimitInv == UsageExclusive /\ FreshCount /\ RoomLeft /\ NeverPastLimit

-----------------------------------------------------------------------------
LEMMA InitLimit == Init => LimitInv
  <1> SUFFICES ASSUME Init PROVE LimitInv
    OBVIOUS
  <1>1. \A w \in Workers : pc[w] = "idle"
    BY DEF Init
  <1>2. UsageExclusive /\ FreshCount /\ RoomLeft
    BY <1>1 DEF UsageExclusive, FreshCount, RoomLeft, HoldsUsage, CommitLabels
  <1>3. PICK l \in Limits : l \in Nat
    BY LimitsAssumption
  <1>4. NeverPastLimit
    BY <1>3 DEF Init, NeverPastLimit
  <1>5. QED
    BY <1>2, <1>4 DEF LimitInv

(* A step of w leaves the other workers where they are.                    *)
LEMMA OthersStay ==
    ASSUME TypeInv, NEW w \in Workers, NEW label \in Labels, NEW locals,
           Goto(w, label, locals)
    PROVE  /\ pc'[w] = label /\ tx'[w] = locals
           /\ \A v \in Workers : v # w => pc'[v] = pc[v] /\ tx'[v] = tx[v]
  BY DEF TypeInv, CallsOK, Goto

(* Steps that neither write the counter nor lock it.                       *)
HoldsNoCounter(label, t) == label \notin CommitLabels \/ t.status = "rejected_auth"

LEMMA NoCounterKeeps ==
    ASSUME TypeInv, LimitInv, NEW w \in Workers, NEW label \in Labels, NEW locals,
           Goto(w, label, locals), HoldsNoCounter(label, locals), usage' = usage
    PROVE  LimitInv'
  <1>1. /\ pc'[w] = label /\ tx'[w] = locals
        /\ \A v \in Workers : v # w => pc'[v] = pc[v] /\ tx'[v] = tx[v]
    BY OthersStay
  <1>2. \A u, d : ~HoldsUsage(w, u, d)'
    BY <1>1 DEF HoldsNoCounter, HoldsUsage, CommitLabels
  <1>3. \A v \in Workers : \A u, d : v # w => HoldsUsage(v, u, d)' = HoldsUsage(v, u, d)
    BY <1>1 DEF HoldsUsage
  <1>4. UsageExclusive'
    BY <1>2, <1>3 DEF LimitInv, UsageExclusive
  <1>5. FreshCount'
    BY <1>1, <1>2, <1>3 DEF LimitInv, FreshCount
  <1>6. RoomLeft'
    <2>1. ~(pc'[w] \in CommitLabels /\ Charges(tx'[w]))
      BY <1>1 DEF HoldsNoCounter, Charges
    <2>2. QED
      BY <1>1, <2>1 DEF LimitInv, RoomLeft
  <1>7. NeverPastLimit'
    BY DEF LimitInv, NeverPastLimit
  <1>8. QED
    BY <1>4, <1>5, <1>6, <1>7 DEF LimitInv

(* A worker that waits for a counter sees it unlocked when it goes on.     *)
LEMMA UsageFree ==
    ASSUME NEW w \in Workers, pc[w] \in {"usage", "refund"}, Unblocked(w), NEW v \in Workers
    PROVE  ~HoldsUsage(v, tx[w].user, tx[w].day)
  <1>1. CASE v = w
    BY <1>1 DEF HoldsUsage
  <1>2. CASE v # w
    BY <1>2 DEF Unblocked, WaitsFor
  <1>3. QED
    BY <1>1, <1>2

(* Ending a call that writes a counter nobody else holds.                  *)
LEMMA WriteKeeps ==
    ASSUME TypeInv, LimitInv, NEW w \in Workers, Finish(w),
           NEW u \in Users, NEW d \in Days, NEW n,
           usage' = [usage EXCEPT ![u] = [usage[u] EXCEPT ![d] = n]],
           \E l \in Limits : n <= l,
           \A v \in Workers : v # w => ~HoldsUsage(v, u, d)
    PROVE  LimitInv'
  <1>1. /\ pc'[w] = "idle" /\ tx'[w] = Blank
        /\ \A v \in Workers : v # w => pc'[v] = pc[v] /\ tx'[v] = tx[v]
    BY OthersStay DEF Finish, Labels
  <1>2. /\ \A x, y : ~HoldsUsage(w, x, y)'
        /\ \A v \in Workers : \A x, y : v # w => HoldsUsage(v, x, y)' = HoldsUsage(v, x, y)
    BY <1>1 DEF HoldsUsage
  <1>3. UsageExclusive'
    BY <1>2 DEF LimitInv, UsageExclusive
  <1>4. \A x \in Users, y \in Days :
           usage'[x][y] = IF x = u /\ y = d THEN n ELSE usage[x][y]
    BY DEF TypeInv, DataOK
  <1>5. FreshCount'
    BY <1>1, <1>2, <1>4 DEF LimitInv, FreshCount
  <1>6. RoomLeft'
    BY <1>1 DEF LimitInv, RoomLeft, CommitLabels
  <1>7. NeverPastLimit'
    BY <1>4 DEF LimitInv, NeverPastLimit
  <1>8. QED
    BY <1>3, <1>5, <1>6, <1>7 DEF LimitInv

-----------------------------------------------------------------------------
(* The three steps that handle the counter's lock.                         *)
LEMMA LockUsageKeeps ==
    ASSUME TypeInv, LimitInv, NEW w \in Workers, LockUsage(w)
    PROVE  LimitInv'
  <1> DEFINE t == tx[w]
             used == usage[t.user][t.day]
             locals == tx'[w]
  <1>1. /\ t \in Locals /\ t.user \in Users /\ t.day \in Days /\ t.limit \in Limits
        /\ t.setting \in AppSettings /\ pc[w] = "usage" /\ Unblocked(w) /\ usage' = usage
    BY DEF LockUsage, TypeInv, CallsOK, WellShaped, ArgumentsRead, CounterRead, ReserveLabels, tables
  <1>2. used \in Nat /\ t.limit \in Nat /\ t.setting.consumes \in BOOLEAN
    BY <1>1, LimitsAssumption, SettingsAssumption DEF TypeInv, DataOK
  <1>3. /\ pc'[w] = "fkApp"
        /\ locals.user = t.user /\ locals.day = t.day /\ locals.count = used
        /\ locals.limit = t.limit /\ locals.setting = t.setting
        /\ locals.status = "authorized" => ~Exceeded(t, used)
        /\ \A v \in Workers : v # w => pc'[v] = pc[v] /\ tx'[v] = tx[v]
    BY <1>1 DEF LockUsage, Goto, TypeInv, CallsOK, Locals
  <1>4. \A v \in Workers : ~HoldsUsage(v, t.user, t.day)
    BY <1>1, UsageFree
  <1>5. \A v \in Workers : \A u, d : v # w => HoldsUsage(v, u, d)' = HoldsUsage(v, u, d)
    BY <1>3 DEF HoldsUsage
  <1>6. \A u, d : HoldsUsage(w, u, d)' => u = t.user /\ d = t.day
    BY <1>3 DEF HoldsUsage
  <1>7. UsageExclusive'
    BY <1>4, <1>5, <1>6 DEF LimitInv, UsageExclusive
  <1>8. FreshCount'
    BY <1>1, <1>3, <1>5, <1>6 DEF LimitInv, FreshCount
  <1>9. RoomLeft'
    <2>1. Charges(locals) => used < t.limit
      BY <1>2, <1>3 DEF Charges, Exceeded
    <2>2. Charges(locals) => locals.count < locals.limit
      BY <1>3, <2>1
    <2>3. QED
      BY <1>3, <2>2 DEF LimitInv, RoomLeft
  <1>10. NeverPastLimit'
    BY <1>1 DEF LimitInv, NeverPastLimit
  <1>11. QED
    BY <1>7, <1>8, <1>9, <1>10 DEF LimitInv

LEMMA CheckKeyKeeps ==
    ASSUME TypeInv, LimitInv, NEW w \in Workers, CheckApplicationKey(w)
    PROVE  LimitInv'
  <1>1. /\ pc[w] = "fkApp" /\ pc'[w] = "fkUser" /\ usage' = usage
        /\ \A v \in Workers : tx'[v] = tx[v] /\ (v # w => pc'[v] = pc[v])
    BY DEF CheckApplicationKey, Goto, TypeInv, CallsOK, tables
  <1>2. \A v \in Workers : \A u, d : HoldsUsage(v, u, d)' = HoldsUsage(v, u, d)
    BY <1>1 DEF HoldsUsage
  <1>3. \A v \in Workers : pc'[v] \in CommitLabels <=> pc[v] \in CommitLabels
    BY <1>1 DEF CommitLabels
  <1>4. QED
    BY <1>1, <1>2, <1>3 DEF LimitInv, UsageExclusive, FreshCount, RoomLeft, NeverPastLimit

LEMMA CommitReserveKeeps ==
    ASSUME TypeInv, LimitInv, NEW w \in Workers, CommitReserve(w)
    PROVE  LimitInv'
  <1> DEFINE t == tx[w]
  <1>1. /\ pc[w] = "fkUser" /\ Finish(w) /\ t \in Locals /\ ArgumentsRead(t) /\ Decided(t)
    BY DEF CommitReserve, TypeInv, CallsOK, WellShaped, ReserveLabels, CommitLabels
  <1>2. CASE Charges(t)
    <2>1. /\ t.user \in Users /\ t.day \in Days /\ t.limit \in Limits /\ t.limit \in Nat
          /\ t.count \in Nat
      BY <1>1, <1>2, LimitsAssumption DEF Charges, ArgumentsRead, Decided, CounterRead, Locals
    <2>2. HoldsUsage(w, t.user, t.day)
      BY <1>1, <1>2 DEF HoldsUsage, Charges
    <2>3. t.count < t.limit
      BY <1>1, <1>2 DEF LimitInv, RoomLeft, CommitLabels
    <2>4. usage' = [usage EXCEPT ![t.user] = [usage[t.user] EXCEPT ![t.day] = t.count + 1]]
      BY <1>2 DEF CommitReserve
    <2>5. \E l \in Limits : t.count + 1 <= l
      BY <2>1, <2>3
    <2>6. \A v \in Workers : v # w => ~HoldsUsage(v, t.user, t.day)
      BY <2>1, <2>2 DEF LimitInv, UsageExclusive
    <2>7. QED
      BY <1>1, <2>1, <2>4, <2>5, <2>6, WriteKeeps
  <1>3. CASE ~Charges(t)
    BY <1>1, <1>3, NoCounterKeeps DEF CommitReserve, Finish, Labels, HoldsNoCounter, CommitLabels
  <1>4. QED
    BY <1>2, <1>3

LEMMA CommitRefundKeeps ==
    ASSUME TypeInv, LimitInv, NEW w \in Workers, CommitRefund(w)
    PROVE  LimitInv'
  <1> DEFINE t == tx[w]
             used == usage[t.user][t.day]
  <1>1. /\ pc[w] = "refund" /\ Finish(w) /\ Unblocked(w)
        /\ t.user \in Users /\ t.day \in Days
    BY DEF CommitRefund, TypeInv, CallsOK, WellShaped, CallbackLabels
  <1>2. CASE Credits(used)
    <2>1. usage' = [usage EXCEPT ![t.user] = [usage[t.user] EXCEPT ![t.day] = used - 1]]
      BY <1>2 DEF CommitRefund
    <2>2. used \in Nat
      BY <1>1 DEF TypeInv, DataOK
    <2>3. PICK l \in Limits : used <= l
      BY <1>1 DEF LimitInv, NeverPastLimit
    <2>4. used - 1 <= l
      BY <2>2, <2>3, LimitsAssumption
    <2>5. \A v \in Workers : v # w => ~HoldsUsage(v, t.user, t.day)
      BY <1>1, UsageFree
    <2>6. QED
      BY <1>1, <2>1, <2>4, <2>5, WriteKeeps
  <1>3. CASE ~Credits(used)
    BY <1>1, <1>3, NoCounterKeeps DEF CommitRefund, Finish, Labels, HoldsNoCounter, CommitLabels
  <1>4. QED
    BY <1>2, <1>3

(* Every other step of a worker.                                           *)
LEMMA OtherStepsKeep ==
    ASSUME TypeInv, LimitInv, NEW w \in Workers,
           \/ Call(w) \/ Abort(w) \/ BreakDeadlock(w)
           \/ InsertReservation(w) \/ ReplayReservation(w) \/ RejectAccount(w)
           \/ RejectApplication(w) \/ PlanNotAssigned(w) \/ ReadPlan(w)
           \/ EventNotFound(w) \/ LockEvent(w) \/ LockUser(w) \/ CommitValidate(w)
           \/ CommitComplete(w) \/ FailIgnored(w) \/ CommitFail(w) \/ StartRefund(w)
    PROVE  LimitInv'
  <1> USE DEF HoldsNoCounter, CommitLabels, Labels
  <1>1. CASE Call(w)
    <2>1. usage' = usage
      BY <1>1 DEF Call, Reserve, Validate, Complete, Fail, tables
    <2>2. \E label \in {"insert", "lockEvent"}, locals \in {tx'[w]} : Goto(w, label, locals)
      BY <1>1 DEF Call, Reserve, Validate, Complete, Fail, Goto, TypeInv, CallsOK
    <2>3. QED
      BY <2>1, <2>2, NoCounterKeeps
  <1>2. CASE \/ Abort(w) \/ BreakDeadlock(w) \/ ReplayReservation(w) \/ PlanNotAssigned(w)
             \/ EventNotFound(w) \/ CommitValidate(w) \/ CommitComplete(w)
             \/ FailIgnored(w) \/ CommitFail(w)
    <2>1. Goto(w, "idle", Blank) /\ usage' = usage
      BY <1>2 DEF Abort, BreakDeadlock, ReplayReservation, PlanNotAssigned, EventNotFound,
                  CommitValidate, CommitComplete, FailIgnored, CommitFail, Finish, tables
    <2>2. QED
      BY <2>1, NoCounterKeeps
  <1>3. CASE InsertReservation(w)
    BY <1>3, NoCounterKeeps DEF InsertReservation, tables
  <1>4. CASE RejectAccount(w)
    <2>1. [tx[w] EXCEPT !.status = "rejected_auth", !.answer = "account_unavailable"].status
              = "rejected_auth"
      BY DEF TypeInv, CallsOK, Locals
    <2>2. QED
      BY <1>4, <2>1, NoCounterKeeps DEF RejectAccount, tables
  <1>5. CASE RejectApplication(w)
    <2>1. [tx[w] EXCEPT !.status = "rejected_auth", !.answer = "application_inactive"].status
              = "rejected_auth"
      BY DEF TypeInv, CallsOK, Locals
    <2>2. QED
      BY <1>5, <2>1, NoCounterKeeps DEF RejectApplication, tables
  <1>6. CASE ReadPlan(w)
    BY <1>6, NoCounterKeeps DEF ReadPlan, tables
  <1>7. CASE LockEvent(w)
    <2>1. \E label \in {"complete", "lockUser"}, locals \in {tx'[w]} : Goto(w, label, locals)
      BY <1>7 DEF LockEvent, Goto, TypeInv, CallsOK
    <2>2. QED
      BY <1>7, <2>1, NoCounterKeeps DEF LockEvent, tables
  <1>8. CASE LockUser(w)
    BY <1>8, NoCounterKeeps DEF LockUser, tables
  <1>9. CASE StartRefund(w)
    BY <1>9, NoCounterKeeps DEF StartRefund, tables
  <1>10. QED
    BY <1>1, <1>2, <1>3, <1>4, <1>5, <1>6, <1>7, <1>8, <1>9

LEMMA NextLimit == TypeInv /\ LimitInv /\ [Next]_vars => LimitInv'
  <1> SUFFICES ASSUME TypeInv, LimitInv, [Next]_vars PROVE LimitInv'
    OBVIOUS
  <1>1. CASE \E w \in Workers : Call(w) \/ Step(w) \/ Abort(w) \/ BreakDeadlock(w)
    BY <1>1, LockUsageKeeps, CheckKeyKeeps, CommitReserveKeeps, CommitRefundKeeps, OtherStepsKeep
       DEF Step, ReserveStep, CallbackStep
  <1>2. CASE Administer \/ NextDay \/ UNCHANGED vars
    <2>1. UNCHANGED <<pc, tx, usage>>
      BY <1>2 DEF Administer, SetAccount, SetPlan, SetApplication, NextDay, vars, tables
    <2>2. QED
      BY <2>1 DEF LimitInv, UsageExclusive, FreshCount, RoomLeft, NeverPastLimit, HoldsUsage
  <1>3. QED
    BY <1>1, <1>2 DEF Next

(* Reserves that race for the last unit never take a counter past a limit  *)
(* some plan carries: _locked_usage and check_quota, with any number of    *)
(* workers, requests and days, under refunds, aborts and plan changes.     *)
THEOREM LimitRespected == Spec => []NeverPastLimit
  <1>1. Init => TypeInv /\ LimitInv
    BY InitType, InitLimit
  <1>2. (TypeInv /\ LimitInv) /\ [Next]_vars => (TypeInv /\ LimitInv)'
    BY NextTypes, NextLimit
  <1>3. TypeInv /\ LimitInv => NeverPastLimit
    BY DEF LimitInv
  <1>4. QED
    BY <1>1, <1>2, <1>3, PTL DEF Spec

=============================================================================
