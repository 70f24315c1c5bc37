-------------------------- MODULE QuotaLedgerProofs --------------------------
(***************************************************************************)
(* The counter tells the ledger, and the service implements QuotaLedger.   *)
(*                                                                         *)
(* That DailyUsage agrees with the ledger rests on both earlier invariants:*)
(* a charge writes count + 1 of a count that is still fresh (LimitInv), to *)
(* a request that had no event; a refund credits a request that was still  *)
(* processing (EventInv), hence never credited before (ColumnsAt).         *)
(* RefusedFull is what a refusal for lack of quota decided on.             *)
(***************************************************************************)
EXTENDS QuotaEventProofs, QuotaLimitProofs, FiniteSetTheorems

ColumnsAt(r) ==
    /\ event[r] = None => charge[r] = None /\ refund[r] = None
    /\ refund[r] # None => event[r].status = "failed"

RefusedFull(label, t) ==
    label \in CommitLabels /\ t.status = "rejected_quota" => t.count >= t.limit

LedgerInv ==
    /\ EventInv /\ LimitInv
    /\ \A r \in Requests : ColumnsAt(r)
    /\ \A w \in Workers : RefusedFull(pc[w], tx[w])
    /\ CounterMatchesLedger

-----------------------------------------------------------------------------
(* The requests a column puts on a user and a day, and their number.       *)
Rows(column, events, u, d) == {r \in Requests : column[r] = d /\ events[r].user = u}

LEMMA RowsCount ==
    ASSUME NEW column, NEW events, NEW u, NEW d
    PROVE  /\ IsFiniteSet(Rows(column, events, u, d))
           /\ Cardinality(Rows(column, events, u, d)) \in Nat
<1>1. Rows(column, events, u, d) \in SUBSET Requests
  BY DEF Rows
<1> QED
  BY <1>1, RequestsAssumption, FS_Subset, FS_CardinalityType

LEMMA SameRows ==
    ASSUME NEW column, NEW events, NEW column2, NEW events2, NEW u, NEW d,
           \A q \in Requests : /\ column2[q] = column[q]
                               /\ column[q] = d => events2[q].user = events[q].user
    PROVE  Rows(column2, events2, u, d) = Rows(column, events, u, d)
  BY DEF Rows

(* One request is entered in a column where it was not.                    *)
Entered(column, events, column2, events2, r, d) ==
    /\ column[r] # d
    /\ \A q \in Requests \ {r} : /\ column2[q] = column[q]
                                 /\ column[q] = d => events2[q].user = events[q].user

LEMMA OneMoreRow ==
    ASSUME NEW column, NEW events, NEW column2, NEW events2, NEW u, NEW d,
           NEW r \in Requests, Entered(column, events, column2, events2, r, d)
    PROVE  Cardinality(Rows(column2, events2, u, d))
               = IF column2[r] = d /\ events2[r].user = u
                 THEN Cardinality(Rows(column, events, u, d)) + 1
                 ELSE Cardinality(Rows(column, events, u, d))
<1> DEFINE old == Rows(column, events, u, d)
           new == Rows(column2, events2, u, d)
<1>1. r \notin old
  BY DEF Entered, Rows
<1>2. CASE column2[r] = d /\ events2[r].user = u
  <2>1. new = old \cup {r}
    BY <1>2 DEF Entered, Rows
  <2>2. Cardinality(old \cup {r}) = Cardinality(old) + 1
    BY <1>1, RowsCount, FS_AddElement
  <2> QED
    BY <1>2, <2>1, <2>2
<1>3. CASE ~(column2[r] = d /\ events2[r].user = u)
  <2>1. new = old
    BY <1>3 DEF Entered, Rows
  <2> QED
    BY <1>3, <2>1
<1> QED
  BY <1>2, <1>3

LEMMA NoneIsNoDay == None \notin Days
  BY NoneAssumption, DayAssumption DEF Days

LEMMA InitLedger == Init => LedgerInv
<1> SUFFICES ASSUME Init PROVE LedgerInv
  OBVIOUS
<1>1. ASSUME NEW r \in Requests PROVE ColumnsAt(r)
  BY DEF Init, ColumnsAt
<1>2. ASSUME NEW w \in Workers PROVE RefusedFull(pc[w], tx[w])
  BY DEF Init, RefusedFull, CommitLabels
<1>3. ASSUME NEW u \in Users, NEW d \in Days
      PROVE  usage[u][d] = Cardinality(Of(u, charge, d)) - Cardinality(Of(u, refund, d))
  <2>1. Of(u, charge, d) = {} /\ Of(u, refund, d) = {}
    BY NoneIsNoDay DEF Init, Of
  <2>2. usage[u][d] = 0
    BY DEF Init
  <2> QED
    BY <2>1, <2>2, FS_EmptySet
<1> QED
  BY <1>1, <1>2, <1>3, InitEvents, InitLimit DEF LedgerInv, CounterMatchesLedger

-----------------------------------------------------------------------------
(* Every step but a commit that charges or credits leaves the counter and  *)
(* the columns of the ledger alone.                                        *)
LEMMA QuietSteps ==
    ASSUME [Next]_vars,
           ~ \E w \in Workers : \/ CommitReserve(w) /\ Charges(tx[w])
                                \/ CommitRefund(w) /\ Credits(usage[tx[w].user][tx[w].day])
    PROVE  UNCHANGED <<usage, charge, refund>>
<1>1. ASSUME NEW w \in Workers, Call(w) \/ Abort(w) \/ BreakDeadlock(w)
      PROVE  UNCHANGED <<usage, charge, refund>>
  BY <1>1 DEF Call, Reserve, Validate, Complete, Fail, Abort, BreakDeadlock, tables, history
<1>2. ASSUME NEW w \in Workers, ReserveStep(w), ~(CommitReserve(w) /\ Charges(tx[w]))
      PROVE  UNCHANGED <<usage, charge, refund>>
  BY <1>2 DEF ReserveStep, InsertReservation, ReplayReservation, RejectAccount, RejectApplication,
              PlanNotAssigned, ReadPlan, LockUsage, CheckApplicationKey, CommitReserve, tables,
              history
<1>3. ASSUME NEW w \in Workers, CallbackStep(w),
             ~(CommitRefund(w) /\ Credits(usage[tx[w].user][tx[w].day]))
      PROVE  UNCHANGED <<usage, charge, refund>>
  BY <1>3 DEF CallbackStep, EventNotFound, LockEvent, LockUser, CommitValidate, CommitComplete,
              FailIgnored, CommitFail, StartRefund, CommitRefund, tables, history
<1>4. CASE Administer \/ NextDay \/ UNCHANGED vars
  BY <1>4 DEF Administer, SetAccount, SetPlan, SetApplication, NextDay, vars, tables, history
<1> QED
  BY <1>1, <1>2, <1>3, <1>4 DEF Next, Step

(* What a charging commit does to the ledger: one more row of its user and *)
(* day, for a request that had none.                                       *)
LEMMA ChargeEffect ==
    ASSUME LedgerInv, NEW w \in Workers, CommitReserve(w), Charges(tx[w])
    PROVE  LET t == tx[w] IN
           /\ t.user \in Users /\ t.day \in Days
           /\ t.count = usage[t.user][t.day] /\ t.limit \in Limits /\ t.count < t.limit
           /\ usage' = [usage EXCEPT ![t.user][t.day] = usage[t.user][t.day] + 1]
           /\ charge' = [charge EXCEPT ![t.rid] = t.day] /\ refund' = refund
           /\ charge[t.rid] = None
<1> DEFINE t == tx[w]
<1>1. pc[w] = "fkUser" /\ t.status = "authorized" /\ ArgumentsRead(t) /\ CounterRead(t)
  BY DEF CommitReserve, Charges, LedgerInv, EventInv, TypeInv, CallsOK, WellShaped, ReserveLabels,
         CommitLabels, Decided
<1>2. t.user \in Users /\ t.day \in Days /\ t.limit \in Limits
  BY <1>1 DEF ArgumentsRead, CounterRead
<1>3. HoldsUsage(w, t.user, t.day)
  BY <1>1 DEF HoldsUsage
<1>4. t.count = usage[t.user][t.day]
  BY <1>2, <1>3 DEF LedgerInv, LimitInv, FreshCount
<1>5. t.count < t.limit
  BY <1>1 DEF LedgerInv, LimitInv, RoomLeft, CommitLabels
<1>6. charge[t.rid] = None
  BY CommitEffect DEF LedgerInv, ColumnsAt
<1>7. /\ usage' = [usage EXCEPT ![t.user][t.day] = t.count + 1]
      /\ charge' = [charge EXCEPT ![t.rid] = t.day] /\ refund' = refund
  BY DEF CommitReserve
<1> QED
  BY <1>2, <1>4, <1>5, <1>6, <1>7

(* What a crediting commit does: one more credit of its user and day, for a*)
(* request that had none.                                                  *)
LEMMA CreditEffect ==
    ASSUME LedgerInv, NEW w \in Workers, CommitRefund(w),
           Credits(usage[tx[w].user][tx[w].day])
    PROVE  LET t == tx[w] IN
           /\ t.user \in Users /\ t.day \in Days /\ usage[t.user][t.day] > 0
           /\ usage' = [usage EXCEPT ![t.user][t.day] = usage[t.user][t.day] - 1]
           /\ refund' = [refund EXCEPT ![t.rid] = t.day] /\ charge' = charge
           /\ refund[t.rid] = None
<1> DEFINE t == tx[w]
<1>1. pc[w] = "refund" /\ t.rid \in Requests /\ t.user \in Users /\ t.day \in Days
  BY DEF CommitRefund, LedgerInv, EventInv, TypeInv, CallsOK, WellShaped, CallbackLabels
<1>2. event[t.rid] # None /\ event[t.rid].status = "processing"
  BY <1>1 DEF LedgerInv, EventInv, CallsInv, CallOK, CallbackLabels
<1>3. refund[t.rid] = None
  BY <1>1, <1>2 DEF LedgerInv, ColumnsAt
<1> QED
  BY <1>1, <1>3 DEF CommitRefund, Credits

(* An event keeps its user, and a failed one keeps everything.             *)
LEMMA EventKept ==
    ASSUME LedgerInv, [Next]_vars, NEW r \in Requests, event[r] # None
    PROVE  /\ event'[r] # None /\ event'[r].user = event[r].user
           /\ event[r].status = "failed" => event'[r].status = "failed"
  BY EventSteps DEF LedgerInv, EventStep

-----------------------------------------------------------------------------
(* Preservation, one part of the invariant at a time.                      *)
LEMMA NextColumns == LedgerInv /\ [Next]_vars => \A r \in Requests : ColumnsAt(r)'
<1> SUFFICES ASSUME LedgerInv, [Next]_vars, NEW r \in Requests PROVE ColumnsAt(r)'
  OBVIOUS
<1>1. ColumnsAt(r) /\ charge \in [Requests -> Days \cup {None}]
                   /\ refund \in [Requests -> Days \cup {None}]
  BY DEF LedgerInv, EventInv, TypeInv, DataOK
<1>2. ASSUME event'[r] = None
      PROVE  charge[r] = None /\ refund[r] = None
  BY <1>1, <1>2, EventKept DEF ColumnsAt
<1>3. ASSUME refund[r] # None PROVE event'[r].status = "failed"
  BY <1>1, <1>3, EventKept DEF ColumnsAt
<1>4. CASE UNCHANGED <<usage, charge, refund>>
  BY <1>2, <1>3, <1>4 DEF ColumnsAt
<1>5. ASSUME NEW w \in Workers, CommitReserve(w), Charges(tx[w]) PROVE ColumnsAt(r)'
  <2>1. refund' = refund /\ charge' = [charge EXCEPT ![tx[w].rid] = tx[w].day]
        /\ event'[tx[w].rid] # None
    BY <1>5, ChargeEffect, CommitEffect DEF LedgerInv
  <2>2. event'[r] = None => charge'[r] = charge[r]
    BY <1>1, <2>1
  <2> QED
    BY <1>2, <1>3, <2>1, <2>2 DEF ColumnsAt
<1>6. ASSUME NEW w \in Workers, CommitRefund(w), Credits(usage[tx[w].user][tx[w].day])
      PROVE  ColumnsAt(r)'
  <2>1. charge' = charge /\ refund' = [refund EXCEPT ![tx[w].rid] = tx[w].day]
    BY <1>6, CreditEffect
  <2>2. pc[w] \in CallbackLabels /\ SetStatus(tx[w].rid, "failed") /\ "failed" \in Status
    BY <1>6 DEF CommitRefund, CallbackLabels, Status, Admitted
  <2>3. event'[tx[w].rid] # None /\ event'[tx[w].rid].status = "failed"
    BY <2>2, MoveEffect DEF LedgerInv
  <2>4. r # tx[w].rid => refund'[r] = refund[r]
    BY <1>1, <2>1
  <2> QED
    BY <1>2, <1>3, <2>1, <2>3, <2>4 DEF ColumnsAt
<1> QED
  BY <1>4, <1>5, <1>6, QuietSteps

(* A worker that is not about to commit a reserve has nothing to show.     *)
LEMMA NextRefused == LedgerInv /\ [Next]_vars => \A v \in Workers : RefusedFull(pc[v], tx[v])'
<1> SUFFICES ASSUME LedgerInv, [Next]_vars PROVE \A v \in Workers : RefusedFull(pc[v], tx[v])'
  OBVIOUS
<1>1. ASSUME NEW w \in Workers, NEW label \in Labels, NEW locals, Goto(w, label, locals),
             RefusedFull(label, locals)
      PROVE  \A v \in Workers : RefusedFull(pc[v], tx[v])'
  BY <1>1, OthersStay DEF LedgerInv, EventInv, RefusedFull
<1>2. ASSUME NEW w \in Workers, NEW label \in Labels \ CommitLabels, NEW locals,
             Goto(w, label, locals)
      PROVE  \A v \in Workers : RefusedFull(pc[v], tx[v])'
  BY <1>1, <1>2 DEF RefusedFull
<1>3. ASSUME NEW w \in Workers, Finish(w)
      PROVE  \A v \in Workers : RefusedFull(pc[v], tx[v])'
  BY <1>2, <1>3 DEF Finish, Labels, CommitLabels
<1>4. ASSUME NEW w \in Workers, Call(w)
      PROVE  \A v \in Workers : RefusedFull(pc[v], tx[v])'
  <2>1. \E label \in {"insert", "lockEvent"}, locals \in {tx'[w]} : Goto(w, label, locals)
    BY <1>4 DEF Call, Reserve, Validate, Complete, Fail, Goto, LedgerInv, EventInv, TypeInv, CallsOK
  <2> QED
    BY <1>2, <2>1 DEF Labels, CommitLabels
<1>5. ASSUME NEW w \in Workers, ReserveStep(w)
      PROVE  \A v \in Workers : RefusedFull(pc[v], tx[v])'
  <2>1. CASE \/ ReplayReservation(w) \/ PlanNotAssigned(w) \/ CommitReserve(w)
    BY <1>3, <2>1 DEF ReplayReservation, PlanNotAssigned, CommitReserve
  <2>2. CASE InsertReservation(w)
    BY <1>2, <2>2 DEF InsertReservation, Labels, CommitLabels
  <2>3. CASE ReadPlan(w)
    BY <1>2, <2>3 DEF ReadPlan, Labels, CommitLabels
  <2>4. CASE RejectAccount(w) \/ RejectApplication(w)
    <3>1. PICK a \in Answers :
             Goto(w, "fkApp", [tx[w] EXCEPT !.status = "rejected_auth", !.answer = a])
      BY <2>4 DEF RejectAccount, RejectApplication, Answers
    <3>2. [tx[w] EXCEPT !.status = "rejected_auth", !.answer = a].status = "rejected_auth"
      BY DEF LedgerInv, EventInv, TypeInv, CallsOK, Locals
    <3> QED
      BY <1>1, <3>1, <3>2 DEF RefusedFull, Labels
  <2>5. CASE CheckApplicationKey(w)
    <3>1. RefusedFull("fkUser", tx[w])
      BY <2>5 DEF CheckApplicationKey, LedgerInv, RefusedFull, CommitLabels
    <3> QED
      BY <1>1, <2>5, <3>1 DEF CheckApplicationKey, Labels
  <2>6. CASE LockUsage(w)
    <3> DEFINE t == tx[w]
               used == usage[t.user][t.day]
               locals == tx'[w]
    <3>1. /\ t \in Locals /\ t.user \in Users /\ t.day \in Days /\ t.limit \in Limits
          /\ t.setting \in AppSettings
      BY <2>6 DEF LockUsage, LedgerInv, EventInv, TypeInv, CallsOK, WellShaped, ArgumentsRead,
                  CounterRead, ReserveLabels
    <3>2. used \in Nat /\ t.limit \in Nat
      BY <3>1, LimitsAssumption DEF LedgerInv, EventInv, TypeInv, DataOK
    <3>3. /\ Goto(w, "fkApp", locals) /\ locals.count = used /\ locals.limit = t.limit
          /\ locals.status = "rejected_quota" => Exceeded(t, used)
      BY <2>6, <3>1 DEF LockUsage, Goto, LedgerInv, EventInv, TypeInv, CallsOK, Locals
    <3>4. Exceeded(t, used) => used >= t.limit
      BY <3>2 DEF Exceeded
    <3>5. RefusedFull("fkApp", locals)
      BY <3>3, <3>4 DEF RefusedFull
    <3> QED
      BY <1>1, <3>3, <3>5 DEF Labels
  <2> QED
    BY <1>5, <2>1, <2>2, <2>3, <2>4, <2>5, <2>6 DEF ReserveStep
<1>6. ASSUME NEW w \in Workers, CallbackStep(w)
      PROVE  \A v \in Workers : RefusedFull(pc[v], tx[v])'
  <2>1. CASE \/ EventNotFound(w) \/ CommitValidate(w) \/ CommitComplete(w) \/ FailIgnored(w)
             \/ CommitFail(w) \/ CommitRefund(w)
    BY <1>3, <2>1 DEF EventNotFound, CommitValidate, CommitComplete, FailIgnored, CommitFail,
                      CommitRefund
  <2>2. CASE LockEvent(w)
    <3>1. \E label \in {"complete", "lockUser"}, locals \in {tx'[w]} : Goto(w, label, locals)
      BY <2>2 DEF LockEvent, Goto, LedgerInv, EventInv, TypeInv, CallsOK
    <3> QED
      BY <1>2, <3>1 DEF Labels, CommitLabels
  <2>3. CASE LockUser(w)
    BY <1>2, <2>3 DEF LockUser, Labels, CommitLabels
  <2>4. CASE StartRefund(w)
    BY <1>2, <2>4 DEF StartRefund, Labels, CommitLabels
  <2> QED
    BY <1>6, <2>1, <2>2, <2>3, <2>4 DEF CallbackStep
<1>7. CASE Administer \/ NextDay \/ UNCHANGED vars
  <2>1. UNCHANGED <<pc, tx>>
    BY <1>7 DEF Administer, SetAccount, SetPlan, SetApplication, NextDay, vars
  <2> QED
    BY <2>1 DEF LedgerInv, RefusedFull
<1> QED
  BY <1>3, <1>4, <1>5, <1>6, <1>7 DEF Next, Step, Abort, BreakDeadlock

LEMMA NextCounter == LedgerInv /\ [Next]_vars => CounterMatchesLedger'
<1> SUFFICES ASSUME LedgerInv, [Next]_vars, NEW u \in Users, NEW d \in Days
             PROVE  usage'[u][d] = Cardinality(Of(u, charge, d)') - Cardinality(Of(u, refund, d)')
  BY DEF CounterMatchesLedger
<1> DEFINE charged == Rows(charge, event, u, d)
           credited == Rows(refund, event, u, d)
<1>1. usage[u][d] = Cardinality(charged) - Cardinality(credited)
  BY DEF LedgerInv, CounterMatchesLedger, Of, Rows
<1>2. /\ Of(u, charge, d)' = Rows(charge', event', u, d)
      /\ Of(u, refund, d)' = Rows(refund', event', u, d)
  BY DEF Of, Rows
<1>3. Cardinality(charged) \in Nat /\ Cardinality(credited) \in Nat
  BY RowsCount
<1>4. \A q \in Requests : charge[q] = d \/ refund[q] = d => event'[q].user = event[q].user
  BY NoneIsNoDay, EventKept DEF LedgerInv, ColumnsAt
<1>5. /\ usage \in [Users -> [Days -> Nat]]
      /\ charge \in [Requests -> Days \cup {None}] /\ refund \in [Requests -> Days \cup {None}]
  BY DEF LedgerInv, EventInv, TypeInv, DataOK
<1>6. charge' = charge => Rows(charge', event', u, d) = charged
  BY <1>4, SameRows
<1>7. refund' = refund => Rows(refund', event', u, d) = credited
  BY <1>4, SameRows
<1>8. CASE UNCHANGED <<usage, charge, refund>>
  BY <1>1, <1>2, <1>6, <1>7, <1>8
<1>9. ASSUME NEW w \in Workers, CommitReserve(w), Charges(tx[w])
      PROVE  usage'[u][d] = Cardinality(Rows(charge', event', u, d)) - Cardinality(credited)
  <2> DEFINE t == tx[w]
  <2>1. /\ t.user \in Users /\ t.day \in Days /\ charge[t.rid] = None /\ t.rid \in Requests
        /\ usage' = [usage EXCEPT ![t.user][t.day] = usage[t.user][t.day] + 1]
        /\ charge' = [charge EXCEPT ![t.rid] = t.day] /\ event'[t.rid].user = t.user
    BY <1>9, ChargeEffect, CommitEffect DEF LedgerInv
  <2>2. charge[t.rid] # d /\ charge'[t.rid] = t.day
    BY <1>5, <2>1, NoneIsNoDay
  <2>3. t.rid \in Requests /\ Entered(charge, event, charge', event', t.rid, d)
    BY <1>4, <1>5, <2>1, <2>2 DEF Entered
  <2>4. Cardinality(Rows(charge', event', u, d))
            = IF charge'[t.rid] = d /\ event'[t.rid].user = u
              THEN Cardinality(Rows(charge, event, u, d)) + 1
              ELSE Cardinality(Rows(charge, event, u, d))
    BY <2>3, OneMoreRow
  <2>5. Cardinality(Rows(charge', event', u, d))
            = IF t.day = d /\ t.user = u THEN Cardinality(charged) + 1 ELSE Cardinality(charged)
    BY <2>1, <2>2, <2>4
  <2>6. usage'[u][d] = IF t.day = d /\ t.user = u THEN usage[u][d] + 1 ELSE usage[u][d]
    BY <1>5, <2>1
  <2> HIDE DEF t, charged, credited
  <2> QED
    BY <1>1, <1>3, <2>5, <2>6
<1>10. ASSUME NEW w \in Workers, CommitRefund(w), Credits(usage[tx[w].user][tx[w].day])
       PROVE  usage'[u][d] = Cardinality(charged) - Cardinality(Rows(refund', event', u, d))
  <2> DEFINE t == tx[w]
  <2>1. /\ t.user \in Users /\ t.day \in Days /\ refund[t.rid] = None
        /\ usage' = [usage EXCEPT ![t.user][t.day] = usage[t.user][t.day] - 1]
        /\ refund' = [refund EXCEPT ![t.rid] = t.day]
    BY <1>10, CreditEffect
  <2>2. pc[w] \in CallbackLabels /\ SetStatus(t.rid, "failed") /\ "failed" \in Status
    BY <1>10 DEF CommitRefund, CallbackLabels, Status, Admitted
  <2>3. t.rid \in Requests /\ event'[t.rid].user = t.user
    BY <2>2, MoveEffect DEF LedgerInv
  <2>4. refund[t.rid] # d /\ refund'[t.rid] = t.day
    BY <1>5, <2>1, <2>3, NoneIsNoDay
  <2>5. Entered(refund, event, refund', event', t.rid, d)
    BY <1>4, <1>5, <2>1, <2>4 DEF Entered
  <2>6. Cardinality(Rows(refund', event', u, d))
            = IF refund'[t.rid] = d /\ event'[t.rid].user = u
              THEN Cardinality(Rows(refund, event, u, d)) + 1
              ELSE Cardinality(Rows(refund, event, u, d))
    BY <2>3, <2>5, OneMoreRow
  <2>7. Cardinality(Rows(refund', event', u, d))
            = IF t.day = d /\ t.user = u THEN Cardinality(credited) + 1 ELSE Cardinality(credited)
    BY <2>3, <2>4, <2>6
  <2>8. usage'[u][d] = IF t.day = d /\ t.user = u THEN usage[u][d] - 1 ELSE usage[u][d]
    BY <1>5, <2>1
  <2> HIDE DEF t, charged, credited
  <2> QED
    BY <1>1, <1>3, <2>7, <2>8
<1>11. ASSUME NEW w \in Workers, CommitReserve(w), Charges(tx[w]) PROVE refund' = refund
  BY <1>11, ChargeEffect
<1>12. ASSUME NEW w \in Workers, CommitRefund(w), Credits(usage[tx[w].user][tx[w].day])
       PROVE  charge' = charge
  BY <1>12, CreditEffect
<1> QED
  BY <1>2, <1>6, <1>7, <1>8, <1>9, <1>10, <1>11, <1>12, QuietSteps

LEMMA NextLedger == LedgerInv /\ [Next]_vars => LedgerInv'
<1> SUFFICES ASSUME LedgerInv, [Next]_vars PROVE LedgerInv'
  OBVIOUS
<1>1. EventInv' /\ LimitInv'
  BY NextEvents, NextLimit DEF LedgerInv, EventInv
<1> QED
  BY <1>1, NextColumns, NextRefused, NextCounter DEF LedgerInv

LEMMA AlwaysLedgerInv == Spec => []LedgerInv
  BY InitLedger, NextLedger, PTL DEF Spec

(* No update of a DailyUsage row is lost or made twice: with any number of *)
(* workers, users and days it is the requests charged less those credited. *)
THEOREM CounterIsTheLedger == Spec => []CounterMatchesLedger
<1>1. LedgerInv => CounterMatchesLedger
  BY DEF LedgerInv
<1> QED
  BY <1>1, AlwaysLedgerInv, PTL

-----------------------------------------------------------------------------
(* The refinement.  Ledger!entry is EntryOf of every event.                *)
EntryOf(e) == IF e = None THEN None ELSE [user |-> e.user, status |-> e.status]

LEMMA SameCardinality == \A S : Ledger!Cardinality(S) = Cardinality(S)
  BY DEF Ledger!Cardinality, Cardinality, Ledger!IsFiniteSet, IsFiniteSet

LEMMA SpentIsUsage ==
    ASSUME LedgerInv, NEW u \in Users, NEW d \in Days
    PROVE  Ledger!Spent(u, d) = usage[u][d]
<1> DEFINE entry == [r \in Requests |-> EntryOf(event[r])]
<1>1. \A r \in Requests : event[r] # None => EntryOf(event[r]).user = event[r].user
  BY DEF EntryOf
<1>2. \A r \in Requests : charge[r] = d \/ refund[r] = d => event[r] # None
  BY NoneIsNoDay DEF LedgerInv, ColumnsAt
<1>3. \A r \in Requests : charge[r] = d \/ refund[r] = d => entry[r].user = event[r].user
  BY <1>1, <1>2
<1>4. /\ {r \in Requests : charge[r] = d /\ entry[r].user = u} = Of(u, charge, d)
      /\ {r \in Requests : refund[r] = d /\ entry[r].user = u} = Of(u, refund, d)
  BY <1>3 DEF Of
<1>5. Ledger!Spent(u, d)
          = Cardinality({r \in Requests : charge[r] = d /\ entry[r].user = u})
              - Cardinality({r \in Requests : refund[r] = d /\ entry[r].user = u})
  BY SameCardinality DEF Ledger!Spent, EntryOf
<1> HIDE DEF entry
<1> QED
  BY <1>4, <1>5 DEF LedgerInv, CounterMatchesLedger

LEMMA Decides ==
    ASSUME NEW r \in Requests, NEW u, NEW s, event[r] = None, event'[r] # None,
           event'[r].user = u, event'[r].status = s,
           \A q \in Requests \ {r} : event'[q] = event[q]
    PROVE  Ledger!Decide(r, u, s)
<1> DEFINE old == [q \in Requests |-> EntryOf(event[q])]
           new == [q \in Requests |-> EntryOf(event'[q])]
<1>1. EntryOf(event[r]) = None /\ EntryOf(event'[r]) = [user |-> u, status |-> s]
  BY DEF EntryOf
<1>2. old[r] = None /\ new = [old EXCEPT ![r] = [user |-> u, status |-> s]]
  BY <1>1
<1> QED
  BY <1>2 DEF Ledger!Decide, EntryOf

LEMMA Moves ==
    ASSUME LedgerInv, NEW r \in Requests, event[r] # None, event'[r] # None,
           event'[r].user = event[r].user, NEW s, event'[r].status = s,
           \A q \in Requests \ {r} : event'[q] = event[q]
    PROVE  Ledger!Move(r, event[r].status, s)
<1>1. event[r] \in Events
  BY DEF LedgerInv, EventInv, TypeInv, DataOK
<1> DEFINE old == [q \in Requests |-> EntryOf(event[q])]
           new == [q \in Requests |-> EntryOf(event'[q])]
           x == [user |-> event[r].user, status |-> event[r].status]
<1>2. x # None /\ x.status = event[r].status
      /\ [x EXCEPT !.status = s] = [user |-> event[r].user, status |-> s]
  BY <1>1, NoneAssumption DEF Events
<1>3. EntryOf(event[r]) = x /\ EntryOf(event'[r]) = [x EXCEPT !.status = s]
  BY <1>2 DEF EntryOf
<1> HIDE DEF x
<1>4. old[r] = x /\ new = [old EXCEPT ![r] = [old[r] EXCEPT !.status = s]]
  BY <1>3
<1>5. old[r] # None /\ old[r].status = event[r].status
      /\ new = [old EXCEPT ![r] = [old[r] EXCEPT !.status = s]]
  BY <1>2, <1>4
<1> QED
  BY <1>5 DEF Ledger!Move, EntryOf

LedgerStep == [Ledger!Next]_(Ledger!vars)

LEMMA Stutters == UNCHANGED <<event, charge, refund>> => LedgerStep
<1> SUFFICES ASSUME UNCHANGED <<event, charge, refund>> PROVE UNCHANGED Ledger!vars
  BY DEF LedgerStep
<1> QED
  BY DEF Ledger!vars

(* A commit of reserve_interaction admits, admits for free or refuses.     *)
LEMMA ReserveRefines ==
    ASSUME LedgerInv, NEW w \in Workers, CommitReserve(w)
    PROVE  LedgerStep
<1> PICK t : t = tx[w]
  OBVIOUS
<1>1. /\ pc[w] = "fkUser" /\ t.rid \in Requests /\ t.user \in Users /\ t.setting \in AppSettings
      /\ t.status # "rejected_auth" => CounterRead(t)
  BY DEF CommitReserve, LedgerInv, EventInv, TypeInv, CallsOK, WellShaped, ReserveLabels,
         CommitLabels, ArgumentsRead, Decided
<1>2. /\ event[t.rid] = None /\ event'[t.rid] # None
      /\ event'[t.rid].user = t.user /\ event'[t.rid].status = t.status
      /\ \A q \in Requests \ {t.rid} : event'[q] = event[q]
      /\ t.status \in {"authorized", "rejected_quota", "rejected_auth"}
  BY CommitEffect DEF LedgerInv
<1>3. Ledger!Decide(t.rid, t.user, t.status)
  BY <1>1, <1>2, Decides
<1>4. refund' = refund /\ (~Charges(t) => charge' = charge)
  BY DEF CommitReserve
<1>5. CASE Charges(t)
  <2>1. /\ t.day \in Days /\ t.limit \in Limits /\ usage[t.user][t.day] < t.limit
        /\ charge' = [charge EXCEPT ![t.rid] = t.day]
    BY <1>5, ChargeEffect
  <2>2. Ledger!Spent(t.user, t.day) < t.limit
    BY <1>1, <2>1, SpentIsUsage
  <2>3. t.status = "authorized" /\ t.day \in Ledger!Days
    BY <1>5, <2>1 DEF Charges, Days, Ledger!Days
  <2>4. Ledger!Admit(t.rid, t.user, t.day)
    BY <1>3, <1>4, <2>1, <2>2, <2>3 DEF Ledger!Admit
  <2> QED
    BY <1>1, <2>3, <2>4 DEF Ledger!Next, LedgerStep
<1>6. CASE t.status = "authorized" /\ ~Charges(t)
  <2>1. Ledger!AdmitFree(t.rid, t.user)
    BY <1>3, <1>4, <1>6 DEF Ledger!AdmitFree
  <2> QED
    BY <1>1, <2>1 DEF Ledger!Next, LedgerStep
<1>7. CASE t.status = "rejected_quota"
  <2>1. t.day \in Days /\ t.limit \in Limits /\ ~Charges(t)
    BY <1>1, <1>7 DEF CounterRead, Charges
  <2>2. t.count = usage[t.user][t.day]
    BY <1>1, <1>7, <2>1 DEF LedgerInv, LimitInv, FreshCount, HoldsUsage
  <2>3. t.count >= t.limit
    BY <1>1, <1>7 DEF LedgerInv, RefusedFull, CommitLabels
  <2>4. Ledger!Spent(t.user, t.day) >= t.limit
    BY <1>1, <2>1, <2>2, <2>3, SpentIsUsage
  <2>5. t.day \in Ledger!Days
    BY <2>1 DEF Days, Ledger!Days
  <2>6. Ledger!Refuse(t.rid, t.user, t.day)
    BY <1>3, <1>4, <1>7, <2>1, <2>4 DEF Ledger!Refuse
  <2> QED
    BY <1>1, <2>5, <2>6 DEF Ledger!Next, LedgerStep
<1>8. CASE t.status = "rejected_auth"
  <2>1. ~Charges(t)
    BY <1>8 DEF Charges
  <2>2. Ledger!RefuseAccess(t.rid, t.user)
    BY <1>3, <1>4, <1>8, <2>1 DEF Ledger!RefuseAccess
  <2> QED
    BY <1>1, <2>2 DEF Ledger!Next, LedgerStep
<1> QED
  BY <1>2, <1>5, <1>6, <1>7, <1>8

(* A commit of a callback moves the entry of its request.                  *)
LEMMA CallbackMoves ==
    ASSUME LedgerInv, NEW w \in Workers, pc[w] \in CallbackLabels, NEW s \in Status,
           SetStatus(tx[w].rid, s)
    PROVE  /\ tx[w].rid \in Requests
           /\ event[tx[w].rid] # None /\ event[tx[w].rid].user = tx[w].user
           /\ Ledger!Move(tx[w].rid, tx[w].status, s)
<1> DEFINE r == tx[w].rid
<1>1. /\ r \in Requests /\ event[r] # None /\ event[r].status = tx[w].status
      /\ event[r].user = tx[w].user
      /\ event'[r] # None /\ event'[r].status = s /\ event'[r].user = event[r].user
      /\ \A q \in Requests \ {r} : event'[q] = event[q]
  BY MoveEffect DEF LedgerInv
<1>2. Ledger!Move(r, event[r].status, s)
  BY <1>1, Moves
<1> QED
  BY <1>1, <1>2

LEMMA CallbackRefines ==
    ASSUME LedgerInv, NEW w \in Workers, CallbackStep(w)
    PROVE  LedgerStep
<1> DEFINE r == tx[w].rid
<1> USE DEF Status, Admitted, CallbackLabels
<1>1. CASE UNCHANGED <<event, charge, refund>>
  BY <1>1, Stutters
<1>2. CASE CommitValidate(w) /\ Validates(tx[w])
  <2>1. /\ pc[w] = "lockApp" /\ tx[w].status = "authorized" /\ SetStatus(r, "processing")
        /\ UNCHANGED <<charge, refund>>
    BY <1>2 DEF CommitValidate, Validates
  <2>2. r \in Requests /\ Ledger!Move(r, "authorized", "processing")
    BY <2>1, CallbackMoves
  <2> QED
    BY <2>1, <2>2 DEF Ledger!Start, Ledger!Next, LedgerStep
<1>3. CASE CommitComplete(w) /\ InProcess(tx[w])
  <2>1. /\ pc[w] = "complete" /\ tx[w].status = "processing" /\ SetStatus(r, "completed")
        /\ UNCHANGED <<charge, refund>>
    BY <1>3 DEF CommitComplete, InProcess, history
  <2>2. r \in Requests /\ Ledger!Move(r, "processing", "completed")
    BY <2>1, CallbackMoves
  <2> QED
    BY <2>1, <2>2 DEF Ledger!Complete, Ledger!Next, LedgerStep
<1>4. ASSUME pc[w] \in CallbackLabels, tx[w].status = "processing", SetStatus(r, "failed"),
             UNCHANGED <<charge, refund>>
      PROVE  LedgerStep
  <2>1. r \in Requests /\ Ledger!Move(r, "processing", "failed")
    BY <1>4, CallbackMoves
  <2> QED
    BY <1>4, <2>1 DEF Ledger!Fail, Ledger!Next, LedgerStep
<1>5. CASE CommitFail(w)
  BY <1>4, <1>5 DEF CommitFail, InProcess, history
<1>6. CASE CommitRefund(w)
  <2> PICK t : t = tx[w]
    OBVIOUS
  <2>1. pc[w] = "refund" /\ t.status = "processing" /\ SetStatus(r, "failed")
    BY <1>6 DEF CommitRefund, LedgerInv, EventInv, CallsInv, CallOK
  <2>2. CASE ~Credits(usage[t.user][t.day])
    BY <1>4, <1>6, <2>1, <2>2 DEF CommitRefund
  <2>3. CASE Credits(usage[t.user][t.day])
    <3>1. /\ t.user \in Users /\ t.day \in Days /\ usage[t.user][t.day] > 0
          /\ refund' = [refund EXCEPT ![r] = t.day] /\ charge' = charge
      BY <1>6, <2>3, CreditEffect
    <3>2. /\ r \in Requests /\ event[r] # None /\ event[r].user = t.user
          /\ Ledger!Move(r, "processing", "failed")
      BY <2>1, CallbackMoves
    <3>3. Ledger!Spent(t.user, t.day) > 0 /\ t.day \in Ledger!Days
      BY <3>1, SpentIsUsage DEF Days, Ledger!Days
    <3>4. [q \in Requests |-> EntryOf(event[q])][r].user = t.user
      BY <3>2 DEF EntryOf
    <3>5. Ledger!FailAndRefund(t.rid, t.day)
      BY <3>1, <3>2, <3>3, <3>4 DEF Ledger!FailAndRefund, Ledger!Move, EntryOf
    <3> QED
      BY <3>2, <3>3, <3>5 DEF Ledger!Next, LedgerStep
  <2> QED
    BY <2>2, <2>3
<1>7. CASE UNCHANGED event /\ ~CommitRefund(w)
  <2>1. UNCHANGED <<charge, refund>>
    BY <1>7 DEF CallbackStep, EventNotFound, LockEvent, LockUser, CommitValidate, CommitComplete,
                FailIgnored, CommitFail, StartRefund, history
  <2> QED
    BY <1>7, <2>1, Stutters
<1>8. CASE UNCHANGED tables
  BY <1>6, <1>7, <1>8 DEF tables
<1> QED
  BY <1>2, <1>3, <1>5, <1>6, <1>7, <1>8
     DEF CallbackStep, EventNotFound, LockEvent, LockUser, CommitValidate, CommitComplete,
         FailIgnored, StartRefund

LEMMA StepRefines == LedgerInv /\ [Next]_vars => LedgerStep
<1> SUFFICES ASSUME LedgerInv, [Next]_vars PROVE LedgerStep
  OBVIOUS
<1>1. ASSUME NEW w \in Workers, Call(w) \/ Abort(w) \/ BreakDeadlock(w) PROVE LedgerStep
  BY <1>1, Stutters
     DEF Call, Reserve, Validate, Complete, Fail, Abort, BreakDeadlock, tables, history
<1>2. ASSUME NEW w \in Workers, ReserveStep(w), ~CommitReserve(w) PROVE LedgerStep
  BY <1>2, Stutters
     DEF ReserveStep, InsertReservation, ReplayReservation, RejectAccount, RejectApplication,
         PlanNotAssigned, ReadPlan, LockUsage, CheckApplicationKey, tables, history
<1>3. CASE Administer \/ NextDay \/ UNCHANGED vars
  BY <1>3, Stutters
     DEF Administer, SetAccount, SetPlan, SetApplication, NextDay, vars, tables, history
<1> QED
  BY <1>1, <1>2, <1>3, ReserveRefines, CallbackRefines DEF Next, Step

(* Workers, locks, transactions and counters implement the ledger: every   *)
(* commit of the quota service is one of its steps, or nothing to it.      *)
THEOREM LedgerImplemented == Spec => ImplementsLedger
<1>1. Init => Ledger!Init
  BY DEF Init, Ledger!Init
<1>2. LedgerInv /\ [Next]_vars => [Ledger!Next]_(Ledger!vars)
  BY StepRefines DEF LedgerStep
<1> QED
  BY <1>1, <1>2, AlwaysLedgerInv, PTL DEF Spec, ImplementsLedger, Ledger!Spec

-----------------------------------------------------------------------------
(* Refunds.  A request is charged under the setting reserve loaded and on  *)
(* the date it read, and refunded under the setting and on the date of its *)
(* failure.  When both stay what they are while a reserve runs or a request*)
(* is open, what comes back is what was taken.                             *)

Open == {"authorized", "processing"}

NothingOpen ==
    /\ \A w \in Workers : tx[w].op # "reserve"
    /\ \A r \in Requests : event[r] # None => event[r].status \notin Open

SameTerms == today' = today /\ \A a \in Apps : app'[a].consumes = app[a].consumes

SteadySpec == Init /\ [][Next /\ (NothingOpen \/ SameTerms)]_vars

(* A reserve decides on the terms that hold; a callback works on the       *)
(* application of its event, and a refund on the day of the charge.        *)
CallTerms(w) ==
    /\ pc[w] \in ReserveLabels => tx[w].setting.consumes = app[tx[w].app].consumes
    /\ pc[w] = "usage" => tx[w].day = today
    /\ pc[w] \in CommitLabels /\ tx[w].status = "authorized" => tx[w].day = today
    /\ pc[w] \in CallbackLabels => tx[w].app = event[tx[w].rid].app
    /\ pc[w] = "refund" => charge[tx[w].rid] = tx[w].day

RequestTerms(r) ==
    /\ event[r] # None /\ event[r].status \in Open =>
           charge[r] = IF app[event[r].app].consumes THEN today ELSE None
    /\ refund[r] # None => refund[r] = charge[r]

SteadyInv ==
    /\ LedgerInv
    /\ \A w \in Workers : CallTerms(w)
    /\ \A r \in Requests : RequestTerms(r)

LEMMA SteadyInit == Init => SteadyInv
<1> SUFFICES ASSUME Init PROVE SteadyInv
  OBVIOUS
<1>1. \A w \in Workers : CallTerms(w)
  BY DEF Init, CallTerms, ReserveLabels, CommitLabels, CallbackLabels
<1>2. \A r \in Requests : RequestTerms(r)
  BY DEF Init, RequestTerms
<1> QED
  BY <1>1, <1>2, InitLedger DEF SteadyInv

(* The charge of a request is settled with its event, and so is the        *)
(* application.                                                            *)
LEMMA ChargeSettled ==
    ASSUME LedgerInv, [Next]_vars, NEW r \in Requests, event[r] # None
    PROVE  charge'[r] = charge[r] /\ event'[r] # None /\ event'[r].app = event[r].app
<1>1. event'[r] # None /\ event'[r].app = event[r].app
  BY EventSteps DEF LedgerInv, EventStep
<1>2. charge \in [Requests -> Days \cup {None}]
  BY DEF LedgerInv, EventInv, TypeInv, DataOK
<1>3. ASSUME NEW w \in Workers, CommitReserve(w), Charges(tx[w]) PROVE charge'[r] = charge[r]
  <2>1. charge' = [charge EXCEPT ![tx[w].rid] = tx[w].day]
    BY <1>3, ChargeEffect
  <2>2. event[tx[w].rid] = None
    BY <1>3, CommitEffect DEF LedgerInv
  <2> QED
    BY <1>2, <2>1, <2>2
<1>4. ASSUME NEW w \in Workers, CommitRefund(w), Credits(usage[tx[w].user][tx[w].day])
      PROVE  charge'[r] = charge[r]
  BY <1>4, CreditEffect
<1> QED
  BY <1>1, <1>3, <1>4, QuietSteps

(* A worker that does nothing: its reserve keeps the terms from changing.  *)
LEMMA TermsStay ==
    ASSUME SteadyInv, [Next]_vars, NothingOpen \/ SameTerms, NEW v \in Workers,
           pc'[v] = pc[v], tx'[v] = tx[v]
    PROVE  CallTerms(v)'
<1> PICK t : t = tx[v]
  OBVIOUS
<1>1. CallTerms(v) /\ LedgerInv /\ WellShaped(pc[v], t)
  BY DEF SteadyInv, LedgerInv, EventInv, TypeInv, CallsOK
<1>2. CASE pc[v] \in ReserveLabels
  <2>1. t.op = "reserve" /\ t.app \in Apps
    BY <1>1, <1>2 DEF LedgerInv, EventInv, CallsInv, CallOK, WellShaped, ArgumentsRead
  <2>2. today' = today /\ app'[t.app].consumes = app[t.app].consumes
    BY <2>1 DEF NothingOpen, SameTerms
  <2> QED
    BY <1>1, <1>2, <2>2 DEF CallTerms, ReserveLabels, CommitLabels, CallbackLabels
<1>3. CASE pc[v] \in CallbackLabels
  <2>1. t.rid \in Requests /\ event[t.rid] # None
    BY <1>1, <1>3 DEF LedgerInv, EventInv, TypeInv, CallsOK, WellShaped, CallbackLabels
  <2>2. charge'[t.rid] = charge[t.rid] /\ event'[t.rid].app = event[t.rid].app
    BY <1>1, <2>1, ChargeSettled
  <2> QED
    BY <1>1, <1>3, <2>2 DEF CallTerms, ReserveLabels, CommitLabels, CallbackLabels
<1>4. CASE pc[v] \notin ReserveLabels \cup CallbackLabels
  BY <1>4 DEF CallTerms, ReserveLabels, CommitLabels, CallbackLabels
<1> QED
  BY <1>2, <1>3, <1>4

LEMMA TermsMove ==
    ASSUME SteadyInv, [Next]_vars, NothingOpen \/ SameTerms, NEW w \in Workers,
           NEW label \in Labels, NEW t, Goto(w, label, t),
           pc'[w] = label /\ tx'[w] = t => CallTerms(w)'
    PROVE  \A v \in Workers : CallTerms(v)'
<1>1. /\ pc'[w] = label /\ tx'[w] = t
      /\ \A v \in Workers : v # w => pc'[v] = pc[v] /\ tx'[v] = tx[v]
  BY OthersStay DEF SteadyInv, LedgerInv, EventInv
<1>2. \A v \in Workers : v # w => CallTerms(v)'
  BY <1>1, TermsStay
<1> QED
  BY <1>1, <1>2

LEMMA TermsRest ==
    ASSUME SteadyInv, [Next]_vars, NothingOpen \/ SameTerms, NEW w \in Workers,
           NEW label \in {"idle", "lockEvent"}, NEW t, Goto(w, label, t)
    PROVE  \A v \in Workers : CallTerms(v)'
<1>1. pc'[w] = label => CallTerms(w)'
  BY DEF CallTerms, ReserveLabels, CommitLabels, CallbackLabels
<1>2. label \in Labels
  BY DEF Labels
<1> QED
  BY <1>1, <1>2, TermsMove

LEMMA ReserveTerms ==
    ASSUME SteadyInv, [Next]_vars, NothingOpen \/ SameTerms, NEW w \in Workers, ReserveStep(w)
    PROVE  \A v \in Workers : CallTerms(v)'
<1> PICK t : t = tx[w]
  OBVIOUS
<1>0. CallTerms(w) /\ t \in Locals
  BY DEF SteadyInv, LedgerInv, EventInv, TypeInv, CallsOK
<1>1. CASE ReplayReservation(w) \/ PlanNotAssigned(w) \/ CommitReserve(w)
  BY <1>1, TermsRest DEF ReplayReservation, PlanNotAssigned, CommitReserve, Finish
<1>2. CASE InsertReservation(w)
  <2>1. pc[w] = "insert" /\ Goto(w, "decide", t) /\ app' = app
    BY <1>2 DEF InsertReservation, settings
  <2>2. pc'[w] = "decide" /\ tx'[w] = t => CallTerms(w)'
    BY <1>0, <2>1 DEF CallTerms, ReserveLabels, CommitLabels, CallbackLabels
  <2> QED
    BY <2>1, <2>2, TermsMove DEF Labels
<1>3. CASE RejectAccount(w) \/ RejectApplication(w)
  <2>1. PICK a \in Answers :
           Goto(w, "fkApp", [t EXCEPT !.status = "rejected_auth", !.answer = a])
    BY <1>3 DEF RejectAccount, RejectApplication, Answers
  <2> PICK l : l = [t EXCEPT !.status = "rejected_auth", !.answer = a]
    OBVIOUS
  <2>2. l.setting = t.setting /\ l.app = t.app /\ l.status = "rejected_auth"
    BY <1>0 DEF Locals
  <2>3. pc[w] = "decide" /\ app' = app
    BY <1>3 DEF RejectAccount, RejectApplication, settings
  <2>4. pc'[w] = "fkApp" /\ tx'[w] = l => CallTerms(w)'
    BY <1>0, <2>2, <2>3 DEF CallTerms, ReserveLabels, CommitLabels, CallbackLabels
  <2> QED
    BY <2>1, <2>4, TermsMove DEF Labels
<1>4. CASE ReadPlan(w)
  <2> PICK l : l = [t EXCEPT !.limit = plan[t.user], !.day = today]
    OBVIOUS
  <2>1. pc[w] = "decide" /\ Goto(w, "usage", l) /\ app' = app /\ today' = today
    BY <1>4 DEF ReadPlan, settings
  <2>2. l.setting = t.setting /\ l.app = t.app /\ l.day = today
    BY <1>0 DEF Locals
  <2>3. pc'[w] = "usage" /\ tx'[w] = l => CallTerms(w)'
    BY <1>0, <2>1, <2>2 DEF CallTerms, ReserveLabels, CommitLabels, CallbackLabels
  <2> QED
    BY <2>1, <2>3, TermsMove DEF Labels
<1>5. CASE LockUsage(w)
  <2> PICK l : l = tx'[w]
    OBVIOUS
  <2>1. /\ pc[w] = "usage" /\ Goto(w, "fkApp", l) /\ app' = app /\ today' = today
        /\ l.setting = t.setting /\ l.app = t.app /\ l.day = t.day
    BY <1>0, <1>5 DEF LockUsage, Goto, settings, SteadyInv, LedgerInv, EventInv, TypeInv, CallsOK,
                      Locals
  <2>2. pc'[w] = "fkApp" /\ tx'[w] = l => CallTerms(w)'
    BY <1>0, <2>1 DEF CallTerms, ReserveLabels, CommitLabels, CallbackLabels
  <2> QED
    BY <2>1, <2>2, TermsMove DEF Labels
<1>6. CASE CheckApplicationKey(w)
  <2>1. pc[w] = "fkApp" /\ Goto(w, "fkUser", t) /\ app' = app /\ today' = today
    BY <1>6 DEF CheckApplicationKey, settings
  <2>2. pc'[w] = "fkUser" /\ tx'[w] = t => CallTerms(w)'
    BY <1>0, <2>1 DEF CallTerms, ReserveLabels, CommitLabels, CallbackLabels
  <2> QED
    BY <2>1, <2>2, TermsMove DEF Labels
<1> QED
  BY <1>1, <1>2, <1>3, <1>4, <1>5, <1>6 DEF ReserveStep

(* A refund is due while the application consumes quota: the request was   *)
(* charged, today.                                                         *)
LEMMA CallbackTerms ==
    ASSUME SteadyInv, [Next]_vars, NothingOpen \/ SameTerms, NEW w \in Workers, CallbackStep(w)
    PROVE  \A v \in Workers : CallTerms(v)'
<1> PICK t : t = tx[w]
  OBVIOUS
<1>0. /\ CallTerms(w) /\ t \in Locals /\ LedgerInv
      /\ CallOK(pc[w], t, reservation, event, account)
      /\ pc[w] \in CallbackLabels => t.rid \in Requests
  BY DEF SteadyInv, LedgerInv, EventInv, TypeInv, CallsOK, CallsInv, WellShaped, CallbackLabels
<1>1. CASE \/ EventNotFound(w) \/ CommitValidate(w) \/ CommitComplete(w)
           \/ FailIgnored(w) \/ CommitFail(w) \/ CommitRefund(w)
  BY <1>1, TermsRest DEF EventNotFound, CommitValidate, CommitComplete, FailIgnored, CommitFail,
                         CommitRefund, Finish
<1>2. CASE LockEvent(w)
  <2> PICK l : l = tx'[w]
    OBVIOUS
  <2>1. PICK label \in {"complete", "lockUser"} : Goto(w, label, l)
    BY <1>2 DEF LockEvent, Goto, SteadyInv, LedgerInv, EventInv, TypeInv, CallsOK
  <2>2. l.rid = t.rid /\ l.app = event[t.rid].app /\ event' = event
    BY <1>0, <1>2 DEF LockEvent, Goto, SteadyInv, LedgerInv, EventInv, TypeInv, CallsOK, Locals,
                      tables
  <2>3. pc'[w] = label /\ tx'[w] = l => CallTerms(w)'
    BY <2>2 DEF CallTerms, ReserveLabels, CommitLabels, CallbackLabels
  <2> QED
    BY <2>1, <2>3, TermsMove DEF Labels
<1>3. CASE LockUser(w)
  <2> PICK l : l = [t EXCEPT !.account = account[t.user]]
    OBVIOUS
  <2>1. pc[w] = "lockUser" /\ Goto(w, "lockApp", l) /\ event' = event
    BY <1>3 DEF LockUser, tables
  <2>2. l.rid = t.rid /\ l.app = t.app
    BY <1>0 DEF Locals
  <2>3. pc'[w] = "lockApp" /\ tx'[w] = l => CallTerms(w)'
    BY <1>0, <2>1, <2>2 DEF CallTerms, ReserveLabels, CommitLabels, CallbackLabels
  <2> QED
    BY <2>1, <2>3, TermsMove DEF Labels
<1>4. CASE StartRefund(w)
  <2> PICK l : l = [t EXCEPT !.day = today]
    OBVIOUS
  <2>1. /\ pc[w] = "lockApp" /\ Goto(w, "refund", l) /\ event' = event /\ charge' = charge
        /\ t.status = "processing" /\ app[t.app].consumes
    BY <1>4 DEF StartRefund, InProcess, RefundDue, tables, history
  <2>2. l.rid = t.rid /\ l.app = t.app /\ l.day = today
    BY <1>0 DEF Locals
  <2>3. /\ t.rid \in Requests /\ event[t.rid] # None /\ event[t.rid].status = "processing"
        /\ event[t.rid].app = t.app
    BY <1>0, <2>1 DEF CallOK, CallTerms, CallbackLabels
  <2>4. charge[t.rid] = today
    BY <2>1, <2>3 DEF SteadyInv, RequestTerms, Open
  <2>5. pc'[w] = "refund" /\ tx'[w] = l => CallTerms(w)'
    BY <2>1, <2>2, <2>3, <2>4 DEF CallTerms, ReserveLabels, CommitLabels, CallbackLabels
  <2> QED
    BY <2>1, <2>5, TermsMove DEF Labels
<1> QED
  BY <1>1, <1>2, <1>3, <1>4 DEF CallbackStep

LEMMA NextCallTerms ==
    ASSUME SteadyInv, [Next]_vars, NothingOpen \/ SameTerms
    PROVE  \A v \in Workers : CallTerms(v)'
<1>1. ASSUME NEW w \in Workers, Abort(w) \/ BreakDeadlock(w)
      PROVE  \A v \in Workers : CallTerms(v)'
  BY <1>1, TermsRest DEF Abort, BreakDeadlock, Finish
<1>2. ASSUME NEW w \in Workers, Call(w) PROVE \A v \in Workers : CallTerms(v)'
  <2>1. ASSUME NEW r \in Requests, NEW a \in Apps, NEW u \in Users, NEW act \in Actions,
               Reserve(w, u, a, act, r)
        PROVE  \A v \in Workers : CallTerms(v)'
    <3> PICK l : l = [Blank EXCEPT !.op = "reserve", !.rid = r, !.user = u, !.app = a,
                                   !.action = act, !.account = account[u], !.setting = app[a]]
      OBVIOUS
    <3>1. Goto(w, "insert", l) /\ app' = app
      BY <2>1 DEF Reserve, settings
    <3>2. l.setting = app[a] /\ l.app = a
      BY DEF Blank
    <3>3. pc'[w] = "insert" /\ tx'[w] = l => CallTerms(w)'
      BY <3>1, <3>2 DEF CallTerms, ReserveLabels, CommitLabels, CallbackLabels
    <3> QED
      BY <3>1, <3>3, TermsMove DEF Labels
  <2>2. ASSUME NEW t, Goto(w, "lockEvent", t) PROVE \A v \in Workers : CallTerms(v)'
    BY <2>2, TermsRest
  <2> QED
    BY <1>2, <2>1, <2>2 DEF Call, Validate, Complete, Fail
<1>3. CASE Administer \/ NextDay \/ UNCHANGED vars
  <2>1. UNCHANGED <<pc, tx>>
    BY <1>3 DEF Administer, SetAccount, SetPlan, SetApplication, NextDay, vars
  <2> QED
    BY <2>1, TermsStay
<1> QED
  BY <1>1, <1>2, <1>3, ReserveTerms, CallbackTerms DEF Next, Step

LEMMA NextRequestTerms ==
    ASSUME SteadyInv, [Next]_vars, NothingOpen \/ SameTerms, NEW r \in Requests
    PROVE  RequestTerms(r)'
<1>0. /\ LedgerInv /\ EventInv /\ RequestTerms(r) /\ ColumnsAt(r)
      /\ charge \in [Requests -> Days \cup {None}] /\ refund \in [Requests -> Days \cup {None}]
  BY DEF SteadyInv, LedgerInv, EventInv, TypeInv, DataOK
<1>1. ASSUME event'[r] # None, event'[r].status \in Open
      PROVE  charge'[r] = IF app'[event'[r].app].consumes THEN today' ELSE None
  <2>1. CASE event[r] # None
    <3>1. event[r].status \in Open
      BY <1>0, <1>1, <2>1, EventSteps DEF EventStep, Open
    <3>2. event[r].app \in Apps
      BY <1>0, <2>1 DEF EventInv, TypeInv, DataOK, Events
    <3>3. today' = today /\ app'[event[r].app].consumes = app[event[r].app].consumes
      BY <2>1, <3>1, <3>2 DEF NothingOpen, SameTerms
    <3>4. charge'[r] = charge[r] /\ event'[r].app = event[r].app
      BY <1>0, <2>1, ChargeSettled
    <3>5. charge[r] = IF app[event[r].app].consumes THEN today ELSE None
      BY <1>0, <2>1, <3>1 DEF RequestTerms
    <3>6. app'[event'[r].app].consumes = app[event[r].app].consumes
      BY <3>3, <3>4
    <3> QED
      <4>1. CASE app[event[r].app].consumes
        <5>1. app'[event'[r].app].consumes
          BY <3>6, <4>1, Zenon
        <5> QED
          BY <3>3, <3>4, <3>5, <4>1, <5>1
      <4>2. CASE ~app[event[r].app].consumes
        <5>1. ~app'[event'[r].app].consumes
          BY <3>6, <4>2, Zenon
        <5> QED
          BY <3>3, <3>4, <3>5, <4>2, <5>1
      <4> QED
        BY <4>1, <4>2
  <2>2. CASE event[r] = None
    <3>1. PICK w \in Workers : CommitReserve(w) /\ tx[w].rid = r
      BY <1>0, <1>1, <2>2, EventSteps DEF EventStep
    <3> PICK t : t = tx[w]
      OBVIOUS
    <3>2. /\ event'[r].status = t.status /\ ClaimOf(event'[r]) = ClaimOf(t)
          /\ t.status \in {"authorized", "rejected_quota", "rejected_auth"}
      BY <1>0, <3>1, CommitEffect
    <3>3. t.status = "authorized" /\ event'[r].app = t.app
      <4>1. ClaimOf(event'[r]).app = event'[r].app /\ ClaimOf(t).app = t.app
        BY DEF ClaimOf
      <4> QED
        BY <1>1, <3>2, <4>1 DEF Open
    <3>4. /\ pc[w] = "fkUser" /\ app' = app /\ today' = today
          /\ charge' = IF Charges(t) THEN [charge EXCEPT ![r] = t.day] ELSE charge
      BY <3>1 DEF CommitReserve, settings
    <3>5. t.setting.consumes = app[t.app].consumes /\ t.day = today
      BY <3>3, <3>4 DEF SteadyInv, CallTerms, ReserveLabels, CommitLabels
    <3>6. charge[r] = None
      BY <1>0, <2>2 DEF ColumnsAt
    <3> QED
      BY <1>0, <3>3, <3>4, <3>5, <3>6 DEF Charges
  <2> QED
    BY <2>1, <2>2
<1>2. ASSUME refund'[r] # None PROVE refund'[r] = charge'[r]
  <2>1. CASE refund'[r] = refund[r]
    <3>1. event[r] # None
      BY <1>0, <1>2, <2>1 DEF ColumnsAt
    <3>2. charge'[r] = charge[r]
      BY <1>0, <3>1, ChargeSettled
    <3> QED
      BY <1>0, <1>2, <2>1, <3>2 DEF RequestTerms
  <2>2. CASE refund'[r] # refund[r]
    <3>1. PICK w \in Workers : CommitRefund(w) /\ Credits(usage[tx[w].user][tx[w].day])
      BY <1>0, <2>2, QuietSteps, ChargeEffect
    <3>2. charge' = charge /\ refund' = [refund EXCEPT ![tx[w].rid] = tx[w].day]
      BY <1>0, <3>1, CreditEffect
    <3>3. r = tx[w].rid /\ refund'[r] = tx[w].day
      BY <1>0, <2>2, <3>2
    <3>4. charge[tx[w].rid] = tx[w].day
      BY <3>1 DEF CommitRefund, SteadyInv, CallTerms
    <3> QED
      BY <3>2, <3>3, <3>4
  <2> QED
    BY <2>1, <2>2
<1> QED
  BY <1>1, <1>2 DEF RequestTerms

(* As long as the date and consumes_quota only change when no reserve runs *)
(* and no request is open, fail_interaction gives back the unit its        *)
(* reservation took, on its day; across them it takes the unit of another  *)
(* day, or one nobody was charged.                                         *)
THEOREM RefundsMatchCharges == SteadySpec => []RefundReturnsTheUnit
<1>1. SteadyInv /\ [Next /\ (NothingOpen \/ SameTerms)]_vars => SteadyInv'
  <2> SUFFICES ASSUME SteadyInv, [Next /\ (NothingOpen \/ SameTerms)]_vars PROVE SteadyInv'
    OBVIOUS
  <2>1. [Next]_vars /\ (NothingOpen \/ SameTerms)
    BY DEF vars, settings, SameTerms
  <2> QED
    BY <2>1, NextLedger, NextCallTerms, NextRequestTerms DEF SteadyInv
<1>2. SteadyInv => RefundReturnsTheUnit
  BY DEF SteadyInv, RequestTerms, RefundReturnsTheUnit
<1> QED
  BY <1>1, <1>2, SteadyInit, PTL DEF SteadySpec

=============================================================================
