------------------------- MODULE QuotaServiceProofs -------------------------
(***************************************************************************)
(* Invariance proofs about QuotaService, for any number of users, workers, *)
(* requests and days, and any plan limits.                                 *)
(***************************************************************************)
EXTENDS QuotaService, TLAPS

(* Type correctness, first part: the committed tables and the history.     *)
DataOK ==
    /\ account \in [Users -> Accounts]
    /\ app \in [Apps -> AppSettings]
    /\ plan \in [Users -> Limits \cup {None}]
    /\ today \in Days
    /\ reservation \in [Requests -> Claims \cup {None}]
    /\ event \in [Requests -> Events \cup {None}]
    /\ usage \in [Users -> [Days -> Nat]]
    /\ charge \in [Requests -> Days \cup {None}]
    /\ refund \in [Requests -> Days \cup {None}]
    /\ validations \in [Requests -> Nat]
    /\ answers \in [Requests -> SUBSET [claim : Claims, answer : Answers]]

(* Second part: what the locals of a worker hold once it has reached a     *)
(* statement.                                                              *)
ReserveLabels == {"insert", "decide", "usage", "fkApp", "fkUser"}
CommitLabels == {"fkApp", "fkUser"}
CallbackLabels == {"complete", "lockUser", "lockApp", "refund"}

ArgumentsRead(t) ==
    /\ t.rid \in Requests /\ t.user \in Users /\ t.app \in Apps /\ t.action \in Actions
    /\ t.account \in Accounts /\ t.setting \in AppSettings

CounterRead(t) == t.limit \in Limits /\ t.day \in Days

Decided(t) ==
    /\ t.status \in {"authorized", "rejected_quota", "rejected_auth"}
    /\ t.answer \in Answers
    /\ t.status # "rejected_auth" => CounterRead(t)

WellShaped(label, t) ==
    /\ t \in Locals
    /\ label # "idle" => t.rid \in Requests
    /\ label \in ReserveLabels => ArgumentsRead(t)
    /\ label = "usage" => CounterRead(t)
    /\ label \in CommitLabels => Decided(t)
    /\ label \in CallbackLabels => t.user \in Users /\ t.app \in Apps
    /\ label = "refund" => t.day \in Days
    /\ label # "idle" /\ t.op = "validate" => t.action \in Actions

CallsOK ==
    /\ pc \in [Workers -> Labels]
    /\ tx \in [Workers -> Locals]
    /\ \A w \in Workers : WellShaped(pc[w], tx[w])
    /\ \A w \in Workers : pc[w] \in CallbackLabels => event[tx[w].rid] # None

TypeInv == DataOK /\ CallsOK

-----------------------------------------------------------------------------
LEMMA TypeInvImplies == TypeInv => TypeOK
  BY DEF TypeInv, DataOK, CallsOK, TypeOK

LEMMA BlankShaped == Blank \in Locals /\ WellShaped("idle", Blank)
  BY DEF Blank, Locals, WellShaped, ReserveLabels, CommitLabels, CallbackLabels

LEMMA InitType == Init => TypeInv
  <1> SUFFICES ASSUME Init PROVE TypeInv
    OBVIOUS
  <1>1. DataOK
    BY DayAssumption DEF Init, DataOK, Days
  <1>2. CallsOK
    BY BlankShaped DEF Init, CallsOK, Labels, CallbackLabels
  <1>3. QED
    BY <1>1, <1>2 DEF TypeInv

(* A worker that moves to a label with locals of the right shape.          *)
LEMMA GotoType ==
    ASSUME CallsOK, NEW w \in Workers, NEW label \in Labels, NEW locals,
           Goto(w, label, locals), WellShaped(label, locals),
           label \in CallbackLabels => event'[locals.rid] # None,
           \A r \in Requests : event[r] # None => event'[r] # None
    PROVE  CallsOK'
  <1>1. locals \in Locals
    BY DEF WellShaped
  <1>2. pc' \in [Workers -> Labels] /\ tx' \in [Workers -> Locals]
    BY <1>1 DEF CallsOK, Goto
  <1>3. ASSUME NEW v \in Workers
        PROVE  /\ WellShaped(pc'[v], tx'[v])
               /\ pc'[v] \in CallbackLabels => event'[tx'[v].rid] # None
    <2>1. CASE v = w
      BY <2>1 DEF CallsOK, Goto
    <2>2. CASE v # w
      <3>1. pc'[v] = pc[v] /\ tx'[v] = tx[v]
        BY <2>2 DEF CallsOK, Goto
      <3>2. WellShaped(pc[v], tx[v])
        BY DEF CallsOK
      <3>3. ASSUME pc[v] \in CallbackLabels PROVE event'[tx[v].rid] # None
        BY <3>2, <3>3 DEF CallsOK, WellShaped, CallbackLabels
      <3>4. QED
        BY <3>1, <3>2, <3>3
    <2>3. QED
      BY <2>1, <2>2
  <1>4. QED
    BY <1>2, <1>3 DEF CallsOK

(* The same when no table changes: reads, waits and rejected calls.        *)
LEMMA MoveType ==
    ASSUME TypeInv, NEW w \in Workers, NEW label \in Labels, NEW locals,
           Goto(w, label, locals), WellShaped(label, locals),
           label \in CallbackLabels => event[locals.rid] # None,
           UNCHANGED <<settings, tables, history>>
    PROVE  TypeInv'
  <1>1. DataOK'
    BY DEF TypeInv, DataOK, settings, tables, history
  <1>2. event' = event
    BY DEF tables
  <1>3. CallsOK'
    BY <1>2, GotoType DEF TypeInv
  <1>4. QED
    BY <1>1, <1>3 DEF TypeInv

(* The same when the call ends, with every event still there.              *)
LEMMA FinishType ==
    ASSUME TypeInv, DataOK', NEW w \in Workers, Finish(w),
           \A r \in Requests : event[r] # None => event'[r] # None
    PROVE  TypeInv'
  <1>1. CallsOK'
    BY BlankShaped, GotoType DEF TypeInv, Finish, Labels, CallbackLabels
  <1>2. QED
    BY <1>1 DEF TypeInv

LEMMA AnswerType ==
    ASSUME TypeInv, NEW w \in Workers, tx[w].rid \in Requests, ClaimOf(tx[w]) \in Claims,
           NEW a \in Answers, Answer(w, a)
    PROVE  answers' \in [Requests -> SUBSET [claim : Claims, answer : Answers]]
  BY DEF TypeInv, DataOK, Answer

LEMMA ClaimType == \A t : ArgumentsRead(t) => t.rid \in Requests /\ ClaimOf(t) \in Claims
  BY DEF ArgumentsRead, ClaimOf, Claims

(* An event that changes status stays a typed event of the same claim.     *)
LEMMA SetStatusType ==
    ASSUME TypeInv, NEW r \in Requests, event[r] # None, NEW s \in Status, SetStatus(r, s)
    PROVE  /\ event' \in [Requests -> Events \cup {None}]
           /\ event'[r] = [event[r] EXCEPT !.status = s]
           /\ \A q \in Requests : q # r => event'[q] = event[q]
           /\ \A q \in Requests : event[q] # None => event'[q] # None
  <1>1. event[r] \in Events
    BY DEF TypeInv, DataOK
  <1>2. [event[r] EXCEPT !.status = s] \in Events
    BY <1>1 DEF Events
  <1>3. event' = [event EXCEPT ![r] = [event[r] EXCEPT !.status = s]]
    BY DEF SetStatus
  <1>4. None \notin Events
    BY NoneAssumption
  <1>5. QED
    BY <1>2, <1>3, <1>4 DEF TypeInv, DataOK

-----------------------------------------------------------------------------
(* Type preservation, action by action.                                    *)
LEMMA CallTypes ==
    ASSUME TypeInv, NEW w \in Workers, Call(w)
    PROVE  TypeInv'
  <1>1. ASSUME NEW r \in Requests, NEW a \in Apps, NEW u \in Users, NEW act \in Actions,
               Reserve(w, u, a, act, r)
        PROVE  TypeInv'
    <2> DEFINE t == [Blank EXCEPT !.op = "reserve", !.rid = r, !.user = u, !.app = a,
                                  !.action = act, !.account = account[u], !.setting = app[a]]
    <2>1. WellShaped("insert", t)
      BY DEF Blank, Locals, TypeInv, DataOK, WellShaped, ArgumentsRead, ReserveLabels,
             CommitLabels, CallbackLabels
    <2>2. QED
      BY <1>1, <2>1, MoveType DEF Reserve, Labels, CallbackLabels
  <1>2. ASSUME NEW r \in Requests, NEW a \in Apps, NEW act \in Actions, Validate(w, r, a, act)
        PROVE  TypeInv'
    <2> DEFINE t == [Blank EXCEPT !.op = "validate", !.rid = r, !.app = a, !.action = act]
    <2>1. WellShaped("lockEvent", t)
      BY DEF Blank, Locals, WellShaped, ReserveLabels, CommitLabels, CallbackLabels
    <2>2. QED
      BY <1>2, <2>1, MoveType DEF Validate, Labels, CallbackLabels
  <1>3. ASSUME NEW r \in Requests, NEW a \in Apps, Complete(w, r, a)
        PROVE  TypeInv'
    <2> DEFINE t == [Blank EXCEPT !.op = "complete", !.rid = r, !.app = a]
    <2>1. WellShaped("lockEvent", t)
      BY DEF Blank, Locals, WellShaped, ReserveLabels, CommitLabels, CallbackLabels
    <2>2. QED
      BY <1>3, <2>1, MoveType DEF Complete, Labels, CallbackLabels
  <1>4. ASSUME NEW r \in Requests, NEW a \in Apps, NEW c \in ErrorCodes, Fail(w, r, a, c)
        PROVE  TypeInv'
    <2> DEFINE t == [Blank EXCEPT !.op = "fail", !.rid = r, !.app = a, !.code = c]
    <2>1. WellShaped("lockEvent", t)
      BY DEF Blank, Locals, WellShaped, ReserveLabels, CommitLabels, CallbackLabels
    <2>2. QED
      BY <1>4, <2>1, MoveType DEF Fail, Labels, CallbackLabels
  <1>5. QED
    BY <1>1, <1>2, <1>3, <1>4 DEF Call

LEMMA ReserveStepTypes ==
    ASSUME TypeInv, NEW w \in Workers, ReserveStep(w)
    PROVE  TypeInv'
  <1> USE DEF ReserveLabels, CommitLabels, CallbackLabels
  <1>0. pc[w] \in Labels /\ WellShaped(pc[w], tx[w])
    BY DEF TypeInv, CallsOK
  <1>1. CASE InsertReservation(w)
    BY <1>0, <1>1, MoveType DEF InsertReservation, Labels, WellShaped
  <1>2. CASE ReplayReservation(w)
    <2>1. ReplayAnswer(tx[w]) \in Answers
      BY DEF ReplayAnswer, Answers
    <2>2. ArgumentsRead(tx[w])
      BY <1>0, <1>2 DEF ReplayReservation, WellShaped
    <2>3. DataOK'
      BY <1>2, <2>1, <2>2, AnswerType, ClaimType
         DEF ReplayReservation, TypeInv, DataOK, settings, tables
    <2>4. QED
      BY <1>2, <2>3, FinishType DEF ReplayReservation, tables
  <1>3. CASE RejectAccount(w)
    <2> DEFINE t == [tx[w] EXCEPT !.status = "rejected_auth", !.answer = "account_unavailable"]
    <2>1. WellShaped("fkApp", t)
      BY <1>0, <1>3 DEF RejectAccount, WellShaped, ArgumentsRead, Decided, Locals, Status,
                        Rejected, Answers
    <2>2. QED
      BY <1>3, <2>1, MoveType DEF RejectAccount, Labels
  <1>4. CASE RejectApplication(w)
    <2> DEFINE t == [tx[w] EXCEPT !.status = "rejected_auth", !.answer = "application_inactive"]
    <2>1. WellShaped("fkApp", t)
      BY <1>0, <1>4 DEF RejectApplication, WellShaped, ArgumentsRead, Decided, Locals, Status,
                        Rejected, Answers
    <2>2. QED
      BY <1>4, <2>1, MoveType DEF RejectApplication, Labels
  <1>5. CASE PlanNotAssigned(w)
    <2>1. ArgumentsRead(tx[w])
      BY <1>0, <1>5 DEF PlanNotAssigned, WellShaped
    <2>2. DataOK'
      BY <1>5, <2>1, AnswerType, ClaimType
      DEF PlanNotAssigned, TypeInv, DataOK, settings, tables, Answers
    <2>3. QED
      BY <1>5, <2>2, FinishType DEF PlanNotAssigned, tables
  <1>6. CASE ReadPlan(w)
    <2> DEFINE t == [tx[w] EXCEPT !.limit = plan[tx[w].user], !.day = today]
    <2>1. WellShaped("usage", t)
      BY <1>0, <1>6 DEF ReadPlan, WellShaped, ArgumentsRead, CounterRead, Locals, TypeInv, DataOK
    <2>2. QED
      BY <1>6, <2>1, MoveType DEF ReadPlan, Labels
  <1>7. CASE LockUsage(w)
    <2> DEFINE used == usage[tx[w].user][tx[w].day]
               no == Exceeded(tx[w], used)
               t == [tx[w] EXCEPT
                       !.count = used,
                       !.status = IF no THEN "rejected_quota" ELSE "authorized",
                       !.answer = IF no THEN "daily_quota_exceeded" ELSE "authorized"]
    <2>1. used \in Nat
      BY <1>0, <1>7 DEF LockUsage, WellShaped, ArgumentsRead, CounterRead, TypeInv, DataOK
    <2>2. ASSUME NEW s \in {"rejected_quota", "authorized"},
                 NEW a \in {"daily_quota_exceeded", "authorized"}
          PROVE  WellShaped("fkApp", [tx[w] EXCEPT !.count = used, !.status = s, !.answer = a])
      BY <1>0, <1>7, <2>1 DEF LockUsage, WellShaped, ArgumentsRead, CounterRead, Decided, Locals,
                        Status, Admitted, Rejected, Answers
    <2>3. WellShaped("fkApp", t)
      BY <2>2
    <2>4. QED
      BY <1>7, <2>3, MoveType DEF LockUsage, Labels
  <1>8. CASE CheckApplicationKey(w)
    BY <1>0, <1>8, MoveType DEF CheckApplicationKey, Labels, WellShaped
  <1>9. CASE CommitReserve(w)
    <2> DEFINE t == tx[w]
    <2>1. ArgumentsRead(t) /\ Decided(t) /\ t.count \in Nat
      BY <1>0, <1>9 DEF CommitReserve, WellShaped, Locals
    <2>2. [user |-> t.user, app |-> t.app, action |-> t.action, status |-> t.status] \in Events
      BY <2>1 DEF ArgumentsRead, Decided, Events, Status, Admitted, Rejected
    <2>3. ClaimOf(t) \in Claims
      BY <2>1 DEF ArgumentsRead, ClaimOf, Claims
    <2>4. Charges(t) => t.day \in Days
      BY <2>1 DEF Charges, Decided, CounterRead
    <2>5. /\ reservation' \in [Requests -> Claims \cup {None}]
          /\ event' \in [Requests -> Events \cup {None}]
          /\ \A r \in Requests : event[r] # None => event'[r] # None
      <3>1. None \notin Events
        BY NoneAssumption
      <3>2. QED
        BY <1>9, <2>1, <2>2, <2>3, <3>1 DEF CommitReserve, TypeInv, DataOK, ArgumentsRead
    <2>6. /\ usage' \in [Users -> [Days -> Nat]]
          /\ charge' \in [Requests -> Days \cup {None}]
      <3>1. CASE Charges(t)
        <4>1. /\ t.day \in Days /\ t.user \in Users /\ t.rid \in Requests
              /\ t.count + 1 \in Nat
          BY <2>1, <2>4, <3>1 DEF ArgumentsRead
        <4>2. /\ usage' = [usage EXCEPT ![t.user] = [usage[t.user] EXCEPT ![t.day] = t.count + 1]]
              /\ charge' = [charge EXCEPT ![t.rid] = t.day]
          BY <1>9, <3>1 DEF CommitReserve
        <4>3. QED
          BY <4>1, <4>2 DEF TypeInv, DataOK
      <3>2. CASE ~Charges(t)
        BY <1>9, <3>2 DEF CommitReserve, TypeInv, DataOK
      <3>3. QED
        BY <3>1, <3>2
    <2>7. answers' \in [Requests -> SUBSET [claim : Claims, answer : Answers]]
      BY <1>9, <2>1, AnswerType, ClaimType DEF CommitReserve, Decided
    <2>8. DataOK'
      BY <1>9, <2>5, <2>6, <2>7 DEF CommitReserve, TypeInv, DataOK, settings
    <2>9. QED
      BY <1>9, <2>5, <2>8, FinishType DEF CommitReserve
  <1>10. QED
    BY <1>1, <1>2, <1>3, <1>4, <1>5, <1>6, <1>7, <1>8, <1>9 DEF ReserveStep

(* The locals of a call that has read its event.                           *)
LEMMA EventReadType ==
    ASSUME NEW t \in Locals, NEW u \in Users, NEW a \in Apps, NEW s \in Status,
           NEW x \in Answers \cup {None}
    PROVE  [t EXCEPT !.user = u, !.app = a, !.status = s, !.answer = x] \in Locals
  BY DEF Locals

LEMMA CallbackStepTypes ==
    ASSUME TypeInv, NEW w \in Workers, CallbackStep(w)
    PROVE  TypeInv'
  <1> USE DEF CallbackLabels
  <1>0. /\ pc[w] \in Labels /\ WellShaped(pc[w], tx[w])
        /\ pc[w] \in CallbackLabels => event[tx[w].rid] # None
    BY DEF TypeInv, CallsOK
  <1>1. CASE EventNotFound(w)
    BY <1>1, MoveType, BlankShaped DEF EventNotFound, Finish, Labels
  <1>2. CASE LockEvent(w)
    <2> DEFINE e == event[tx[w].rid]
               label == IF tx[w].op = "complete" THEN "complete" ELSE "lockUser"
               t == [tx[w] EXCEPT
                       !.user = e.user, !.app = e.app, !.status = e.status,
                       !.answer = IF Mismatch(tx[w], e) THEN "reservation_mismatch" ELSE None]
    <2>1. e \in Events /\ e # None /\ tx[w].rid \in Requests
      BY <1>0, <1>2 DEF LockEvent, WellShaped, TypeInv, DataOK
    <2>2. ASSUME NEW l \in {"complete", "lockUser"}, NEW a \in {"reservation_mismatch", None}
          PROVE  WellShaped(l, [tx[w] EXCEPT !.user = e.user, !.app = e.app,
                                             !.status = e.status, !.answer = a])
      <3> DEFINE x == [tx[w] EXCEPT !.user = e.user, !.app = e.app, !.status = e.status,
                                    !.answer = a]
      <3>1. tx[w] \in Locals /\ e.user \in Users /\ e.app \in Apps /\ e.status \in Status
        BY <1>0, <2>1 DEF WellShaped, Events
      <3>2. x \in Locals
        BY <3>1, EventReadType DEF Answers
      <3>3. /\ x.user = e.user /\ x.app = e.app /\ x.rid = tx[w].rid
            /\ x.op = tx[w].op /\ x.action = tx[w].action
        BY <3>1 DEF Locals
      <3>4. tx[w].op = "validate" => tx[w].action \in Actions
        BY <1>0, <1>2 DEF LockEvent, WellShaped
      <3> HIDE DEF x
      <3>5. QED
        BY <2>1, <3>1, <3>2, <3>3, <3>4 DEF WellShaped, ReserveLabels, CommitLabels, x
    <2>3. WellShaped(label, t) /\ t.rid = tx[w].rid
      BY <1>0, <2>2 DEF WellShaped, Locals
    <2>4. label \in Labels
      BY DEF Labels
    <2>5. Goto(w, label, t) /\ UNCHANGED <<settings, tables, history>>
      BY <1>2 DEF LockEvent
    <2>6. QED
      BY <2>1, <2>3, <2>4, <2>5, MoveType
  <1>3. CASE LockUser(w)
    <2> DEFINE t == [tx[w] EXCEPT !.account = account[tx[w].user]]
    <2>1. WellShaped("lockApp", t) /\ t.rid = tx[w].rid
      BY <1>0, <1>3 DEF LockUser, WellShaped, Locals, TypeInv, DataOK, ReserveLabels, CommitLabels
    <2>2. QED
      BY <1>0, <1>3, <2>1, MoveType DEF LockUser, Labels
  <1>4. ASSUME NEW s \in Status, pc[w] \in CallbackLabels, SetStatus(tx[w].rid, s)
        PROVE  /\ event' \in [Requests -> Events \cup {None}]
               /\ \A q \in Requests : event[q] # None => event'[q] # None
    BY <1>0, <1>4, SetStatusType DEF WellShaped
  <1>5. CASE CommitValidate(w)
    <2>1. "processing" \in Status /\ tx[w].rid \in Requests
      BY <1>0, <1>5 DEF CommitValidate, WellShaped, Status, Admitted
    <2>2. /\ event' \in [Requests -> Events \cup {None}]
          /\ \A q \in Requests : event[q] # None => event'[q] # None
          /\ validations' \in [Requests -> Nat]
      BY <1>4, <1>5, <2>1 DEF CommitValidate, TypeInv, DataOK
    <2>3. answers' \in [Requests -> SUBSET [claim : Claims, answer : Answers]]
      <3>1. ClaimOf(tx[w]) \in Claims
        BY <1>0, <1>5 DEF CommitValidate, WellShaped, CallbackLabels, ClaimOf, Claims
      <3>2. CASE Unavailable(tx[w])
        BY <1>5, <2>1, <3>1, <3>2, AnswerType DEF CommitValidate, Answers
      <3>3. CASE ~Unavailable(tx[w])
        BY <1>5, <3>3 DEF CommitValidate, TypeInv, DataOK
      <3>4. QED
        BY <3>2, <3>3
    <2>4. DataOK'
      BY <1>5, <2>2, <2>3 DEF CommitValidate, TypeInv, DataOK, settings
    <2>5. QED
      BY <1>5, <2>2, <2>4, FinishType DEF CommitValidate
  <1>6. CASE CommitComplete(w)
    <2>1. "completed" \in Status
      BY DEF Status, Admitted
    <2>2. /\ event' \in [Requests -> Events \cup {None}]
          /\ \A q \in Requests : event[q] # None => event'[q] # None
      BY <1>4, <1>6, <2>1 DEF CommitComplete, TypeInv, DataOK
    <2>3. DataOK'
      BY <1>6, <2>2 DEF CommitComplete, TypeInv, DataOK, settings, history
    <2>4. QED
      BY <1>6, <2>2, <2>3, FinishType DEF CommitComplete
  <1>7. CASE FailIgnored(w)
    BY <1>7, MoveType, BlankShaped DEF FailIgnored, Finish, Labels
  <1>8. CASE CommitFail(w)
    <2>1. "failed" \in Status
      BY DEF Status, Admitted
    <2>2. /\ event' \in [Requests -> Events \cup {None}]
          /\ \A q \in Requests : event[q] # None => event'[q] # None
      BY <1>4, <1>8, <2>1 DEF CommitFail
    <2>3. DataOK'
      BY <1>8, <2>2 DEF CommitFail, TypeInv, DataOK, settings, history
    <2>4. QED
      BY <1>8, <2>2, <2>3, FinishType DEF CommitFail
  <1>9. CASE StartRefund(w)
    <2> DEFINE t == [tx[w] EXCEPT !.day = today]
    <2>1. WellShaped("refund", t) /\ t.rid = tx[w].rid
      BY <1>0, <1>9 DEF StartRefund, WellShaped, Locals, TypeInv, DataOK, ReserveLabels, CommitLabels
    <2>2. QED
      BY <1>0, <1>9, <2>1, MoveType DEF StartRefund, Labels
  <1>10. CASE CommitRefund(w)
    <2> DEFINE t == tx[w]
               used == usage[t.user][t.day]
    <2>1. t.user \in Users /\ t.day \in Days /\ t.rid \in Requests /\ "failed" \in Status
      BY <1>0, <1>10 DEF CommitRefund, WellShaped, Status, Admitted
    <2>2. /\ event' \in [Requests -> Events \cup {None}]
          /\ \A q \in Requests : event[q] # None => event'[q] # None
      BY <1>4, <1>10, <2>1 DEF CommitRefund
    <2>3. usage' \in [Users -> [Days -> Nat]] /\ refund' \in [Requests -> Days \cup {None}]
      <3>1. CASE Credits(used)
        <4>1. used - 1 \in Nat
          BY <2>1, <3>1 DEF Credits, TypeInv, DataOK
        <4>2. /\ usage' = [usage EXCEPT ![t.user] = [usage[t.user] EXCEPT ![t.day] = used - 1]]
              /\ refund' = [refund EXCEPT ![t.rid] = t.day]
          BY <1>10, <3>1 DEF CommitRefund
        <4>3. QED
          BY <2>1, <4>1, <4>2 DEF TypeInv, DataOK
      <3>2. CASE ~Credits(used)
        BY <1>10, <3>2 DEF CommitRefund, TypeInv, DataOK
      <3>3. QED
        BY <3>1, <3>2
    <2>4. DataOK'
      BY <1>10, <2>2, <2>3 DEF CommitRefund, TypeInv, DataOK, settings
    <2>5. QED
      BY <1>10, <2>2, <2>4, FinishType DEF CommitRefund
  <1>11. QED
    BY <1>1, <1>2, <1>3, <1>5, <1>6, <1>7, <1>8, <1>9, <1>10 DEF CallbackStep

(* Steps that end a call without a commit, or leave the calls alone.       *)
LEMMA OtherTypes ==
    ASSUME TypeInv,
           (\E w \in Workers : Abort(w) \/ BreakDeadlock(w)) \/ Administer \/ NextDay
               \/ UNCHANGED vars
    PROVE  TypeInv'
  <1>1. ASSUME NEW w \in Workers, Abort(w) \/ BreakDeadlock(w) PROVE TypeInv'
    BY <1>1, MoveType, BlankShaped DEF Abort, BreakDeadlock, Finish, Labels, CallbackLabels
  <1>2. CASE Administer \/ NextDay \/ UNCHANGED vars
    <2>1. UNCHANGED <<pc, tx, event>>
      BY <1>2 DEF Administer, SetAccount, SetPlan, SetApplication, NextDay, vars, tables
    <2>2. CallsOK'
      BY <2>1 DEF TypeInv, CallsOK
    <2>3. DataOK'
      <3>1. CASE Administer
        <4>1. ASSUME NEW u \in Users, NEW x \in Accounts, SetAccount(u, x) PROVE DataOK'
          BY <4>1 DEF SetAccount, TypeInv, DataOK, tables, history
        <4>2. ASSUME NEW u \in Users, NEW l \in Limits, SetPlan(u, l) PROVE DataOK'
          BY <4>2 DEF SetPlan, TypeInv, DataOK, tables, history
        <4>3. ASSUME NEW a \in Apps, NEW x \in AppSettings, SetApplication(a, x) PROVE DataOK'
          BY <4>3 DEF SetApplication, TypeInv, DataOK, tables, history
        <4>4. QED
          BY <3>1, <4>1, <4>2, <4>3 DEF Administer
      <3>2. CASE NextDay
        BY <3>2, DayAssumption DEF NextDay, TypeInv, DataOK, Days, tables, history
      <3>3. CASE UNCHANGED vars
        BY <3>3 DEF vars, TypeInv, DataOK, settings, tables, history
      <3>4. QED
        BY <1>2, <3>1, <3>2, <3>3
    <2>4. QED
      BY <2>2, <2>3 DEF TypeInv
  <1>3. QED
    BY <1>1, <1>2

LEMMA NextTypes == TypeInv /\ [Next]_vars => TypeInv'
  BY CallTypes, ReserveStepTypes, CallbackStepTypes, OtherTypes DEF Next, Step

(* Type correctness of the service: every column, every local and every    *)
(* history variable keeps its type in every reachable state.               *)
THEOREM TypeCorrect == Spec => []TypeOK
  <1>1. Spec => []TypeInv
    BY InitType, NextTypes, PTL DEF Spec
  <1>2. QED
    BY <1>1, TypeInvImplies, PTL

=============================================================================
