-------------------------- MODULE QuotaEventProofs --------------------------
(***************************************************************************)
(* Decisions of the quota service: one event per reservation, one answer   *)
(* per request_id, one validation, one life of an event.                   *)
(*                                                                         *)
(* None of it is inductive alone.  CallOK says what a call may rely on at  *)
(* each statement: the request_id it inserted is free, the event and the   *)
(* account it locked are as it read them.  OneHolder is why: two calls do  *)
(* not hold one request_id, nor one event.                                 *)
(***************************************************************************)
EXTENDS QuotaServiceProofs

InsertedLabels == {"decide", "usage", "fkApp", "fkUser"}

CallOK(label, t, R, E, A) ==
    /\ label \in ReserveLabels => t.op = "reserve"
    /\ label \in {"lockEvent"} \cup CallbackLabels => t.op \in {"validate", "complete", "fail"}
    /\ label \in InsertedLabels => R[t.rid] = None
    /\ label \in CommitLabels => /\ t.answer # "request_in_progress"
                                 /\ t.answer = "authorized" <=> t.status = "authorized"
                                 /\ t.answer = "daily_quota_exceeded" => t.status = "rejected_quota"
    /\ label \in CallbackLabels => /\ E[t.rid] # None
                                   /\ t.status = E[t.rid].status /\ t.user = E[t.rid].user
    /\ label = "refund" => t.status = "processing"
    /\ label \in {"lockApp", "refund"} => t.account = A[t.user]

CallsInv == \A w \in Workers : CallOK(pc[w], tx[w], reservation, event, account)

OneHolder ==
    \A v, w \in Workers : v # w /\ tx[v].rid = tx[w].rid =>
        /\ ~(pc[v] \in InsertedLabels /\ pc[w] \in InsertedLabels)
        /\ ~(pc[v] \in CallbackLabels /\ pc[w] \in CallbackLabels)

AgreeAt(r) ==
    /\ reservation[r] = None <=> event[r] = None
    /\ reservation[r] # None => reservation[r] = ClaimOf(event[r])

ValidatedAt(r) ==
    /\ validations[r] <= 1
    /\ validations[r] = 1 <=>
           event[r] # None /\ event[r].status \in {"processing", "completed", "failed"}

(* What an answer says of the event, now and for ever.                     *)
Told(x, e) ==
    /\ x.answer # "request_in_progress"
    /\ x.answer = "authorized" => e # None /\ e.status \in Admitted /\ ClaimOf(e) = x.claim
    /\ x.answer = "daily_quota_exceeded" => e # None /\ e.status = "rejected_quota"

TablesInv ==
    \A r \in Requests : AgreeAt(r) /\ ValidatedAt(r) /\ \A x \in answers[r] : Told(x, event[r])

EventInv == TypeInv /\ CallsInv /\ OneHolder /\ TablesInv

decisions == <<reservation, event, validations, answers, account>>

-----------------------------------------------------------------------------
LEMMA InitEvents == Init => EventInv
<1> SUFFICES ASSUME Init PROVE EventInv
  OBVIOUS
<1>1. \A w \in Workers : pc[w] = "idle"
  BY DEF Init
<1>2. CallsInv /\ OneHolder
  BY <1>1 DEF CallsInv, CallOK, OneHolder, ReserveLabels, CallbackLabels, InsertedLabels, CommitLabels
<1>3. TablesInv
  BY DEF Init, TablesInv, AgreeAt, ValidatedAt
<1> QED
  BY <1>2, <1>3, InitType DEF EventInv

(* A worker moves on; what the others rely on still holds.                 *)
LEMMA GotoCalls ==
    ASSUME EventInv, NEW w \in Workers, NEW label \in Labels, NEW locals, Goto(w, label, locals),
           CallOK(label, locals, reservation', event', account'),
           \A v \in Workers \ {w} : CallOK(pc[v], tx[v], reservation', event', account'),
           label \in InsertedLabels =>
               \A v \in Workers \ {w} : ~(pc[v] \in InsertedLabels /\ tx[v].rid = locals.rid),
           label \in CallbackLabels =>
               \A v \in Workers \ {w} : ~(pc[v] \in CallbackLabels /\ tx[v].rid = locals.rid)
    PROVE  CallsInv' /\ OneHolder'
<1>1. /\ pc'[w] = label /\ tx'[w] = locals
      /\ \A v \in Workers \ {w} : pc'[v] = pc[v] /\ tx'[v] = tx[v]
  BY DEF Goto, EventInv, TypeInv, CallsOK
<1>2. CallsInv'
  BY <1>1 DEF CallsInv
<1>3. OneHolder'
  BY <1>1 DEF EventInv, OneHolder
<1> QED
  BY <1>2, <1>3

LEMMA QuietCalls ==
    ASSUME EventInv, NEW w \in Workers, NEW label \in Labels, NEW locals, Goto(w, label, locals),
           TypeInv', UNCHANGED decisions,
           CallOK(label, locals, reservation, event, account),
           label \in InsertedLabels =>
               \A v \in Workers \ {w} : ~(pc[v] \in InsertedLabels /\ tx[v].rid = locals.rid),
           label \in CallbackLabels =>
               \A v \in Workers \ {w} : ~(pc[v] \in CallbackLabels /\ tx[v].rid = locals.rid)
    PROVE  EventInv'
<1>1. \A v \in Workers : CallOK(pc[v], tx[v], reservation, event, account)
  BY DEF EventInv, CallsInv
<1>2. /\ reservation' = reservation /\ event' = event /\ account' = account
      /\ validations' = validations /\ answers' = answers
  BY DEF decisions
<1>3. CallsInv' /\ OneHolder'
  BY <1>1, <1>2, GotoCalls
<1>4. TablesInv'
  BY <1>2 DEF EventInv, TablesInv, AgreeAt, ValidatedAt
<1> QED
  BY <1>3, <1>4 DEF EventInv

(* The labels at which a call relies on nothing yet.                       *)
LEMMA RestCalls ==
    ASSUME NEW label \in {"idle", "insert", "lockEvent"}, NEW t, NEW R, NEW E, NEW A,
           label = "insert" => t.op = "reserve",
           label = "lockEvent" => t.op \in {"validate", "complete", "fail"}
    PROVE  CallOK(label, t, R, E, A) /\ label \notin InsertedLabels /\ label \notin CallbackLabels
  BY DEF CallOK, InsertedLabels, CallbackLabels, ReserveLabels, CommitLabels

(* A call that ends and leaves the decisions alone.                        *)
LEMMA FinishCalls ==
    ASSUME EventInv, NEW w \in Workers, Finish(w), TypeInv', UNCHANGED decisions
    PROVE  EventInv'
<1>1. CallOK("idle", Blank, reservation, event, account)
  BY RestCalls
<1>2. "idle" \in Labels /\ Goto(w, "idle", Blank)
  BY DEF Labels, Finish
<1> QED
  BY <1>1, <1>2, QuietCalls DEF InsertedLabels, CallbackLabels

LEMMA Kept ==
    UNCHANGED <<settings, tables, history>> => UNCHANGED decisions
  BY DEF decisions, settings, tables, history

-----------------------------------------------------------------------------
LEMMA CallEvents ==
    ASSUME EventInv, TypeInv', NEW w \in Workers, Call(w)
    PROVE  EventInv'
<1>1. ASSUME NEW r \in Requests, NEW a \in Apps, NEW u \in Users, NEW act \in Actions,
             Reserve(w, u, a, act, r)
      PROVE  EventInv'
  <2> DEFINE t == [Blank EXCEPT !.op = "reserve", !.rid = r, !.user = u, !.app = a,
                                !.action = act, !.account = account[u], !.setting = app[a]]
  <2>1. t.op = "reserve"
    BY DEF Blank
  <2>2. Goto(w, "insert", t) /\ UNCHANGED decisions
    BY <1>1, Kept DEF Reserve
  <2> HIDE DEF t
  <2> QED
    BY <2>1, <2>2, RestCalls, QuietCalls DEF Labels, InsertedLabels, CallbackLabels
<1>2. ASSUME NEW r \in Requests, NEW a \in Apps, NEW act \in Actions, Validate(w, r, a, act)
      PROVE  EventInv'
  <2> DEFINE t == [Blank EXCEPT !.op = "validate", !.rid = r, !.app = a, !.action = act]
  <2>1. t.op = "validate"
    BY DEF Blank
  <2>2. Goto(w, "lockEvent", t) /\ UNCHANGED decisions
    BY <1>2, Kept DEF Validate
  <2> HIDE DEF t
  <2> QED
    BY <2>1, <2>2, RestCalls, QuietCalls DEF Labels, InsertedLabels, CallbackLabels
<1>3. ASSUME NEW r \in Requests, NEW a \in Apps, Complete(w, r, a)
      PROVE  EventInv'
  <2> DEFINE t == [Blank EXCEPT !.op = "complete", !.rid = r, !.app = a]
  <2>1. t.op = "complete"
    BY DEF Blank
  <2>2. Goto(w, "lockEvent", t) /\ UNCHANGED decisions
    BY <1>3, Kept DEF Complete
  <2> HIDE DEF t
  <2> QED
    BY <2>1, <2>2, RestCalls, QuietCalls DEF Labels, InsertedLabels, CallbackLabels
<1>4. ASSUME NEW r \in Requests, NEW a \in Apps, NEW c \in ErrorCodes, Fail(w, r, a, c)
      PROVE  EventInv'
  <2> DEFINE t == [Blank EXCEPT !.op = "fail", !.rid = r, !.app = a, !.code = c]
  <2>1. t.op = "fail"
    BY DEF Blank
  <2>2. Goto(w, "lockEvent", t) /\ UNCHANGED decisions
    BY <1>4, Kept DEF Fail
  <2> HIDE DEF t
  <2> QED
    BY <2>1, <2>2, RestCalls, QuietCalls DEF Labels, InsertedLabels, CallbackLabels
<1> QED
  BY <1>1, <1>2, <1>3, <1>4 DEF Call

-----------------------------------------------------------------------------
(* reserve_interaction                                                     *)

LEMMA InsertEvents ==
    ASSUME EventInv, TypeInv', NEW w \in Workers, InsertReservation(w)
    PROVE  EventInv'
<1>1. /\ pc[w] = "insert" /\ reservation[tx[w].rid] = None /\ Goto(w, "decide", tx[w])
      /\ UNCHANGED decisions
  BY Kept DEF InsertReservation
<1>2. \A v \in Workers \ {w} : ~(pc[v] \in InsertedLabels /\ tx[v].rid = tx[w].rid)
  BY DEF InsertReservation, Unblocked, WaitsFor, HoldsRequest, InsertedLabels
<1>3. CallOK("decide", tx[w], reservation, event, account)
  BY <1>1 DEF EventInv, CallsInv, CallOK, ReserveLabels, CallbackLabels, CommitLabels
<1> QED
  BY <1>1, <1>2, <1>3, QuietCalls DEF Labels, CallbackLabels

(* A reserve that holds its request_id goes on to another statement.       *)
LEMMA HoldOn ==
    ASSUME EventInv, TypeInv', NEW w \in Workers, pc[w] \in InsertedLabels,
           NEW label \in InsertedLabels, NEW t, Goto(w, label, t), UNCHANGED decisions,
           t.rid = tx[w].rid, t.op = tx[w].op,
           label \in CommitLabels => /\ t.answer # "request_in_progress"
                                     /\ t.answer = "authorized" <=> t.status = "authorized"
                                     /\ t.answer = "daily_quota_exceeded" => t.status = "rejected_quota"
    PROVE  EventInv'
<1>1. \A v \in Workers \ {w} : ~(pc[v] \in InsertedLabels /\ tx[v].rid = t.rid)
  BY DEF EventInv, OneHolder
<1>2. CallOK(label, t, reservation, event, account)
  BY DEF EventInv, CallsInv, CallOK, ReserveLabels, InsertedLabels, CallbackLabels, CommitLabels
<1> QED
  BY <1>1, <1>2, QuietCalls DEF Labels, InsertedLabels, CallbackLabels

LEMMA DecideEvents ==
    ASSUME EventInv, TypeInv', NEW w \in Workers,
           RejectAccount(w) \/ RejectApplication(w) \/ ReadPlan(w)
    PROVE  EventInv'
<1>0. tx[w] \in Locals
  BY DEF EventInv, TypeInv, CallsOK
<1>1. CASE RejectAccount(w)
  <2> DEFINE t == [tx[w] EXCEPT !.status = "rejected_auth", !.answer = "account_unavailable"]
  <2>1. /\ t.rid = tx[w].rid /\ t.op = tx[w].op
        /\ t.status = "rejected_auth" /\ t.answer = "account_unavailable"
    BY <1>0 DEF Locals
  <2>2. pc[w] = "decide" /\ Goto(w, "fkApp", t) /\ UNCHANGED decisions
    BY <1>1, Kept DEF RejectAccount
  <2> HIDE DEF t
  <2> QED
    BY <2>1, <2>2, HoldOn DEF InsertedLabels
<1>2. CASE RejectApplication(w)
  <2> DEFINE t == [tx[w] EXCEPT !.status = "rejected_auth", !.answer = "application_inactive"]
  <2>1. /\ t.rid = tx[w].rid /\ t.op = tx[w].op
        /\ t.status = "rejected_auth" /\ t.answer = "application_inactive"
    BY <1>0 DEF Locals
  <2>2. pc[w] = "decide" /\ Goto(w, "fkApp", t) /\ UNCHANGED decisions
    BY <1>2, Kept DEF RejectApplication
  <2> HIDE DEF t
  <2> QED
    BY <2>1, <2>2, HoldOn DEF InsertedLabels
<1>3. CASE ReadPlan(w)
  <2> DEFINE t == [tx[w] EXCEPT !.limit = plan[tx[w].user], !.day = today]
  <2>1. t.rid = tx[w].rid /\ t.op = tx[w].op
    BY <1>0 DEF Locals
  <2>2. pc[w] = "decide" /\ Goto(w, "usage", t) /\ UNCHANGED decisions
    BY <1>3, Kept DEF ReadPlan
  <2> HIDE DEF t
  <2> QED
    BY <2>1, <2>2, HoldOn DEF InsertedLabels, CommitLabels
<1> QED
  BY <1>1, <1>2, <1>3

LEMMA LockUsageEvents ==
    ASSUME EventInv, TypeInv', NEW w \in Workers, LockUsage(w)
    PROVE  EventInv'
<1> DEFINE used == usage[tx[w].user][tx[w].day]
           no == Exceeded(tx[w], used)
           t == [tx[w] EXCEPT
                   !.count = used,
                   !.status = IF no THEN "rejected_quota" ELSE "authorized",
                   !.answer = IF no THEN "daily_quota_exceeded" ELSE "authorized"]
<1>1. tx[w] \in Locals
  BY DEF EventInv, TypeInv, CallsOK
<1>2. /\ t.rid = tx[w].rid /\ t.op = tx[w].op
      /\ t.status = IF no THEN "rejected_quota" ELSE "authorized"
      /\ t.answer = IF no THEN "daily_quota_exceeded" ELSE "authorized"
  BY <1>1 DEF Locals
<1>3. pc[w] = "usage" /\ Goto(w, "fkApp", t) /\ UNCHANGED decisions
  BY Kept DEF LockUsage
<1> HIDE DEF t, no
<1> QED
  BY <1>2, <1>3, HoldOn DEF InsertedLabels

LEMMA CheckKeyEvents ==
    ASSUME EventInv, TypeInv', NEW w \in Workers, CheckApplicationKey(w)
    PROVE  EventInv'
<1>1. pc[w] = "fkApp" /\ Goto(w, "fkUser", tx[w]) /\ UNCHANGED decisions
  BY Kept DEF CheckApplicationKey
<1>2. CallOK("fkApp", tx[w], reservation, event, account)
  BY <1>1 DEF EventInv, CallsInv
<1> QED
  BY <1>1, <1>2, HoldOn DEF InsertedLabels, CallOK, CommitLabels

(* A call that ends by an answer; the tables stay.                         *)
LEMMA AnsweredEvents ==
    ASSUME EventInv, TypeInv', NEW w \in Workers, Finish(w), NEW a, Answer(w, a),
           UNCHANGED <<reservation, event, validations, account>>,
           tx[w].rid \in Requests, Told([claim |-> ClaimOf(tx[w]), answer |-> a], event[tx[w].rid])
    PROVE  EventInv'
<1>1. \A v \in Workers : CallOK(pc[v], tx[v], reservation, event, account)
  BY DEF EventInv, CallsInv
<1>2. "idle" \in Labels /\ Goto(w, "idle", Blank)
  BY DEF Labels, Finish
<1>3. CallOK("idle", Blank, reservation, event, account)
  BY RestCalls
<1>4. CallsInv' /\ OneHolder'
  BY <1>1, <1>2, <1>3, GotoCalls DEF InsertedLabels, CallbackLabels
<1>5. \A r \in Requests : AgreeAt(r)' /\ ValidatedAt(r)'
  BY DEF EventInv, TablesInv, AgreeAt, ValidatedAt
<1>6. ASSUME NEW r \in Requests, NEW x \in answers'[r] PROVE Told(x, event[r])
  <2>1. answers'[r] = IF r = tx[w].rid /\ a \in Observed
                      THEN answers[r] \cup {[claim |-> ClaimOf(tx[w]), answer |-> a]}
                      ELSE answers[r]
    BY DEF Answer, EventInv, TypeInv, DataOK
  <2> QED
    BY <1>6, <2>1 DEF EventInv, TablesInv
<1>7. TablesInv'
  BY <1>5, <1>6 DEF TablesInv
<1> QED
  BY <1>4, <1>7 DEF EventInv

LEMMA ReplayEvents ==
    ASSUME EventInv, TypeInv', NEW w \in Workers, ReplayReservation(w)
    PROVE  EventInv'
<1> DEFINE t == tx[w]
           a == ReplayAnswer(t)
<1>1. /\ t.rid \in Requests /\ reservation[t.rid] # None
      /\ Finish(w) /\ Answer(w, a) /\ UNCHANGED <<reservation, event, validations, account>>
  BY DEF ReplayReservation, EventInv, TypeInv, CallsOK, WellShaped, settings, tables
<1>2. event[t.rid] # None /\ reservation[t.rid] = ClaimOf(event[t.rid])
  BY <1>1 DEF EventInv, TablesInv, AgreeAt
<1>3. /\ a # "request_in_progress" /\ a # "daily_quota_exceeded"
      /\ a = "authorized" => reservation[t.rid] = ClaimOf(t) /\ event[t.rid].status = "authorized"
  BY <1>2 DEF ReplayAnswer
<1> HIDE DEF a
<1>4. Told([claim |-> ClaimOf(t), answer |-> a], event[t.rid])
  BY <1>2, <1>3 DEF Told, Admitted
<1> QED
  BY <1>1, <1>4, AnsweredEvents

LEMMA NoPlanEvents ==
    ASSUME EventInv, TypeInv', NEW w \in Workers, PlanNotAssigned(w)
    PROVE  EventInv'
<1>1. /\ tx[w].rid \in Requests
      /\ Finish(w) /\ Answer(w, "plan_not_assigned")
      /\ UNCHANGED <<reservation, event, validations, account>>
  BY DEF PlanNotAssigned, EventInv, TypeInv, CallsOK, WellShaped, settings, tables
<1> QED
  BY <1>1, AnsweredEvents DEF Told

(* The row a reserve commits, and what it tells.                           *)
LEMMA CommitEffect ==
    ASSUME EventInv, NEW w \in Workers, CommitReserve(w)
    PROVE  LET t == tx[w] IN
           /\ t.rid \in Requests /\ reservation[t.rid] = None /\ event[t.rid] = None
           /\ reservation'[t.rid] = ClaimOf(t) /\ event'[t.rid] # None /\ reservation'[t.rid] # None
           /\ event'[t.rid].user = t.user /\ event'[t.rid].status = t.status
           /\ ClaimOf(event'[t.rid]) = ClaimOf(t)
           /\ t.status \in {"authorized", "rejected_quota", "rejected_auth"}
           /\ \A r \in Requests \ {t.rid} : reservation'[r] = reservation[r] /\ event'[r] = event[r]
           /\ Told([claim |-> ClaimOf(t), answer |-> t.answer], event'[t.rid])
           /\ UNCHANGED <<account, validations>> /\ Finish(w) /\ Answer(w, t.answer)
<1> DEFINE t == tx[w]
           e == [user |-> t.user, app |-> t.app, action |-> t.action, status |-> t.status]
<1>1. /\ pc[w] = "fkUser"
      /\ reservation' = [reservation EXCEPT ![t.rid] = ClaimOf(t)]
      /\ event' = [event EXCEPT ![t.rid] = e]
      /\ UNCHANGED <<account, validations>> /\ Finish(w) /\ Answer(w, t.answer)
  BY DEF CommitReserve, settings
<1>2. ArgumentsRead(t) /\ Decided(t)
  BY <1>1 DEF EventInv, TypeInv, CallsOK, WellShaped, ReserveLabels, CommitLabels
<1>3. CallOK("fkUser", t, reservation, event, account)
  BY <1>1 DEF EventInv, CallsInv
<1>4. t.rid \in Requests /\ reservation[t.rid] = None /\ event[t.rid] = None
  BY <1>2, <1>3 DEF CallOK, InsertedLabels, ArgumentsRead, EventInv, TablesInv, AgreeAt
<1>5. e \in Events /\ ClaimOf(t) \in Claims /\ ClaimOf(e) = ClaimOf(t)
  BY <1>2 DEF ArgumentsRead, Decided, Events, Status, Admitted, Rejected, ClaimOf, Claims
<1>6. /\ reservation'[t.rid] = ClaimOf(t) /\ event'[t.rid] = e
      /\ \A r \in Requests \ {t.rid} : reservation'[r] = reservation[r] /\ event'[r] = event[r]
  BY <1>1, <1>4 DEF EventInv, TypeInv, DataOK
<1>7. e # None /\ ClaimOf(t) # None
  BY <1>5, NoneAssumption
<1>8. e.status = t.status /\ e.user = t.user
  OBVIOUS
<1> HIDE DEF e
<1>9. Told([claim |-> ClaimOf(t), answer |-> t.answer], e)
  BY <1>3, <1>5, <1>7, <1>8 DEF Told, CallOK, CommitLabels, Admitted
<1> QED
  BY <1>1, <1>2, <1>4, <1>5, <1>6, <1>7, <1>8, <1>9 DEF Decided

LEMMA CommitReserveEvents ==
    ASSUME EventInv, TypeInv', NEW w \in Workers, CommitReserve(w)
    PROVE  EventInv'
<1> DEFINE t == tx[w]
           x0 == [claim |-> ClaimOf(t), answer |-> t.answer]
<1>1. /\ t.rid \in Requests /\ reservation[t.rid] = None /\ event[t.rid] = None
      /\ reservation'[t.rid] = ClaimOf(t) /\ event'[t.rid] # None /\ reservation'[t.rid] # None
      /\ ClaimOf(event'[t.rid]) = ClaimOf(t)
      /\ event'[t.rid].status \in {"authorized", "rejected_quota", "rejected_auth"}
      /\ \A r \in Requests \ {t.rid} : reservation'[r] = reservation[r] /\ event'[r] = event[r]
      /\ Told(x0, event'[t.rid])
      /\ UNCHANGED <<account, validations>> /\ Finish(w) /\ Answer(w, t.answer)
  BY CommitEffect
<1>2. ASSUME NEW v \in Workers \ {w}
      PROVE  CallOK(pc[v], tx[v], reservation', event', account')
  <2>1. CallOK(pc[v], tx[v], reservation, event, account) /\ WellShaped(pc[v], tx[v])
    BY DEF EventInv, CallsInv, TypeInv, CallsOK
  <2>2. pc[v] \in InsertedLabels => tx[v].rid # t.rid
    <3>1. pc[w] \in InsertedLabels
      BY DEF CommitReserve, InsertedLabels
    <3> QED
      BY <3>1 DEF EventInv, OneHolder
  <2>3. pc[v] \in CallbackLabels => tx[v].rid # t.rid
    BY <1>1, <2>1 DEF CallOK
  <2>4. pc[v] \in InsertedLabels \cup CallbackLabels => tx[v].rid \in Requests
    BY <2>1 DEF WellShaped, InsertedLabels, CallbackLabels
  <2>5. pc[v] \in InsertedLabels => reservation'[tx[v].rid] = reservation[tx[v].rid]
    BY <1>1, <2>2, <2>4
  <2>6. pc[v] \in CallbackLabels => event'[tx[v].rid] = event[tx[v].rid]
    BY <1>1, <2>3, <2>4
  <2> QED
    BY <1>1, <2>1, <2>5, <2>6 DEF CallOK
<1>3. "idle" \in Labels /\ Goto(w, "idle", Blank)
  BY <1>1 DEF Labels, Finish
<1>4. CallsInv' /\ OneHolder'
  <2>1. CallOK("idle", Blank, reservation', event', account')
    BY RestCalls
  <2> QED
    BY <1>2, <1>3, <2>1, GotoCalls DEF InsertedLabels, CallbackLabels
<1>5. ASSUME NEW r \in Requests
      PROVE  AgreeAt(r)' /\ ValidatedAt(r)' /\ \A x \in answers'[r] : Told(x, event'[r])
  <2>1. answers'[r] = IF r = t.rid /\ t.answer \in Observed THEN answers[r] \cup {x0} ELSE answers[r]
    BY <1>1 DEF Answer, EventInv, TypeInv, DataOK
  <2>2. AgreeAt(r) /\ ValidatedAt(r) /\ \A x \in answers[r] : Told(x, event[r])
    BY DEF EventInv, TablesInv
  <2> HIDE DEF x0
  <2>3. CASE r # t.rid
    <3>1. /\ reservation'[r] = reservation[r] /\ event'[r] = event[r]
          /\ validations' = validations /\ answers'[r] = answers[r]
      BY <1>1, <2>1, <2>3
    <3>2. AgreeAt(r)' /\ ValidatedAt(r)'
      BY <2>2, <3>1 DEF AgreeAt, ValidatedAt
    <3> QED
      BY <2>2, <3>1, <3>2
  <2>4. CASE r = t.rid
    <3>1. validations[r] = 0
      <4>1. event[r] = None
        BY <1>1, <2>4
      <4>2. validations[r] # 1 /\ validations[r] <= 1
        BY <2>2, <4>1 DEF ValidatedAt
      <4>3. validations[r] \in Nat
        BY DEF EventInv, TypeInv, DataOK
      <4> QED
        BY <4>2, <4>3
    <3>2. ASSUME NEW x \in answers[r] PROVE Told(x, event'[r])
      BY <1>1, <2>2, <2>4 DEF Told
    <3> QED
      BY <1>1, <2>1, <2>4, <3>1, <3>2 DEF AgreeAt, ValidatedAt
  <2> QED
    BY <2>3, <2>4
<1>6. TablesInv'
  BY <1>5 DEF TablesInv
<1> QED
  BY <1>4, <1>6 DEF EventInv

LEMMA ReserveStepEvents ==
    ASSUME EventInv, TypeInv', NEW w \in Workers, ReserveStep(w)
    PROVE  EventInv'
  BY InsertEvents, ReplayEvents, DecideEvents, NoPlanEvents, LockUsageEvents, CheckKeyEvents,
     CommitReserveEvents DEF ReserveStep

-----------------------------------------------------------------------------
(* The callbacks                                                           *)

LEMMA LockEventEvents ==
    ASSUME EventInv, TypeInv', NEW w \in Workers, LockEvent(w)
    PROVE  EventInv'
<1> DEFINE e == event[tx[w].rid]
           label == IF tx[w].op = "complete" THEN "complete" ELSE "lockUser"
           t == [tx[w] EXCEPT
                   !.user = e.user, !.app = e.app, !.status = e.status,
                   !.answer = IF Mismatch(tx[w], e) THEN "reservation_mismatch" ELSE None]
<1>1. /\ pc[w] = "lockEvent" /\ e # None /\ Goto(w, label, t) /\ UNCHANGED decisions
  BY Kept DEF LockEvent
<1>2. t.rid = tx[w].rid /\ t.op = tx[w].op /\ t.user = e.user /\ t.status = e.status
  BY DEF EventInv, TypeInv, CallsOK, Locals
<1>3. \A v \in Workers \ {w} : ~(pc[v] \in CallbackLabels /\ tx[v].rid = tx[w].rid)
  BY <1>1 DEF LockEvent, Unblocked, WaitsFor, HoldsEvent, CallbackLabels
<1>4. tx[w].op \in {"validate", "complete", "fail"}
  BY <1>1 DEF EventInv, CallsInv, CallOK
<1>5. label \in {"complete", "lockUser"}
  OBVIOUS
<1> HIDE DEF t, label
<1>6. CallOK(label, t, reservation, event, account)
  BY <1>1, <1>2, <1>4, <1>5 DEF CallOK, ReserveLabels, InsertedLabels, CommitLabels
<1> QED
  BY <1>1, <1>2, <1>3, <1>5, <1>6, QuietCalls DEF Labels, InsertedLabels

(* A callback that holds its event goes on to another statement.           *)
LEMMA HoldEvent ==
    ASSUME EventInv, TypeInv', NEW w \in Workers, pc[w] \in CallbackLabels,
           NEW label \in {"lockApp", "refund"}, NEW t, Goto(w, label, t), UNCHANGED decisions,
           t.rid = tx[w].rid, t.op = tx[w].op, t.status = tx[w].status, t.user = tx[w].user,
           t.account = account[t.user], label = "refund" => t.status = "processing"
    PROVE  EventInv'
<1>1. \A v \in Workers \ {w} : ~(pc[v] \in CallbackLabels /\ tx[v].rid = t.rid)
  BY DEF EventInv, OneHolder
<1>2. CallOK(label, t, reservation, event, account)
  BY DEF EventInv, CallsInv, CallOK, ReserveLabels, InsertedLabels, CallbackLabels, CommitLabels
<1> QED
  BY <1>1, <1>2, QuietCalls DEF Labels, InsertedLabels, CallbackLabels

LEMMA LockUserEvents ==
    ASSUME EventInv, TypeInv', NEW w \in Workers, LockUser(w) \/ StartRefund(w)
    PROVE  EventInv'
<1>0. tx[w] \in Locals
  BY DEF EventInv, TypeInv, CallsOK
<1>1. CASE LockUser(w)
  <2> DEFINE t == [tx[w] EXCEPT !.account = account[tx[w].user]]
  <2>1. /\ t.rid = tx[w].rid /\ t.op = tx[w].op /\ t.status = tx[w].status
        /\ t.user = tx[w].user /\ t.account = account[tx[w].user]
    BY <1>0 DEF Locals
  <2>2. pc[w] = "lockUser" /\ Goto(w, "lockApp", t) /\ UNCHANGED decisions
    BY <1>1, Kept DEF LockUser
  <2> HIDE DEF t
  <2> QED
    BY <2>1, <2>2, HoldEvent DEF CallbackLabels
<1>2. CASE StartRefund(w)
  <2> DEFINE t == [tx[w] EXCEPT !.day = today]
  <2>1. /\ t.rid = tx[w].rid /\ t.op = tx[w].op /\ t.status = tx[w].status
        /\ t.user = tx[w].user /\ t.account = tx[w].account
    BY <1>0 DEF Locals
  <2>2. /\ pc[w] = "lockApp" /\ Goto(w, "refund", t) /\ UNCHANGED decisions
        /\ tx[w].status = "processing"
    BY <1>2, Kept DEF StartRefund, InProcess
  <2>3. tx[w].account = account[tx[w].user]
    BY <2>2 DEF EventInv, CallsInv, CallOK
  <2> HIDE DEF t
  <2> QED
    BY <2>1, <2>2, <2>3, HoldEvent DEF CallbackLabels
<1> QED
  BY <1>1, <1>2

(* A commit moves the event of its call along the lifecycle.               *)
LEMMA MoveEffect ==
    ASSUME EventInv, NEW w \in Workers, pc[w] \in CallbackLabels, NEW s \in Status,
           SetStatus(tx[w].rid, s)
    PROVE  LET r == tx[w].rid IN
           /\ r \in Requests /\ event[r] # None /\ event[r].status = tx[w].status
           /\ event[r].user = tx[w].user
           /\ event'[r] # None /\ event'[r].status = s /\ event'[r].user = event[r].user
           /\ ClaimOf(event'[r]) = ClaimOf(event[r])
           /\ \A q \in Requests \ {r} : event'[q] = event[q]
<1> DEFINE r == tx[w].rid
           e == [event[r] EXCEPT !.status = s]
<1>1. r \in Requests /\ event[r] # None
  BY DEF EventInv, TypeInv, CallsOK, WellShaped, CallbackLabels
<1>2. event[r].status = tx[w].status /\ event[r].user = tx[w].user
  BY DEF EventInv, CallsInv, CallOK
<1>3. event[r] \in Events
  BY <1>1 DEF EventInv, TypeInv, DataOK
<1>4. e \in Events /\ e.status = s /\ e.user = event[r].user /\ ClaimOf(e) = ClaimOf(event[r])
  BY <1>3 DEF Events, ClaimOf
<1>5. event'[r] = e /\ \A q \in Requests \ {r} : event'[q] = event[q]
  BY <1>1, SetStatusType DEF EventInv
<1>6. e # None
  BY <1>4, NoneAssumption
<1> HIDE DEF e
<1> QED
  BY <1>1, <1>2, <1>4, <1>5, <1>6

LEMMA MoveEvents ==
    ASSUME EventInv, TypeInv', NEW w \in Workers, pc[w] \in CallbackLabels, Finish(w),
           NEW s \in {"processing", "completed", "failed"}, SetStatus(tx[w].rid, s),
           UNCHANGED <<account, reservation, answers>>,
           \/ /\ s = "processing" /\ tx[w].status = "authorized"
              /\ validations' = [validations EXCEPT ![tx[w].rid] = @ + 1]
           \/ s # "processing" /\ tx[w].status = "processing" /\ validations' = validations
    PROVE  EventInv'
<1> DEFINE r == tx[w].rid
<1>1. s \in Status
  BY DEF Status, Admitted
<1>2. /\ r \in Requests /\ event[r] # None /\ event[r].status = tx[w].status
      /\ event'[r] # None /\ event'[r].status = s
      /\ ClaimOf(event'[r]) = ClaimOf(event[r])
      /\ \A q \in Requests \ {r} : event'[q] = event[q]
  BY <1>1, MoveEffect
<1>3. ASSUME NEW v \in Workers \ {w}
      PROVE  CallOK(pc[v], tx[v], reservation', event', account')
  <2>1. CallOK(pc[v], tx[v], reservation, event, account) /\ WellShaped(pc[v], tx[v])
    BY DEF EventInv, CallsInv, TypeInv, CallsOK
  <2>2. pc[v] \in CallbackLabels => tx[v].rid \in Requests /\ tx[v].rid # r
    BY <2>1 DEF EventInv, OneHolder, WellShaped, CallbackLabels
  <2>3. pc[v] \in CallbackLabels => event'[tx[v].rid] = event[tx[v].rid]
    BY <1>2, <2>2
  <2> QED
    BY <2>1, <2>3 DEF CallOK
<1>4. "idle" \in Labels /\ Goto(w, "idle", Blank) /\ CallOK("idle", Blank, reservation', event', account')
  BY RestCalls DEF Labels, Finish
<1>5. CallsInv' /\ OneHolder'
  BY <1>3, <1>4, GotoCalls DEF InsertedLabels, CallbackLabels
<1>6. ASSUME NEW q \in Requests
      PROVE  AgreeAt(q)' /\ ValidatedAt(q)' /\ \A x \in answers'[q] : Told(x, event'[q])
  <2>1. /\ AgreeAt(q) /\ ValidatedAt(q) /\ \A x \in answers[q] : Told(x, event[q])
        /\ validations[q] \in Nat
    BY DEF EventInv, TablesInv, TypeInv, DataOK
  <2>2. CASE q # r
    <3>1. event'[q] = event[q] /\ validations'[q] = validations[q]
      BY <1>2, <2>2 DEF EventInv, TypeInv, DataOK
    <3> QED
      BY <2>1, <3>1 DEF AgreeAt, ValidatedAt
  <2>3. CASE q = r
    <3>1. AgreeAt(q)'
      BY <1>2, <2>1, <2>3 DEF AgreeAt
    <3>2. ValidatedAt(q)'
      <4>1. CASE s = "processing"
        <5>1. validations[q] # 1 /\ validations[q] <= 1
          BY <1>2, <2>1, <2>3, <4>1 DEF ValidatedAt
        <5>2. validations[q] = 0
          BY <2>1, <5>1
        <5>3. validations'[q] = 1
          BY <1>2, <2>3, <4>1, <5>2 DEF EventInv, TypeInv, DataOK
        <5> QED
          BY <1>2, <2>3, <4>1, <5>3 DEF ValidatedAt
      <4>2. CASE s # "processing"
        BY <1>2, <2>1, <2>3, <4>2 DEF ValidatedAt
      <4> QED
        BY <4>1, <4>2
    <3>3. ASSUME NEW x \in answers[q] PROVE Told(x, event'[q])
      BY <1>2, <2>1, <2>3 DEF Told, Admitted
    <3> QED
      BY <3>1, <3>2, <3>3
  <2> QED
    BY <2>2, <2>3
<1>7. TablesInv'
  BY <1>6 DEF TablesInv
<1> QED
  BY <1>5, <1>7 DEF EventInv

LEMMA CallbackStepEvents ==
    ASSUME EventInv, TypeInv', NEW w \in Workers, CallbackStep(w)
    PROVE  EventInv'
<1>1. CASE EventNotFound(w) \/ FailIgnored(w)
  BY <1>1, Kept, FinishCalls DEF EventNotFound, FailIgnored
<1>2. CASE LockEvent(w)
  BY <1>2, LockEventEvents
<1>3. CASE LockUser(w) \/ StartRefund(w)
  BY <1>3, LockUserEvents
<1>4. CASE CommitValidate(w)
  <2>1. CASE Validates(tx[w])
    BY <1>4, <2>1, MoveEvents DEF CommitValidate, Validates, Unavailable, settings, CallbackLabels
  <2>2. CASE Unavailable(tx[w])
    <3>1. /\ Finish(w) /\ Answer(w, "validation_unavailable")
          /\ UNCHANGED <<reservation, event, validations, account>>
      BY <1>4, <2>2 DEF CommitValidate, Validates, Unavailable, settings
    <3>2. tx[w].rid \in Requests
      BY <1>4 DEF CommitValidate, EventInv, TypeInv, CallsOK, WellShaped
    <3>3. Told([claim |-> ClaimOf(tx[w]), answer |-> "validation_unavailable"], event[tx[w].rid])
      BY DEF Told
    <3> QED
      BY <3>1, <3>2, <3>3, AnsweredEvents
  <2>3. CASE ~Validates(tx[w]) /\ ~Unavailable(tx[w])
    BY <1>4, <2>3, FinishCalls DEF CommitValidate, settings, decisions
  <2> QED
    BY <2>1, <2>2, <2>3
<1>5. CASE CommitComplete(w)
  <2>1. CASE InProcess(tx[w])
    BY <1>5, <2>1, MoveEvents DEF CommitComplete, InProcess, settings, history, CallbackLabels
  <2>2. CASE ~InProcess(tx[w])
    BY <1>5, <2>2, FinishCalls DEF CommitComplete, settings, history, decisions
  <2> QED
    BY <2>1, <2>2
<1>6. CASE CommitFail(w)
  BY <1>6, MoveEvents DEF CommitFail, InProcess, settings, history, CallbackLabels
<1>7. CASE CommitRefund(w)
  <2>1. tx[w].status = "processing"
    BY <1>7 DEF CommitRefund, EventInv, CallsInv, CallOK
  <2> QED
    BY <1>7, <2>1, MoveEvents DEF CommitRefund, settings, CallbackLabels
<1> QED
  BY <1>1, <1>2, <1>3, <1>4, <1>5, <1>6, <1>7 DEF CallbackStep

-----------------------------------------------------------------------------
(* An administrator waits for the lock of a user: what a validation read   *)
(* of the account stays true until it commits.                             *)
LEMMA OtherEvents ==
    ASSUME EventInv, TypeInv',
           (\E w \in Workers : Abort(w) \/ BreakDeadlock(w)) \/ Administer \/ NextDay
               \/ UNCHANGED vars
    PROVE  EventInv'
<1>1. ASSUME NEW w \in Workers, Abort(w) \/ BreakDeadlock(w) PROVE EventInv'
  BY <1>1, Kept, FinishCalls DEF Abort, BreakDeadlock
<1>2. ASSUME UNCHANGED <<pc, tx, decisions>> PROVE EventInv'
  BY <1>2 DEF EventInv, CallsInv, OneHolder, TablesInv, AgreeAt, ValidatedAt, decisions
<1>3. ASSUME NEW u \in Users, NEW a \in Accounts, SetAccount(u, a) PROVE EventInv'
  <2>1. /\ UNCHANGED <<pc, tx, reservation, event, validations, answers>>
        /\ account' = [account EXCEPT ![u] = a]
        /\ \A w \in Workers : ~HoldsUser(w, u)
    BY <1>3 DEF SetAccount, tables, history
  <2>2. ASSUME NEW w \in Workers PROVE CallOK(pc[w], tx[w], reservation, event, account')
    <3>1. CallOK(pc[w], tx[w], reservation, event, account)
      BY DEF EventInv, CallsInv
    <3>2. pc[w] \in {"lockApp", "refund"} => tx[w].user # u
      BY <2>1 DEF HoldsUser
    <3>3. pc[w] \in {"lockApp", "refund"} => account'[tx[w].user] = account[tx[w].user]
      BY <2>1, <3>2 DEF EventInv, TypeInv, DataOK, CallsOK, WellShaped, CallbackLabels
    <3> QED
      BY <3>1, <3>3 DEF CallOK
  <2>3. CallsInv' /\ OneHolder' /\ TablesInv'
    BY <2>1, <2>2 DEF CallsInv, EventInv, OneHolder, TablesInv, AgreeAt, ValidatedAt
  <2> QED
    BY <2>3 DEF EventInv
<1>4. CASE Administer
  BY <1>2, <1>3, <1>4 DEF Administer, SetPlan, SetApplication, tables, history, decisions
<1>5. CASE NextDay \/ UNCHANGED vars
  BY <1>2, <1>5 DEF NextDay, vars, settings, tables, history, decisions
<1> QED
  BY <1>1, <1>4, <1>5

LEMMA NextEvents == EventInv /\ [Next]_vars => EventInv'
<1> SUFFICES ASSUME EventInv, [Next]_vars PROVE EventInv'
  OBVIOUS
<1>1. TypeInv'
  BY NextTypes DEF EventInv
<1> QED
  BY <1>1, CallEvents, ReserveStepEvents, CallbackStepEvents, OtherEvents DEF Next, Step

LEMMA AlwaysEventInv == Spec => []EventInv
  BY InitEvents, NextEvents, PTL DEF Spec

-----------------------------------------------------------------------------
(* Theorems                                                                *)

(* reserve_interaction: a committed reservation and its event come and stay*)
(* together, and nobody is told of a request in progress.                  *)
THEOREM ReservationsHaveEvents == Spec => []ReservationHasItsEvent
<1>1. EventInv => ReservationHasItsEvent
  BY DEF EventInv, TablesInv, AgreeAt, Told, ReservationHasItsEvent
<1> QED
  BY <1>1, AlwaysEventInv, PTL

(* validate_interaction: of all backends and retries, one is told to work. *)
THEOREM OneValidation == Spec => []ValidatedOnce
<1>1. EventInv => ValidatedOnce
  BY DEF EventInv, TablesInv, ValidatedAt, ValidatedOnce
<1> QED
  BY <1>1, AlwaysEventInv, PTL

(* A request_id refused for want of quota is never authorized afterwards.  *)
THEOREM RefusalsStand == Spec => []RefusalIsFinal
<1>1. EventInv => RefusalIsFinal
  <2> SUFFICES ASSUME EventInv, NEW r \in Requests, NEW x \in answers[r], NEW y \in answers[r],
                      x.answer = "daily_quota_exceeded", y.answer = "authorized"
               PROVE  FALSE
    BY DEF RefusalIsFinal
  <2>1. event[r].status = "rejected_quota" /\ event[r].status \in Admitted
    BY DEF EventInv, TablesInv, Told
  <2> QED
    BY <2>1 DEF Admitted
<1> QED
  BY <1>1, AlwaysEventInv, PTL

(* What a step does to an event: nothing, its insertion by a reserve, or   *)
(* one move of its status, the first move only for an active account.      *)
EventStep(r) ==
    \/ event'[r] = event[r]
    \/ event[r] = None /\ \E w \in Workers : CommitReserve(w) /\ tx[w].rid = r
    \/ /\ event[r] # None /\ event'[r] # None /\ ClaimOf(event'[r]) = ClaimOf(event[r])
       /\ event'[r].user = event[r].user /\ event'[r].app = event[r].app
       /\ \/ /\ event[r].status = "authorized" /\ event'[r].status = "processing"
             /\ account[event[r].user] = "active"
          \/ event[r].status = "processing" /\ event'[r].status \in {"completed", "failed"}

LEMMA MoveStep ==
    ASSUME EventInv, NEW w \in Workers, pc[w] \in CallbackLabels,
           NEW s \in {"processing", "completed", "failed"}, SetStatus(tx[w].rid, s),
           \/ /\ s = "processing" /\ tx[w].status = "authorized"
              /\ account[tx[w].user] = "active"
           \/ s # "processing" /\ tx[w].status = "processing",
           NEW r \in Requests
    PROVE  EventStep(r)
<1>1. s \in Status
  BY DEF Status, Admitted
<1>2. ASSUME NEW e, NEW f, ClaimOf(e) = ClaimOf(f) PROVE e.app = f.app
  <2>1. ClaimOf(e).app = e.app /\ ClaimOf(f).app = f.app
    BY DEF ClaimOf
  <2> QED
    BY <1>2, <2>1
<1>3. CASE r = tx[w].rid
  <2>1. /\ event[r].status = tx[w].status /\ event[r].user = tx[w].user
        /\ event[r] # None /\ event'[r] # None
        /\ event'[r].status = s /\ event'[r].user = event[r].user
        /\ ClaimOf(event'[r]) = ClaimOf(event[r])
    BY <1>1, <1>3, MoveEffect
  <2>2. event'[r].app = event[r].app
    BY <1>2, <2>1
  <2> QED
    BY <1>3, <2>1, <2>2 DEF EventStep
<1>4. CASE r # tx[w].rid
  BY <1>1, <1>4, MoveEffect DEF EventStep
<1> QED
  BY <1>3, <1>4

LEMMA WorkerStep ==
    ASSUME EventInv, NEW w \in Workers, Step(w), NEW r \in Requests
    PROVE  EventStep(r)
<1>1. CASE UNCHANGED event
  BY <1>1 DEF EventStep
<1>2. CASE CommitReserve(w)
  BY <1>2, CommitEffect DEF EventStep
<1>3. CASE CommitValidate(w)
  <2>1. CASE Validates(tx[w])
    <3>1. /\ pc[w] = "lockApp" /\ tx[w].status = "authorized" /\ tx[w].account = "active"
          /\ SetStatus(tx[w].rid, "processing")
      BY <1>3, <2>1 DEF CommitValidate, Validates
    <3>2. account[tx[w].user] = "active"
      BY <3>1 DEF EventInv, CallsInv, CallOK
    <3> QED
      BY <3>1, <3>2, MoveStep DEF CallbackLabels
  <2>2. CASE ~Validates(tx[w])
    BY <1>3, <2>2 DEF CommitValidate, EventStep
  <2> QED
    BY <2>1, <2>2
<1>4. CASE CommitComplete(w)
  <2>1. CASE InProcess(tx[w])
    BY <1>4, <2>1, MoveStep DEF CommitComplete, InProcess, CallbackLabels
  <2>2. CASE ~InProcess(tx[w])
    BY <1>4, <2>2 DEF CommitComplete, EventStep
  <2> QED
    BY <2>1, <2>2
<1>5. CASE CommitFail(w)
  BY <1>5, MoveStep DEF CommitFail, InProcess, CallbackLabels
<1>6. CASE CommitRefund(w)
  <2>1. tx[w].status = "processing"
    BY <1>6 DEF CommitRefund, EventInv, CallsInv, CallOK
  <2> QED
    BY <1>6, <2>1, MoveStep DEF CommitRefund, CallbackLabels
<1> QED
  BY <1>1, <1>2, <1>3, <1>4, <1>5, <1>6
     DEF Step, ReserveStep, CallbackStep, InsertReservation, ReplayReservation, RejectAccount,
         RejectApplication, PlanNotAssigned, ReadPlan, LockUsage, CheckApplicationKey,
         EventNotFound, LockEvent, LockUser, FailIgnored, StartRefund, tables

LEMMA EventSteps == EventInv /\ [Next]_vars => \A r \in Requests : EventStep(r)
<1> SUFFICES ASSUME EventInv, [Next]_vars, NEW r \in Requests PROVE EventStep(r)
  OBVIOUS
<1>1. ASSUME NEW w \in Workers, Call(w) \/ Abort(w) \/ BreakDeadlock(w) PROVE UNCHANGED event
  BY <1>1 DEF Call, Reserve, Validate, Complete, Fail, Abort, BreakDeadlock, tables
<1>2. Administer \/ NextDay \/ UNCHANGED vars => UNCHANGED event
  BY DEF Administer, SetAccount, SetPlan, SetApplication, NextDay, vars, tables
<1>3. UNCHANGED event => EventStep(r)
  BY DEF EventStep
<1> QED
  BY <1>1, <1>2, <1>3, WorkerStep DEF Next

(* What is admitted is charged, where every application consumes quota.  A *)
(* reserve writes its event and its charge in one commit, and a callback   *)
(* only moves an event that is admitted already.                           *)
ChargedAt(r) ==
    ConsumesAlways /\ event[r] # None /\ event[r].status \in Admitted => charge[r] # None

ChargedInv == \A r \in Requests : ChargedAt(r)

LEMMA CommitCharges ==
    ASSUME EventInv, ChargedInv, NEW w \in Workers, CommitReserve(w), NEW r \in Requests
    PROVE  ChargedAt(r)'
<1> DEFINE t == tx[w]
<1>1. ArgumentsRead(t) /\ Decided(t)
  BY DEF CommitReserve, EventInv, TypeInv, CallsOK, WellShaped, ReserveLabels, CommitLabels
<1>2. charge \in [Requests -> Days \cup {None}] /\ t.rid \in Requests
  BY <1>1 DEF EventInv, TypeInv, DataOK, ArgumentsRead
<1>3. CASE r # t.rid
  <2>1. event'[r] = event[r] /\ charge'[r] = charge[r]
    BY <1>2, <1>3, CommitEffect DEF CommitReserve
  <2> QED
    BY <2>1 DEF ChargedInv, ChargedAt
<1>4. CASE r = t.rid
  <2> SUFFICES ASSUME ConsumesAlways, event'[r].status \in Admitted
               PROVE  charge'[r] # None
    BY DEF ChargedAt
  <2>1. t.status = "authorized"
    BY <1>4, CommitEffect DEF Admitted
  <2>2. Charges(t)
    BY <1>1, <2>1 DEF Charges, ConsumesAlways, ArgumentsRead
  <2>3. charge'[r] = t.day /\ t.day \in Nat
    BY <1>1, <1>2, <1>4, <2>1, <2>2, DayAssumption DEF CommitReserve, Decided, CounterRead, Days
  <2> QED
    BY <2>3, NoneAssumption
<1> QED
  BY <1>3, <1>4


LEMMA ChargesStay ==
    ASSUME [Next]_vars, \A w \in Workers : ~CommitReserve(w)
    PROVE  UNCHANGED charge
<1>1. ASSUME NEW w \in Workers, Call(w) \/ Abort(w) \/ BreakDeadlock(w) PROVE UNCHANGED charge
  BY <1>1 DEF Call, Reserve, Validate, Complete, Fail, Abort, BreakDeadlock, history
<1>2. ASSUME NEW w \in Workers, Step(w) PROVE UNCHANGED charge
  <2>1. CASE ReserveStep(w)
    BY <2>1 DEF ReserveStep, InsertReservation, ReplayReservation, RejectAccount, RejectApplication,
                PlanNotAssigned, ReadPlan, LockUsage, CheckApplicationKey, history
  <2>2. CASE CallbackStep(w)
    BY <2>2 DEF CallbackStep, EventNotFound, LockEvent, LockUser, CommitValidate, CommitComplete,
                FailIgnored, CommitFail, StartRefund, CommitRefund, history
  <2> QED
    BY <1>2, <2>1, <2>2 DEF Step
<1>3. Administer \/ NextDay \/ UNCHANGED vars => UNCHANGED charge
  BY DEF Administer, SetAccount, SetPlan, SetApplication, NextDay, vars, history
<1> QED
  BY <1>1, <1>2, <1>3 DEF Next

(* Whoever is told authorized owns an admitted event of that very claim,   *)
(* and its charge where every application consumes quota.                  *)
THEOREM HonestAnswers == Spec => []AnswersAreHonest
<1>1. Init => ChargedInv
  BY DEF Init, ChargedInv, ChargedAt
<1>2. EventInv /\ ChargedInv /\ [Next]_vars => ChargedInv'
  <2> SUFFICES ASSUME EventInv, ChargedInv, [Next]_vars, NEW r \in Requests PROVE ChargedAt(r)'
    BY DEF ChargedInv
  <2>1. CASE \E w \in Workers : CommitReserve(w)
    BY <2>1, CommitCharges
  <2>2. CASE \A w \in Workers : ~CommitReserve(w)
    <3>1. UNCHANGED charge
      BY <2>2, ChargesStay
    <3>2. EventStep(r) /\ ChargedAt(r)
      BY EventSteps DEF ChargedInv
    <3> QED
      BY <2>2, <3>1, <3>2 DEF EventStep, ChargedAt, Admitted
  <2> QED
    BY <2>1, <2>2
<1>3. EventInv /\ ChargedInv => AnswersAreHonest
  BY DEF EventInv, TablesInv, Told, ChargedInv, ChargedAt, AnswersAreHonest
<1> QED
  BY <1>1, <1>2, <1>3, AlwaysEventInv, PTL DEF Spec

(* complete, fail and validate race on an event, and its status only moves *)
(* from authorized to processing to one final outcome.                     *)
THEOREM LifecycleKept == Spec => StatusLifecycle
<1>1. EventInv /\ [Next]_vars
      => [\A r \in Requests : event[r] # None =>
              event'[r] # None /\ LifecycleStep(event[r].status, event'[r].status)]_vars
  BY EventSteps DEF EventStep, LifecycleStep
<1> QED
  BY <1>1, AlwaysEventInv, PTL DEF Spec, StatusLifecycle

(* Reserve may trust a stale user; no work starts unless the account is    *)
(* active when validate_interaction commits.                               *)
THEOREM BlocksStopWork == Spec => StartsOnlyActiveAccounts
<1>1. EventInv /\ [Next]_vars
      => [\A r \in Requests :
             event[r] # None /\ event[r].status = "authorized" /\ event'[r] # event[r]
                 => account[event[r].user] = "active"]_vars
  BY EventSteps DEF EventStep
<1> QED
  BY <1>1, AlwaysEventInv, PTL DEF Spec, StartsOnlyActiveAccounts

(* Without a reserve that commits nobody holds a counter, and without a    *)
(* callback that has locked a user nobody makes a commit wait.  Each kind  *)
(* of call is then ordered by its locks: whoever waits, waits for a call   *)
(* further on, and the last one waits for none.                            *)
LEMMA OrderWithoutCommits ==
    ASSUME EventInv, NEW S \in SUBSET Workers, Knot(S), \A w \in S : pc[w] \notin CommitLabels
    PROVE  FALSE
<1>1. \A w \in S : \E v \in S : v # w /\ WaitsFor(w, v)
  BY DEF Knot
<1>2. \A w \in S : pc[w] \notin {"idle", "decide", "complete"}
  BY <1>1 DEF WaitsFor
<1>3. \A w \in S : pc[w] \notin {"usage", "refund"}
  BY <1>1 DEF WaitsFor, HoldsUsage, CommitLabels
<1>4. \A w \in S : pc[w] # "insert"
  BY <1>1, <1>2, <1>3 DEF WaitsFor, HoldsRequest, CommitLabels
<1>5. \A w \in S : pc[w] # "lockApp"
  BY <1>1, <1>3 DEF WaitsFor, HoldsApp, SharesApp, CommitLabels
<1>6. \A w \in S : pc[w] # "lockUser"
  BY <1>1, <1>3, <1>5 DEF WaitsFor, HoldsUser
<1>7. \A w \in S : pc[w] # "lockEvent"
  BY <1>1, <1>2, <1>3, <1>5, <1>6 DEF WaitsFor, HoldsEvent
<1>8. \A w \in S : pc[w] \in Labels
  BY DEF EventInv, TypeInv, CallsOK
<1>9. S = {}
  BY <1>2, <1>3, <1>4, <1>5, <1>6, <1>7, <1>8 DEF Labels, CommitLabels
<1> QED
  BY <1>9 DEF Knot

(* The two orders of locks meet in one place: a reserve at its foreign keys*)
(* and a callback at the application or the counter.                       *)
THEOREM LocksAreOrdered == Spec => []DeadlocksMixCalls
<1>1. EventInv => DeadlocksMixCalls
  <2> SUFFICES ASSUME EventInv, NEW S \in SUBSET Workers, Knot(S)
               PROVE  \E v, w \in S : pc[v] \in CommitLabels /\ pc[w] \in {"lockApp", "refund"}
    BY DEF DeadlocksMixCalls, CommitLabels
  <2>1. PICK v \in S : pc[v] \in CommitLabels
    BY OrderWithoutCommits
  <2>2. PICK w \in S : WaitsFor(v, w)
    BY DEF Knot
  <2>3. pc[w] \in {"lockApp", "refund"}
    BY <2>1, <2>2 DEF WaitsFor, HoldsApp, HoldsUser, CommitLabels
  <2> QED
    BY <2>1, <2>3
<1> QED
  BY <1>1, AlwaysEventInv, PTL

=============================================================================
