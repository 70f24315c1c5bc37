---------------------------- MODULE QuotaService ----------------------------
(***************************************************************************)
(* The quota service, apps/usage/services/quota_service.py, as gunicorn    *)
(* workers run it against PostgreSQL at READ COMMITTED.                    *)
(*                                                                         *)
(* A worker serves one call at a time: reserve, validate, complete or fail.*)
(* The call is one database transaction, cut here at the statements that   *)
(* can wait for another transaction and at the reads that can go stale.    *)
(* What a transaction wrote is private (tx) until its commit; the other    *)
(* variables are the committed tables.  Who holds which lock follows from  *)
(* the statement each worker has reached, so there is no lock table.       *)
(***************************************************************************)
EXTENDS Integers, FiniteSets

CONSTANTS
    Users, Apps, Actions, Requests,  \* rows and request_id values
    Workers,        \* gunicorn worker processes
    Limits,         \* daily_interaction_limit values a plan may carry
    AppSettings,    \* the [active, consumes] settings an application may have
    ErrorCodes,     \* error_code values of a failure callback
    Refundable,     \* settings.QUOTA_REFUNDABLE_ERROR_CODES
    MaxDay,         \* bound: the last local day of a behaviour
    Observed,       \* the answers whose history is kept
    None            \* NULL, or a row that does not exist

Days == 0..MaxDay
Accounts == {"active", "blocked", "inactive"}
Claims == [user : Users, app : Apps, action : Actions]
Admitted == {"authorized", "processing", "completed", "failed"}
Rejected == {"rejected_auth", "rejected_quota"}
Status == Admitted \cup Rejected
Events == [user : Users, app : Apps, action : Actions, status : Status]

ASSUME LimitsAssumption == Limits \subseteq Nat /\ Limits # {}
ASSUME SettingsAssumption == AppSettings \subseteq [active : BOOLEAN, consumes : BOOLEAN]
ASSUME RefundableAssumption == Refundable \subseteq ErrorCodes
ASSUME DayAssumption == MaxDay \in Nat
ASSUME RequestsAssumption == IsFiniteSet(Requests)
ASSUME NoneAssumption ==
    /\ None \notin Limits /\ None \notin Nat /\ None \notin AppSettings
    /\ None \notin Accounts /\ None \notin Claims /\ None \notin Events
    /\ None \notin [user : Users, status : Status]    \* nor is it an entry of QuotaLedger

VARIABLES
    account,      \* users_user: is_active and is_blocked, as one of three states
    app,          \* applications_clientapplication: is_active, consumes_quota
    plan,         \* the limit of the plan assigned to a user, None without one
    today,        \* timezone.localdate()
    reservation,  \* usage_interactionreservation by request_id
    event,        \* usage_usageevent by request_id
    usage,        \* usage_dailyusage.interaction_count (an absent row is 0)
    pc, tx,       \* the statement a worker is at, and its uncommitted locals
    charge,       \* history: the day whose counter a request incremented
    refund,       \* history: the day whose counter its failure decremented
    validations,  \* history: how many validations of a request succeeded
    answers       \* history: what callers of reserve and validate were told

tables == <<reservation, event, usage>>
settings == <<account, app, plan, today>>
history == <<charge, refund, validations, answers>>
vars == <<settings, tables, pc, tx, history>>

Answers == {"authorized", "request_id_conflict", "request_in_progress", "request_already_used",
            "account_unavailable", "application_inactive", "plan_not_assigned",
            "daily_quota_exceeded", "reservation_mismatch",
            "validation_unavailable"}        \* the account_unavailable of validate
Labels == {"idle",
           "insert", "decide", "usage", "fkApp", "fkUser",    \* reserve_interaction
           "lockEvent",                                       \* the three callbacks
           "complete",                                        \* complete_interaction
           "lockUser", "lockApp", "refund"}                   \* validate and fail

(* The local state of a call: its arguments, and what it has read so far.  *)
Blank == [op |-> None, rid |-> None, user |-> None, app |-> None, action |-> None, code |-> None,
          account |-> None, setting |-> None, limit |-> None, day |-> None, count |-> 0,
          status |-> None, answer |-> None]

Locals == [op : {"reserve", "validate", "complete", "fail", None},
           rid : Requests \cup {None}, user : Users \cup {None}, app : Apps \cup {None},
           action : Actions \cup {None}, code : ErrorCodes \cup {None},
           account : Accounts \cup {None}, setting : AppSettings \cup {None},
           limit : Limits \cup {None}, day : Days \cup {None}, count : Nat,
           status : Status \cup {None}, answer : Answers \cup {None}]

ClaimOf(r) == [user |-> r.user, app |-> r.app, action |-> r.action]

-----------------------------------------------------------------------------
(* Locks.  A row of reservation or daily usage being inserted is locked    *)
(* through its unique index; the other locks are SELECT ... FOR UPDATE, and*)
(* at COMMIT the deferred foreign keys of the inserted rows take FOR KEY   *)
(* SHARE on the application and then on the user.                          *)

HoldsRequest(w, r) == pc[w] \in {"decide", "usage", "fkApp", "fkUser"} /\ tx[w].rid = r

UnlockedUsage(w, u, d) == FALSE      \* mutant: get() without select_for_update()

UsageLockedFirst(w, u, d) ==         \* mutant: the counter before the reservation
    pc[w] \in {"insert", "decide", "usage", "fkApp", "fkUser"} /\ tx[w].user = u

HoldsUsage(w, u, d) ==
    /\ pc[w] \in {"fkApp", "fkUser"}
    /\ tx[w].status \in {"authorized", "rejected_quota"}
    /\ tx[w].user = u /\ tx[w].day = d

UnlockedEvent(w, r) == FALSE         \* mutant: the event read without FOR UPDATE

HoldsEvent(w, r) == pc[w] \in {"complete", "lockUser", "lockApp", "refund"} /\ tx[w].rid = r

UnlockedUser(w, u) == FALSE          \* mutant: FOR UPDATE OF the event alone

HoldsUser(w, u) == pc[w] \in {"lockApp", "refund"} /\ tx[w].user = u

HoldsApp(w, a) == pc[w] = "refund" /\ tx[w].app = a

SharesApp(w, a) == pc[w] = "fkUser" /\ tx[w].app = a

(* w is at a statement that needs a row v has locked.                      *)
WaitsFor(w, v) ==
    \/ pc[w] = "insert" /\ HoldsRequest(v, tx[w].rid)
    \/ pc[w] \in {"usage", "refund"} /\ HoldsUsage(v, tx[w].user, tx[w].day)
    \/ pc[w] = "fkApp" /\ HoldsApp(v, tx[w].app)
    \/ pc[w] = "fkUser" /\ HoldsUser(v, tx[w].user)
    \/ pc[w] = "lockEvent" /\ HoldsEvent(v, tx[w].rid)
    \/ pc[w] = "lockUser" /\ HoldsUser(v, tx[w].user)
    \/ pc[w] = "lockApp" /\ (HoldsApp(v, tx[w].app) \/ SharesApp(v, tx[w].app))

Unblocked(w) == \A v \in Workers \ {w} : ~WaitsFor(w, v)

(* A set of transactions each of which waits for another one of the set.   *)
Knot(S) == S # {} /\ \A w \in S : \E v \in S \ {w} : WaitsFor(w, v)

(* w is on a cycle of waits: a smallest knot is a cycle.                   *)
OnCycle(w) == \E S \in SUBSET Workers :
                 /\ w \in S /\ Knot(S)
                 /\ \A T \in SUBSET S : Knot(T) => T = S

-----------------------------------------------------------------------------
Init ==
    /\ account \in [Users -> Accounts]
    /\ app \in [Apps -> AppSettings]
    /\ plan \in [Users -> Limits \cup {None}]
    /\ today = 0
    /\ reservation = [r \in Requests |-> None]
    /\ event = [r \in Requests |-> None]
    /\ usage = [u \in Users |-> [d \in Days |-> 0]]
    /\ pc = [w \in Workers |-> "idle"]
    /\ tx = [w \in Workers |-> Blank]
    /\ charge = [r \in Requests |-> None]
    /\ refund = [r \in Requests |-> None]
    /\ validations = [r \in Requests |-> 0]
    /\ answers = [r \in Requests |-> {}]

Goto(w, label, locals) ==
    /\ pc' = [pc EXCEPT ![w] = label]
    /\ tx' = [tx EXCEPT ![w] = locals]

(* The transaction ends, by COMMIT or by ROLLBACK.                         *)
Finish(w) == Goto(w, "idle", Blank)

Answer(w, a) ==
    answers' = [answers EXCEPT ![tx[w].rid] =
                   IF a \in Observed THEN @ \cup {[claim |-> ClaimOf(tx[w]), answer |-> a]} ELSE @]

SetStatus(r, s) == event' = [event EXCEPT ![r].status = s]

-----------------------------------------------------------------------------
(* reserve_interaction                                                     *)

(* The session loads request.user (an inactive one is anonymous) and the   *)
(* serializer loads the application: two reads nobody refreshes later.     *)
Reserve(w, u, a, act, r) ==
    /\ pc[w] = "idle"
    /\ account[u] # "inactive"
    /\ Goto(w, "insert", [Blank EXCEPT !.op = "reserve", !.rid = r, !.user = u, !.app = a,
                                       !.action = act, !.account = account[u],
                                       !.setting = app[a]])
    /\ UNCHANGED <<settings, tables, history>>

CommittedInsert(w) ==                \* mutant: no outer transaction.atomic()
    /\ pc[w] = "insert" /\ Unblocked(w)
    /\ reservation[tx[w].rid] = None
    /\ reservation' = [reservation EXCEPT ![tx[w].rid] = ClaimOf(tx[w])]
    /\ Goto(w, "decide", tx[w])
    /\ UNCHANGED <<settings, event, usage, history>>

InsertReservation(w) ==
    /\ pc[w] = "insert" /\ Unblocked(w)
    /\ reservation[tx[w].rid] = None
    /\ Goto(w, "decide", tx[w])
    /\ UNCHANGED <<settings, tables, history>>

ReplayIgnoresStatus(t) ==            \* mutant: the status test is dropped
    IF reservation[t.rid] # ClaimOf(t) THEN "request_id_conflict" ELSE "authorized"

ReplayIgnoresAction(t) ==            \* mutant: action is not compared
    IF [reservation[t.rid] EXCEPT !.action = t.action] # ClaimOf(t) THEN "request_id_conflict"
    ELSE IF event[t.rid].status # "authorized" THEN "request_already_used"
    ELSE "authorized"

ReplayAnswer(t) ==
    IF reservation[t.rid] # ClaimOf(t) THEN "request_id_conflict"
    ELSE IF event[t.rid] = None THEN "request_in_progress"
    ELSE IF event[t.rid].status # "authorized" THEN "request_already_used"
    ELSE IF t.account # "active" THEN "account_unavailable"
    ELSE IF plan[t.user] = None THEN "plan_not_assigned"
    ELSE "authorized"

(* IntegrityError: the request_id is taken by a committed reservation.     *)
ReplayReservation(w) ==
    /\ pc[w] = "insert" /\ Unblocked(w)
    /\ reservation[tx[w].rid] # None
    /\ Answer(w, ReplayAnswer(tx[w]))
    /\ Finish(w)
    /\ UNCHANGED <<settings, tables, charge, refund, validations>>

RejectAccount(w) ==
    /\ pc[w] = "decide" /\ tx[w].account # "active"
    /\ Goto(w, "fkApp", [tx[w] EXCEPT !.status = "rejected_auth",
                                      !.answer = "account_unavailable"])
    /\ UNCHANGED <<settings, tables, history>>

RejectApplication(w) ==
    /\ pc[w] = "decide" /\ tx[w].account = "active" /\ ~tx[w].setting.active
    /\ plan[tx[w].user] # None
    /\ Goto(w, "fkApp", [tx[w] EXCEPT !.status = "rejected_auth",
                                      !.answer = "application_inactive"])
    /\ UNCHANGED <<settings, tables, history>>

(* _assignment_for raises inside the atomic block, reached directly or     *)
(* through check_quota: reservation and event are rolled back.             *)
PlanNotAssigned(w) ==
    /\ pc[w] = "decide" /\ tx[w].account = "active"
    /\ plan[tx[w].user] = None
    /\ Answer(w, "plan_not_assigned")
    /\ Finish(w)
    /\ UNCHANGED <<settings, tables, charge, refund, validations>>

(* The plan is read without a lock, and _locked_usage takes the date before*)
(* it waits for the row.                                                   *)
ReadPlan(w) ==
    /\ pc[w] = "decide" /\ tx[w].account = "active" /\ tx[w].setting.active
    /\ plan[tx[w].user] # None
    /\ Goto(w, "usage", [tx[w] EXCEPT !.limit = plan[tx[w].user], !.day = today])
    /\ UNCHANGED <<settings, tables, history>>

ExceededLate(t, used) == t.setting.consumes /\ t.limit - used < 0     \* mutant

ExceededEarly(t, used) == t.setting.consumes /\ t.limit - used <= 1   \* mutant

Exceeded(t, used) == t.setting.consumes /\ t.limit - used < 1

LockUsage(w) ==
    LET t == tx[w]
        used == usage[t.user][t.day]
        no == Exceeded(t, used)
    IN  /\ pc[w] = "usage" /\ Unblocked(w)
        /\ Goto(w, "fkApp",
                [t EXCEPT !.count = used,
                          !.status = IF no THEN "rejected_quota" ELSE "authorized",
                          !.answer = IF no THEN "daily_quota_exceeded" ELSE "authorized"])
        /\ UNCHANGED <<settings, tables, history>>

CheckApplicationKey(w) ==
    /\ pc[w] = "fkApp" /\ Unblocked(w)
    /\ Goto(w, "fkUser", tx[w])
    /\ UNCHANGED <<settings, tables, history>>

Charges(t) == t.status = "authorized" /\ t.setting.consumes

(* The last foreign key check and COMMIT: every row becomes visible.       *)
CommitReserve(w) ==
    LET t == tx[w] IN
    /\ pc[w] = "fkUser" /\ Unblocked(w)
    /\ reservation' = [reservation EXCEPT ![t.rid] = ClaimOf(t)]
    /\ event' = [event EXCEPT ![t.rid] = [user |-> t.user, app |-> t.app, action |-> t.action,
                                          status |-> t.status]]
    /\ IF Charges(t)
       THEN /\ usage' = [usage EXCEPT ![t.user][t.day] = t.count + 1]
            /\ charge' = [charge EXCEPT ![t.rid] = t.day]
       ELSE UNCHANGED <<usage, charge>>
    /\ Answer(w, t.answer)
    /\ Finish(w)
    /\ UNCHANGED <<settings, refund, validations>>

-----------------------------------------------------------------------------
(* The internal callbacks of the AI backends.  IsInternalService loads the *)
(* application while it is active; complete and fail answer 404 without a  *)
(* transaction unless the event exists and belongs to it.                  *)

InternalService(a) == app[a].active

OwnEvent(r, a) == event[r] # None /\ event[r].app = a

Validate(w, r, a, act) ==
    /\ pc[w] = "idle" /\ InternalService(a)
    /\ Goto(w, "lockEvent", [Blank EXCEPT !.op = "validate", !.rid = r, !.app = a,
                                          !.action = act])
    /\ UNCHANGED <<settings, tables, history>>

Complete(w, r, a) ==
    /\ pc[w] = "idle" /\ InternalService(a) /\ OwnEvent(r, a)
    /\ Goto(w, "lockEvent", [Blank EXCEPT !.op = "complete", !.rid = r, !.app = a])
    /\ UNCHANGED <<settings, tables, history>>

Fail(w, r, a, c) ==
    /\ pc[w] = "idle" /\ InternalService(a) /\ OwnEvent(r, a)
    /\ Goto(w, "lockEvent", [Blank EXCEPT !.op = "fail", !.rid = r, !.app = a, !.code = c])
    /\ UNCHANGED <<settings, tables, history>>

AwaitEvent(w) == FALSE               \* mutant: no 404, wait for the event to appear

(* FOR UPDATE over the join locks the event, its user and its application, *)
(* in that order.  An event that is not committed yet is not found (404).  *)
EventNotFound(w) ==
    /\ pc[w] = "lockEvent" /\ event[tx[w].rid] = None
    /\ Finish(w)
    /\ UNCHANGED <<settings, tables, history>>

Mismatch(t, e) == t.op = "validate" /\ (e.app # t.app \/ e.action # t.action)

(* The row is read as it is locked.  From here on user and app are those of*)
(* the event; a mismatch is reported once all three rows are locked, but   *)
(* what it compares never changes.                                         *)
LockEvent(w) ==
    LET t == tx[w]
        e == event[t.rid]
    IN  /\ pc[w] = "lockEvent" /\ e # None /\ Unblocked(w)
        /\ Goto(w, IF t.op = "complete" THEN "complete" ELSE "lockUser",
                [t EXCEPT !.user = e.user, !.app = e.app, !.status = e.status,
                          !.answer = IF Mismatch(t, e) THEN "reservation_mismatch" ELSE None])
        /\ UNCHANGED <<settings, tables, history>>

AnyOpen(t) == t.status \in {"authorized", "processing"}   \* mutant: unvalidated too

(* complete and fail act on an event in process and ignore any other.      *)
InProcess(t) == t.status = "processing"

CommitComplete(w) ==
    /\ pc[w] = "complete"
    /\ IF InProcess(tx[w]) THEN SetStatus(tx[w].rid, "completed") ELSE UNCHANGED event
    /\ Finish(w)
    /\ UNCHANGED <<settings, reservation, usage, history>>

LockUser(w) ==
    /\ pc[w] = "lockUser" /\ Unblocked(w)
    /\ Goto(w, "lockApp", [tx[w] EXCEPT !.account = account[tx[w].user]])
    /\ UNCHANGED <<settings, tables, history>>

(* The account was read again under its lock.  application is the object   *)
(* that IsInternalService loaded active: its is_active test cannot fail.   *)
Validates(t) ==
    t.answer # "reservation_mismatch" /\ t.status = "authorized" /\ t.account = "active"

Unavailable(t) ==
    t.answer # "reservation_mismatch" /\ t.status = "authorized" /\ t.account # "active"

(* Each refusal is an exception inside the transaction: it writes nothing. *)
CommitValidate(w) ==
    LET t == tx[w] IN
    /\ pc[w] = "lockApp" /\ t.op = "validate" /\ Unblocked(w)
    /\ IF Validates(t)
       THEN /\ SetStatus(t.rid, "processing")
            /\ validations' = [validations EXCEPT ![t.rid] = @ + 1]
       ELSE UNCHANGED <<event, validations>>
    /\ IF Unavailable(t) THEN Answer(w, "validation_unavailable") ELSE UNCHANGED answers
    /\ Finish(w)
    /\ UNCHANGED <<settings, reservation, usage, charge, refund>>

(* consumes_quota is the setting of today, read under the row's lock.      *)
RefundDue(t) == app[t.app].consumes /\ t.code \in Refundable

(* fail_interaction with all three rows locked: nothing to do, a failure   *)
(* that keeps its charge, or one whose refund needs the counter of the     *)
(* current date, for which it may have to wait with the three rows locked. *)
FailIgnored(w) ==
    /\ pc[w] = "lockApp" /\ tx[w].op = "fail" /\ Unblocked(w)
    /\ ~InProcess(tx[w])
    /\ Finish(w)
    /\ UNCHANGED <<settings, tables, history>>

CommitFail(w) ==
    /\ pc[w] = "lockApp" /\ tx[w].op = "fail" /\ Unblocked(w)
    /\ InProcess(tx[w]) /\ ~RefundDue(tx[w])
    /\ SetStatus(tx[w].rid, "failed")
    /\ Finish(w)
    /\ UNCHANGED <<settings, reservation, usage, history>>

StartRefund(w) ==
    /\ pc[w] = "lockApp" /\ tx[w].op = "fail" /\ Unblocked(w)
    /\ InProcess(tx[w]) /\ RefundDue(tx[w])
    /\ Goto(w, "refund", [tx[w] EXCEPT !.day = today])
    /\ UNCHANGED <<settings, tables, history>>

AlwaysCredits(used) == TRUE          \* mutant: `if usage.interaction_count` is dropped

Credits(used) == used > 0

CommitRefund(w) ==
    LET t == tx[w]
        used == usage[t.user][t.day]
    IN  /\ pc[w] = "refund" /\ Unblocked(w)
        /\ SetStatus(t.rid, "failed")
        /\ IF Credits(used)
           THEN /\ usage' = [usage EXCEPT ![t.user][t.day] = used - 1]
                /\ refund' = [refund EXCEPT ![t.rid] = t.day]
           ELSE UNCHANGED <<usage, refund>>
        /\ Finish(w)
        /\ UNCHANGED <<settings, reservation, charge, validations, answers>>

-----------------------------------------------------------------------------
(* A worker dies, its connection drops or a statement fails before COMMIT: *)
(* PostgreSQL rolls the transaction back.                                  *)
Abort(w) ==
    /\ pc[w] # "idle"
    /\ Finish(w)
    /\ UNCHANGED <<settings, tables, history>>

(* The deadlock detector rolls back a transaction on a cycle of waits.     *)
BreakDeadlock(w) ==
    /\ OnCycle(w)
    /\ Finish(w)
    /\ UNCHANGED <<settings, tables, history>>

(* Administrators.  An UPDATE waits for a row locked FOR UPDATE, not for   *)
(* one locked FOR KEY SHARE.                                               *)
SetAccount(u, s) ==
    /\ account[u] # s
    /\ \A w \in Workers : ~HoldsUser(w, u)
    /\ account' = [account EXCEPT ![u] = s]
    /\ UNCHANGED <<app, plan, today, tables, pc, tx, history>>

SetApplication(a, s) ==
    /\ app[a] # s
    /\ \A w \in Workers : ~HoldsApp(w, a)
    /\ app' = [app EXCEPT ![a] = s]
    /\ UNCHANGED <<account, plan, today, tables, pc, tx, history>>

SetPlan(u, l) ==
    /\ plan[u] # l
    /\ plan' = [plan EXCEPT ![u] = l]
    /\ UNCHANGED <<account, app, today, tables, pc, tx, history>>

NextDay ==
    /\ today < MaxDay
    /\ today' = today + 1
    /\ UNCHANGED <<account, app, plan, tables, pc, tx, history>>

-----------------------------------------------------------------------------
ReserveStep(w) ==
    \/ InsertReservation(w) \/ ReplayReservation(w)
    \/ RejectAccount(w) \/ RejectApplication(w) \/ PlanNotAssigned(w)
    \/ ReadPlan(w) \/ LockUsage(w) \/ CheckApplicationKey(w) \/ CommitReserve(w)

CallbackStep(w) ==
    \/ EventNotFound(w) \/ LockEvent(w) \/ LockUser(w)
    \/ CommitValidate(w) \/ CommitComplete(w)
    \/ FailIgnored(w) \/ CommitFail(w) \/ StartRefund(w) \/ CommitRefund(w)

Step(w) == ReserveStep(w) \/ CallbackStep(w)

Call(w) ==
    \E r \in Requests, a \in Apps :
        \/ \E u \in Users, act \in Actions : Reserve(w, u, a, act, r)
        \/ \E act \in Actions : Validate(w, r, a, act)
        \/ Complete(w, r, a)
        \/ \E c \in ErrorCodes : Fail(w, r, a, c)

Administer ==
    \/ \E u \in Users : \/ \E s \in Accounts : SetAccount(u, s)
                        \/ \E l \in Limits : SetPlan(u, l)
    \/ \E a \in Apps, s \in AppSettings : SetApplication(a, s)

Next ==
    \/ \E w \in Workers : Call(w) \/ Step(w) \/ Abort(w) \/ BreakDeadlock(w)
    \/ Administer
    \/ NextDay

Spec == Init /\ [][Next]_vars

(* A worker keeps executing its call, PostgreSQL serves the waiters of a   *)
(* row in turn (strong fairness) and its deadlock detector keeps running.  *)
Fairness == \A w \in Workers : SF_vars(Step(w)) /\ WF_vars(BreakDeadlock(w))

FairSpec == Spec /\ Fairness

-----------------------------------------------------------------------------
(* Properties                                                              *)

(* Every variable keeps its type: columns, locals of the calls, history.   *)
TypeOK ==
    /\ account \in [Users -> Accounts]
    /\ app \in [Apps -> AppSettings]
    /\ plan \in [Users -> Limits \cup {None}]
    /\ today \in Days
    /\ reservation \in [Requests -> Claims \cup {None}]
    /\ event \in [Requests -> Events \cup {None}]
    /\ usage \in [Users -> [Days -> Nat]]
    /\ pc \in [Workers -> Labels]
    /\ tx \in [Workers -> Locals]
    /\ charge \in [Requests -> Days \cup {None}]
    /\ refund \in [Requests -> Days \cup {None}]
    /\ validations \in [Requests -> Nat]
    /\ answers \in [Requests -> SUBSET [claim : Claims, answer : Answers]]

Of(u, column, d) == {r \in Requests : column[r] = d /\ event[r].user = u}

(* No update of the counter is lost or made twice: in every committed state*)
(* a DailyUsage row counts the requests charged to that user and day, less *)
(* the failures that gave a unit of that day back.                         *)
CounterMatchesLedger ==
    \A u \in Users, d \in Days :
        usage[u][d] = Cardinality(Of(u, charge, d)) - Cardinality(Of(u, refund, d))

(* Reserves that race for the last unit never take the counter past a limit*)
(* some plan carries, however they, the refunds and plan changes interleave.*)
NeverPastLimit == \A u \in Users, d \in Days : \E l \in Limits : usage[u][d] <= l

(* Idempotence guard and audit trail agree: a committed reservation has its*)
(* event, with the same user, application and action, and no event exists  *)
(* without one.  So request_in_progress is never answered.                 *)
ReservationHasItsEvent ==
    \A r \in Requests :
        /\ reservation[r] = None <=> event[r] = None
        /\ reservation[r] # None => reservation[r] = ClaimOf(event[r])
        /\ \A x \in answers[r] : x.answer # "request_in_progress"

(* complete, fail and validate race on one event: its status only moves    *)
(* along authorized, processing, then one final outcome, never back.  The  *)
(* diagram of Arquitectura.md draws authorized --> rejected_auth besides: no*)
(* code takes it, see RefusedWorkIsRejected.                               *)
LifecycleStep(s, t) ==
    \/ s = t
    \/ s = "authorized" /\ t = "processing"
    \/ s = "processing" /\ t \in {"completed", "failed"}

StatusLifecycle ==
    [][\A r \in Requests : event[r] # None =>
            event'[r] # None /\ LifecycleStep(event[r].status, event'[r].status)]_vars

(* "Valida una reserva una unica vez": two backends, or a retry, never both*)
(* get a positive validation of one request, and work that was validated   *)
(* is work that was reserved.                                              *)
ValidatedOnce ==
    \A r \in Requests :
        /\ validations[r] <= 1
        /\ validations[r] = 1 <=>
               event[r] # None /\ event[r].status \in {"processing", "completed", "failed"}

(* The gate that makes a block effective: reserve may work with a stale    *)
(* user, but no work starts for an account that is not active when the     *)
(* validation commits.                                                     *)
StartsOnlyActiveAccounts ==
    [][\A r \in Requests :
          event[r] # None /\ event[r].status = "authorized" /\ event'[r] # event[r]
              => account[event[r].user] = "active"]_vars

(* No application ever stops consuming quota.                              *)
ConsumesAlways == \A s \in AppSettings : s.consumes

(* Whoever was told authorized owns an admitted event for exactly that     *)
(* user, application and action, also after retries, conflicting           *)
(* request_ids, aborts and crashes; and where every application consumes   *)
(* quota, that request is charged to a day: no answer is free.             *)
AnswersAreHonest ==
    \A r \in Requests : \A x \in answers[r] :
        x.answer = "authorized" =>
            /\ event[r] # None /\ event[r].status \in Admitted
            /\ ClaimOf(event[r]) = x.claim
            /\ ConsumesAlways => charge[r] # None

(* A request_id refused for lack of quota is never authorized later: the   *)
(* client must come back with a new one.                                   *)
RefusalIsFinal ==
    \A r \in Requests :
        ~ \E x, y \in answers[r] :
            x.answer = "daily_quota_exceeded" /\ y.answer = "authorized"

(* Reserves take their locks in one order (request_id, counter, foreign    *)
(* keys), callbacks in another (event, user, application, counter): neither*)
(* deadlock among themselves.  A deadlock always has a reserve that commits*)
(* and a callback that has locked a user.                                  *)
DeadlocksMixCalls ==
    \A S \in SUBSET Workers : Knot(S) =>
        \E v, w \in S : pc[v] \in {"fkApp", "fkUser"} /\ pc[w] \in {"lockApp", "refund"}

(* The counter, the locks and the transactions implement the ledger of     *)
(* QuotaLedger: every commit is one of its steps, everything else stutters.*)
Ledger == INSTANCE QuotaLedger WITH
    entry <- [r \in Requests |->
                IF event[r] = None THEN None
                ELSE [user |-> event[r].user, status |-> event[r].status]]

ImplementsLedger == Ledger!Spec

(* docs/quota-policy.md: "Un fallo before_processing reembolsa una reserva":*)
(* what a refund gives back is the unit its reservation took.              *)
RefundReturnsTheUnit ==
    \A r \in Requests : refund[r] # None => refund[r] = charge[r]

(* src/Arquitectura.md draws authorized --> rejected_auth, "cuenta o        *)
(* aplicacion no valida": work that validate refuses because the account is*)
(* not available becomes a rejected event.                                 *)
RefusedWorkIsRejected ==
    \A r \in Requests : \A x \in answers[r] :
        x.answer = "validation_unavailable" => event[r].status = "rejected_auth"

(* Every call ends, although callbacks and reserves can deadlock.          *)
CallsEnd == \A w \in Workers : pc[w] # "idle" ~> pc[w] = "idle"

=============================================================================
