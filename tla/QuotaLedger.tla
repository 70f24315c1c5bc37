----------------------------- MODULE QuotaLedger -----------------------------
(***************************************************************************)
(* What the quota service promises, without counters, locks, transactions  *)
(* or workers: a ledger of requests, each decided once.  A user's spending *)
(* on a day is read off the ledger itself; the counter of DailyUsage is a  *)
(* way of not having to.                                                   *)
(***************************************************************************)
EXTENDS Integers, FiniteSets

CONSTANTS Users, Requests, Limits, MaxDay, None

VARIABLES
    entry,   \* what was decided of a request: whose it is and where it stands
    charge,  \* the day a request is charged to, None for no day
    refund   \* the day its failure was credited to, None for no day

vars == <<entry, charge, refund>>

Days == 0..MaxDay
Entries == [user : Users,
            status : {"authorized", "processing", "completed", "failed",
                      "rejected_auth", "rejected_quota"}]

Spent(u, d) ==
    Cardinality({r \in Requests : charge[r] = d /\ entry[r].user = u})
        - Cardinality({r \in Requests : refund[r] = d /\ entry[r].user = u})

Init ==
    /\ entry = [r \in Requests |-> None]
    /\ charge = [r \in Requests |-> None]
    /\ refund = [r \in Requests |-> None]

Decide(r, u, s) ==
    /\ entry[r] = None
    /\ entry' = [entry EXCEPT ![r] = [user |-> u, status |-> s]]

Move(r, from, to) ==
    /\ entry[r] # None /\ entry[r].status = from
    /\ entry' = [entry EXCEPT ![r].status = to]

(* One unit is taken while some plan still leaves one.                     *)
Admit(r, u, d) ==
    /\ Decide(r, u, "authorized")
    /\ \E l \in Limits : Spent(u, d) < l
    /\ charge' = [charge EXCEPT ![r] = d]
    /\ UNCHANGED refund

(* An application that does not consume quota.                             *)
AdmitFree(r, u) == Decide(r, u, "authorized") /\ UNCHANGED <<charge, refund>>

(* No request is refused for lack of quota while every plan has some left. *)
Refuse(r, u, d) ==
    /\ Decide(r, u, "rejected_quota")
    /\ \E l \in Limits : Spent(u, d) >= l
    /\ UNCHANGED <<charge, refund>>

RefuseAccess(r, u) == Decide(r, u, "rejected_auth") /\ UNCHANGED <<charge, refund>>

Start(r) == Move(r, "authorized", "processing") /\ UNCHANGED <<charge, refund>>
Complete(r) == Move(r, "processing", "completed") /\ UNCHANGED <<charge, refund>>
Fail(r) == Move(r, "processing", "failed") /\ UNCHANGED <<charge, refund>>

(* A failure credits its own user, on a day that has something to credit.  *)
FailAndRefund(r, d) ==
    /\ Move(r, "processing", "failed")
    /\ Spent(entry[r].user, d) > 0
    /\ refund' = [refund EXCEPT ![r] = d]
    /\ UNCHANGED charge

Next ==
    \E r \in Requests :
        \/ \E u \in Users :
              \/ AdmitFree(r, u) \/ RefuseAccess(r, u)
              \/ \E d \in Days : Admit(r, u, d) \/ Refuse(r, u, d)
        \/ Start(r) \/ Complete(r) \/ Fail(r)
        \/ \E d \in Days : FailAndRefund(r, d)

Spec == Init /\ [][Next]_vars

=============================================================================
