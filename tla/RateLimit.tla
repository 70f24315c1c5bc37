----------------------------- MODULE RateLimit -----------------------------
(***************************************************************************)
(* The request limiter, apps/api/rate_limit.py, over the database cache of *)
(* config/settings/production.py, with the checks each view makes.         *)
(*                                                                         *)
(* A check is cache.add() and, when the row is there, cache.incr(), which  *)
(* Django's database cache does not make atomic: a get() and a set() that  *)
(* puts the default timeout.  add() and set() are each a SELECT and then an*)
(* INSERT or an UPDATE, chosen by what the SELECT found.                   *)
(***************************************************************************)
EXTENDS Integers, Sequences

CONSTANTS
    Workers,         \* gunicorn worker processes
    Peers,           \* addresses a request comes from or names as a hop
    TrustedProxies,  \* settings.TRUSTED_PROXY_IPS
    Emails, Users,   \* the other identifiers that are limited
    Scopes,          \* the scopes of the views called
    Limit, Window,   \* calls allowed in a scope, and the seconds they count
    Default,         \* timeout of a cache row set without one: 300 seconds
    MaxTime,         \* bound of the clock
    MaxCalls,        \* bound: checks of a key in one burst
    Evicted,         \* bound: the scopes whose rows are evicted
    None             \* a row or a header that does not exist

Keys == [scope : Scopes, id : Peers \cup Emails \cup (Users \X Peers)]
Rows == [count : Nat \ {0}, expires : Nat]
Times == 0..MaxTime

ASSUME ScopesAssumption == Limit \in [Scopes -> Nat \ {0}] /\ Window \in [Scopes -> Nat \ {0}]
ASSUME TimesAssumption == Default \in Nat \ {0} /\ MaxTime \in Nat /\ MaxCalls \in Nat
ASSUME NoneAssumption == None \notin Rows /\ None \notin Peers

VARIABLES
    cache,   \* accounts_cache by key
    now,     \* the clock, in whole seconds
    pc, tx,  \* the statement a worker is at, and its locals
    burst,   \* history, by key: the checks without a pause longer than Span
    calm     \* history, by key: the calls admitted in a Narrow stretch of time

history == <<burst, calm>>
vars == <<cache, now, pc, tx, history>>

Labels == {"idle", "add", "get", "purge", "set", "write", "admitted", "refused"}

Blank == [todo |-> <<>>, add |-> FALSE, value |-> 1, timeout |-> 1, found |-> "none", expires |-> 0]

Locals == [todo : Seq(Keys), add : BOOLEAN, value : Nat \ {0}, timeout : Nat \ {0},
           found : {"none", "live", "dead"}, expires : Nat]

Key(w) == tx[w].todo[1]
Counting(w, k) == pc[w] \in {"get", "purge", "set", "write"} /\ Key(w) = k

Span(k) == IF Window[k.scope] > Default THEN Window[k.scope] ELSE Default
Narrow(k) == IF Window[k.scope] < Default THEN Window[k.scope] ELSE Default

-----------------------------------------------------------------------------
Init ==
    /\ cache = [k \in Keys |-> None]
    /\ now = 0
    /\ pc = [w \in Workers |-> "idle"]
    /\ tx = [w \in Workers |-> Blank]
    /\ burst = [k \in Keys |-> [size |-> 0, last |-> 0]]
    /\ calm = [k \in Keys |-> [admitted |-> 0, last |-> 0, clean |-> TRUE]]

Goto(w, label, locals) ==
    /\ pc' = [pc EXCEPT ![w] = label]
    /\ tx' = [tx EXCEPT ![w] = locals]

-----------------------------------------------------------------------------
(* What each view checks, in order; a view stops at the first refusal.     *)

(* Only a trusted proxy may name the client, as the last hop.              *)
ClientIp(remote, hop) == IF remote \in TrustedProxies /\ hop # None THEN hop ELSE remote

Check(scope, id) == [scope |-> scope, id |-> id]

Register(ip) == <<Check("register", ip)>>
WebRegister(ip) == <<Check("web-register", ip)>>
VerifyEmail(ip) == <<Check("verify-email", ip)>>
WebVerifyEmail(ip) == <<Check("web-email-verify", ip)>>
Login(ip) == <<Check("login", ip)>>
Reserve(u, ip) == <<Check("reserve", <<u, ip>>)>>
Resend(ip, e) == <<Check("resend-ip", ip), Check("resend-email", e), Check("resend-cooldown", e)>>
WebResend(ip, e) ==
    <<Check("web-resend-ip", ip), Check("web-resend-email", e), Check("web-resend-cooldown", e)>>

Views(ip) ==
    {Register(ip), WebRegister(ip), VerifyEmail(ip), WebVerifyEmail(ip), Login(ip)}
        \cup {Reserve(u, ip) : u \in Users}
        \cup {Resend(ip, e) : e \in Emails} \cup {WebResend(ip, e) : e \in Emails}

(* Showing a form, and the login form of the web, check nothing.           *)
Visit(w) ==
    /\ pc[w] = "idle"
    /\ Goto(w, "admitted", Blank)
    /\ UNCHANGED <<cache, now, history>>

Request(w) ==
    /\ pc[w] = "idle"
    /\ \E remote \in Peers, hop \in Peers \cup {None} :
       \E checks \in Views(ClientIp(remote, hop)) :
          /\ \A i \in 1..Len(checks) : checks[i] \in Keys /\ burst[checks[i]].size < MaxCalls
          /\ Goto(w, "add", [Blank EXCEPT !.todo = checks])
    /\ UNCHANGED <<cache, now, history>>

-----------------------------------------------------------------------------
(* The statements of the cache                                             *)

(* The SELECT of add() and set(), which also reads the clock; only add()   *)
(* looks whether the row has expired.                                      *)
Selected(t, row) ==
    [t EXCEPT !.found = IF row = None THEN "none" ELSE IF row.expires < now THEN "dead" ELSE "live",
              !.expires = now + t.timeout]

(* The history of a check that begins.                                     *)
Begun(w, k) ==
    LET alone == \A v \in Workers \ {w} : ~Counting(v, k)
        c == calm[k] IN
    /\ burst' = IF alone /\ now > burst[k].last + Span(k)
                THEN [burst EXCEPT ![k].size = 0] ELSE burst
    /\ calm' = [calm EXCEPT ![k] =
                   IF now < c.last + Narrow(k)
                   THEN [c EXCEPT !.last = now, !.clean = c.clean /\ alone]
                   ELSE [admitted |-> 0, last |-> now, clean |-> alone]]

SelectAdd(w) ==
    LET k == Key(w) IN
    /\ pc[w] = "add"
    /\ Begun(w, k)
    /\ Goto(w, "write", Selected([tx[w] EXCEPT !.add = TRUE, !.value = 1,
                                               !.timeout = Window[k.scope]], cache[k]))
    /\ UNCHANGED <<cache, now>>

SelectSet(w) ==
    /\ pc[w] = "set"
    /\ Goto(w, "write", Selected(tx[w], cache[Key(w)]))
    /\ UNCHANGED <<cache, now, history>>

(* A row that was found is updated, unless add() found it live: inserting  *)
(* it again is the unique violation that makes add() fail.                 *)
Inserts(t) == t.found = "none" \/ (t.add /\ t.found = "live")

Present(w) == cache[Key(w)] # None

(* An INSERT over a row and an UPDATE of none change nothing, silently.    *)
Stored(w) ==
    LET t == tx[w] IN
    IF Inserts(t) = Present(w) THEN cache
    ELSE [cache EXCEPT ![Key(w)] = [count |-> t.value, expires |-> t.expires]]

AddFails(w) ==
    /\ pc[w] = "write" /\ tx[w].add /\ Inserts(tx[w]) /\ Present(w)
    /\ Goto(w, "get", tx[w])
    /\ UNCHANGED <<cache, now, history>>

ResumesAtZero(w) == Goto(w, "set", [tx[w] EXCEPT !.add = FALSE, !.value = 0,
                                                 !.timeout = Window[Key(w).scope]])
                     \* mutant: cache.set(key, 0)

(* incr(): get() deletes a row that has expired, by its key.  It looks at  *)
(* the clock with its fraction: in the last second it may find either.     *)
Increments(w, row) == Goto(w, "set", [tx[w] EXCEPT !.add = FALSE, !.value = row.count + 1,
                                                   !.timeout = Default])

StartsAgain(w) == Goto(w, "set", [tx[w] EXCEPT !.add = FALSE, !.value = 1,
                                               !.timeout = Window[Key(w).scope]])

Get(w) ==
    LET row == cache[Key(w)] IN
    /\ pc[w] = "get"
    /\ \/ row # None /\ now <= row.expires /\ Increments(w, row)
       \/ row # None /\ row.expires <= now /\ Goto(w, "purge", tx[w])
       \/ row = None /\ StartsAgain(w)
    /\ UNCHANGED <<cache, now, history>>

Purge(w) ==
    /\ pc[w] = "purge"
    /\ cache' = [cache EXCEPT ![Key(w)] = None]
    /\ StartsAgain(w)
    /\ UNCHANGED <<now, history>>

-----------------------------------------------------------------------------
(* The decision                                                            *)

OverEarly(w) == tx[w].value >= Limit[Key(w).scope]      \* mutant: count >= limit

OverLate(w) == tx[w].value > Limit[Key(w).scope] + 1    \* mutant: count - 1 > limit

Over(w) == tx[w].value > Limit[Key(w).scope]

Next1(todo) == IF Len(todo) = 1 THEN "admitted" ELSE "add"

Decided(w) ==
    /\ pc[w] = "write" /\ ~(tx[w].add /\ Inserts(tx[w]) /\ Present(w))
    /\ cache' = Stored(w)
    /\ burst' = [burst EXCEPT ![Key(w)] = [size |-> @.size + 1, last |-> now]]

Pass(w) ==
    /\ Decided(w) /\ ~Over(w)
    /\ calm' = [calm EXCEPT ![Key(w)].admitted = @ + 1]
    /\ Goto(w, Next1(tx[w].todo), [Blank EXCEPT !.todo = Tail(tx[w].todo)])
    /\ UNCHANGED now

Refuse(w) ==
    /\ Decided(w) /\ Over(w)
    /\ Goto(w, "refused", tx[w])
    /\ UNCHANGED <<now, calm>>

-----------------------------------------------------------------------------
(* The view has answered.                                                  *)
Respond(w) ==
    /\ pc[w] \in {"admitted", "refused"}
    /\ Goto(w, "idle", Blank)
    /\ UNCHANGED <<cache, now, history>>

Disturbed(K) == calm' = [k \in Keys |-> [calm[k] EXCEPT !.clean = @ /\ k \notin K]]

(* The worker dies, or the database refuses the statement.                 *)
Abort(w) ==
    /\ pc[w] \in {"add", "get", "purge", "set", "write"}
    /\ Goto(w, "idle", Blank)
    /\ Disturbed({k \in Keys : Counting(w, k)})
    /\ UNCHANGED <<cache, now, burst>>

(* The cache holds 300 rows: a set() of any caller evicts others past them.*)
Cull(k) ==
    /\ k.scope \in Evicted /\ cache[k] # None
    /\ cache' = [cache EXCEPT ![k] = None]
    /\ Disturbed({k})
    /\ UNCHANGED <<now, pc, tx, burst>>

Tick ==
    /\ now < MaxTime
    /\ now' = now + 1
    /\ Disturbed({k \in Keys : \E w \in Workers : Counting(w, k)})
    /\ UNCHANGED <<cache, pc, tx, burst>>

Step(w) ==
    \/ Visit(w) \/ Request(w) \/ SelectAdd(w) \/ SelectSet(w) \/ AddFails(w) \/ Get(w) \/ Purge(w)
    \/ Pass(w) \/ Refuse(w) \/ Respond(w) \/ Abort(w)

Next ==
    \/ \E w \in Workers : Step(w)
    \/ \E k \in Keys : Cull(k)
    \/ Tick

Spec == Init /\ [][Next]_vars

-----------------------------------------------------------------------------
(* Properties                                                              *)

(* Every variable keeps its type; a row that exists counts at least one.   *)
TypeOK ==
    /\ cache \in [Keys -> Rows \cup {None}]
    /\ now \in Times
    /\ pc \in [Workers -> Labels]
    /\ tx \in [Workers -> Locals]
    /\ \A w \in Workers : pc[w] \in {"add", "get", "purge", "set", "write"} => tx[w].todo # <<>>
    /\ burst \in [Keys -> [size : Nat, last : Times]]
    /\ calm \in [Keys -> [admitted : Nat, last : Times, clean : BOOLEAN]]

Refuses(w) == pc[w] = "write" /\ pc'[w] = "refused"

(* Whatever rows are lost, evicted or written over, a caller is refused    *)
(* (rate_limit.py:43) only in a burst of more checks of that key than its  *)
(* limit, none of them Span after the one before: a pause of the window, or*)
(* of the default timeout if that is longer, always ends a refusal.        *)
RefusalNeedsABurst ==
    [][\A w \in Workers : Refuses(w) => burst'[Key(w)].size > Limit[Key(w).scope]]_vars

(* docs/api.md: "limitado por IP": calls that follow one another closer    *)
(* than window and default timeout are admitted up to the limit and no     *)
(* more, if no check overlapped another, lasted past a tick of the clock,  *)
(* died half-way or lost its row to an eviction.                           *)
LoneCallersAreLimited ==
    \A k \in Keys : calm[k].clean => calm[k].admitted <= Limit[k.scope]

(* rate_limit.py:21: "Aplica un limite por IP al ambito indicado y a su    *)
(* ventana temporal": a call is not refused for calls older than its own   *)
(* window, no matter how undisturbed.                                      *)
WindowForgets ==
    [][\A w \in Workers : Refuses(w) /\ calm[Key(w)].clean =>
          now <= burst[Key(w)].last + Window[Key(w).scope]]_vars

=============================================================================
