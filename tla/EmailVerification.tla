------------------------- MODULE EmailVerification -------------------------
(***************************************************************************)
(* Registration, the code that verifies an e-mail address, login and       *)
(* logout, and the pages that change an account: apps/authentication with  *)
(* its callers in apps/api/views.py, apps/dashboard/views.py and           *)
(* apps/users/admin.py.  Users are those without access to the admin.      *)
(*                                                                         *)
(* Every statement commits on its own, but for two transactions that lock  *)
(* the challenge row of a user: _save_challenge and the check of a code.   *)
(* A view works with the user it loaded when the request began.            *)
(***************************************************************************)
EXTENDS Integers, FiniteSets

CONSTANTS
    Users, Emails, Workers,
    MaxCodes,      \* bound: codes are numbered as they are drawn, from 1
    MaxAttempts,   \* settings.EMAIL_VERIFICATION_MAX_ATTEMPTS
    Ttl,           \* settings.EMAIL_VERIFICATION_CODE_TTL_SECONDS
    MaxTime,       \* bound of the clock
    MaxEdits,      \* bound: what administrators do
    None           \* a row that does not exist

Codes == 1..MaxCodes
Typed == 0..MaxCodes               \* 0 is any code that was never drawn
Times == 0..MaxTime
Accounts == [email : Emails, verified : BOOLEAN, active : BOOLEAN, blocked : BOOLEAN]
Challenges == [code : Codes, expires : Nat, attempts : 0..MaxAttempts, consumed : BOOLEAN]

ASSUME BoundsAssumption ==
    MaxCodes \in Nat /\ MaxTime \in Nat /\ MaxEdits \in Nat /\ Ttl \in Nat \ {0}
ASSUME AttemptsAssumption == MaxAttempts \in Nat \ {0}
ASSUME NoneAssumption ==
    /\ None \notin Accounts /\ None \notin Challenges /\ None \notin Codes
    /\ None \notin Users /\ None \notin Emails

VARIABLES
    user,       \* users_user: the columns these flows read or write
    challenge,  \* authentication_emailverificationchallenge, by user
    inbox,      \* the codes delivered to an address
    session,    \* users with a session on some device
    issued,     \* the number of codes drawn so far
    now,        \* timezone.now()
    edits,      \* the number of edits by administrators so far
    pc, tx,     \* the statement a worker is at, and its locals
    tries,      \* history: how often a code was compared with a typed one
    uses,       \* history: how often a code verified an account
    decided,    \* history: whether administrators last blocked a user
    proved,     \* history: users who used a code
    vouched     \* history: users whose address administrators marked verified

rows == <<user, challenge>>
history == <<tries, uses, decided, proved, vouched>>
vars == <<rows, inbox, session, issued, now, edits, pc, tx, history>>

Labels == {"idle", "save", "mail",      \* send_email_verification_code
           "lock", "check",             \* verify_email_code
           "login",                     \* login(), after a code or a password
           "account"}                   \* account

Blank == [user |-> None, email |-> None, code |-> 0, time |-> 0, row |-> None]

Locals == [user : Users \cup {None}, email : Emails \cup {None}, code : Typed, time : Times,
           row : Challenges \cup Accounts \cup {None}]

-----------------------------------------------------------------------------
Init ==
    /\ user = [u \in Users |-> None]
    /\ challenge = [u \in Users |-> None]
    /\ inbox = [e \in Emails |-> {}]
    /\ session = {}
    /\ issued = 0
    /\ now = 0
    /\ edits = 0
    /\ pc = [w \in Workers |-> "idle"]
    /\ tx = [w \in Workers |-> Blank]
    /\ tries = [c \in Codes |-> 0]
    /\ uses = [c \in Codes |-> 0]
    /\ decided = [u \in Users |-> FALSE]
    /\ proved = {}
    /\ vouched = {}

Goto(w, label, locals) ==
    /\ pc' = [pc EXCEPT ![w] = label]
    /\ tx' = [tx EXCEPT ![w] = locals]

Finish(w) == Goto(w, "idle", Blank)

UnlockedChallenge(w, u) == FALSE   \* mutant: filter(user=user) without select_for_update()

(* verify_email_code holds the row it read until the commit.               *)
HoldsChallenge(w, u) == pc[w] = "check" /\ tx[w].row # None /\ tx[w].user = u

RowFree(w) == \A v \in Workers \ {w} : ~HoldsChallenge(v, tx[w].user)

(* email is unique, in the form and in the table.                          *)
EmailFree(u, e) == \A v \in Users \ {u} : user[v] # None => user[v].email # e

(* The account resend and verify look up.                                  *)
Pending(u, e) ==
    /\ user[u] # None /\ user[u].email = e
    /\ user[u].active /\ ~user[u].blocked /\ ~user[u].verified

-----------------------------------------------------------------------------
(* send_email_verification_code                                            *)

(* A code is drawn, and the clock read, before the row is waited for.  The *)
(* message goes to the address of the user as it was loaded.               *)
StartSend(w, u, e) ==
    /\ issued < MaxCodes
    /\ issued' = issued + 1
    /\ Goto(w, "save", [Blank EXCEPT !.user = u, !.email = e, !.code = issued + 1, !.time = now])

SaveChallenge(w) ==
    LET t == tx[w] IN
    /\ pc[w] = "save" /\ RowFree(w)
    /\ challenge' = [challenge EXCEPT ![t.user] =
                        [code |-> t.code, expires |-> t.time + Ttl,
                         attempts |-> 0, consumed |-> FALSE]]
    /\ Goto(w, "mail", [Blank EXCEPT !.email = t.email, !.code = t.code])
    /\ UNCHANGED <<user, inbox, session, issued, now, edits, history>>

Deliver(w) ==
    /\ pc[w] = "mail"
    /\ inbox' = [inbox EXCEPT ![tx[w].email] = @ \cup {tx[w].code}]
    /\ Finish(w)
    /\ UNCHANGED <<rows, session, issued, now, edits, history>>

NewAccount(e) == [email |-> e, verified |-> FALSE, active |-> TRUE, blocked |-> FALSE]

Register(w, u, e) ==
    /\ pc[w] = "idle"
    /\ user[u] = None /\ EmailFree(u, e)
    /\ user' = [user EXCEPT ![u] = NewAccount(e)]
    /\ StartSend(w, u, e)
    /\ UNCHANGED <<challenge, inbox, session, now, edits, history>>

Resend(w, u, e) ==
    /\ pc[w] = "idle" /\ Pending(u, e)
    /\ StartSend(w, u, e)
    /\ UNCHANGED <<rows, inbox, session, now, edits, history>>

-----------------------------------------------------------------------------
(* verify_email_code                                                       *)

(* People type a code some mailbox received, or another one.               *)
Known == {0} \cup UNION {inbox[e] : e \in Emails}

Verify(w, u, e, c) ==
    /\ pc[w] = "idle" /\ Pending(u, e)
    /\ Goto(w, "lock", [Blank EXCEPT !.user = u, !.code = c, !.time = now])
    /\ UNCHANGED <<rows, inbox, session, issued, now, edits, history>>

LockChallenge(w) ==
    /\ pc[w] = "lock" /\ RowFree(w)
    /\ Goto(w, "check", [tx[w] EXCEPT !.row = challenge[tx[w].user]])
    /\ UNCHANGED <<rows, inbox, session, issued, now, edits, history>>

UsableTwice(t) ==                  \* mutant: consumed_at is not looked at
    t.row # None /\ t.time < t.row.expires /\ t.row.attempts < MaxAttempts

UsableLate(t) ==                   \* mutant: attempts > max_attempts
    t.row # None /\ ~t.row.consumed /\ t.time < t.row.expires /\ t.row.attempts <= MaxAttempts

Usable(t) ==
    t.row # None /\ ~t.row.consumed /\ t.time < t.row.expires /\ t.row.attempts < MaxAttempts

Compared(t) == tries' = [tries EXCEPT ![t.row.code] = @ + 1]

RejectChallenge(w) ==
    /\ pc[w] = "check" /\ ~Usable(tx[w])
    /\ Finish(w)
    /\ UNCHANGED <<rows, inbox, session, issued, now, edits, history>>

WrongCode(w) ==
    LET t == tx[w] IN
    /\ pc[w] = "check" /\ Usable(t) /\ t.code # t.row.code
    /\ challenge' = [challenge EXCEPT ![t.user].attempts = t.row.attempts + 1]
    /\ Compared(t)
    /\ Finish(w)
    /\ UNCHANGED <<user, inbox, session, issued, now, edits, uses, decided, proved, vouched>>

(* Challenge and user are saved in one transaction, each in the columns it *)
(* changes; the view then logs the user in, whatever happened meanwhile.   *)
RightCode(w) ==
    LET t == tx[w] IN
    /\ pc[w] = "check" /\ Usable(t) /\ t.code = t.row.code
    /\ challenge' = [challenge EXCEPT ![t.user].attempts = t.row.attempts + 1,
                                      ![t.user].consumed = TRUE]
    /\ user' = [user EXCEPT ![t.user].verified = TRUE]
    /\ Compared(t)
    /\ uses' = [uses EXCEPT ![t.code] = @ + 1]
    /\ proved' = proved \cup {t.user}
    /\ Goto(w, "login", [Blank EXCEPT !.user = t.user])
    /\ UNCHANGED <<inbox, session, issued, now, edits, decided, vouched>>

-----------------------------------------------------------------------------
(* Login and logout                                                        *)

AnyAccount(u) ==                   \* mutant: email_verified is not looked at
    user[u] # None /\ user[u].active /\ ~user[u].blocked

MayLogIn(u) ==
    user[u] # None /\ user[u].active /\ ~user[u].blocked /\ user[u].verified

(* The backend finds the user by name or address, with the right password. *)
Authenticate(w, u) ==
    /\ pc[w] = "idle" /\ MayLogIn(u)
    /\ Goto(w, "login", [Blank EXCEPT !.user = u])
    /\ UNCHANGED <<rows, inbox, session, issued, now, edits, history>>

(* A wrong password and an account that may not log in look the same.      *)
TurnAway(w) == pc[w] = "idle" /\ UNCHANGED vars

Login(w) ==
    /\ pc[w] = "login"
    /\ session' = session \cup {tx[w].user}
    /\ Finish(w)
    /\ UNCHANGED <<rows, inbox, issued, now, edits, history>>

(* A session loads its user, who need only be active.                      *)
Authenticated(u) == u \in session /\ user[u].active

(* Only this session is closed: the user may have another.                 *)
Closes(u) == session' \in {session, session \ {u}}

Logout(u) ==
    /\ Authenticated(u)
    /\ Closes(u)
    /\ UNCHANGED <<rows, inbox, issued, now, edits, pc, tx, history>>

-----------------------------------------------------------------------------
(* account: save() writes every column of the user the session loaded.     *)

LoadAccount(w, u) ==
    /\ pc[w] = "idle" /\ Authenticated(u)
    /\ Goto(w, "account", [Blank EXCEPT !.user = u, !.row = user[u]])
    /\ UNCHANGED <<rows, inbox, session, issued, now, edits, history>>

SaveNames(w) ==
    LET t == tx[w] IN
    /\ pc[w] = "account" /\ EmailFree(t.user, t.row.email)
    /\ user' = [user EXCEPT ![t.user] = t.row]
    /\ Finish(w)
    /\ UNCHANGED <<challenge, inbox, session, issued, now, edits, history>>

ChangeEmail(w, e) ==
    LET t == tx[w] IN
    /\ pc[w] = "account" /\ e # t.row.email /\ EmailFree(t.user, e)
    /\ user' = [user EXCEPT ![t.user] = [t.row EXCEPT !.email = e, !.verified = FALSE]]
    /\ Closes(t.user)
    /\ StartSend(w, t.user, e)
    /\ UNCHANGED <<challenge, inbox, now, edits, history>>

DeleteAccount(u) ==
    /\ Authenticated(u)
    /\ user' = [user EXCEPT ![u].active = FALSE]
    /\ Closes(u)
    /\ UNCHANGED <<challenge, inbox, issued, now, edits, pc, tx, history>>

-----------------------------------------------------------------------------
(* The worker dies, the message is not delivered, or an address was taken  *)
(* meanwhile: what was committed stays.                                    *)
Abort(w) ==
    /\ pc[w] # "idle"
    /\ Finish(w)
    /\ UNCHANGED <<rows, inbox, session, issued, now, edits, history>>

Edits == edits < MaxEdits /\ edits' = edits + 1

(* The bulk actions of CustomUserAdmin.                                    *)
SetBlocked(u, b) ==
    /\ Edits
    /\ user[u] # None /\ user[u].blocked # b
    /\ user' = [user EXCEPT ![u].blocked = b]
    /\ decided' = [decided EXCEPT ![u] = b]
    /\ UNCHANGED <<challenge, inbox, session, issued, now, pc, tx, tries, uses, proved, vouched>>

SetActive(u, b) ==
    /\ Edits
    /\ user[u] # None /\ user[u].active # b
    /\ user' = [user EXCEPT ![u].active = b]
    /\ UNCHANGED <<challenge, inbox, session, issued, now, pc, tx, history>>

(* The page of CustomUserAdmin writes the address and every flag as its    *)
(* form posted them.                                                       *)
SaveUser(u, a) ==
    /\ Edits
    /\ user[u] # None /\ EmailFree(u, a.email)
    /\ user' = [user EXCEPT ![u] = a]
    /\ decided' = [decided EXCEPT ![u] = a.blocked]
    /\ vouched' = IF a.verified THEN vouched \cup {u} ELSE vouched
    /\ UNCHANGED <<challenge, inbox, session, issued, now, pc, tx, tries, uses, proved>>

Tick ==
    /\ now < MaxTime
    /\ now' = now + 1
    /\ UNCHANGED <<rows, inbox, session, issued, edits, pc, tx, history>>

Step(w) ==
    \/ SaveChallenge(w) \/ Deliver(w)
    \/ LockChallenge(w) \/ RejectChallenge(w) \/ WrongCode(w) \/ RightCode(w) \/ Login(w)
    \/ SaveNames(w) \/ \E e \in Emails : ChangeEmail(w, e)

Call(w) ==
    \/ TurnAway(w)
    \/ \E u \in Users :
          \/ Authenticate(w, u) \/ LoadAccount(w, u)
          \/ \E e \in Emails : \/ Register(w, u, e) \/ Resend(w, u, e)
                               \/ \E c \in Known : Verify(w, u, e, c)

Administer ==
    \E u \in Users :
        \/ \E b \in BOOLEAN : SetBlocked(u, b) \/ SetActive(u, b)
        \/ \E a \in Accounts : SaveUser(u, a)

Next ==
    \/ \E w \in Workers : Call(w) \/ Step(w) \/ Abort(w)
    \/ \E u \in Users : Logout(u) \/ DeleteAccount(u)
    \/ Administer
    \/ Tick

Spec == Init /\ [][Next]_vars

-----------------------------------------------------------------------------
(* Properties                                                              *)

(* Every variable keeps its type; attempts never pass their maximum and no *)
(* two accounts have one address.                                          *)
TypeOK ==
    /\ user \in [Users -> Accounts \cup {None}]
    /\ \A u \in Users : user[u] # None => EmailFree(u, user[u].email)
    /\ challenge \in [Users -> Challenges \cup {None}]
    /\ inbox \in [Emails -> SUBSET Codes]
    /\ session \in SUBSET {u \in Users : user[u] # None}
    /\ issued \in Typed
    /\ now \in Times
    /\ edits \in 0..MaxEdits
    /\ pc \in [Workers -> Labels]
    /\ tx \in [Workers -> Locals]
    /\ tries \in [Codes -> Nat]
    /\ uses \in [Codes -> Nat]
    /\ decided \in [Users -> BOOLEAN]
    /\ proved \in SUBSET Users /\ vouched \in SUBSET Users

(* README.md: "codigos de un solo uso": a code verifies at most once, also *)
(* for calls in parallel and for an address that must be verified again.   *)
CodeUsedOnce == \A c \in Codes : uses[c] <= 1

(* docs/api.md: "solo se pueden intentar 5 veces": however many calls try  *)
(* at once, a code is compared at most MaxAttempts times.                  *)
AttemptsBounded == \A c \in Codes : tries[c] <= MaxAttempts

(* docs/api.md: "un reenvio invalida el anterior": a code verifies only    *)
(* while it is the code of the user's challenge.                           *)
ResendInvalidates ==
    [][\A c \in Codes : uses'[c] # uses[c] =>
          \E u \in Users : challenge[u] # None /\ challenge[u].code = c /\ user'[u].verified]_vars

(* docs/api.md: registration "crea la cuenta sin iniciar sesion": whoever  *)
(* has a session used a code once, or an administrator verified the account*)
(* - also after changes of address, stale saves and logins in between.     *)
SessionsAreEarned == session \subseteq proved \cup vouched

(* The lock, the clock, the pages and the crashes come to what CodeAccess  *)
(* says: a code counts as issued when its challenge is saved, and is lost  *)
(* when the worker that drew it is.                                        *)
CurrentCode == [u \in Users |-> IF challenge[u] = None THEN None ELSE challenge[u].code]
ClosedCodes == {c \in Codes : c <= issued /\ \A w \in Workers : pc[w] = "save" => tx[w].code # c}
UsedCodes == {c \in Codes : uses[c] > 0}

Access == INSTANCE CodeAccess WITH
    current <- CurrentCode, closed <- ClosedCodes, used <- UsedCodes

ImplementsAccess == Access!Spec

(* tests/test_email_verification.py: "test_email_change_requires_new_      *)
(* verification": unless an administrator marked it, the address of a      *)
(* verified account received a code that was used.                         *)
VerifiedAddressWasMailed ==
    \A u \in Users \ vouched : user[u] # None /\ user[u].verified =>
        \E c \in inbox[user[u].email] : uses[c] > 0

(* docs/production-tour.md: "Bloquear usuario: impide login y nuevas       *)
(* interacciones de IA"; "Desbloquear usuario: retira el bloqueo": a block *)
(* lasts until an administrator lifts it.                                  *)
BlockLasts == \A u \in Users : user[u] # None /\ decided[u] => user[u].blocked

=============================================================================
