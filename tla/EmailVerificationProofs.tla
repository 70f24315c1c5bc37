---------------------- MODULE EmailVerificationProofs ----------------------
(* Proofs about EmailVerification, for any number of users, workers, codes *)
(* and attempts.                                                           *)
EXTENDS EmailVerification, TLAPS

Existing == {u \in Users : user[u] # None}
Challenged == {u \in Users : challenge[u] # None}

(* What the locals of a worker hold at a statement.                        *)
ShapeOK(label, t, n, U, C) ==
    /\ label \in {"save", "lock", "check", "login", "account"} => t.user \in U
    /\ label \in {"save", "mail"} => t.email \in Emails /\ t.code \in 1..n
    /\ label = "check" => t.row \in Challenges \cup {None} /\ (t.row # None => t.user \in C)
    /\ label = "account" => t.row \in Accounts

ShapeInv == \A w \in Workers : ShapeOK(pc[w], tx[w], issued, Existing, Challenged)

(* No account and no challenge goes away.                                  *)
Grows == Existing \subseteq Existing' /\ Challenged \subseteq Challenged'

TypeInv == TypeOK /\ ShapeInv

-----------------------------------------------------------------------------
(* Records                                                                 *)

LEMMA BlankType == Blank \in Locals
  BY BoundsAssumption DEF Blank, Locals, Typed, Times, Codes

LEMMA MailLocals ==
    ASSUME NEW e \in Emails, NEW c \in Typed
    PROVE  LET t == [Blank EXCEPT !.email = e, !.code = c] IN
           t \in Locals /\ t.email = e /\ t.code = c
  BY BlankType DEF Locals

LEMMA UserLocals ==
    ASSUME NEW u \in Users
    PROVE  LET t == [Blank EXCEPT !.user = u] IN t \in Locals /\ t.user = u
  BY BlankType DEF Locals

LEMMA AccountLocals ==
    ASSUME NEW u \in Users, NEW a \in Accounts
    PROVE  LET t == [Blank EXCEPT !.user = u, !.row = a] IN
           t \in Locals /\ t.user = u /\ t.row = a
  BY BlankType DEF Locals

LEMMA RowLocals ==
    ASSUME NEW t \in Locals, NEW row \in Challenges \cup {None}
    PROVE  LET r == [t EXCEPT !.row = row] IN
           /\ r \in Locals /\ r.user = t.user /\ r.code = t.code /\ r.time = t.time
           /\ r.row = row
  BY DEF Locals

LEMMA VerifiedFlag ==
    ASSUME NEW a \in Accounts
    PROVE  LET b == [a EXCEPT !.verified = TRUE] IN b \in Accounts /\ b.email = a.email /\ b.verified
  BY DEF Accounts

LEMMA ActiveFlag ==
    ASSUME NEW a \in Accounts, NEW f \in BOOLEAN
    PROVE  LET b == [a EXCEPT !.active = f] IN
           b \in Accounts /\ b.email = a.email /\ b.verified = a.verified
  BY DEF Accounts

LEMMA BlockedFlag ==
    ASSUME NEW a \in Accounts, NEW f \in BOOLEAN
    PROVE  LET b == [a EXCEPT !.blocked = f] IN
           b \in Accounts /\ b.email = a.email /\ b.verified = a.verified
  BY DEF Accounts

LEMMA NewAccountType ==
    ASSUME NEW e \in Emails
    PROVE  NewAccount(e) \in Accounts /\ NewAccount(e).email = e /\ ~NewAccount(e).verified
  BY DEF NewAccount, Accounts

LEMMA ChangedAccount ==
    ASSUME NEW a \in Accounts, NEW e \in Emails
    PROVE  LET b == [a EXCEPT !.email = e, !.verified = FALSE] IN
           b \in Accounts /\ b.email = e /\ ~b.verified
  BY DEF Accounts

LEMMA AccountIsARow == \A a \in Accounts : a # None
  BY NoneAssumption

-----------------------------------------------------------------------------
(* Frames                                                                  *)

LEMMA ShapeGrows ==
    ASSUME NEW label, NEW t, NEW n \in Nat, NEW m \in Nat, n <= m,
           NEW U, NEW V, U \subseteq V, NEW C, NEW D, C \subseteq D,
           ShapeOK(label, t, n, U, C)
    PROVE  ShapeOK(label, t, m, V, D)
  BY DEF ShapeOK

LEMMA RowsStay == UNCHANGED rows => Grows
  BY DEF Grows, Existing, Challenged, rows

LEMMA IssuedType == TypeOK => issued \in Nat /\ MaxCodes \in Nat /\ issued <= MaxCodes
  BY BoundsAssumption DEF TypeOK, Typed

(* A step of one worker.                                                   *)
LEMMA TypeMove ==
    ASSUME TypeInv, NEW w \in Workers, NEW label \in Labels, NEW t \in Locals,
           Goto(w, label, t), issued' \in Nat, issued <= issued', Grows,
           ShapeOK(label, t, issued', Existing', Challenged')
    PROVE  /\ pc' \in [Workers -> Labels] /\ tx' \in [Workers -> Locals] /\ ShapeInv'
           /\ pc'[w] = label /\ tx'[w] = t
           /\ \A v \in Workers \ {w} : pc'[v] = pc[v] /\ tx'[v] = tx[v]
<1>1. /\ pc' \in [Workers -> Labels] /\ tx' \in [Workers -> Locals]
      /\ pc'[w] = label /\ tx'[w] = t
      /\ \A v \in Workers \ {w} : pc'[v] = pc[v] /\ tx'[v] = tx[v]
  BY DEF TypeInv, TypeOK, Goto
<1>2. ASSUME NEW v \in Workers PROVE ShapeOK(pc'[v], tx'[v], issued', Existing', Challenged')
  <2>1. CASE v = w
    BY <1>1, <2>1
  <2>2. CASE v # w
    <3>1. ShapeOK(pc[v], tx[v], issued, Existing, Challenged)
      BY DEF TypeInv, ShapeInv
    <3>2. ShapeOK(pc[v], tx[v], issued', Existing', Challenged')
      BY <3>1, IssuedType, ShapeGrows DEF TypeInv, Grows
    <3> QED
      BY <1>1, <2>2, <3>2
  <2> QED
    BY <2>1, <2>2
<1> QED
  BY <1>1, <1>2 DEF ShapeInv

LEMMA TypeFinish ==
    ASSUME TypeInv, NEW w \in Workers, Finish(w), issued' = issued, Grows
    PROVE  /\ pc' \in [Workers -> Labels] /\ tx' \in [Workers -> Locals] /\ ShapeInv'
           /\ pc'[w] = "idle"
           /\ \A v \in Workers \ {w} : pc'[v] = pc[v] /\ tx'[v] = tx[v]
<1>1. ShapeOK("idle", Blank, issued', Existing', Challenged') /\ "idle" \in Labels /\ Goto(w, "idle", Blank)
  BY DEF ShapeOK, Labels, Finish
<1>2. issued' \in Nat /\ issued <= issued'
  BY IssuedType DEF TypeInv
<1> QED
  BY <1>1, <1>2, BlankType, TypeMove

(* A step of none.                                                         *)
LEMMA TypeStay ==
    ASSUME TypeInv, UNCHANGED <<pc, tx, issued>>, Grows
    PROVE  pc' \in [Workers -> Labels] /\ tx' \in [Workers -> Locals] /\ ShapeInv'
<1>1. ASSUME NEW v \in Workers PROVE ShapeOK(pc'[v], tx'[v], issued', Existing', Challenged')
  <2>1. ShapeOK(pc[v], tx[v], issued, Existing, Challenged)
    BY DEF TypeInv, ShapeInv
  <2>2. ShapeOK(pc[v], tx[v], issued, Existing', Challenged')
    BY <2>1, IssuedType, ShapeGrows DEF TypeInv, Grows
  <2> QED
    BY <2>2
<1> QED
  BY <1>1 DEF TypeInv, TypeOK, ShapeInv

Unique ==
    \A v \in Users, x \in Users :
       x # v /\ user[v] # None /\ user[x] # None => user[x].email # user[v].email

LEMMA UniqueIsFree == Unique <=> \A u \in Users : user[u] # None => EmailFree(u, user[u].email)
  BY DEF Unique, EmailFree

(* The row of one user is written: addresses stay unique.                  *)
LEMMA WriteUser ==
    ASSUME TypeOK, NEW u \in Users, NEW a \in Accounts, EmailFree(u, a.email),
           user' = [user EXCEPT ![u] = a]
    PROVE  /\ user' \in [Users -> Accounts \cup {None}]
           /\ Unique'
           /\ Existing \subseteq Existing' /\ user'[u] = a
           /\ \A v \in Users \ {u} : user'[v] = user[v]
<1>1. /\ user' \in [Users -> Accounts \cup {None}] /\ user'[u] = a /\ a # None
      /\ \A v \in Users \ {u} : user'[v] = user[v]
  BY AccountIsARow DEF TypeOK
<1>2. \A v \in Users, x \in Users :
         x # v /\ user'[v] # None /\ user'[x] # None => user'[x].email # user'[v].email
  <2>1. \A v \in Users, x \in Users :
           x # v /\ user[v] # None /\ user[x] # None => user[x].email # user[v].email
    BY DEF TypeOK, EmailFree
  <2>2. \A v \in Users \ {u} : user[v] # None => user[v].email # a.email
    BY DEF EmailFree
  <2> QED
    BY <1>1, <2>1, <2>2
<1>3. Existing \subseteq Existing'
  BY <1>1 DEF Existing
<1> QED
  BY <1>1, <1>2, <1>3 DEF Unique

(* A flag of a user that exists is written.                                *)
LEMMA OwnAddressFree ==
    ASSUME TypeOK, NEW u \in Users, user[u] # None
    PROVE  user[u] \in Accounts /\ EmailFree(u, user[u].email)
  BY DEF TypeOK

LEMMA SessionExists ==
    ASSUME TypeOK, NEW u, Authenticated(u)
    PROVE  u \in Users /\ user[u] # None
  BY DEF TypeOK, Authenticated

-----------------------------------------------------------------------------
(* Types, action by action                                                 *)

LEMMA SendType ==
    ASSUME TypeInv, NEW w \in Workers, NEW u \in Users, NEW e \in Emails,
           StartSend(w, u, e), Grows, u \in Existing'
    PROVE  /\ pc' \in [Workers -> Labels] /\ tx' \in [Workers -> Locals] /\ ShapeInv'
           /\ issued' \in Typed /\ issued' = issued + 1 /\ issued' \in Codes
           /\ pc'[w] = "save" /\ tx'[w].user = u /\ tx'[w].code = issued'
           /\ \A v \in Workers \ {w} : pc'[v] = pc[v] /\ tx'[v] = tx[v]
<1> DEFINE t == [Blank EXCEPT !.user = u, !.email = e, !.code = issued + 1, !.time = now]
<1>1. issued < MaxCodes /\ issued' = issued + 1 /\ Goto(w, "save", t)
  BY DEF StartSend
<1>2. issued + 1 \in Typed /\ issued + 1 \in Codes /\ now \in Times /\ issued \in Nat
  BY <1>1, IssuedType DEF TypeInv, TypeOK, Typed, Codes
<1>3. t \in Locals /\ t.user = u /\ t.email = e /\ t.code = issued + 1
  BY <1>2, BlankType DEF Locals
<1> HIDE DEF t
<1>4. ShapeOK("save", t, issued', Existing', Challenged') /\ "save" \in Labels
  BY <1>1, <1>2, <1>3 DEF ShapeOK, Labels
<1> QED
  BY <1>1, <1>2, <1>3, <1>4, TypeMove

LEMMA SaveChallengeType ==
    ASSUME TypeInv, NEW w \in Workers, SaveChallenge(w)
    PROVE  /\ TypeInv' /\ pc[w] = "save"
           /\ pc'[w] = "mail" /\ \A v \in Workers \ {w} : pc'[v] = pc[v] /\ tx'[v] = tx[v]
           /\ tx[w].user \in Users /\ tx[w].code \in Codes
           /\ challenge'[tx[w].user] # None
           /\ challenge'[tx[w].user].code = tx[w].code
           /\ challenge'[tx[w].user].attempts = 0
           /\ challenge'[tx[w].user].consumed = FALSE
           /\ \A u \in Users \ {tx[w].user} : challenge'[u] = challenge[u]
<1> DEFINE t == tx[w]
           m == [Blank EXCEPT !.email = t.email, !.code = t.code]
           row == [code |-> t.code, expires |-> t.time + Ttl, attempts |-> 0, consumed |-> FALSE]
<1>1. /\ pc[w] = "save" /\ Goto(w, "mail", m)
      /\ challenge' = [challenge EXCEPT ![t.user] = row]
      /\ UNCHANGED <<user, inbox, session, issued, now, edits, history>>
  BY DEF SaveChallenge
<1>2. /\ t \in Locals /\ t.user \in Existing /\ t.email \in Emails /\ t.code \in 1..issued
  BY <1>1 DEF TypeInv, TypeOK, ShapeInv, ShapeOK
<1>3. t.code \in Codes /\ t.code \in Typed /\ t.user \in Users
  BY <1>2, IssuedType DEF TypeInv, Codes, Typed, Existing
<1>4. row \in Challenges /\ row # None /\ row.code = t.code /\ row.attempts = 0
      /\ row.consumed = FALSE
  <2>1. t.time + Ttl \in Nat /\ 0 \in 0..MaxAttempts
    BY <1>2, BoundsAssumption, AttemptsAssumption DEF Locals, Times
  <2>2. row \in Challenges /\ row.code = t.code /\ row.attempts = 0 /\ row.consumed = FALSE
    BY <1>3, <2>1 DEF Challenges
  <2> QED
    BY <2>2, NoneAssumption
<1>5. m \in Locals /\ m.email = t.email /\ m.code = t.code
  BY <1>2, <1>3, MailLocals
<1> HIDE DEF m, row, t
<1>6. ShapeOK("mail", m, issued', Existing', Challenged') /\ "mail" \in Labels
  BY <1>1, <1>2, <1>5 DEF ShapeOK, Labels
<1>7. Grows /\ issued' \in Nat /\ issued <= issued'
  BY <1>1, <1>4, IssuedType DEF Existing, Challenged, Grows, TypeInv, TypeOK
<1>8. /\ pc' \in [Workers -> Labels] /\ tx' \in [Workers -> Locals] /\ ShapeInv'
      /\ pc'[w] = "mail" /\ \A v \in Workers \ {w} : pc'[v] = pc[v] /\ tx'[v] = tx[v]
  BY <1>1, <1>5, <1>6, <1>7, TypeMove
<1>9. /\ challenge' \in [Users -> Challenges \cup {None}]
      /\ challenge'[t.user] = row /\ \A u \in Users \ {t.user} : challenge'[u] = challenge[u]
  BY <1>1, <1>3, <1>4 DEF TypeInv, TypeOK
<1>10. TypeInv'
  BY <1>1, <1>8, <1>9 DEF TypeInv, TypeOK, EmailFree, history
<1> QED
  BY <1>1, <1>3, <1>4, <1>8, <1>9, <1>10 DEF t

LEMMA DeliverType ==
    ASSUME TypeInv, NEW w \in Workers, Deliver(w)
    PROVE  /\ TypeInv' /\ UNCHANGED <<rows, session, issued, history>>
           /\ pc'[w] = "idle" /\ \A v \in Workers \ {w} : pc'[v] = pc[v] /\ tx'[v] = tx[v]
<1>1. /\ Finish(w) /\ pc[w] = "mail" /\ UNCHANGED <<rows, session, issued, now, edits, history>>
      /\ inbox' = [inbox EXCEPT ![tx[w].email] = @ \cup {tx[w].code}]
  BY DEF Deliver
<1>2. tx[w].email \in Emails /\ tx[w].code \in Codes
  BY <1>1, IssuedType DEF TypeInv, TypeOK, ShapeInv, ShapeOK, Codes
<1>3. inbox' \in [Emails -> SUBSET Codes]
  BY <1>1, <1>2 DEF TypeInv, TypeOK
<1>4. Grows /\ issued' = issued
  BY <1>1, RowsStay DEF rows
<1> QED
  BY <1>1, <1>3, <1>4, TypeFinish DEF TypeInv, TypeOK, EmailFree, history, rows

LEMMA RegisterType ==
    ASSUME TypeInv, NEW w \in Workers, NEW u \in Users, NEW e \in Emails, Register(w, u, e)
    PROVE  /\ TypeInv' /\ UNCHANGED <<challenge, session, history>>
           /\ issued' = issued + 1 /\ pc'[w] = "save" /\ tx'[w].code = issued'
           /\ \A v \in Workers \ {w} : pc'[v] = pc[v] /\ tx'[v] = tx[v]
           /\ ~user'[u].verified /\ \A v \in Users \ {u} : user'[v] = user[v]
<1>1. /\ EmailFree(u, e) /\ user' = [user EXCEPT ![u] = NewAccount(e)] /\ StartSend(w, u, e)
      /\ UNCHANGED <<challenge, inbox, session, now, edits, history>>
  BY DEF Register
<1>2. /\ user' \in [Users -> Accounts \cup {None}] /\ Unique'
      /\ Existing \subseteq Existing' /\ user'[u] # None
      /\ ~user'[u].verified /\ \A v \in Users \ {u} : user'[v] = user[v]
  BY <1>1, NewAccountType, WriteUser, AccountIsARow DEF TypeInv
<1>3. u \in Existing' /\ Grows
  BY <1>1, <1>2 DEF Existing, Challenged, Grows
<1>4. /\ pc' \in [Workers -> Labels] /\ tx' \in [Workers -> Locals] /\ ShapeInv'
      /\ issued' \in Typed /\ issued' = issued + 1 /\ pc'[w] = "save" /\ tx'[w].code = issued'
      /\ \A v \in Workers \ {w} : pc'[v] = pc[v] /\ tx'[v] = tx[v]
  BY <1>1, <1>2, <1>3, SendType
<1> QED
  BY <1>1, <1>2, <1>4 DEF TypeInv, TypeOK, Existing, history, Unique, EmailFree

LEMMA ResendType ==
    ASSUME TypeInv, NEW w \in Workers, NEW u \in Users, NEW e \in Emails, Resend(w, u, e)
    PROVE  /\ TypeInv' /\ UNCHANGED <<rows, session, history>>
           /\ issued' = issued + 1 /\ pc'[w] = "save" /\ tx'[w].code = issued'
           /\ \A v \in Workers \ {w} : pc'[v] = pc[v] /\ tx'[v] = tx[v]
<1>1. /\ user[u] # None /\ StartSend(w, u, e)
      /\ UNCHANGED <<rows, inbox, session, now, edits, history>>
  BY DEF Resend, Pending
<1>2. Grows /\ u \in Existing'
  BY <1>1, RowsStay DEF Existing, rows
<1>3. /\ pc' \in [Workers -> Labels] /\ tx' \in [Workers -> Locals] /\ ShapeInv'
      /\ issued' \in Typed /\ issued' = issued + 1 /\ pc'[w] = "save" /\ tx'[w].code = issued'
      /\ \A v \in Workers \ {w} : pc'[v] = pc[v] /\ tx'[v] = tx[v]
  BY <1>1, <1>2, SendType
<1> QED
  BY <1>1, <1>3 DEF TypeInv, TypeOK, history, rows, EmailFree

LEMMA VerifyType ==
    ASSUME TypeInv, NEW w \in Workers, NEW u \in Users, NEW e \in Emails, NEW c \in Known,
           Verify(w, u, e, c)
    PROVE  /\ TypeInv' /\ pc'[w] = "lock" /\ UNCHANGED <<rows, session, issued, history>>
           /\ \A v \in Workers \ {w} : pc'[v] = pc[v] /\ tx'[v] = tx[v]
<1> DEFINE t == [Blank EXCEPT !.user = u, !.code = c, !.time = now]
<1>1. /\ user[u] # None /\ Goto(w, "lock", t)
      /\ UNCHANGED <<rows, inbox, session, issued, now, edits, history>>
  BY DEF Verify, Pending
<1>2. c \in Typed /\ now \in Times
  BY BoundsAssumption DEF TypeInv, TypeOK, Known, Typed, Codes
<1>3. t \in Locals /\ t.user = u
  BY <1>2, BlankType DEF Locals
<1> HIDE DEF t
<1>4. Existing' = Existing /\ Grows /\ u \in Existing /\ issued' \in Nat /\ issued <= issued'
  BY <1>1, RowsStay, IssuedType DEF Existing, rows, TypeInv
<1>5. ShapeOK("lock", t, issued', Existing', Challenged') /\ "lock" \in Labels
  BY <1>3, <1>4 DEF ShapeOK, Labels
<1>6. /\ pc' \in [Workers -> Labels] /\ tx' \in [Workers -> Locals] /\ ShapeInv'
      /\ pc'[w] = "lock" /\ \A v \in Workers \ {w} : pc'[v] = pc[v] /\ tx'[v] = tx[v]
  BY <1>1, <1>3, <1>4, <1>5, TypeMove
<1> QED
  BY <1>1, <1>6 DEF TypeInv, TypeOK, history, rows, EmailFree

LEMMA LockType ==
    ASSUME TypeInv, NEW w \in Workers, LockChallenge(w)
    PROVE  /\ TypeInv' /\ RowFree(w) /\ UNCHANGED <<rows, session, issued, history>>
           /\ pc'[w] = "check" /\ tx'[w].user = tx[w].user
           /\ tx'[w].row = challenge[tx[w].user] /\ tx[w].user \in Users
           /\ \A v \in Workers \ {w} : pc'[v] = pc[v] /\ tx'[v] = tx[v]
<1> DEFINE u == tx[w].user
           t == [tx[w] EXCEPT !.row = challenge[u]]
<1>1. /\ pc[w] = "lock" /\ RowFree(w) /\ Goto(w, "check", t)
      /\ UNCHANGED <<rows, inbox, session, issued, now, edits, history>>
  BY DEF LockChallenge
<1>2. u \in Existing /\ tx[w] \in Locals
  BY <1>1 DEF TypeInv, TypeOK, ShapeInv, ShapeOK
<1>3. u \in Users /\ challenge[u] \in Challenges \cup {None}
  BY <1>2 DEF TypeInv, TypeOK, Existing
<1>4. t \in Locals /\ t.user = u /\ t.row = challenge[u]
  BY <1>2, <1>3, RowLocals
<1> HIDE DEF t, u
<1>5. /\ Existing' = Existing /\ Challenged' = Challenged /\ Grows
      /\ issued' \in Nat /\ issued <= issued'
  BY <1>1, RowsStay, IssuedType DEF Existing, Challenged, rows, TypeInv
<1>6. ShapeOK("check", t, issued', Existing', Challenged') /\ "check" \in Labels
  <2>1. t.row # None => t.user \in Challenged
    BY <1>3, <1>4 DEF Challenged, u
  <2> QED
    BY <1>2, <1>3, <1>4, <1>5, <2>1 DEF ShapeOK, Labels
<1>7. /\ pc' \in [Workers -> Labels] /\ tx' \in [Workers -> Locals] /\ ShapeInv'
      /\ pc'[w] = "check" /\ tx'[w] = t
      /\ \A v \in Workers \ {w} : pc'[v] = pc[v] /\ tx'[v] = tx[v]
  BY <1>1, <1>4, <1>5, <1>6, TypeMove
<1>8. TypeInv'
  BY <1>1, <1>7 DEF TypeInv, TypeOK, history, rows, EmailFree
<1> QED
  BY <1>1, <1>3, <1>4, <1>7, <1>8 DEF u

(* What the check of a code reads.                                         *)
LEMMA CheckedRow ==
    ASSUME TypeInv, NEW w \in Workers, pc[w] = "check", Usable(tx[w])
    PROVE  /\ tx[w].user \in Users /\ user[tx[w].user] # None
           /\ tx[w].row \in Challenges /\ tx[w].row # None /\ ~tx[w].row.consumed
           /\ tx[w].row.attempts \in Nat /\ tx[w].row.attempts < MaxAttempts
           /\ tx[w].row.code \in Codes /\ MaxAttempts \in Nat
           /\ challenge[tx[w].user] \in Challenges
  BY AttemptsAssumption DEF TypeInv, TypeOK, ShapeInv, ShapeOK, Usable, Existing, Challenged, Challenges

LEMMA ComparedType ==
    ASSUME TypeInv, NEW w \in Workers, pc[w] = "check", Usable(tx[w]), Compared(tx[w])
    PROVE  /\ tries' \in [Codes -> Nat]
           /\ tries'[tx[w].row.code] = tries[tx[w].row.code] + 1
           /\ \A c \in Codes \ {tx[w].row.code} : tries'[c] = tries[c]
<1> DEFINE d == tx[w].row.code
<1>1. d \in Codes /\ tries \in [Codes -> Nat]
  BY CheckedRow DEF TypeInv, TypeOK
<1>2. tries' = [tries EXCEPT ![d] = tries[d] + 1]
  BY DEF Compared
<1> HIDE DEF d
<1>3. tries' \in [Codes -> Nat] /\ tries'[d] = tries[d] + 1
      /\ \A c \in Codes \ {d} : tries'[c] = tries[c]
  BY <1>1, <1>2
<1> QED
  BY <1>3 DEF d

LEMMA RejectType ==
    ASSUME TypeInv, NEW w \in Workers, RejectChallenge(w) \/ Abort(w)
    PROVE  /\ TypeInv' /\ UNCHANGED <<rows, session, issued, history>>
           /\ pc'[w] = "idle" /\ \A v \in Workers \ {w} : pc'[v] = pc[v] /\ tx'[v] = tx[v]
<1>1. Finish(w) /\ UNCHANGED <<rows, inbox, session, issued, now, edits, history>>
  BY DEF RejectChallenge, Abort
<1>2. Grows /\ issued' = issued
  BY <1>1, RowsStay DEF rows
<1> QED
  BY <1>1, <1>2, TypeFinish DEF TypeInv, TypeOK, EmailFree, history, rows

(* The challenge a compared code leaves.                                   *)
LEMMA CountedChallenge ==
    ASSUME NEW r \in Challenges, r.attempts < MaxAttempts
    PROVE  LET k == [r EXCEPT !.attempts = r.attempts + 1] IN
           /\ k \in Challenges /\ k.code = r.code /\ k.attempts = r.attempts + 1
           /\ k.consumed = r.consumed
  BY AttemptsAssumption DEF Challenges

LEMMA ConsumedChallenge ==
    ASSUME NEW r \in Challenges, r.attempts < MaxAttempts
    PROVE  LET k == [[r EXCEPT !.attempts = r.attempts + 1] EXCEPT !.consumed = TRUE] IN
           /\ k \in Challenges /\ k.code = r.code /\ k.attempts = r.attempts + 1
           /\ k.consumed = TRUE
<1> DEFINE q == [r EXCEPT !.attempts = r.attempts + 1]
           k == [q EXCEPT !.consumed = TRUE]
<1>1. q \in Challenges /\ q.code = r.code /\ q.attempts = r.attempts + 1
  BY CountedChallenge
<1> HIDE DEF q
<1>2. k \in Challenges /\ k.code = q.code /\ k.attempts = q.attempts /\ k.consumed = TRUE
  BY <1>1 DEF Challenges
<1> QED
  BY <1>1, <1>2 DEF q

LEMMA WrongCodeType ==
    ASSUME TypeInv, NEW w \in Workers, WrongCode(w)
    PROVE  LET t == tx[w] IN
           /\ TypeInv' /\ pc[w] = "check" /\ Usable(t) /\ Compared(t)
           /\ UNCHANGED <<user, session, issued, uses, proved, vouched>>
           /\ pc'[w] = "idle" /\ \A v \in Workers \ {w} : pc'[v] = pc[v] /\ tx'[v] = tx[v]
           /\ challenge'[t.user] \in Challenges
           /\ challenge'[t.user].code = challenge[t.user].code
           /\ challenge'[t.user].attempts = t.row.attempts + 1
           /\ challenge'[t.user].consumed = challenge[t.user].consumed
           /\ \A u \in Users \ {t.user} : challenge'[u] = challenge[u]
<1> DEFINE t == tx[w]
           u == t.user
           r == challenge[u]
           n == t.row.attempts + 1
           k == [r EXCEPT !.attempts = n]
<1>1. /\ pc[w] = "check" /\ Usable(t) /\ Compared(t) /\ Finish(w)
      /\ challenge' = [challenge EXCEPT ![u] = k]
      /\ UNCHANGED <<user, inbox, session, issued, now, edits, uses, decided, proved, vouched>>
  BY DEF WrongCode
<1>2. u \in Users /\ r \in Challenges /\ n \in 0..MaxAttempts
  BY <1>1, CheckedRow
<1>3. k \in Challenges /\ k.code = r.code /\ k.attempts = n /\ k.consumed = r.consumed
  BY <1>2 DEF Challenges
<1> HIDE DEF k
<1>4. /\ challenge' \in [Users -> Challenges \cup {None}] /\ challenge'[u] = k
      /\ \A v \in Users \ {u} : challenge'[v] = challenge[v]
  BY <1>1, <1>2, <1>3 DEF TypeInv, TypeOK
<1>5. Grows /\ issued' = issued
  <2>1. k # None
    BY <1>3, NoneAssumption
  <2> QED
    BY <1>1, <1>2, <1>4, <2>1 DEF Grows, Existing, Challenged
<1>6. /\ pc' \in [Workers -> Labels] /\ tx' \in [Workers -> Locals] /\ ShapeInv'
      /\ pc'[w] = "idle" /\ \A v \in Workers \ {w} : pc'[v] = pc[v] /\ tx'[v] = tx[v]
  BY <1>1, <1>5, TypeFinish
<1>7. tries' \in [Codes -> Nat]
  BY <1>1, ComparedType
<1>8. TypeInv'
  BY <1>1, <1>4, <1>6, <1>7 DEF TypeInv, TypeOK, EmailFree
<1> QED
  BY <1>1, <1>3, <1>4, <1>6, <1>8

LEMMA RightCodeType ==
    ASSUME TypeInv, NEW w \in Workers, RightCode(w)
    PROVE  LET t == tx[w] IN
           /\ TypeInv' /\ pc[w] = "check" /\ Usable(t) /\ Compared(t)
           /\ t.code = t.row.code /\ uses' = [uses EXCEPT ![t.code] = uses[t.code] + 1]
           /\ UNCHANGED <<session, issued, vouched>> /\ proved' = proved \cup {t.user}
           /\ pc'[w] = "login" /\ tx'[w].user = t.user
           /\ \A v \in Workers \ {w} : pc'[v] = pc[v] /\ tx'[v] = tx[v]
           /\ user'[t.user].verified /\ \A u \in Users \ {t.user} : user'[u] = user[u]
           /\ challenge'[t.user] \in Challenges
           /\ challenge'[t.user].code = challenge[t.user].code
           /\ challenge'[t.user].attempts = t.row.attempts + 1
           /\ challenge'[t.user].consumed
           /\ \A u \in Users \ {t.user} : challenge'[u] = challenge[u]
<1> DEFINE t == tx[w]
           u == t.user
           r == challenge[u]
           n == t.row.attempts + 1
           q == [r EXCEPT !.attempts = n]
           k == [q EXCEPT !.consumed = TRUE]
           a == [user[u] EXCEPT !.verified = TRUE]
           m == [Blank EXCEPT !.user = u]
<1>1. /\ pc[w] = "check" /\ Usable(t) /\ Compared(t) /\ Goto(w, "login", m)
      /\ t.code = t.row.code /\ uses' = [uses EXCEPT ![t.code] = uses[t.code] + 1]
      /\ user' = [user EXCEPT ![u] = a]
      /\ proved' = proved \cup {u}
      /\ UNCHANGED <<inbox, session, issued, now, edits, decided, vouched>>
  BY DEF RightCode
<1>2. /\ u \in Users /\ r \in Challenges /\ n \in 0..MaxAttempts /\ user[u] # None
      /\ t.row.code \in Codes
  BY <1>1, CheckedRow
<1>3. challenge' = [challenge EXCEPT ![u] = k]
  <2>1. challenge' = [challenge EXCEPT ![u].attempts = n, ![u].consumed = TRUE]
    BY DEF RightCode
  <2>2. challenge \in [Users -> Challenges \cup {None}]
    BY DEF TypeInv, TypeOK
  <2>3. /\ challenge' = [v \in Users |-> challenge'[v]]
        /\ challenge'[u] = k /\ \A v \in Users \ {u} : challenge'[v] = challenge[v]
    BY <1>2, <2>1, <2>2
  <2> QED
    BY <1>2, <2>2, <2>3
<1>4. q \in Challenges /\ q.code = r.code /\ q.attempts = n
  BY <1>2 DEF Challenges
<1> HIDE DEF q
<1>5. k \in Challenges /\ k.code = r.code /\ k.attempts = n /\ k.consumed = TRUE
  BY <1>4 DEF Challenges
<1> HIDE DEF k
<1>6. /\ challenge' \in [Users -> Challenges \cup {None}] /\ challenge'[u] = k
      /\ \A v \in Users \ {u} : challenge'[v] = challenge[v]
  BY <1>2, <1>3, <1>5 DEF TypeInv, TypeOK
<1>7. a \in Accounts /\ EmailFree(u, a.email) /\ a.verified
  <2>1. user[u] \in Accounts /\ EmailFree(u, user[u].email)
    BY <1>2, OwnAddressFree DEF TypeInv
  <2> QED
    BY <2>1, VerifiedFlag
<1> HIDE DEF a
<1>8. /\ user' \in [Users -> Accounts \cup {None}] /\ Unique' /\ Existing \subseteq Existing'
      /\ user'[u] = a /\ \A v \in Users \ {u} : user'[v] = user[v]
  BY <1>1, <1>2, <1>7, WriteUser DEF TypeInv
<1>9. Grows /\ issued' = issued /\ issued' \in Nat /\ issued <= issued'
  <2>1. k # None
    BY <1>5, NoneAssumption
  <2> QED
    BY <1>1, <1>2, <1>6, <1>8, <2>1, IssuedType DEF Grows, Challenged, TypeInv
<1>10. m \in Locals /\ m.user = u
  BY <1>2, UserLocals
<1> HIDE DEF m
<1>11. ShapeOK("login", m, issued', Existing', Challenged') /\ "login" \in Labels
  <2>1. u \in Existing'
    BY <1>2, <1>8 DEF Existing
  <2> QED
    BY <1>10, <2>1 DEF ShapeOK, Labels
<1>12. /\ pc' \in [Workers -> Labels] /\ tx' \in [Workers -> Locals] /\ ShapeInv'
       /\ pc'[w] = "login" /\ tx'[w] = m
       /\ \A v \in Workers \ {w} : pc'[v] = pc[v] /\ tx'[v] = tx[v]
  BY <1>1, <1>9, <1>10, <1>11, TypeMove
<1>13. tries' \in [Codes -> Nat] /\ uses' \in [Codes -> Nat]
  <2>1. uses' \in [Codes -> Nat]
    BY <1>1, <1>2 DEF TypeInv, TypeOK
  <2> QED
    BY <1>1, <2>1, ComparedType
<1>14. session' \in SUBSET {v \in Users : user'[v] # None}
  BY <1>1, <1>8 DEF TypeInv, TypeOK, Existing
<1>15. TypeInv'
  BY <1>1, <1>2, <1>6, <1>8, <1>12, <1>13, <1>14 DEF TypeInv, TypeOK, Unique, EmailFree
<1> QED
  BY <1>1, <1>5, <1>6, <1>7, <1>8, <1>10, <1>12, <1>15
(* Login and logout, and the calls that only read.                         *)
LEMMA EnterType ==
    ASSUME TypeInv, NEW w \in Workers, NEW u \in Users, user[u] # None,
           NEW label \in {"login", "account"},
           NEW t \in Locals, t.user = u, label = "account" => t.row \in Accounts,
           Goto(w, label, t), UNCHANGED <<rows, inbox, session, issued, now, edits, history>>
    PROVE  /\ TypeInv' /\ pc'[w] = label /\ tx'[w] = t
           /\ \A v \in Workers \ {w} : pc'[v] = pc[v] /\ tx'[v] = tx[v]
<1>1. Grows /\ u \in Existing' /\ issued' \in Nat /\ issued <= issued'
  BY RowsStay, IssuedType DEF rows, Existing, TypeInv
<1>2. ShapeOK(label, t, issued', Existing', Challenged') /\ label \in Labels
  BY <1>1 DEF ShapeOK, Labels
<1>3. /\ pc' \in [Workers -> Labels] /\ tx' \in [Workers -> Locals] /\ ShapeInv'
      /\ pc'[w] = label /\ tx'[w] = t
      /\ \A v \in Workers \ {w} : pc'[v] = pc[v] /\ tx'[v] = tx[v]
  BY <1>1, <1>2, TypeMove
<1> QED
  BY <1>3 DEF TypeInv, TypeOK, history, rows, EmailFree

LEMMA AuthenticateType ==
    ASSUME TypeInv, NEW w \in Workers, NEW u \in Users, Authenticate(w, u)
    PROVE  /\ TypeInv' /\ UNCHANGED <<rows, session, issued, history>> /\ MayLogIn(u)
           /\ pc'[w] = "login" /\ tx'[w].user = u
           /\ \A v \in Workers \ {w} : pc'[v] = pc[v] /\ tx'[v] = tx[v]
<1> DEFINE t == [Blank EXCEPT !.user = u]
<1>1. /\ MayLogIn(u) /\ Goto(w, "login", t)
      /\ UNCHANGED <<rows, inbox, session, issued, now, edits, history>>
  BY DEF Authenticate
<1>2. t \in Locals /\ t.user = u
  BY UserLocals
<1> HIDE DEF t
<1>3. /\ TypeInv' /\ pc'[w] = "login" /\ tx'[w] = t
      /\ \A v \in Workers \ {w} : pc'[v] = pc[v] /\ tx'[v] = tx[v]
  BY <1>1, <1>2, EnterType DEF MayLogIn
<1> QED
  BY <1>1, <1>2, <1>3

LEMMA LoadAccountType ==
    ASSUME TypeInv, NEW w \in Workers, NEW u \in Users, LoadAccount(w, u)
    PROVE  /\ TypeInv' /\ UNCHANGED <<rows, session, issued, history>>
           /\ pc'[w] = "account" /\ tx'[w].user = u /\ tx'[w].row = user[u] /\ user[u] # None
           /\ \A v \in Workers \ {w} : pc'[v] = pc[v] /\ tx'[v] = tx[v]
<1> DEFINE t == [Blank EXCEPT !.user = u, !.row = user[u]]
<1>1. /\ Authenticated(u) /\ Goto(w, "account", t)
      /\ UNCHANGED <<rows, inbox, session, issued, now, edits, history>>
  BY DEF LoadAccount
<1>2. user[u] # None /\ user[u] \in Accounts
  BY <1>1, SessionExists, OwnAddressFree DEF TypeInv
<1>3. t \in Locals /\ t.user = u /\ t.row = user[u]
  BY <1>2, AccountLocals
<1> HIDE DEF t
<1>4. /\ TypeInv' /\ pc'[w] = "account" /\ tx'[w] = t
      /\ \A v \in Workers \ {w} : pc'[v] = pc[v] /\ tx'[v] = tx[v]
  BY <1>1, <1>2, <1>3, EnterType
<1> QED
  BY <1>1, <1>2, <1>3, <1>4

LEMMA LoginType ==
    ASSUME TypeInv, NEW w \in Workers, Login(w)
    PROVE  /\ TypeInv' /\ UNCHANGED <<rows, issued, history>>
           /\ pc[w] = "login" /\ session' = session \cup {tx[w].user} /\ pc'[w] = "idle"
           /\ \A v \in Workers \ {w} : pc'[v] = pc[v] /\ tx'[v] = tx[v]
<1>1. /\ pc[w] = "login" /\ session' = session \cup {tx[w].user} /\ Finish(w)
      /\ UNCHANGED <<rows, inbox, issued, now, edits, history>>
  BY DEF Login
<1>2. Grows /\ issued' = issued
  BY <1>1, RowsStay
<1>3. /\ pc' \in [Workers -> Labels] /\ tx' \in [Workers -> Locals] /\ ShapeInv'
      /\ pc'[w] = "idle" /\ \A v \in Workers \ {w} : pc'[v] = pc[v] /\ tx'[v] = tx[v]
  BY <1>1, <1>2, TypeFinish
<1>4. tx[w].user \in {u \in Users : user[u] # None}
  BY <1>1 DEF TypeInv, ShapeInv, ShapeOK, Existing
<1> QED
  BY <1>1, <1>3, <1>4 DEF TypeInv, TypeOK, history, rows, EmailFree

LEMMA StayType ==
    ASSUME TypeInv, UNCHANGED <<rows, inbox, issued, edits, pc, tx, history>>,
           session' \subseteq session, now' \in Times
    PROVE  TypeInv'
<1>1. pc' \in [Workers -> Labels] /\ tx' \in [Workers -> Locals] /\ ShapeInv'
  BY RowsStay, TypeStay
<1> QED
  BY <1>1 DEF TypeInv, TypeOK, history, rows, EmailFree

LEMMA LogoutType ==
    ASSUME TypeInv, NEW u \in Users, Logout(u)
    PROVE  /\ TypeInv' /\ UNCHANGED <<rows, issued, history, pc, tx>> /\ session' \subseteq session
<1>1. /\ UNCHANGED <<rows, inbox, issued, now, edits, pc, tx, history>>
      /\ session' \subseteq session
  BY DEF Logout, Closes
<1>2. now' \in Times
  BY <1>1 DEF TypeInv, TypeOK
<1> QED
  BY <1>1, <1>2, StayType

LEMMA TickType ==
    ASSUME TypeInv, Tick
    PROVE  TypeInv' /\ UNCHANGED <<rows, issued, session, history, pc, tx>>
<1>1. UNCHANGED <<rows, inbox, issued, session, edits, pc, tx, history>> /\ now' \in Times
  BY BoundsAssumption DEF Tick, TypeInv, TypeOK, Times
<1> QED
  BY <1>1, StayType

LEMMA StutterType ==
    ASSUME TypeInv, UNCHANGED vars
    PROVE  TypeInv' /\ UNCHANGED <<rows, issued, session, history, pc, tx>>
<1>1. UNCHANGED <<rows, inbox, issued, session, now, edits, pc, tx, history>>
  BY DEF vars
<1>2. now' \in Times
  BY <1>1 DEF TypeInv, TypeOK
<1> QED
  BY <1>1, <1>2, StayType

-----------------------------------------------------------------------------
(* The account page                                                        *)

LEMMA SaveNamesType ==
    ASSUME TypeInv, NEW w \in Workers, SaveNames(w)
    PROVE  LET t == tx[w] IN
           /\ TypeInv' /\ UNCHANGED <<challenge, session, issued, history>>
           /\ pc[w] = "account" /\ pc'[w] = "idle"
           /\ \A v \in Workers \ {w} : pc'[v] = pc[v] /\ tx'[v] = tx[v]
           /\ user'[t.user] = t.row /\ \A u \in Users \ {t.user} : user'[u] = user[u]
<1> DEFINE t == tx[w]
<1>1. /\ pc[w] = "account" /\ EmailFree(t.user, t.row.email) /\ Finish(w)
      /\ user' = [user EXCEPT ![t.user] = t.row]
      /\ UNCHANGED <<challenge, inbox, session, issued, now, edits, history>>
  BY DEF SaveNames
<1>2. t.user \in Users /\ t.row \in Accounts
  BY <1>1 DEF TypeInv, ShapeInv, ShapeOK, Existing
<1>3. /\ user' \in [Users -> Accounts \cup {None}] /\ Unique' /\ Existing \subseteq Existing'
      /\ user'[t.user] = t.row /\ \A v \in Users \ {t.user} : user'[v] = user[v]
  BY <1>1, <1>2, WriteUser DEF TypeInv
<1>4. Grows /\ issued' = issued
  BY <1>1, <1>3 DEF Grows, Challenged
<1>5. /\ pc' \in [Workers -> Labels] /\ tx' \in [Workers -> Locals] /\ ShapeInv'
      /\ pc'[w] = "idle" /\ \A v \in Workers \ {w} : pc'[v] = pc[v] /\ tx'[v] = tx[v]
  BY <1>1, <1>4, TypeFinish
<1>6. session' \in SUBSET {v \in Users : user'[v] # None}
  BY <1>1, <1>3 DEF TypeInv, TypeOK, Existing
<1>7. TypeInv'
  BY <1>1, <1>3, <1>5, <1>6 DEF TypeInv, TypeOK, Unique, EmailFree, history
<1> QED
  BY <1>1, <1>3, <1>5, <1>7

LEMMA ChangeEmailType ==
    ASSUME TypeInv, NEW w \in Workers, NEW e \in Emails, ChangeEmail(w, e)
    PROVE  LET t == tx[w] IN
           /\ TypeInv' /\ UNCHANGED <<challenge, history>> /\ session' \subseteq session
           /\ issued' = issued + 1 /\ pc'[w] = "save" /\ tx'[w].code = issued'
           /\ \A v \in Workers \ {w} : pc'[v] = pc[v] /\ tx'[v] = tx[v]
           /\ ~user'[t.user].verified /\ \A u \in Users \ {t.user} : user'[u] = user[u]
<1> DEFINE t == tx[w]
           a == [t.row EXCEPT !.email = e, !.verified = FALSE]
<1>1. /\ pc[w] = "account" /\ EmailFree(t.user, e) /\ StartSend(w, t.user, e)
      /\ user' = [user EXCEPT ![t.user] = a] /\ Closes(t.user)
      /\ UNCHANGED <<challenge, inbox, now, edits, history>>
  BY DEF ChangeEmail
<1>2. t.user \in Users /\ t.row \in Accounts
  BY <1>1 DEF TypeInv, ShapeInv, ShapeOK, Existing
<1>3. a \in Accounts /\ a.email = e /\ ~a.verified
  BY <1>2, ChangedAccount
<1> HIDE DEF a
<1>4. /\ user' \in [Users -> Accounts \cup {None}] /\ Unique' /\ Existing \subseteq Existing'
      /\ user'[t.user] = a /\ \A v \in Users \ {t.user} : user'[v] = user[v]
  BY <1>1, <1>2, <1>3, WriteUser DEF TypeInv
<1>5. Grows /\ t.user \in Existing'
  BY <1>1, <1>2, <1>3, <1>4, AccountIsARow DEF Grows, Challenged, Existing
<1>6. /\ pc' \in [Workers -> Labels] /\ tx' \in [Workers -> Locals] /\ ShapeInv'
      /\ issued' \in Typed /\ issued' = issued + 1
      /\ pc'[w] = "save" /\ tx'[w].code = issued'
      /\ \A v \in Workers \ {w} : pc'[v] = pc[v] /\ tx'[v] = tx[v]
  BY <1>1, <1>2, <1>5, SendType
<1>7. session' \subseteq session
  BY <1>1 DEF Closes
<1>8. session' \in SUBSET {v \in Users : user'[v] # None}
  BY <1>4, <1>7 DEF TypeInv, TypeOK, Existing
<1>9. TypeInv'
  BY <1>1, <1>4, <1>6, <1>8 DEF TypeInv, TypeOK, Unique, EmailFree, history
<1> QED
  BY <1>1, <1>3, <1>4, <1>6, <1>7, <1>9

-----------------------------------------------------------------------------
(* What is written without a worker: closing an account, and the admin.    *)

LEMMA WrittenType ==
    ASSUME TypeInv, NEW u \in Users, NEW a \in Accounts, EmailFree(u, a.email),
           user' = [user EXCEPT ![u] = a], session' \subseteq session,
           edits' \in 0..MaxEdits, decided' \in [Users -> BOOLEAN], vouched' \in SUBSET Users,
           UNCHANGED <<challenge, inbox, issued, now, pc, tx, tries, uses, proved>>
    PROVE  TypeInv' /\ user'[u] = a /\ \A v \in Users \ {u} : user'[v] = user[v]
<1>1. /\ user' \in [Users -> Accounts \cup {None}] /\ Unique' /\ Existing \subseteq Existing'
      /\ user'[u] = a /\ \A v \in Users \ {u} : user'[v] = user[v]
  BY WriteUser DEF TypeInv
<1>2. Grows
  BY <1>1 DEF Grows, Challenged
<1>3. pc' \in [Workers -> Labels] /\ tx' \in [Workers -> Locals] /\ ShapeInv'
  BY <1>2, TypeStay
<1>4. session' \in SUBSET {v \in Users : user'[v] # None}
  BY <1>1 DEF TypeInv, TypeOK, Existing
<1> QED
  BY <1>1, <1>3, <1>4 DEF TypeInv, TypeOK, Unique, EmailFree

LEMMA DeleteAccountType ==
    ASSUME TypeInv, NEW u \in Users, DeleteAccount(u)
    PROVE  /\ TypeInv' /\ UNCHANGED <<challenge, issued, pc, tx, history>> /\ session' \subseteq session
           /\ user[u] # None /\ user'[u].verified = user[u].verified
           /\ \A v \in Users \ {u} : user'[v] = user[v]
<1> DEFINE a == [user[u] EXCEPT !.active = FALSE]
<1>1. /\ Authenticated(u) /\ user' = [user EXCEPT ![u] = a] /\ session' \subseteq session
      /\ UNCHANGED <<challenge, inbox, issued, now, edits, pc, tx, history>>
  BY DEF DeleteAccount, Closes
<1>2. user[u] # None /\ user[u] \in Accounts /\ EmailFree(u, user[u].email)
  BY <1>1, SessionExists, OwnAddressFree DEF TypeInv
<1>3. a \in Accounts /\ a.email = user[u].email /\ a.verified = user[u].verified
  BY <1>2, ActiveFlag
<1> HIDE DEF a
<1>4. TypeInv' /\ user'[u] = a /\ \A v \in Users \ {u} : user'[v] = user[v]
  BY <1>1, <1>2, <1>3, WrittenType DEF TypeInv, TypeOK, history
<1> QED
  BY <1>1, <1>2, <1>3, <1>4

LEMMA EditsType == TypeInv /\ Edits => edits' \in 0..MaxEdits
  BY BoundsAssumption DEF TypeInv, TypeOK, Edits

LEMMA SetFlagType ==
    ASSUME TypeInv, NEW u \in Users, NEW b \in BOOLEAN, SetBlocked(u, b) \/ SetActive(u, b)
    PROVE  /\ TypeInv' /\ UNCHANGED <<challenge, issued, session, pc, tx, tries, uses, proved, vouched>>
           /\ user[u] # None /\ user'[u].verified = user[u].verified
           /\ \A v \in Users \ {u} : user'[v] = user[v]
<1>1. user[u] # None /\ edits' \in 0..MaxEdits
  BY EditsType DEF SetBlocked, SetActive
<1>2. user[u] \in Accounts /\ EmailFree(u, user[u].email)
  BY <1>1, OwnAddressFree DEF TypeInv
<1> DEFINE k == [user[u] EXCEPT !.blocked = b]
           l == [user[u] EXCEPT !.active = b]
<1>3. /\ k \in Accounts /\ k.email = user[u].email /\ k.verified = user[u].verified
      /\ l \in Accounts /\ l.email = user[u].email /\ l.verified = user[u].verified
  <2>1. k \in Accounts /\ k.email = user[u].email /\ k.verified = user[u].verified
    BY <1>2, BlockedFlag
  <2>2. l \in Accounts /\ l.email = user[u].email /\ l.verified = user[u].verified
    BY <1>2, ActiveFlag
  <2> QED
    BY <2>1, <2>2
<1>4. /\ user' = [user EXCEPT ![u] = k] \/ user' = [user EXCEPT ![u] = l]
      /\ decided' \in [Users -> BOOLEAN]
      /\ UNCHANGED <<challenge, inbox, session, issued, now, pc, tx, tries, uses, proved, vouched>>
  BY DEF SetBlocked, SetActive, TypeInv, TypeOK, history
<1> HIDE DEF k, l
<1>5. vouched' \in SUBSET Users /\ session' \subseteq session
  BY <1>4 DEF TypeInv, TypeOK
<1>6. CASE user' = [user EXCEPT ![u] = k]
  <2>1. TypeInv' /\ user'[u] = k /\ \A v \in Users \ {u} : user'[v] = user[v]
    BY <1>1, <1>2, <1>3, <1>4, <1>5, <1>6, WrittenType
  <2> QED
    BY <1>1, <1>3, <1>4, <2>1
<1>7. CASE user' = [user EXCEPT ![u] = l]
  <2>1. TypeInv' /\ user'[u] = l /\ \A v \in Users \ {u} : user'[v] = user[v]
    BY <1>1, <1>2, <1>3, <1>4, <1>5, <1>7, WrittenType
  <2> QED
    BY <1>1, <1>3, <1>4, <2>1
<1> QED
  BY <1>4, <1>6, <1>7

LEMMA SaveUserType ==
    ASSUME TypeInv, NEW u \in Users, NEW a \in Accounts, SaveUser(u, a)
    PROVE  /\ TypeInv' /\ UNCHANGED <<challenge, issued, session, pc, tx, tries, uses, proved>>
           /\ vouched \subseteq vouched' /\ (user'[u].verified => u \in vouched')
           /\ \A v \in Users \ {u} : user'[v] = user[v]
<1>1. /\ EmailFree(u, a.email) /\ user' = [user EXCEPT ![u] = a] /\ edits' \in 0..MaxEdits
      /\ decided' = [decided EXCEPT ![u] = a.blocked]
      /\ vouched' = IF a.verified THEN vouched \cup {u} ELSE vouched
      /\ UNCHANGED <<challenge, inbox, session, issued, now, pc, tx, tries, uses, proved>>
  BY EditsType DEF SaveUser
<1>2. a.blocked \in BOOLEAN
  BY DEF Accounts
<1>3. decided' \in [Users -> BOOLEAN] /\ vouched' \in SUBSET Users
  BY <1>1, <1>2 DEF TypeInv, TypeOK
<1>4. TypeInv' /\ user'[u] = a /\ \A v \in Users \ {u} : user'[v] = user[v]
  BY <1>1, <1>3, WrittenType
<1> QED
  BY <1>1, <1>4

-----------------------------------------------------------------------------
(* Every step keeps the types.                                             *)

LEMMA TypeInit == Init => TypeInv
<1> SUFFICES ASSUME Init PROVE TypeInv
  OBVIOUS
<1>1. TypeOK
  BY BlankType, BoundsAssumption DEF Init, TypeOK, Typed, Times, Codes, Labels
<1>2. ShapeInv
  BY DEF Init, ShapeInv, ShapeOK
<1> QED
  BY <1>1, <1>2 DEF TypeInv

LEMMA TypeStep == TypeInv /\ [Next]_vars => TypeInv'
<1> SUFFICES ASSUME TypeInv, [Next]_vars PROVE TypeInv'
  OBVIOUS
<1>1. ASSUME NEW w \in Workers, Call(w) PROVE TypeInv'
  <2>1. CASE TurnAway(w)
    BY <2>1, StutterType DEF TurnAway
  <2>2. ASSUME NEW u \in Users, Authenticate(w, u) PROVE TypeInv'
    BY <2>2, AuthenticateType
  <2>3. ASSUME NEW u \in Users, LoadAccount(w, u) PROVE TypeInv'
    BY <2>3, LoadAccountType
  <2>4. ASSUME NEW u \in Users, NEW e \in Emails, Register(w, u, e) PROVE TypeInv'
    BY <2>4, RegisterType
  <2>5. ASSUME NEW u \in Users, NEW e \in Emails, Resend(w, u, e) PROVE TypeInv'
    BY <2>5, ResendType
  <2>6. ASSUME NEW u \in Users, NEW e \in Emails, NEW c \in Known, Verify(w, u, e, c)
        PROVE TypeInv'
    BY <2>6, VerifyType
  <2> QED
    BY <1>1, <2>1, <2>2, <2>3, <2>4, <2>5, <2>6 DEF Call
<1>2. ASSUME NEW w \in Workers, Step(w) PROVE TypeInv'
  <2>1. CASE SaveChallenge(w)
    BY <2>1, SaveChallengeType
  <2>2. CASE Deliver(w)
    BY <2>2, DeliverType
  <2>3. CASE LockChallenge(w)
    BY <2>3, LockType
  <2>4. CASE RejectChallenge(w)
    BY <2>4, RejectType
  <2>5. CASE WrongCode(w)
    BY <2>5, WrongCodeType
  <2>6. CASE RightCode(w)
    BY <2>6, RightCodeType
  <2>7. CASE Login(w)
    BY <2>7, LoginType
  <2>8. CASE SaveNames(w)
    BY <2>8, SaveNamesType
  <2>9. ASSUME NEW e \in Emails, ChangeEmail(w, e) PROVE TypeInv'
    BY <2>9, ChangeEmailType
  <2> QED
    BY <1>2, <2>1, <2>2, <2>3, <2>4, <2>5, <2>6, <2>7, <2>8, <2>9 DEF Step
<1>3. ASSUME NEW w \in Workers, Abort(w) PROVE TypeInv'
  BY <1>3, RejectType
<1>4. ASSUME NEW u \in Users, Logout(u) PROVE TypeInv'
  BY <1>4, LogoutType
<1>5. ASSUME NEW u \in Users, DeleteAccount(u) PROVE TypeInv'
  BY <1>5, DeleteAccountType
<1>6. CASE Administer
  <2>1. ASSUME NEW u \in Users, NEW b \in BOOLEAN, SetBlocked(u, b) \/ SetActive(u, b)
        PROVE TypeInv'
    BY <2>1, SetFlagType
  <2>2. ASSUME NEW u \in Users, NEW a \in Accounts, SaveUser(u, a) PROVE TypeInv'
    BY <2>2, SaveUserType
  <2> QED
    BY <1>6, <2>1, <2>2 DEF Administer
<1>7. CASE Tick
  BY <1>7, TickType
<1>8. CASE UNCHANGED vars
  BY <1>8, StutterType
<1> QED
  BY <1>1, <1>2, <1>3, <1>4, <1>5, <1>6, <1>7, <1>8 DEF Next

(* For any numbers of users, workers, codes and attempts, every variable   *)
(* keeps its type, no two accounts have one address and no challenge       *)
(* counts more attempts than the maximum: the code of apps/authentication, *)
(* the account page and the admin's pages, in any order.                   *)
THEOREM TypeCorrect == Spec => []TypeOK
<1>1. TypeInv => TypeOK
  BY DEF TypeInv
<1> QED
  BY <1>1, TypeInit, TypeStep, PTL DEF Spec

-----------------------------------------------------------------------------
(* Codes.  A drawn code is with the worker that will save it, or it is the *)
(* code of one challenge, or it is gone: what was counted for it is what   *)
(* the challenge says.  That the check of a code holds the challenge locked*)
(* makes the row it read the row that is there.                            *)

Fresh(c) == tries[c] = 0 /\ uses[c] = 0

CodesInv ==
    /\ \A u \in Users : challenge[u] # None =>
          /\ challenge[u].code <= issued
          /\ tries[challenge[u].code] = challenge[u].attempts
          /\ uses[challenge[u].code] = IF challenge[u].consumed THEN 1 ELSE 0
    /\ \A u \in Users, v \in Users :
          u # v /\ challenge[u] # None /\ challenge[v] # None => challenge[u].code # challenge[v].code
    /\ \A w \in Workers : pc[w] = "save" =>
          /\ Fresh(tx[w].code)
          /\ \A u \in Users : challenge[u] # None => challenge[u].code # tx[w].code
    /\ \A w \in Workers, v \in Workers :
          w # v /\ pc[w] = "save" /\ pc[v] = "save" => tx[w].code # tx[v].code
    /\ \A c \in Codes : c > issued => Fresh(c)
    /\ \A c \in Codes : tries[c] <= MaxAttempts /\ uses[c] <= 1

LockInv ==
    \A w \in Workers : pc[w] = "check" /\ tx[w].row # None =>
        /\ tx[w].row = challenge[tx[w].user]
        /\ \A v \in Workers \ {w} : ~HoldsChallenge(v, tx[w].user)

SafeInv == TypeInv /\ CodesInv /\ LockInv

LEMMA SafeInit == Init => SafeInv
<1> SUFFICES ASSUME Init PROVE SafeInv
  OBVIOUS
<1>1. CodesInv
  BY AttemptsAssumption DEF Init, CodesInv, Fresh
<1>2. LockInv
  BY DEF Init, LockInv
<1> QED
  BY <1>1, <1>2, TypeInit DEF SafeInv

(* A step that leaves challenges and codes alone.                          *)
LEMMA SafeQuiet ==
    ASSUME SafeInv, TypeInv', UNCHANGED <<challenge, issued, tries, uses>>,
           \A v \in Workers : pc'[v] \in {"save", "check"} => pc'[v] = pc[v] /\ tx'[v] = tx[v]
    PROVE  SafeInv'
<1>1. CodesInv'
  BY DEF SafeInv, CodesInv, Fresh
<1>2. LockInv'
  BY DEF SafeInv, LockInv, HoldsChallenge
<1> QED
  BY <1>1, <1>2 DEF SafeInv

LEMMA SavedCode ==
    ASSUME TypeInv, NEW w \in Workers, pc[w] = "save"
    PROVE  tx[w].code \in 1..issued /\ tx[w].code \in Codes /\ tx[w].user \in Users
  BY IssuedType DEF TypeInv, ShapeInv, ShapeOK, Existing, Codes

LEMMA HeldCode ==
    ASSUME TypeInv, NEW u \in Users, challenge[u] # None
    PROVE  /\ challenge[u].code \in Codes /\ challenge[u].code \in Nat
           /\ challenge[u].attempts \in Nat /\ challenge[u].consumed \in BOOLEAN
  BY AttemptsAssumption, BoundsAssumption DEF TypeInv, TypeOK, Challenges, Codes

(* A code is drawn.                                                        *)
LEMMA SafeDrawn ==
    ASSUME SafeInv, TypeInv', NEW w \in Workers, UNCHANGED <<challenge, tries, uses>>,
           issued' = issued + 1, pc'[w] = "save", tx'[w].code = issued',
           \A v \in Workers \ {w} : pc'[v] = pc[v] /\ tx'[v] = tx[v]
    PROVE  SafeInv'
<1>1. issued \in Nat /\ issued' \in Codes /\ \A c \in Codes : c \in Nat
  <2>1. issued \in Nat /\ issued' \in Typed
    BY IssuedType DEF SafeInv, TypeInv, TypeOK
  <2> QED
    BY <2>1, BoundsAssumption DEF Codes, Typed
<1>2. \A u \in Users : challenge[u] # None => challenge[u].code < issued'
  BY <1>1, HeldCode DEF SafeInv, CodesInv
<1>3. \A v \in Workers : pc[v] = "save" => tx[v].code < issued'
  BY <1>1, SavedCode DEF SafeInv
<1>4. Fresh(issued')
  BY <1>1 DEF SafeInv, CodesInv
<1>5. CodesInv'
  <2>1. \A u \in Users : challenge'[u] # None =>
          /\ challenge'[u].code <= issued'
          /\ tries'[challenge'[u].code] = challenge'[u].attempts
          /\ uses'[challenge'[u].code] = IF challenge'[u].consumed THEN 1 ELSE 0
    BY <1>1, <1>2, HeldCode DEF SafeInv, CodesInv
  <2>2. \A u \in Users, v \in Users :
          u # v /\ challenge'[u] # None /\ challenge'[v] # None =>
              challenge'[u].code # challenge'[v].code
    BY DEF SafeInv, CodesInv
  <2>3. \A v \in Workers : pc'[v] = "save" =>
          /\ tries'[tx'[v].code] = 0 /\ uses'[tx'[v].code] = 0
          /\ \A u \in Users : challenge'[u] # None => challenge'[u].code # tx'[v].code
    <3>1. ASSUME NEW v \in Workers, v # w, pc'[v] = "save"
          PROVE  /\ tries'[tx'[v].code] = 0 /\ uses'[tx'[v].code] = 0
                 /\ \A u \in Users : challenge'[u] # None => challenge'[u].code # tx'[v].code
      BY <3>1 DEF SafeInv, CodesInv, Fresh
    <3>2. \A u \in Users : challenge'[u] # None => challenge'[u].code # issued'
      BY <1>1, <1>2, HeldCode DEF SafeInv
    <3> QED
      BY <1>4, <3>1, <3>2 DEF Fresh
  <2>4. \A v \in Workers, x \in Workers :
          v # x /\ pc'[v] = "save" /\ pc'[x] = "save" => tx'[v].code # tx'[x].code
    <3>1. \A v \in Workers \ {w} : pc'[v] = "save" => tx'[v].code # issued'
      BY <1>1, <1>3, SavedCode DEF SafeInv
    <3>2. ASSUME NEW v \in Workers, NEW x \in Workers, v # x, pc'[v] = "save", pc'[x] = "save"
          PROVE  tx'[v].code # tx'[x].code
      <4>1. CASE v = w \/ x = w
        BY <3>1, <3>2, <4>1
      <4>2. CASE v # w /\ x # w
        BY <3>2, <4>2 DEF SafeInv, CodesInv
      <4> QED
        BY <4>1, <4>2
    <3> QED
      BY <3>2
  <2>5. \A c \in Codes : c > issued' => tries'[c] = 0 /\ uses'[c] = 0
    BY <1>1 DEF SafeInv, CodesInv, Fresh
  <2>6. \A c \in Codes : tries'[c] <= MaxAttempts /\ uses'[c] <= 1
    BY DEF SafeInv, CodesInv
  <2> QED
    BY <2>1, <2>2, <2>3, <2>4, <2>5, <2>6 DEF CodesInv, Fresh
<1>6. LockInv'
  BY DEF SafeInv, LockInv, HoldsChallenge
<1> QED
  BY <1>5, <1>6 DEF SafeInv

(* A code becomes the code of its user, whose challenge nobody holds.      *)
LEMMA SafeSaved ==
    ASSUME SafeInv, NEW w \in Workers, SaveChallenge(w)
    PROVE  SafeInv'
<1> DEFINE u == tx[w].user
           c == tx[w].code
<1>1. /\ TypeInv' /\ pc[w] = "save"
      /\ pc'[w] = "mail" /\ \A v \in Workers \ {w} : pc'[v] = pc[v] /\ tx'[v] = tx[v]
      /\ u \in Users /\ c \in Codes
      /\ challenge'[u] # None /\ challenge'[u].code = c /\ challenge'[u].attempts = 0
      /\ challenge'[u].consumed = FALSE
      /\ \A v \in Users \ {u} : challenge'[v] = challenge[v]
  BY SaveChallengeType DEF SafeInv
<1>2. UNCHANGED <<issued, tries, uses>> /\ RowFree(w)
  BY DEF SaveChallenge, history
<1>3. /\ c <= issued /\ Fresh(c)
      /\ \A v \in Users : challenge[v] # None => challenge[v].code # c
      /\ \A v \in Workers \ {w} : pc[v] = "save" => tx[v].code # c
  BY <1>1, SavedCode, IssuedType DEF SafeInv, CodesInv, TypeInv
<1>4. CodesInv'
  <2>1. \A v \in Users : challenge'[v] # None =>
          /\ challenge'[v].code <= issued'
          /\ tries'[challenge'[v].code] = challenge'[v].attempts
          /\ uses'[challenge'[v].code] = IF challenge'[v].consumed THEN 1 ELSE 0
    <3>1. ASSUME NEW v \in Users \ {u}, challenge'[v] # None
          PROVE  /\ challenge'[v].code <= issued'
                 /\ tries'[challenge'[v].code] = challenge'[v].attempts
                 /\ uses'[challenge'[v].code] = IF challenge'[v].consumed THEN 1 ELSE 0
      BY <1>1, <1>2, <3>1 DEF SafeInv, CodesInv
    <3> QED
      BY <1>1, <1>2, <1>3, <3>1 DEF Fresh
  <2>2. \A v \in Users, x \in Users :
          v # x /\ challenge'[v] # None /\ challenge'[x] # None =>
              challenge'[v].code # challenge'[x].code
    BY <1>1, <1>3 DEF SafeInv, CodesInv
  <2>3. \A v \in Workers : pc'[v] = "save" =>
          /\ tries'[tx'[v].code] = 0 /\ uses'[tx'[v].code] = 0
          /\ \A x \in Users : challenge'[x] # None => challenge'[x].code # tx'[v].code
    BY <1>1, <1>2, <1>3 DEF SafeInv, CodesInv, Fresh
  <2>4. \A v \in Workers, x \in Workers :
          v # x /\ pc'[v] = "save" /\ pc'[x] = "save" => tx'[v].code # tx'[x].code
    BY <1>1 DEF SafeInv, CodesInv
  <2>5. \A d \in Codes : d > issued' => tries'[d] = 0 /\ uses'[d] = 0
    BY <1>2 DEF SafeInv, CodesInv, Fresh
  <2>6. \A d \in Codes : tries'[d] <= MaxAttempts /\ uses'[d] <= 1
    BY <1>2 DEF SafeInv, CodesInv
  <2> QED
    BY <2>1, <2>2, <2>3, <2>4, <2>5, <2>6 DEF CodesInv, Fresh
<1>5. LockInv'
  <2>1. \A v \in Workers : pc[v] = "check" /\ tx[v].row # None => tx[v].user # u
    BY <1>1, <1>2 DEF RowFree, HoldsChallenge
  <2>2. ASSUME NEW v \in Workers, pc'[v] = "check", tx'[v].row # None
        PROVE  tx'[v].row = challenge'[tx'[v].user]
    <3>1. v # w /\ pc[v] = "check" /\ tx'[v] = tx[v]
      BY <1>1, <2>2
    <3>2. tx[v].user # u /\ tx[v].user \in Users
      BY <2>1, <2>2, <3>1 DEF SafeInv, TypeInv, ShapeInv, ShapeOK, Existing
    <3> QED
      BY <1>1, <2>2, <3>1, <3>2 DEF SafeInv, LockInv
  <2>3. \A v \in Workers : pc'[v] = "check" /\ tx'[v].row # None =>
            \A x \in Workers \ {v} : ~(pc'[x] = "check" /\ tx'[x].row # None /\ tx'[x].user = tx'[v].user)
    BY <1>1 DEF SafeInv, LockInv, HoldsChallenge
  <2> QED
    BY <2>2, <2>3 DEF LockInv, HoldsChallenge
<1> QED
  BY <1>1, <1>4, <1>5 DEF SafeInv

(* The check of a code locks the challenge.                                *)
LEMMA SafeLocked ==
    ASSUME SafeInv, NEW w \in Workers, LockChallenge(w)
    PROVE  SafeInv'
<1>1. /\ TypeInv' /\ RowFree(w) /\ UNCHANGED <<rows, issued, history>>
      /\ pc'[w] = "check" /\ tx'[w].user = tx[w].user
      /\ tx'[w].row = challenge[tx[w].user]
      /\ \A v \in Workers \ {w} : pc'[v] = pc[v] /\ tx'[v] = tx[v]
  BY LockType DEF SafeInv
<1>2. CodesInv'
  BY <1>1 DEF SafeInv, CodesInv, Fresh, rows, history
<1>3. \A v \in Workers : pc'[v] = "check" /\ tx'[v].row # None =>
          tx'[v].row = challenge'[tx'[v].user]
  BY <1>1 DEF SafeInv, LockInv, rows
<1>4. ASSUME NEW v \in Workers, NEW x \in Workers \ {v}, pc'[v] = "check", tx'[v].row # None,
             pc'[x] = "check", tx'[x].row # None, tx'[x].user = tx'[v].user
      PROVE  FALSE
  <2>1. CASE v = w
    BY <1>1, <1>4, <2>1 DEF RowFree, HoldsChallenge
  <2>2. CASE x = w
    BY <1>1, <1>4, <2>2 DEF RowFree, HoldsChallenge
  <2>3. CASE v # w /\ x # w
    BY <1>1, <1>4, <2>3 DEF SafeInv, LockInv, HoldsChallenge
  <2> QED
    BY <2>1, <2>2, <2>3
<1>5. LockInv'
  BY <1>3, <1>4 DEF LockInv, HoldsChallenge
<1> QED
  BY <1>1, <1>2, <1>5 DEF SafeInv

(* A code is compared with the one that was typed.                         *)
LEMMA SafeCompared ==
    ASSUME SafeInv, TypeInv', NEW w \in Workers, pc[w] = "check", Usable(tx[w]), Compared(tx[w]),
           pc'[w] \notin {"save", "check"},
           \A v \in Workers \ {w} : pc'[v] = pc[v] /\ tx'[v] = tx[v],
           NEW b \in BOOLEAN,
           challenge'[tx[w].user] \in Challenges,
           challenge'[tx[w].user].code = challenge[tx[w].user].code,
           challenge'[tx[w].user].attempts = tx[w].row.attempts + 1,
           challenge'[tx[w].user].consumed = b,
           \A u \in Users \ {tx[w].user} : challenge'[u] = challenge[u],
           issued' = issued,
           uses' = IF b THEN [uses EXCEPT ![tx[w].row.code] = uses[tx[w].row.code] + 1] ELSE uses
    PROVE  SafeInv'
<1> DEFINE t == tx[w]
           u == t.user
           c == t.row.code
<1>1. /\ u \in Users /\ t.row \in Challenges /\ t.row # None /\ ~t.row.consumed
      /\ t.row.attempts \in Nat /\ t.row.attempts < MaxAttempts /\ c \in Codes
      /\ MaxAttempts \in Nat
  BY CheckedRow DEF SafeInv
<1>2. challenge[u] = t.row /\ challenge[u] # None
  BY <1>1 DEF SafeInv, LockInv
<1>3. tries[c] = t.row.attempts /\ uses[c] = 0 /\ c <= issued
  BY <1>1, <1>2 DEF SafeInv, CodesInv
<1>4. tries'[c] = tries[c] + 1 /\ \A d \in Codes \ {c} : tries'[d] = tries[d]
  BY ComparedType DEF SafeInv
<1>5. uses'[c] = (IF b THEN 1 ELSE 0) /\ \A d \in Codes \ {c} : uses'[d] = uses[d]
  BY <1>1, <1>3 DEF SafeInv, TypeInv, TypeOK
<1>6. challenge'[u] # None /\ challenge'[u].code = c
  BY <1>2, NoneAssumption
<1>7. \A v \in Users \ {u} : challenge[v] # None => challenge[v].code \in Codes \ {c}
  BY <1>1, <1>2, HeldCode DEF SafeInv, CodesInv
<1>8. \A v \in Workers : pc'[v] = "save" =>
          v # w /\ pc[v] = "save" /\ tx'[v] = tx[v] /\ tx[v].code \in Codes \ {c}
  BY <1>1, <1>2, SavedCode DEF SafeInv, CodesInv
<1>9. CodesInv'
  <2>1. \A v \in Users : challenge'[v] # None =>
          /\ challenge'[v].code <= issued'
          /\ tries'[challenge'[v].code] = challenge'[v].attempts
          /\ uses'[challenge'[v].code] = IF challenge'[v].consumed THEN 1 ELSE 0
    <3>1. ASSUME NEW v \in Users \ {u}, challenge'[v] # None
          PROVE  /\ challenge'[v].code <= issued'
                 /\ tries'[challenge'[v].code] = challenge'[v].attempts
                 /\ uses'[challenge'[v].code] = IF challenge'[v].consumed THEN 1 ELSE 0
      <4>1. challenge'[v] = challenge[v] /\ challenge[v].code \in Codes \ {c}
        BY <1>7, <3>1
      <4>2. /\ challenge[v].code <= issued
            /\ tries[challenge[v].code] = challenge[v].attempts
            /\ uses[challenge[v].code] = IF challenge[v].consumed THEN 1 ELSE 0
        BY <3>1, <4>1 DEF SafeInv, CodesInv
      <4> QED
        BY <1>4, <1>5, <4>1, <4>2
    <3>2. /\ challenge'[u].code <= issued'
          /\ tries'[challenge'[u].code] = challenge'[u].attempts
          /\ uses'[challenge'[u].code] = IF challenge'[u].consumed THEN 1 ELSE 0
      BY <1>3, <1>4, <1>5, <1>6
    <3> QED
      BY <3>1, <3>2
  <2>2. \A v \in Users, x \in Users :
          v # x /\ challenge'[v] # None /\ challenge'[x] # None =>
              challenge'[v].code # challenge'[x].code
    BY <1>1, <1>6, <1>7 DEF SafeInv, CodesInv
  <2>3. \A v \in Workers : pc'[v] = "save" =>
          /\ tries'[tx'[v].code] = 0 /\ uses'[tx'[v].code] = 0
          /\ \A x \in Users : challenge'[x] # None => challenge'[x].code # tx'[v].code
    <3>1. ASSUME NEW v \in Workers, pc'[v] = "save"
          PROVE  tries'[tx'[v].code] = 0 /\ uses'[tx'[v].code] = 0
      BY <1>4, <1>5, <1>8, <3>1 DEF SafeInv, CodesInv, Fresh
    <3>2. ASSUME NEW v \in Workers, pc'[v] = "save", NEW x \in Users, challenge'[x] # None
          PROVE  challenge'[x].code # tx'[v].code
      <4>1. CASE x = u
        BY <1>6, <1>8, <3>2, <4>1
      <4>2. CASE x # u
        BY <1>8, <3>2, <4>2 DEF SafeInv, CodesInv
      <4> QED
        BY <4>1, <4>2
    <3> QED
      BY <3>1, <3>2
  <2>4. \A v \in Workers, x \in Workers :
          v # x /\ pc'[v] = "save" /\ pc'[x] = "save" => tx'[v].code # tx'[x].code
    BY <1>8 DEF SafeInv, CodesInv
  <2>5. \A d \in Codes : d > issued' => tries'[d] = 0 /\ uses'[d] = 0
    <3>1. ASSUME NEW d \in Codes, d > issued' PROVE tries'[d] = 0 /\ uses'[d] = 0
      <4>1. d # c
        BY <1>3, <3>1, IssuedType, BoundsAssumption DEF SafeInv, TypeInv, Codes
      <4> QED
        BY <1>4, <1>5, <3>1, <4>1 DEF SafeInv, CodesInv, Fresh
    <3> QED
      BY <3>1
  <2>6. \A d \in Codes : tries'[d] <= MaxAttempts /\ uses'[d] <= 1
    <3>1. ASSUME NEW d \in Codes PROVE tries'[d] <= MaxAttempts /\ uses'[d] <= 1
      <4>1. CASE d = c
        BY <1>1, <1>3, <1>4, <1>5, <4>1
      <4>2. CASE d # c
        BY <1>4, <1>5, <4>2 DEF SafeInv, CodesInv
      <4> QED
        BY <4>1, <4>2
    <3> QED
      BY <3>1
  <2> QED
    BY <2>1, <2>2, <2>3, <2>4, <2>5, <2>6 DEF CodesInv, Fresh
<1>10. LockInv'
  <2>1. \A v \in Workers \ {w} : pc[v] = "check" /\ tx[v].row # None => tx[v].user # u
    BY <1>1 DEF SafeInv, LockInv, HoldsChallenge
  <2>2. ASSUME NEW v \in Workers, pc'[v] = "check", tx'[v].row # None
        PROVE  tx'[v].row = challenge'[tx'[v].user]
    <3>1. v # w /\ pc[v] = "check" /\ tx'[v] = tx[v]
      BY <2>2
    <3>2. tx[v].user # u /\ tx[v].user \in Users
      BY <2>1, <2>2, <3>1 DEF SafeInv, TypeInv, ShapeInv, ShapeOK, Existing
    <3> QED
      BY <2>2, <3>1, <3>2 DEF SafeInv, LockInv
  <2>3. \A v \in Workers : pc'[v] = "check" /\ tx'[v].row # None =>
            \A x \in Workers \ {v} : ~(pc'[x] = "check" /\ tx'[x].row # None /\ tx'[x].user = tx'[v].user)
    BY DEF SafeInv, LockInv, HoldsChallenge
  <2> QED
    BY <2>2, <2>3 DEF LockInv, HoldsChallenge
<1> QED
  BY <1>9, <1>10 DEF SafeInv
LEMMA SafeStep == SafeInv /\ [Next]_vars => SafeInv'
<1> SUFFICES ASSUME SafeInv, [Next]_vars PROVE SafeInv'
  OBVIOUS
<1> USE DEF rows, history
<1>0. TypeInv
  BY DEF SafeInv
<1>1. ASSUME NEW w \in Workers, Call(w) PROVE SafeInv'
  <2>1. CASE TurnAway(w)
    BY <1>0, <2>1, StutterType, SafeQuiet DEF TurnAway
  <2>2. ASSUME NEW u \in Users, Authenticate(w, u) PROVE SafeInv'
    BY <1>0, <2>2, AuthenticateType, SafeQuiet
  <2>3. ASSUME NEW u \in Users, LoadAccount(w, u) PROVE SafeInv'
    BY <1>0, <2>3, LoadAccountType, SafeQuiet
  <2>4. ASSUME NEW u \in Users, NEW e \in Emails, Register(w, u, e) PROVE SafeInv'
    BY <1>0, <2>4, RegisterType, SafeDrawn
  <2>5. ASSUME NEW u \in Users, NEW e \in Emails, Resend(w, u, e) PROVE SafeInv'
    BY <1>0, <2>5, ResendType, SafeDrawn
  <2>6. ASSUME NEW u \in Users, NEW e \in Emails, NEW c \in Known, Verify(w, u, e, c)
        PROVE SafeInv'
    BY <1>0, <2>6, VerifyType, SafeQuiet
  <2> QED
    BY <1>1, <2>1, <2>2, <2>3, <2>4, <2>5, <2>6 DEF Call
<1>2. ASSUME NEW w \in Workers, Step(w) PROVE SafeInv'
  <2>1. CASE SaveChallenge(w)
    BY <2>1, SafeSaved
  <2>2. CASE Deliver(w)
    BY <1>0, <2>2, DeliverType, SafeQuiet
  <2>3. CASE LockChallenge(w)
    BY <2>3, SafeLocked
  <2>4. CASE RejectChallenge(w)
    BY <1>0, <2>4, RejectType, SafeQuiet
  <2>5. CASE WrongCode(w)
    <3> DEFINE t == tx[w]
    <3>1. /\ TypeInv' /\ pc[w] = "check" /\ Usable(t) /\ Compared(t)
          /\ UNCHANGED <<issued, uses>>
          /\ pc'[w] = "idle" /\ \A v \in Workers \ {w} : pc'[v] = pc[v] /\ tx'[v] = tx[v]
          /\ challenge'[t.user] \in Challenges
          /\ challenge'[t.user].code = challenge[t.user].code
          /\ challenge'[t.user].attempts = t.row.attempts + 1
          /\ challenge'[t.user].consumed = challenge[t.user].consumed
          /\ \A u \in Users \ {t.user} : challenge'[u] = challenge[u]
      BY <1>0, <2>5, WrongCodeType
    <3>2. challenge[t.user].consumed = FALSE
      BY <3>1, CheckedRow, HeldCode DEF SafeInv, LockInv, Challenges
    <3> QED
      BY <3>1, <3>2, SafeCompared
  <2>6. CASE RightCode(w)
    <3> DEFINE t == tx[w]
    <3>1. /\ TypeInv' /\ pc[w] = "check" /\ Usable(t) /\ Compared(t)
          /\ uses' = [uses EXCEPT ![t.row.code] = uses[t.row.code] + 1] /\ issued' = issued
          /\ pc'[w] = "login" /\ \A v \in Workers \ {w} : pc'[v] = pc[v] /\ tx'[v] = tx[v]
          /\ challenge'[t.user] \in Challenges
          /\ challenge'[t.user].code = challenge[t.user].code
          /\ challenge'[t.user].attempts = t.row.attempts + 1
          /\ challenge'[t.user].consumed
          /\ \A u \in Users \ {t.user} : challenge'[u] = challenge[u]
      BY <1>0, <2>6, RightCodeType
    <3>2. challenge'[t.user].consumed = TRUE
      BY <3>1 DEF Challenges
    <3> QED
      BY <3>1, <3>2, SafeCompared
  <2>7. CASE Login(w)
    BY <1>0, <2>7, LoginType, SafeQuiet
  <2>8. CASE SaveNames(w)
    BY <1>0, <2>8, SaveNamesType, SafeQuiet
  <2>9. ASSUME NEW e \in Emails, ChangeEmail(w, e) PROVE SafeInv'
    BY <1>0, <2>9, ChangeEmailType, SafeDrawn
  <2> QED
    BY <1>2, <2>1, <2>2, <2>3, <2>4, <2>5, <2>6, <2>7, <2>8, <2>9 DEF Step
<1>3. ASSUME NEW w \in Workers, Abort(w) PROVE SafeInv'
  BY <1>0, <1>3, RejectType, SafeQuiet
<1>4. ASSUME NEW u \in Users, Logout(u) PROVE SafeInv'
  BY <1>0, <1>4, LogoutType, SafeQuiet
<1>5. ASSUME NEW u \in Users, DeleteAccount(u) PROVE SafeInv'
  BY <1>0, <1>5, DeleteAccountType, SafeQuiet
<1>6. CASE Administer
  <2>1. ASSUME NEW u \in Users, NEW b \in BOOLEAN, SetBlocked(u, b) \/ SetActive(u, b)
        PROVE SafeInv'
    BY <1>0, <2>1, SetFlagType, SafeQuiet
  <2>2. ASSUME NEW u \in Users, NEW a \in Accounts, SaveUser(u, a) PROVE SafeInv'
    BY <1>0, <2>2, SaveUserType, SafeQuiet
  <2> QED
    BY <1>6, <2>1, <2>2 DEF Administer
<1>7. CASE Tick
  BY <1>0, <1>7, TickType, SafeQuiet
<1>8. CASE UNCHANGED vars
  BY <1>0, <1>8, StutterType, SafeQuiet
<1> QED
  BY <1>1, <1>2, <1>3, <1>4, <1>5, <1>6, <1>7, <1>8 DEF Next

(* However many calls try a code at once, it verifies an account at most   *)
(* once: verify_email_code under select_for_update().                      *)
THEOREM CodesAreUsedOnce == Spec => []CodeUsedOnce
<1>1. SafeInv => CodeUsedOnce
  BY DEF SafeInv, CodesInv, CodeUsedOnce
<1> QED
  BY <1>1, SafeInit, SafeStep, PTL DEF Spec

(* However many calls try a code at once, it is compared with a typed one  *)
(* at most EMAIL_VERIFICATION_MAX_ATTEMPTS times: verify_email_code.       *)
THEOREM GuessesAreBounded == Spec => []AttemptsBounded
<1>1. SafeInv => AttemptsBounded
  BY DEF SafeInv, CodesInv, AttemptsBounded
<1> QED
  BY <1>1, SafeInit, SafeStep, PTL DEF Spec

LEMMA UsedByTheCheck ==
    ASSUME TypeInv, Next, uses' # uses
    PROVE  \E w \in Workers : RightCode(w)
<1> USE DEF history, vars
<1>1. ASSUME NEW w \in Workers PROVE ~Call(w) /\ ~Abort(w)
  <2>1. ~TurnAway(w) /\ ~Abort(w)
    BY DEF TurnAway, Abort
  <2>2. \A u \in Users : ~Authenticate(w, u) /\ ~LoadAccount(w, u)
    BY DEF Authenticate, LoadAccount
  <2>3. \A u \in Users, e \in Emails : ~Register(w, u, e) /\ ~Resend(w, u, e)
    BY DEF Register, Resend
  <2>4. \A u \in Users, e \in Emails, c \in Known : ~Verify(w, u, e, c)
    BY DEF Verify
  <2> QED
    BY <2>1, <2>2, <2>3, <2>4 DEF Call
<1>2. ASSUME NEW w \in Workers, Step(w) PROVE RightCode(w)
  <2>1. ~SaveChallenge(w) /\ ~Deliver(w) /\ ~LockChallenge(w) /\ ~RejectChallenge(w)
    BY DEF SaveChallenge, Deliver, LockChallenge, RejectChallenge
  <2>2. ~WrongCode(w) /\ ~Login(w) /\ ~SaveNames(w) /\ \A e \in Emails : ~ChangeEmail(w, e)
    BY DEF WrongCode, Login, SaveNames, ChangeEmail
  <2> QED
    BY <1>2, <2>1, <2>2 DEF Step
<1>3. \A u \in Users : ~Logout(u) /\ ~DeleteAccount(u)
  BY DEF Logout, DeleteAccount
<1>4. ~Administer /\ ~Tick
  BY DEF Administer, SetBlocked, SetActive, SaveUser, Tick
<1> QED
  BY <1>1, <1>2, <1>3, <1>4 DEF Next

(* A code verifies only while it is the code of the user's challenge, so a *)
(* code that was replaced never does: _save_challenge and                  *)
(* verify_email_code.                                                      *)
THEOREM OldCodesVerifyNothing == Spec => ResendInvalidates
<1> DEFINE Uses ==
        \A c \in Codes : uses'[c] # uses[c] =>
            \E u \in Users : challenge[u] # None /\ challenge[u].code = c /\ user'[u].verified
<1>1. SafeInv /\ [Next]_vars => [Uses]_vars
  <2> SUFFICES ASSUME SafeInv, Next, NEW c \in Codes, uses'[c] # uses[c]
               PROVE  \E u \in Users :
                         challenge[u] # None /\ challenge[u].code = c /\ user'[u].verified
    BY DEF vars
  <2>1. TypeInv
    BY DEF SafeInv
  <2>2. PICK w \in Workers : RightCode(w)
    BY <2>1, UsedByTheCheck
  <2> DEFINE t == tx[w]
  <2>3. /\ pc[w] = "check" /\ Usable(t) /\ t.code = t.row.code /\ user'[t.user].verified
        /\ uses' = [uses EXCEPT ![t.code] = uses[t.code] + 1]
    BY <2>1, <2>2, RightCodeType
  <2>4. /\ t.user \in Users /\ t.row # None /\ t.row.code \in Codes
    BY <2>1, <2>3, CheckedRow
  <2>5. challenge[t.user] = t.row
    BY <2>3, <2>4 DEF SafeInv, LockInv
  <2>6. c = t.code
    BY <2>1, <2>3, <2>4 DEF TypeInv, TypeOK
  <2> QED
    BY <2>3, <2>4, <2>5, <2>6
<1> QED
  BY <1>1, SafeInit, SafeStep, PTL DEF Spec, ResendInvalidates

-----------------------------------------------------------------------------
(* Sessions.  A stale page may write a verified flag back, but only one    *)
(* that was earned before.                                                 *)

Earned == proved \cup vouched

EarnedInv ==
    /\ session \subseteq Earned
    /\ \A u \in Users : user[u] # None /\ user[u].verified => u \in Earned
    /\ \A w \in Workers : pc[w] = "login" => tx[w].user \in Earned
    /\ \A w \in Workers : pc[w] = "account" /\ tx[w].row.verified => tx[w].user \in Earned

LEMMA EarnedInit == Init => EarnedInv
  BY DEF Init, EarnedInv

LEMMA EarnedKept ==
    ASSUME EarnedInv, Earned \subseteq Earned', session' \subseteq Earned',
           \A u \in Users : user'[u] = user[u] \/ (user'[u].verified => u \in Earned'),
           \A v \in Workers :
              \/ pc'[v] \notin {"login", "account"}
              \/ pc'[v] = pc[v] /\ tx'[v] = tx[v]
              \/ pc'[v] = "login" /\ tx'[v].user \in Earned'
              \/ pc'[v] = "account" /\ (tx'[v].row.verified => tx'[v].user \in Earned')
    PROVE  EarnedInv'
  BY DEF EarnedInv

LEMMA EarnedStep == TypeInv /\ EarnedInv /\ [Next]_vars => EarnedInv'
<1> SUFFICES ASSUME TypeInv, EarnedInv, [Next]_vars PROVE EarnedInv'
  OBVIOUS
<1> USE DEF rows, history
<1>0. session \subseteq Earned
  BY DEF EarnedInv
<1>1. ASSUME NEW w \in Workers, Call(w) PROVE EarnedInv'
  <2>1. CASE TurnAway(w)
    BY <1>0, <2>1, StutterType, EarnedKept DEF TurnAway, Earned
  <2>2. ASSUME NEW u \in Users, Authenticate(w, u) PROVE EarnedInv'
    <3>1. u \in Earned
      BY <2>2, AuthenticateType DEF MayLogIn, EarnedInv
    <3> QED
      BY <1>0, <2>2, <3>1, AuthenticateType, EarnedKept DEF Earned
  <2>3. ASSUME NEW u \in Users, LoadAccount(w, u) PROVE EarnedInv'
    <3>1. user[u] # None /\ (user[u].verified => u \in Earned)
      BY <2>3, LoadAccountType DEF EarnedInv
    <3> QED
      BY <1>0, <2>3, <3>1, LoadAccountType, EarnedKept DEF Earned
  <2>4. ASSUME NEW u \in Users, NEW e \in Emails, Register(w, u, e) PROVE EarnedInv'
    BY <1>0, <2>4, RegisterType, EarnedKept DEF Earned
  <2>5. ASSUME NEW u \in Users, NEW e \in Emails, Resend(w, u, e) PROVE EarnedInv'
    BY <1>0, <2>5, ResendType, EarnedKept DEF Earned
  <2>6. ASSUME NEW u \in Users, NEW e \in Emails, NEW c \in Known, Verify(w, u, e, c)
        PROVE EarnedInv'
    BY <1>0, <2>6, VerifyType, EarnedKept DEF Earned
  <2> QED
    BY <1>1, <2>1, <2>2, <2>3, <2>4, <2>5, <2>6 DEF Call
<1>2. ASSUME NEW w \in Workers, Step(w) PROVE EarnedInv'
  <2>1. CASE SaveChallenge(w)
    <3>1. UNCHANGED <<user, session, history>>
      BY <2>1 DEF SaveChallenge
    <3> QED
      BY <1>0, <2>1, <3>1, SaveChallengeType, EarnedKept DEF Earned
  <2>2. CASE Deliver(w)
    BY <1>0, <2>2, DeliverType, EarnedKept DEF Earned
  <2>3. CASE LockChallenge(w)
    BY <1>0, <2>3, LockType, EarnedKept DEF Earned
  <2>4. CASE RejectChallenge(w)
    BY <1>0, <2>4, RejectType, EarnedKept DEF Earned
  <2>5. CASE WrongCode(w)
    BY <1>0, <2>5, WrongCodeType, EarnedKept DEF Earned
  <2>6. CASE RightCode(w)
    BY <1>0, <2>6, RightCodeType, EarnedKept DEF Earned
  <2>7. CASE Login(w)
    <3>1. session' \subseteq Earned
      BY <1>0, <2>7, LoginType DEF EarnedInv
    <3> QED
      BY <2>7, <3>1, LoginType, EarnedKept DEF Earned
  <2>8. CASE SaveNames(w)
    <3>1. tx[w].row.verified => tx[w].user \in Earned
      BY <2>8, SaveNamesType DEF EarnedInv
    <3> QED
      BY <1>0, <2>8, <3>1, SaveNamesType, EarnedKept DEF Earned
  <2>9. ASSUME NEW e \in Emails, ChangeEmail(w, e) PROVE EarnedInv'
    BY <1>0, <2>9, ChangeEmailType, EarnedKept DEF Earned
  <2> QED
    BY <1>2, <2>1, <2>2, <2>3, <2>4, <2>5, <2>6, <2>7, <2>8, <2>9 DEF Step
<1>3. ASSUME NEW w \in Workers, Abort(w) PROVE EarnedInv'
  BY <1>0, <1>3, RejectType, EarnedKept DEF Earned
<1>4. ASSUME NEW u \in Users, Logout(u) PROVE EarnedInv'
  BY <1>0, <1>4, LogoutType, EarnedKept DEF Earned
<1>5. ASSUME NEW u \in Users, DeleteAccount(u) PROVE EarnedInv'
  <2>1. user[u] # None /\ (user[u].verified => u \in Earned)
    BY <1>5, DeleteAccountType DEF EarnedInv
  <2> QED
    BY <1>0, <1>5, <2>1, DeleteAccountType, EarnedKept DEF Earned
<1>6. CASE Administer
  <2>1. ASSUME NEW u \in Users, NEW b \in BOOLEAN, SetBlocked(u, b) \/ SetActive(u, b)
        PROVE EarnedInv'
    <3>1. user[u] # None /\ (user[u].verified => u \in Earned)
      BY <2>1, SetFlagType DEF EarnedInv
    <3> QED
      BY <1>0, <2>1, <3>1, SetFlagType, EarnedKept DEF Earned
  <2>2. ASSUME NEW u \in Users, NEW a \in Accounts, SaveUser(u, a) PROVE EarnedInv'
    BY <1>0, <2>2, SaveUserType, EarnedKept DEF Earned
  <2> QED
    BY <1>6, <2>1, <2>2 DEF Administer
<1>7. CASE Tick
  BY <1>0, <1>7, TickType, EarnedKept DEF Earned
<1>8. CASE UNCHANGED vars
  BY <1>0, <1>8, StutterType, EarnedKept DEF Earned
<1> QED
  BY <1>1, <1>2, <1>3, <1>4, <1>5, <1>6, <1>7, <1>8 DEF Next

(* Whoever has a session used a code or was verified by an administrator:  *)
(* registration, login, the account page and the admin, in any order.      *)
THEOREM OnlyVerifiedUsersGetIn == Spec => []SessionsAreEarned
<1>1. EarnedInv => SessionsAreEarned
  BY DEF EarnedInv, SessionsAreEarned, Earned
<1> QED
  BY <1>1, TypeInit, TypeStep, EarnedInit, EarnedStep, PTL DEF Spec

=============================================================================
