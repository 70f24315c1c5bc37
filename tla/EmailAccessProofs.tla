------------------------- MODULE EmailAccessProofs -------------------------
(* Further proofs about EmailVerification, for any number of users,        *)
(* workers, codes and attempts.  It implements CodeAccess: step by step,   *)
(* from SafeInv (the lock of the challenge makes the row a call read the   *)
(* row that is there) and EarnedInv (whoever is about to get in has earned *)
(* it).  And the two promises the account page breaks hold without what    *)
(* breaks them: a change of address, and a save of a stale page.           *)
EXTENDS EmailVerificationProofs

AccessInv == SafeInv /\ EarnedInv

AccessStep == [Access!Next]_(Access!vars)

-----------------------------------------------------------------------------
(* The mapped variables.                                                   *)

LEMMA CodesAreNumbers == \A c \in Codes : c \in Nat /\ c # None
  BY BoundsAssumption, NoneAssumption DEF Codes

LEMMA ClosedStays ==
    ASSUME issued' = issued,
           \A v \in Workers :
              /\ pc'[v] = "save" <=> pc[v] = "save"
              /\ pc[v] = "save" => tx'[v].code = tx[v].code
    PROVE  ClosedCodes' = ClosedCodes
  BY DEF ClosedCodes

(* A worker that neither has a code to save nor gets one.                  *)
LEMMA OtherWork ==
    ASSUME issued' = issued, NEW w \in Workers, pc[w] # "save", pc'[w] # "save",
           \A v \in Workers \ {w} : pc'[v] = pc[v] /\ tx'[v] = tx[v]
    PROVE  ClosedCodes' = ClosedCodes
  BY ClosedStays

(* A drawn code is not issued before its challenge is saved.               *)
LEMMA DrawnIsOpen ==
    ASSUME TypeInv, NEW w \in Workers, issued' = issued + 1,
           pc[w] # "save", pc'[w] = "save", tx'[w].code = issued',
           \A v \in Workers \ {w} : pc'[v] = pc[v] /\ tx'[v] = tx[v]
    PROVE  ClosedCodes' = ClosedCodes
<1>1. issued \in Nat /\ \A c \in Codes : c \in Nat
  BY IssuedType, CodesAreNumbers DEF TypeInv
<1>2. ASSUME NEW c \in Codes
      PROVE  /\ c <= issued' /\ (\A v \in Workers : pc'[v] = "save" => tx'[v].code # c)
             <=> c <= issued /\ (\A v \in Workers : pc[v] = "save" => tx[v].code # c)
  <2>1. c <= issued' /\ c # issued' <=> c <= issued
    BY <1>1
  <2> QED
    BY <2>1
<1> QED
  BY <1>2 DEF ClosedCodes

(* The worker that drew a code saves it, or dies.                          *)
LEMMA SavedIsClosed ==
    ASSUME SafeInv, NEW w \in Workers, pc[w] = "save", pc'[w] # "save", issued' = issued,
           \A v \in Workers \ {w} : pc'[v] = pc[v] /\ tx'[v] = tx[v]
    PROVE  /\ tx[w].code \in Codes /\ tx[w].code \notin ClosedCodes
           /\ ClosedCodes' = ClosedCodes \cup {tx[w].code}
<1> DEFINE k == tx[w].code
<1>1. k \in 1..issued /\ k \in Codes
  BY SavedCode DEF SafeInv
<1>2. k <= issued
  BY <1>1, IssuedType DEF SafeInv, TypeInv
<1>3. \A v \in Workers \ {w} : pc[v] = "save" => tx[v].code # k
  BY DEF SafeInv, CodesInv
<1>4. ASSUME NEW c \in Codes
      PROVE  c \in ClosedCodes' <=> c \in ClosedCodes \/ c = k
  BY <1>1, <1>2, <1>3 DEF ClosedCodes
<1>5. k \notin ClosedCodes
  BY DEF ClosedCodes
<1>6. ClosedCodes \subseteq Codes /\ ClosedCodes' \subseteq Codes
  BY DEF ClosedCodes, Codes
<1> QED
  BY <1>1, <1>4, <1>5, <1>6

LEMMA SameCodes ==
    ASSUME \A u \in Users : \/ challenge'[u] = challenge[u]
                            \/ /\ challenge'[u] # None /\ challenge[u] # None
                               /\ challenge'[u].code = challenge[u].code
    PROVE  CurrentCode' = CurrentCode
  BY DEF CurrentCode

(* Nothing of the abstract state changes.                                  *)
LEMMA AccessStutters ==
    ASSUME ClosedCodes' = ClosedCodes,
           UNCHANGED <<challenge, session, tries, uses, proved, vouched>>
    PROVE  AccessStep
<1>1. CurrentCode' = CurrentCode /\ UsedCodes' = UsedCodes
  BY SameCodes DEF UsedCodes
<1> QED
  BY <1>1 DEF AccessStep, Access!vars

-----------------------------------------------------------------------------
(* The challenge.                                                          *)

LEMMA SaveIssues ==
    ASSUME AccessInv, NEW w \in Workers, SaveChallenge(w)
    PROVE  AccessStep
<1> PICK t : t = tx[w]
  OBVIOUS
<1>0. SafeInv /\ TypeInv
  BY DEF AccessInv, SafeInv
<1>1. /\ pc[w] = "save" /\ pc'[w] # "save" /\ t.user \in Users /\ t.code \in Codes
      /\ \A v \in Workers \ {w} : pc'[v] = pc[v] /\ tx'[v] = tx[v]
      /\ challenge'[t.user] # None /\ challenge'[t.user].code = t.code
      /\ \A u \in Users \ {t.user} : challenge'[u] = challenge[u]
  BY <1>0, SaveChallengeType
<1>2. UNCHANGED <<session, issued, tries, uses, proved, vouched>>
  BY DEF SaveChallenge, history
<1>3. t.code \notin ClosedCodes /\ ClosedCodes' = ClosedCodes \cup {t.code}
  BY <1>0, <1>1, <1>2, SavedIsClosed
<1>4. CurrentCode' = [CurrentCode EXCEPT ![t.user] = t.code]
  BY <1>1 DEF CurrentCode
<1>5. UsedCodes' = UsedCodes
  BY <1>2 DEF UsedCodes
<1>6. Access!Issue(t.user, t.code)
  BY <1>2, <1>3, <1>4, <1>5 DEF Access!Issue
<1> QED
  BY <1>1, <1>6 DEF AccessStep, Access!Next

(* What a call compares a code with is the user's current code, which was  *)
(* not used and has attempts left.                                         *)
LEMMA ComparesCurrent ==
    ASSUME AccessInv, NEW w \in Workers, pc[w] = "check", Usable(tx[w])
    PROVE  LET c == tx[w].row.code IN
           /\ tx[w].user \in Users /\ challenge[tx[w].user] # None /\ c \in Codes
           /\ CurrentCode[tx[w].user] = c
           /\ c # None /\ c \notin UsedCodes /\ tries[c] < MaxAttempts
<1> DEFINE u == tx[w].user
           c == tx[w].row.code
<1>0. TypeInv /\ CodesInv /\ LockInv
  BY DEF AccessInv, SafeInv
<1>1. /\ u \in Users /\ tx[w].row # None /\ ~tx[w].row.consumed
      /\ tx[w].row.attempts < MaxAttempts /\ c \in Codes
  BY <1>0, CheckedRow
<1>2. tx[w].row = challenge[u]
  BY <1>0, <1>1 DEF LockInv
<1>3. tries[c] = tx[w].row.attempts /\ uses[c] = 0
  BY <1>0, <1>1, <1>2 DEF CodesInv
<1>4. CurrentCode[u] = c
  BY <1>1, <1>2 DEF CurrentCode
<1>5. c \notin UsedCodes
  BY <1>3 DEF UsedCodes
<1> QED
  BY <1>1, <1>2, <1>3, <1>4, <1>5, CodesAreNumbers

LEMMA WrongCodeMisses ==
    ASSUME AccessInv, NEW w \in Workers, WrongCode(w)
    PROVE  AccessStep
<1> PICK t : t = tx[w]
  OBVIOUS
<1>0. TypeInv
  BY DEF AccessInv, SafeInv
<1>1. /\ pc[w] = "check" /\ Usable(t) /\ Compared(t)
      /\ UNCHANGED <<session, issued, uses, proved, vouched>>
      /\ pc'[w] = "idle" /\ \A v \in Workers \ {w} : pc'[v] = pc[v] /\ tx'[v] = tx[v]
      /\ challenge'[t.user] \in Challenges
      /\ challenge'[t.user].code = challenge[t.user].code
      /\ \A u \in Users \ {t.user} : challenge'[u] = challenge[u]
  BY <1>0, WrongCodeType
<1>2. /\ t.user \in Users /\ challenge[t.user] # None /\ CurrentCode[t.user] = t.row.code
      /\ t.row.code # None /\ t.row.code \notin UsedCodes /\ tries[t.row.code] < MaxAttempts
  BY <1>1, ComparesCurrent
<1>3. CurrentCode' = CurrentCode
  BY <1>1, <1>2, SameCodes, NoneAssumption
<1>4. ClosedCodes' = ClosedCodes
  BY <1>1, OtherWork
<1>5. UsedCodes' = UsedCodes
  BY <1>1 DEF UsedCodes
<1>6. Access!Miss(t.user)
  BY <1>1, <1>2, <1>3, <1>4, <1>5 DEF Access!Miss, Access!Guess, Compared
<1> QED
  BY <1>2, <1>6 DEF AccessStep, Access!Next

LEMMA RightCodeHits ==
    ASSUME AccessInv, NEW w \in Workers, RightCode(w)
    PROVE  AccessStep
<1> PICK t : t = tx[w]
  OBVIOUS
<1>0. TypeInv
  BY DEF AccessInv, SafeInv
<1>1. /\ pc[w] = "check" /\ Usable(t) /\ Compared(t)
      /\ t.code = t.row.code /\ uses' = [uses EXCEPT ![t.code] = uses[t.code] + 1]
      /\ UNCHANGED <<session, issued, vouched>> /\ proved' = proved \cup {t.user}
      /\ pc'[w] = "login" /\ \A v \in Workers \ {w} : pc'[v] = pc[v] /\ tx'[v] = tx[v]
      /\ challenge'[t.user] \in Challenges
      /\ challenge'[t.user].code = challenge[t.user].code
      /\ \A u \in Users \ {t.user} : challenge'[u] = challenge[u]
  BY <1>0, RightCodeType
<1>2. /\ t.user \in Users /\ challenge[t.user] # None /\ CurrentCode[t.user] = t.row.code
      /\ t.row.code \in Codes
      /\ t.row.code # None /\ t.row.code \notin UsedCodes /\ tries[t.row.code] < MaxAttempts
  BY <1>1, ComparesCurrent
<1>3. CurrentCode' = CurrentCode
  BY <1>1, <1>2, SameCodes, NoneAssumption
<1>4. ClosedCodes' = ClosedCodes
  BY <1>1, OtherWork
<1>5. UsedCodes' = UsedCodes \cup {t.row.code}
  <2>1. uses \in [Codes -> Nat]
    BY <1>0 DEF TypeInv, TypeOK
  <2>2. uses'[t.row.code] > 0 /\ \A c \in Codes \ {t.row.code} : uses'[c] = uses[c]
    BY <1>1, <1>2, <2>1
  <2>3. Codes' = Codes
    BY DEF Codes
  <2> QED
    BY <1>2, <2>2, <2>3 DEF UsedCodes
<1>6. Access!Hit(t.user)
  BY <1>1, <1>2, <1>3, <1>4, <1>5 DEF Access!Hit, Access!Guess, Compared
<1> QED
  BY <1>2, <1>6 DEF AccessStep, Access!Next

-----------------------------------------------------------------------------
(* Sessions and administrators.                                            *)

LEMMA LoginEnters ==
    ASSUME AccessInv, NEW w \in Workers, Login(w)
    PROVE  AccessStep
<1> PICK t : t = tx[w]
  OBVIOUS
<1>0. TypeInv /\ EarnedInv
  BY DEF AccessInv, SafeInv
<1>1. /\ UNCHANGED <<challenge, issued, tries, uses, proved, vouched>>
      /\ pc[w] = "login" /\ session' = session \cup {t.user} /\ pc'[w] = "idle"
      /\ \A v \in Workers \ {w} : pc'[v] = pc[v] /\ tx'[v] = tx[v]
  BY <1>0, LoginType DEF rows, history
<1>2. t.user \in proved \cup vouched
  BY <1>0, <1>1 DEF EarnedInv, Earned
<1>3. t.user \in Users
  BY <1>0, <1>2 DEF TypeInv, TypeOK
<1>4. ClosedCodes' = ClosedCodes
  BY <1>1, OtherWork
<1>5. CurrentCode' = CurrentCode /\ UsedCodes' = UsedCodes
  BY <1>1 DEF CurrentCode, UsedCodes
<1>6. Access!Enter(t.user)
  BY <1>1, <1>2, <1>4, <1>5 DEF Access!Enter
<1> QED
  BY <1>3, <1>6 DEF AccessStep, Access!Next

(* A session is closed, or another one of the user's is left open.         *)
LEMMA ClosingLeaves ==
    ASSUME NEW u \in Users, Closes(u), ClosedCodes' = ClosedCodes,
           UNCHANGED <<challenge, tries, uses, proved, vouched>>
    PROVE  AccessStep
<1>1. CASE session' = session
  BY <1>1, AccessStutters
<1>2. CASE session' = session \ {u}
  <2>1. CurrentCode' = CurrentCode /\ UsedCodes' = UsedCodes
    BY DEF CurrentCode, UsedCodes
  <2>2. Access!Leave(u)
    BY <1>2, <2>1 DEF Access!Leave
  <2> QED
    BY <2>2 DEF AccessStep, Access!Next
<1> QED
  BY <1>1, <1>2 DEF Closes

LEMMA PageVouches ==
    ASSUME NEW u \in Users, NEW a \in Accounts, SaveUser(u, a)
    PROVE  AccessStep
<1>1. /\ UNCHANGED <<challenge, issued, session, pc, tx, tries, uses, proved>>
      /\ vouched' = IF a.verified THEN vouched \cup {u} ELSE vouched
  BY DEF SaveUser
<1>2. ClosedCodes' = ClosedCodes
  BY <1>1 DEF ClosedCodes
<1>3. CASE ~a.verified
  BY <1>1, <1>2, <1>3, AccessStutters
<1>4. CASE a.verified
  <2>1. CurrentCode' = CurrentCode /\ UsedCodes' = UsedCodes
    BY <1>1 DEF CurrentCode, UsedCodes
  <2>2. Access!Vouch(u)
    BY <1>1, <1>2, <1>4, <2>1 DEF Access!Vouch
  <2> QED
    BY <2>2 DEF AccessStep, Access!Next
<1> QED
  BY <1>3, <1>4

-----------------------------------------------------------------------------
(* Every step.                                                             *)

LEMMA AccessSteps == AccessInv /\ [Next]_vars => AccessStep
<1> SUFFICES ASSUME AccessInv, [Next]_vars PROVE AccessStep
  OBVIOUS
<1> USE DEF rows, history
<1>0. SafeInv /\ TypeInv
  BY DEF AccessInv, SafeInv
<1>1. ASSUME NEW w \in Workers, Call(w) PROVE AccessStep
  <2>1. CASE TurnAway(w)
    BY <2>1, ClosedStays, AccessStutters DEF TurnAway, vars
  <2>2. ASSUME NEW u \in Users, Authenticate(w, u) PROVE AccessStep
    BY <1>0, <2>2, AuthenticateType, OtherWork, AccessStutters DEF Authenticate
  <2>3. ASSUME NEW u \in Users, LoadAccount(w, u) PROVE AccessStep
    BY <1>0, <2>3, LoadAccountType, OtherWork, AccessStutters DEF LoadAccount
  <2>4. ASSUME NEW u \in Users, NEW e \in Emails, Register(w, u, e) PROVE AccessStep
    BY <1>0, <2>4, RegisterType, DrawnIsOpen, AccessStutters DEF Register
  <2>5. ASSUME NEW u \in Users, NEW e \in Emails, Resend(w, u, e) PROVE AccessStep
    BY <1>0, <2>5, ResendType, DrawnIsOpen, AccessStutters DEF Resend
  <2>6. ASSUME NEW u \in Users, NEW e \in Emails, NEW c \in Known, Verify(w, u, e, c)
        PROVE AccessStep
    BY <1>0, <2>6, VerifyType, OtherWork, AccessStutters DEF Verify
  <2> QED
    BY <1>1, <2>1, <2>2, <2>3, <2>4, <2>5, <2>6 DEF Call
<1>2. ASSUME NEW w \in Workers, Step(w) PROVE AccessStep
  <2>1. CASE Deliver(w)
    BY <1>0, <2>1, DeliverType, OtherWork, AccessStutters DEF Deliver
  <2>2. CASE LockChallenge(w)
    BY <1>0, <2>2, LockType, OtherWork, AccessStutters DEF LockChallenge
  <2>3. CASE RejectChallenge(w)
    BY <1>0, <2>3, RejectType, OtherWork, AccessStutters DEF RejectChallenge
  <2>4. CASE SaveNames(w)
    BY <1>0, <2>4, SaveNamesType, OtherWork, AccessStutters
  <2>5. ASSUME NEW e \in Emails, ChangeEmail(w, e) PROVE AccessStep
    <3> PICK u : u = tx[w].user
      OBVIOUS
    <3>1. /\ UNCHANGED <<challenge, tries, uses, proved, vouched>> /\ pc[w] = "account"
          /\ Closes(u)
      BY <2>5 DEF ChangeEmail
    <3>2. ClosedCodes' = ClosedCodes
      BY <1>0, <2>5, <3>1, ChangeEmailType, DrawnIsOpen
    <3>3. u \in Users
      BY <1>0, <3>1 DEF TypeInv, ShapeInv, ShapeOK, Existing
    <3> QED
      BY <3>1, <3>2, <3>3, ClosingLeaves
  <2> QED
    BY <1>2, <2>1, <2>2, <2>3, <2>4, <2>5, SaveIssues, WrongCodeMisses, RightCodeHits, LoginEnters
       DEF Step
<1>3. ASSUME NEW w \in Workers, Abort(w) PROVE AccessStep
  <2>1. /\ UNCHANGED <<challenge, session, issued, tries, uses, proved, vouched>>
        /\ pc'[w] = "idle" /\ \A v \in Workers \ {w} : pc'[v] = pc[v] /\ tx'[v] = tx[v]
    BY <1>0, <1>3, RejectType
  <2>2. CASE pc[w] # "save"
    BY <2>1, <2>2, OtherWork, AccessStutters
  <2>3. CASE pc[w] = "save"
    <3> PICK c : c = tx[w].code
      OBVIOUS
    <3>1. c \in Codes /\ c \notin ClosedCodes /\ ClosedCodes' = ClosedCodes \cup {c}
      BY <1>0, <2>1, <2>3, SavedIsClosed
    <3>2. CurrentCode' = CurrentCode /\ UsedCodes' = UsedCodes
      BY <2>1 DEF CurrentCode, UsedCodes
    <3>3. Access!Lose(c)
      BY <2>1, <3>1, <3>2 DEF Access!Lose
    <3> QED
      BY <3>1, <3>3 DEF AccessStep, Access!Next
  <2> QED
    BY <2>2, <2>3
<1>4. ASSUME NEW u \in Users, Logout(u) \/ DeleteAccount(u) PROVE AccessStep
  <2>1. /\ UNCHANGED <<challenge, issued, pc, tx, tries, uses, proved, vouched>> /\ Closes(u)
    BY <1>4 DEF Logout, DeleteAccount
  <2> QED
    BY <2>1, ClosedStays, ClosingLeaves
<1>5. CASE Administer
  <2>1. ASSUME NEW u \in Users, NEW b \in BOOLEAN, SetBlocked(u, b) \/ SetActive(u, b)
        PROVE AccessStep
    BY <2>1, ClosedStays, AccessStutters DEF SetBlocked, SetActive
  <2> QED
    BY <1>5, <2>1, PageVouches DEF Administer
<1>6. CASE Tick \/ UNCHANGED vars
  BY <1>6, ClosedStays, AccessStutters DEF Tick, vars
<1> QED
  BY <1>1, <1>2, <1>3, <1>4, <1>5, <1>6 DEF Next

LEMMA AccessStart == Init => Access!Init
<1> SUFFICES ASSUME Init PROVE Access!Init
  OBVIOUS
<1>1. CurrentCode = [u \in Users |-> None] /\ UsedCodes = {}
  BY DEF Init, CurrentCode, UsedCodes
<1>2. ClosedCodes = {}
  BY DEF Init, ClosedCodes, Codes
<1> QED
  BY <1>1, <1>2 DEF Init, Access!Init

(* Registration, resends, checks of codes, logins, the account page and    *)
(* the admin implement CodeAccess: every statement that commits is one of  *)
(* its steps, or nothing to it.                                            *)
THEOREM AccessImplemented == Spec => ImplementsAccess
<1>1. AccessInv /\ [Next]_vars => [Access!Next]_(Access!vars)
  BY AccessSteps DEF AccessStep
<1>2. SafeInv => TypeInv
  BY DEF SafeInv
<1>3. SafeInv /\ EarnedInv => AccessInv
  BY DEF AccessInv
<1> QED
  BY <1>1, <1>2, <1>3, AccessStart, SafeInit, SafeStep, EarnedInit, EarnedStep, PTL
     DEF Spec, ImplementsAccess, Access!Spec

-----------------------------------------------------------------------------
(* Addresses.  VerifiedAddressWasMailed does not hold of Spec.  It holds   *)
(* once the address of an account that exists never changes: whatever else *)
(* races, a code only goes to the address it was drawn for, and only the   *)
(* one who read it there can type it.                                      *)

SameAddresses == \A u \in Users : user[u] # None => user'[u].email = user[u].email

StableSpec == Init /\ [][Next /\ SameAddresses]_vars

Mailed(u) == \E c \in inbox[user[u].email] : uses[c] > 0

AddressOK ==
    /\ \A u \in Users : challenge[u] # None =>
          /\ user[u] # None
          /\ \A e \in Emails : challenge[u].code \in inbox[e] => user[u].email = e
    /\ \A e \in Emails : inbox[e] \subseteq 1..issued
    /\ \A u \in Users \ vouched : user[u] # None /\ user[u].verified => Mailed(u)

(* What a worker holds: a code nobody was sent yet, for the address of its *)
(* user; a code on its way to that address; a code read in some mailbox; a *)
(* page whose address is the account's.                                    *)
RouteOK(w) ==
    /\ pc[w] = "save" =>
          /\ user[tx[w].user].email = tx[w].email
          /\ \A e \in Emails : tx[w].code \notin inbox[e]
          /\ \A v \in Workers : pc[v] = "mail" => tx[v].code # tx[w].code
    /\ pc[w] = "mail" =>
          \A u \in Users :
             challenge[u] # None /\ challenge[u].code = tx[w].code => user[u].email = tx[w].email
    /\ pc[w] \in {"lock", "check"} =>
          tx[w].code = 0 \/ \E e \in Emails : tx[w].code \in inbox[e]
    /\ pc[w] = "account" =>
          /\ tx[w].row.email = user[tx[w].user].email
          /\ tx[w].row.verified /\ tx[w].user \notin vouched => Mailed(tx[w].user)

MailInv == AddressOK /\ \A w \in Workers : RouteOK(w)

StableInv == SafeInv /\ MailInv

LEMMA MailInit == Init => MailInv
  BY DEF Init, MailInv, AddressOK, RouteOK

LEMMA Routeless ==
    ASSUME NEW w \in Workers, pc'[w] \in {"idle", "login"}
    PROVE  RouteOK(w)'
  BY DEF RouteOK

(* Challenges keep their codes; mailboxes and the uses of a code only grow.*)
CodesStay ==
    /\ \A u \in Users : /\ challenge'[u] # None <=> challenge[u] # None
                        /\ challenge[u] # None => challenge'[u].code = challenge[u].code
    /\ inbox' = inbox
    /\ \A c \in Codes : uses[c] > 0 => uses'[c] > 0
    /\ vouched \subseteq vouched'
    /\ issued \in Nat /\ issued' \in Nat /\ issued <= issued'
    /\ Existing \subseteq Existing'

LEMMA MailedStays ==
    ASSUME TypeInv, SameAddresses, CodesStay, NEW u \in Users, user[u] # None, Mailed(u)
    PROVE  Mailed(u)'
<1>1. PICK c \in inbox[user[u].email] : uses[c] > 0
  BY DEF Mailed
<1>2. user'[u].email = user[u].email
  BY DEF SameAddresses
<1>3. user[u].email \in Emails
  BY DEF TypeInv, TypeOK, Accounts
<1>4. c \in Codes
  BY <1>1, <1>3 DEF TypeInv, TypeOK
<1>5. c \in inbox'[user'[u].email] /\ uses'[c] > 0
  BY <1>1, <1>2, <1>4 DEF CodesStay
<1> QED
  BY <1>5 DEF Mailed

LEMMA AddressesStay ==
    ASSUME TypeInv, AddressOK, SameAddresses, CodesStay,
           \A u \in Users \ vouched' :
              user'[u] # None /\ user'[u].verified => Mailed(u)' \/ (user[u] # None /\ Mailed(u))
    PROVE  AddressOK'
<1>1. ASSUME NEW u \in Users, challenge'[u] # None
      PROVE  /\ user'[u] # None
             /\ \A e \in Emails : challenge'[u].code \in inbox'[e] => user'[u].email = e
  BY <1>1 DEF AddressOK, CodesStay, SameAddresses, Existing
<1>2. \A e \in Emails : inbox'[e] \subseteq 1..issued'
  <2>1. \A c \in 1..issued : c \in 1..issued'
    BY DEF CodesStay
  <2> QED
    BY <2>1 DEF AddressOK, CodesStay
<1>3. \A u \in Users \ vouched' : user'[u] # None /\ user'[u].verified => Mailed(u)'
  BY MailedStays
<1> QED
  BY <1>1, <1>2, <1>3 DEF AddressOK

(* A worker that does nothing, in a step that sends nothing.               *)
LEMMA RouteStays ==
    ASSUME TypeInv, AddressOK, SameAddresses, CodesStay, NEW v \in Workers, RouteOK(v),
           pc'[v] = pc[v], tx'[v] = tx[v],
           \A x \in Workers : pc'[x] = "mail" => pc[x] = "mail" /\ tx'[x] = tx[x]
    PROVE  RouteOK(v)'
<1>0. pc[v] \in {"save", "account"} => tx[v].user \in Users /\ user[tx[v].user] # None
  BY DEF TypeInv, ShapeInv, ShapeOK, Existing
<1>1. CASE pc[v] = "save"
  BY <1>0, <1>1 DEF RouteOK, CodesStay, SameAddresses
<1>2. CASE pc[v] = "mail"
  BY <1>2 DEF RouteOK, CodesStay, SameAddresses, AddressOK
<1>3. CASE pc[v] \in {"lock", "check"}
  BY <1>3 DEF RouteOK, CodesStay
<1>4. CASE pc[v] = "account"
  <2> PICK t : t = tx[v]
    OBVIOUS
  <2>1. /\ t.user \in Users /\ user[t.user] # None /\ t.row.email = user[t.user].email
        /\ t.row.verified /\ t.user \notin vouched => Mailed(t.user)
    BY <1>0, <1>4 DEF RouteOK
  <2>2. t.row.verified /\ t.user \notin vouched' => Mailed(t.user)'
    BY <2>1, MailedStays DEF CodesStay
  <2>3. t.row.email = user'[t.user].email
    BY <2>1 DEF SameAddresses
  <2> QED
    BY <1>4, <2>2, <2>3 DEF RouteOK
<1>5. CASE pc[v] \notin {"save", "mail", "lock", "check", "account"}
  BY <1>5 DEF RouteOK
<1> QED
  BY <1>1, <1>2, <1>3, <1>4, <1>5

(* One worker moves, and is fine where it comes to.                        *)
LEMMA MailMoves ==
    ASSUME TypeInv, MailInv, SameAddresses, CodesStay, NEW w \in Workers,
           \A v \in Workers \ {w} : pc'[v] = pc[v] /\ tx'[v] = tx[v],
           pc'[w] # "mail", RouteOK(w)',
           \A u \in Users \ vouched' :
              user'[u] # None /\ user'[u].verified => Mailed(u)' \/ (user[u] # None /\ Mailed(u))
    PROVE  MailInv'
<1>1. AddressOK'
  BY AddressesStay DEF MailInv
<1>2. \A v \in Workers \ {w} : RouteOK(v)'
  BY RouteStays DEF MailInv
<1> QED
  BY <1>1, <1>2 DEF MailInv

LEMMA MailStays ==
    ASSUME TypeInv, MailInv, SameAddresses, CodesStay, UNCHANGED <<pc, tx>>,
           \A u \in Users \ vouched' :
              user'[u] # None /\ user'[u].verified => user[u] # None /\ Mailed(u)
    PROVE  MailInv'
<1>1. AddressOK'
  BY AddressesStay DEF MailInv
<1>2. \A v \in Workers : RouteOK(v)'
  BY RouteStays DEF MailInv
<1> QED
  BY <1>1, <1>2 DEF MailInv

LEMMA SendRoute ==
    ASSUME TypeInv, NEW w \in Workers, NEW u \in Users, NEW e \in Emails, StartSend(w, u, e)
    PROVE  /\ pc'[w] = "save" /\ tx'[w].user = u /\ tx'[w].email = e /\ tx'[w].code = issued + 1
           /\ issued' = issued + 1 /\ issued \in Nat
           /\ \A v \in Workers \ {w} : pc'[v] = pc[v] /\ tx'[v] = tx[v]
<1> DEFINE t == [Blank EXCEPT !.user = u, !.email = e, !.code = issued + 1, !.time = now]
<1>1. Goto(w, "save", t) /\ issued' = issued + 1 /\ issued \in Nat
  BY IssuedType DEF StartSend, TypeInv
<1>2. t.user = u /\ t.email = e /\ t.code = issued + 1
  BY DEF Blank
<1> HIDE DEF t
<1> QED
  BY <1>1, <1>2 DEF Goto, TypeInv, TypeOK

(* A code that is drawn is in no mailbox and on no way.                    *)
LEMMA DrawnIsUnread ==
    ASSUME TypeInv, MailInv, NEW w \in Workers, NEW u \in Users, NEW e \in Emails,
           StartSend(w, u, e), inbox' = inbox, user'[u].email = e
    PROVE  RouteOK(w)'
<1>1. /\ pc'[w] = "save" /\ tx'[w].user = u /\ tx'[w].email = e /\ tx'[w].code = issued + 1
      /\ issued \in Nat
      /\ \A v \in Workers \ {w} : pc'[v] = pc[v] /\ tx'[v] = tx[v]
  BY SendRoute
<1>2. issued + 1 \notin 1..issued
  BY <1>1
<1>3. \A x \in Emails : issued + 1 \notin inbox'[x]
  BY <1>2 DEF MailInv, AddressOK
<1>4. \A v \in Workers : pc'[v] = "mail" => tx'[v].code \in 1..issued
  BY <1>1 DEF TypeInv, ShapeInv, ShapeOK
<1>5. \A v \in Workers : pc'[v] = "mail" => tx'[v].code # tx'[w].code
  BY <1>1, <1>2, <1>4
<1> QED
  BY <1>1, <1>3, <1>5 DEF RouteOK

-----------------------------------------------------------------------------
(* Sending.                                                                *)

LEMMA SaveRoutes ==
    ASSUME StableInv, SameAddresses, NEW w \in Workers, SaveChallenge(w)
    PROVE  MailInv'
<1> PICK t : t = tx[w]
  OBVIOUS
<1>0. SafeInv /\ TypeInv /\ CodesInv /\ AddressOK /\ \A v \in Workers : RouteOK(v)
  BY DEF StableInv, SafeInv, MailInv
<1>1. /\ pc[w] = "save" /\ pc'[w] = "mail" /\ t.user \in Users /\ t.code \in Codes
      /\ \A v \in Workers \ {w} : pc'[v] = pc[v] /\ tx'[v] = tx[v]
      /\ challenge'[t.user] # None /\ challenge'[t.user].code = t.code
      /\ \A u \in Users \ {t.user} : challenge'[u] = challenge[u]
  BY <1>0, SaveChallengeType
<1>2. UNCHANGED <<user, inbox, issued, uses, vouched>>
  BY DEF SaveChallenge, history
<1>3. /\ user[t.user] # None /\ user[t.user].email = t.email
      /\ \A e \in Emails : t.code \notin inbox[e]
      /\ \A v \in Workers : pc[v] = "mail" => tx[v].code # t.code
  BY <1>0, <1>1 DEF RouteOK, TypeInv, ShapeInv, ShapeOK, Existing
<1>4. /\ \A u \in Users : challenge[u] # None => challenge[u].code # t.code
      /\ \A v \in Workers \ {w} : pc[v] = "save" => tx[v].code # t.code
  BY <1>0, <1>1 DEF CodesInv
<1>5. tx'[w].email = t.email /\ tx'[w].code = t.code
  <2> DEFINE m == [Blank EXCEPT !.email = t.email, !.code = t.code]
  <2>1. Goto(w, "mail", m)
    BY DEF SaveChallenge
  <2>2. m.email = t.email /\ m.code = t.code
    BY DEF Blank
  <2> HIDE DEF m
  <2> QED
    BY <1>0, <2>1, <2>2 DEF Goto, TypeInv, TypeOK
<1>6. AddressOK'
  <2>1. \A u \in Users : Mailed(u)' <=> Mailed(u)
    BY <1>2 DEF Mailed
  <2>2. ASSUME NEW u \in Users, challenge'[u] # None
        PROVE  /\ user'[u] # None
               /\ \A e \in Emails : challenge'[u].code \in inbox'[e] => user'[u].email = e
    BY <1>0, <1>1, <1>2, <1>3, <2>2 DEF AddressOK
  <2> QED
    BY <1>0, <1>2, <2>1, <2>2 DEF AddressOK
<1>7. RouteOK(w)'
  BY <1>1, <1>2, <1>3, <1>4, <1>5 DEF RouteOK
<1>8. ASSUME NEW v \in Workers \ {w} PROVE RouteOK(v)'
  <2>1. CASE pc[v] = "save"
    BY <1>0, <1>1, <1>2, <1>4, <1>5, <2>1 DEF RouteOK
  <2>2. CASE pc[v] = "mail"
    BY <1>0, <1>1, <1>2, <1>3, <2>2 DEF RouteOK
  <2>3. CASE pc[v] \notin {"save", "mail"}
    BY <1>0, <1>1, <1>2, <2>3 DEF RouteOK, Mailed
  <2> QED
    BY <2>1, <2>2, <2>3
<1> QED
  BY <1>6, <1>7, <1>8 DEF MailInv

LEMMA DeliverRoutes ==
    ASSUME StableInv, SameAddresses, NEW w \in Workers, Deliver(w)
    PROVE  MailInv'
<1> PICK t : t = tx[w]
  OBVIOUS
<1>0. SafeInv /\ TypeInv /\ AddressOK /\ \A v \in Workers : RouteOK(v)
  BY DEF StableInv, SafeInv, MailInv
<1>1. /\ pc[w] = "mail" /\ pc'[w] = "idle"
      /\ \A v \in Workers \ {w} : pc'[v] = pc[v] /\ tx'[v] = tx[v]
      /\ UNCHANGED <<user, challenge, issued, uses, vouched>>
  BY <1>0, DeliverType DEF Deliver, rows, history
<1>2. t.email \in Emails /\ t.code \in 1..issued
  BY <1>0, <1>1 DEF TypeInv, ShapeInv, ShapeOK
<1>3. /\ inbox'[t.email] = inbox[t.email] \cup {t.code}
      /\ \A e \in Emails : e # t.email => inbox'[e] = inbox[e]
  BY <1>0, <1>2 DEF Deliver, TypeInv, TypeOK
<1>4. \A e \in Emails : inbox[e] \subseteq inbox'[e]
  BY <1>3
<1>5. \A u \in Users : user[u] # None /\ Mailed(u) => Mailed(u)'
  BY <1>0, <1>1, <1>4 DEF Mailed, TypeInv, TypeOK, Accounts
<1>6. AddressOK'
  <2>1. ASSUME NEW u \in Users, challenge[u] # None, NEW e \in Emails,
               challenge[u].code \in inbox'[e]
        PROVE  user[u].email = e
    <3>1. CASE challenge[u].code \in inbox[e]
      BY <1>0, <2>1, <3>1 DEF AddressOK
    <3>2. CASE challenge[u].code \notin inbox[e]
      <4>1. e = t.email /\ challenge[u].code = t.code
        BY <1>3, <2>1, <3>2
      <4> QED
        BY <1>0, <1>1, <2>1, <4>1 DEF RouteOK
    <3> QED
      BY <3>1, <3>2
  <2> QED
    BY <1>0, <1>1, <1>2, <1>3, <1>5, <2>1 DEF AddressOK
<1>7. ASSUME NEW v \in Workers \ {w} PROVE RouteOK(v)'
  <2>1. CASE pc[v] = "save"
    <3>1. tx[v].code # t.code /\ \A e \in Emails : tx[v].code \notin inbox[e]
      BY <1>0, <1>1, <2>1 DEF RouteOK
    <3> QED
      BY <1>0, <1>1, <1>3, <2>1, <3>1 DEF RouteOK
  <2>2. CASE pc[v] = "mail"
    BY <1>0, <1>1, <2>2 DEF RouteOK
  <2>3. CASE pc[v] \in {"lock", "check"}
    BY <1>0, <1>1, <1>4, <2>3 DEF RouteOK
  <2>4. CASE pc[v] = "account"
    <3> PICK r : r = tx[v]
      OBVIOUS
    <3>1. r.user \in Users /\ user[r.user] # None
      BY <1>0, <2>4 DEF TypeInv, ShapeInv, ShapeOK, Existing
    <3>2. /\ r.row.email = user[r.user].email
          /\ r.row.verified /\ r.user \notin vouched => Mailed(r.user)'
      BY <1>0, <1>5, <2>4, <3>1 DEF RouteOK
    <3> QED
      BY <1>1, <2>4, <3>2 DEF RouteOK
  <2>5. CASE pc[v] \notin {"save", "mail", "lock", "check", "account"}
    BY <1>1, <2>5 DEF RouteOK
  <2> QED
    BY <2>1, <2>2, <2>3, <2>4, <2>5
<1> QED
  BY <1>1, <1>6, <1>7, Routeless DEF MailInv

-----------------------------------------------------------------------------
(* Typing codes, and everything else.                                      *)

LEMMA CodesStayQuietly ==
    ASSUME TypeInv, TypeInv', UNCHANGED <<challenge, inbox, uses>>, vouched \subseteq vouched',
           issued <= issued', Existing \subseteq Existing'
    PROVE  CodesStay
  BY IssuedType DEF CodesStay, TypeInv, TypeOK, Typed

LEMMA IssuedStays == TypeInv => issued <= issued
  BY IssuedType DEF TypeInv

(* Users, as far as these properties see them, after a step that writes    *)
(* no verified flag.                                                       *)
LEMMA VerifiedStays ==
    ASSUME AddressOK, vouched \subseteq vouched',
           \A u \in Users : user'[u] = user[u] \/ u \in vouched' \/ ~user'[u].verified
                            \/ (user[u] # None /\ user'[u].verified = user[u].verified)
    PROVE  \A u \in Users \ vouched' :
              user'[u] # None /\ user'[u].verified => user[u] # None /\ Mailed(u)
  BY DEF AddressOK

LEMMA CallRoutes ==
    ASSUME StableInv, SameAddresses, NEW w \in Workers, Call(w), ~TurnAway(w)
    PROVE  MailInv'
<1>0. TypeInv /\ MailInv /\ AddressOK
  BY DEF StableInv, SafeInv, MailInv
<1>1. ASSUME NEW u \in Users, Authenticate(w, u) PROVE MailInv'
  <2>1. /\ TypeInv' /\ pc'[w] = "login" /\ \A v \in Workers \ {w} : pc'[v] = pc[v] /\ tx'[v] = tx[v]
    BY <1>0, <1>1, AuthenticateType
  <2>2. UNCHANGED <<user, challenge, inbox, issued, uses, vouched>>
    BY <1>1 DEF Authenticate, rows, history
  <2>3. CodesStay
    BY <1>0, <2>1, <2>2, CodesStayQuietly, IssuedStays DEF Existing
  <2> QED
    BY <1>0, <2>1, <2>2, <2>3, VerifiedStays, Routeless, MailMoves
<1>2. ASSUME NEW u \in Users, LoadAccount(w, u) PROVE MailInv'
  <2>1. /\ TypeInv' /\ \A v \in Workers \ {w} : pc'[v] = pc[v] /\ tx'[v] = tx[v]
    BY <1>0, <1>2, LoadAccountType
  <2>2. UNCHANGED <<user, challenge, inbox, issued, uses, vouched>>
        /\ Goto(w, "account", [Blank EXCEPT !.user = u, !.row = user[u]]) /\ Authenticated(u)
    BY <1>2 DEF LoadAccount, rows, history
  <2>3. pc'[w] = "account" /\ tx'[w].user = u /\ tx'[w].row = user[u]
    BY <1>0, <2>2 DEF Goto, TypeInv, TypeOK, Blank
  <2>4. CodesStay
    BY <1>0, <2>1, <2>2, CodesStayQuietly, IssuedStays DEF Existing
  <2>5. user[u] # None
    BY <1>0, <2>2, SessionExists DEF TypeInv
  <2>6. user[u].verified /\ u \notin vouched => Mailed(u)'
    BY <1>0, <2>4, <2>5, MailedStays DEF AddressOK
  <2>7. RouteOK(w)'
    BY <2>2, <2>3, <2>6 DEF RouteOK, Mailed
  <2> QED
    BY <1>0, <2>1, <2>2, <2>3, <2>4, <2>7, VerifiedStays, MailMoves
<1>3. ASSUME NEW u \in Users, NEW e \in Emails, Register(w, u, e) PROVE MailInv'
  <2>1. /\ TypeInv' /\ ~user'[u].verified /\ \A v \in Users \ {u} : user'[v] = user[v]
        /\ issued' = issued + 1
    BY <1>0, <1>3, RegisterType
  <2>2. /\ UNCHANGED <<challenge, inbox, uses, vouched>> /\ StartSend(w, u, e)
        /\ user' = [user EXCEPT ![u] = NewAccount(e)] /\ user[u] = None
    BY <1>3 DEF Register, history
  <2>3. user'[u].email = e /\ Existing \subseteq Existing'
    BY <1>0, <2>2, NewAccountType, AccountIsARow DEF TypeInv, TypeOK, Existing
  <2>4. CodesStay
    BY <1>0, <2>1, <2>2, <2>3, IssuedType, CodesStayQuietly DEF TypeInv
  <2>5. RouteOK(w)'
    BY <1>0, <2>2, <2>3, DrawnIsUnread
  <2>6. pc'[w] = "save" /\ \A v \in Workers \ {w} : pc'[v] = pc[v] /\ tx'[v] = tx[v]
    BY <1>0, <2>2, SendRoute
  <2>7. \A v \in Users : (v = u /\ ~user'[v].verified) \/ user'[v] = user[v]
    BY <2>1
  <2>8. \A v \in Users \ vouched' : user'[v] # None /\ user'[v].verified =>
                                        user[v] # None /\ Mailed(v)
    BY <1>0, <2>2, <2>7 DEF AddressOK
  <2> QED
    BY <1>0, <2>1, <2>4, <2>5, <2>6, <2>8, MailMoves
<1>4. ASSUME NEW u \in Users, NEW e \in Emails, Resend(w, u, e) PROVE MailInv'
  <2>1. TypeInv' /\ issued' = issued + 1
    BY <1>0, <1>4, ResendType
  <2>2. UNCHANGED <<user, challenge, inbox, uses, vouched>> /\ StartSend(w, u, e)
        /\ user[u].email = e
    BY <1>4 DEF Resend, Pending, rows, history
  <2>3. CodesStay
    BY <1>0, <2>1, <2>2, IssuedType, CodesStayQuietly DEF TypeInv, Existing
  <2>4. RouteOK(w)'
    BY <1>0, <2>2, DrawnIsUnread
  <2> QED
    BY <1>0, <2>2, <2>3, <2>4, SendRoute, VerifiedStays, MailMoves
<1>5. ASSUME NEW u \in Users, NEW e \in Emails, NEW c \in Known, Verify(w, u, e, c)
      PROVE  MailInv'
  <2>1. /\ TypeInv' /\ pc'[w] = "lock" /\ \A v \in Workers \ {w} : pc'[v] = pc[v] /\ tx'[v] = tx[v]
    BY <1>0, <1>5, VerifyType
  <2>2. UNCHANGED <<user, challenge, inbox, issued, uses, vouched>>
        /\ Goto(w, "lock", [Blank EXCEPT !.user = u, !.code = c, !.time = now])
    BY <1>5 DEF Verify, rows, history
  <2>3. tx'[w].code = c
    BY <1>0, <2>2 DEF Goto, TypeInv, TypeOK, Blank
  <2>4. RouteOK(w)'
    BY <2>1, <2>2, <2>3 DEF RouteOK, Known
  <2>5. CodesStay
    BY <1>0, <2>1, <2>2, CodesStayQuietly, IssuedStays DEF Existing
  <2> QED
    BY <1>0, <2>1, <2>2, <2>4, <2>5, VerifiedStays, MailMoves
<1> QED
  BY <1>1, <1>2, <1>3, <1>4, <1>5 DEF Call

(* The check of a code: what is typed was read in the mailbox of the only  *)
(* address the code went to.                                               *)
LEMMA CheckRoutes ==
    ASSUME StableInv, SameAddresses, NEW w \in Workers,
           LockChallenge(w) \/ RejectChallenge(w) \/ WrongCode(w) \/ RightCode(w)
    PROVE  MailInv'
<1> PICK t : t = tx[w]
  OBVIOUS
<1>0. TypeInv /\ MailInv /\ AddressOK /\ RouteOK(w) /\ LockInv
  BY DEF StableInv, SafeInv, MailInv
<1>1. CASE LockChallenge(w)
  <2>1. /\ TypeInv' /\ \A v \in Workers \ {w} : pc'[v] = pc[v] /\ tx'[v] = tx[v]
    BY <1>0, <1>1, LockType
  <2>2. /\ UNCHANGED <<user, challenge, inbox, issued, uses, vouched>> /\ pc[w] = "lock"
        /\ Goto(w, "check", [t EXCEPT !.row = challenge[t.user]])
    BY <1>1 DEF LockChallenge, rows, history
  <2>3. pc'[w] = "check" /\ tx'[w].code = t.code
    BY <1>0, <2>2 DEF Goto, TypeInv, TypeOK, Locals
  <2>4. RouteOK(w)'
    BY <1>0, <2>2, <2>3 DEF RouteOK
  <2>5. CodesStay
    BY <1>0, <2>1, <2>2, CodesStayQuietly, IssuedStays DEF Existing
  <2> QED
    BY <1>0, <2>1, <2>2, <2>3, <2>4, <2>5, VerifiedStays, MailMoves
<1>2. CASE RejectChallenge(w)
  <2>1. /\ TypeInv' /\ pc'[w] = "idle" /\ \A v \in Workers \ {w} : pc'[v] = pc[v] /\ tx'[v] = tx[v]
    BY <1>0, <1>2, RejectType
  <2>2. UNCHANGED <<user, challenge, inbox, issued, uses, vouched>>
    BY <1>2 DEF RejectChallenge, rows, history
  <2>3. CodesStay
    BY <1>0, <2>1, <2>2, CodesStayQuietly, IssuedStays DEF Existing
  <2> QED
    BY <1>0, <2>1, <2>2, <2>3, VerifiedStays, Routeless, MailMoves
<1>3. CASE WrongCode(w)
  <2>1. /\ TypeInv' /\ pc[w] = "check" /\ Usable(t)
        /\ pc'[w] = "idle" /\ \A v \in Workers \ {w} : pc'[v] = pc[v] /\ tx'[v] = tx[v]
        /\ challenge'[t.user] \in Challenges
        /\ challenge'[t.user].code = challenge[t.user].code
        /\ \A u \in Users \ {t.user} : challenge'[u] = challenge[u]
    BY <1>0, <1>3, WrongCodeType
  <2>2. UNCHANGED <<user, inbox, issued, uses, vouched>>
    BY <1>3 DEF WrongCode
  <2>3. t.user \in Users /\ challenge[t.user] \in Challenges
    BY <1>0, <2>1, CheckedRow
  <2>4. CodesStay
    BY <1>0, <2>1, <2>2, <2>3, NoneAssumption, IssuedType DEF CodesStay, Existing, TypeInv
  <2> QED
    BY <1>0, <2>1, <2>2, <2>4, VerifiedStays, Routeless, MailMoves
<1>4. CASE RightCode(w)
  <2>1. /\ TypeInv' /\ pc[w] = "check" /\ Usable(t) /\ t.code = t.row.code
        /\ uses' = [uses EXCEPT ![t.code] = uses[t.code] + 1]
        /\ pc'[w] = "login" /\ \A v \in Workers \ {w} : pc'[v] = pc[v] /\ tx'[v] = tx[v]
        /\ challenge'[t.user] \in Challenges
        /\ challenge'[t.user].code = challenge[t.user].code
        /\ \A u \in Users \ {t.user} : challenge'[u] = challenge[u] /\ user'[u] = user[u]
    BY <1>0, <1>4, RightCodeType
  <2>2. UNCHANGED <<inbox, issued, vouched>>
    BY <1>4 DEF RightCode
  <2>3. /\ t.user \in Users /\ challenge[t.user] \in Challenges /\ user[t.user] # None
        /\ t.row # None /\ t.code \in Codes
    BY <1>0, <2>1, CheckedRow
  <2>4. challenge[t.user].code = t.code /\ challenge[t.user] # None
    BY <1>0, <2>1, <2>3, NoneAssumption DEF LockInv
  <2>5. uses'[t.code] > 0 /\ \A c \in Codes : uses[c] > 0 => uses'[c] > 0
    <3>1. uses \in [Codes -> Nat]
      BY <1>0 DEF TypeInv, TypeOK
    <3> QED
      BY <2>1, <2>3, <3>1
  <2>6. Existing \subseteq Existing'
    <3>1. user \in [Users -> Accounts \cup {None}]
      BY <1>0 DEF TypeInv, TypeOK
    <3>2. PICK a \in Accounts : a = user[t.user]
      BY <2>3, <3>1
    <3>3. user' = [user EXCEPT ![t.user] = [a EXCEPT !.verified = TRUE]]
      BY <1>0, <1>4, <3>2 DEF RightCode
    <3>4. user'[t.user] = [a EXCEPT !.verified = TRUE]
      BY <2>3, <3>1, <3>3
    <3>5. user'[t.user] # None
      BY <3>4, VerifiedFlag, AccountIsARow
    <3> QED
      BY <2>1, <3>5 DEF Existing
  <2>7. CodesStay
    BY <1>0, <2>1, <2>2, <2>3, <2>5, <2>6, NoneAssumption, IssuedType DEF CodesStay, TypeInv
  <2>8. PICK e \in Emails : t.code \in inbox[e]
    BY <1>0, <2>1, <2>3, CodesAreNumbers DEF RouteOK, Codes
  <2>9. user[t.user].email = e
    BY <1>0, <2>3, <2>4, <2>8 DEF AddressOK
  <2>10. Mailed(t.user)'
    BY <2>2, <2>3, <2>5, <2>8, <2>9 DEF Mailed, SameAddresses
  <2>11. \A u \in Users \ vouched' :
            user'[u] # None /\ user'[u].verified => Mailed(u)' \/ (user[u] # None /\ Mailed(u))
    BY <1>0, <2>1, <2>2, <2>10 DEF AddressOK
  <2> QED
    BY <1>0, <2>1, <2>7, <2>11, Routeless, MailMoves
<1> QED
  BY <1>1, <1>2, <1>3, <1>4

(* The account page saves the flag it loaded; it cannot change an address. *)
LEMMA PageRoutes ==
    ASSUME StableInv, SameAddresses, NEW w \in Workers,
           SaveNames(w) \/ \E e \in Emails : ChangeEmail(w, e)
    PROVE  MailInv'
<1> PICK t : t = tx[w]
  OBVIOUS
<1>0. TypeInv /\ MailInv /\ AddressOK /\ RouteOK(w)
  BY DEF StableInv, SafeInv, MailInv
<1>1. CASE SaveNames(w)
  <2>1. /\ TypeInv' /\ pc[w] = "account" /\ pc'[w] = "idle"
        /\ \A v \in Workers \ {w} : pc'[v] = pc[v] /\ tx'[v] = tx[v]
        /\ user'[t.user] = t.row /\ \A u \in Users \ {t.user} : user'[u] = user[u]
    BY <1>0, <1>1, SaveNamesType
  <2>2. UNCHANGED <<challenge, inbox, issued, uses, vouched>>
    BY <1>1 DEF SaveNames, history
  <2>3. t.user \in Users /\ user[t.user] # None /\ t.row \in Accounts
    BY <1>0, <2>1 DEF TypeInv, ShapeInv, ShapeOK, Existing
  <2>4. CodesStay
    BY <1>0, <2>1, <2>2, <2>3, CodesStayQuietly, IssuedStays, AccountIsARow DEF Existing
  <2>5. t.row.verified /\ t.user \notin vouched => Mailed(t.user)
    BY <1>0, <2>1 DEF RouteOK
  <2>6. \A u \in Users \ vouched' :
            user'[u] # None /\ user'[u].verified => Mailed(u)' \/ (user[u] # None /\ Mailed(u))
    BY <1>0, <2>1, <2>2, <2>3, <2>5 DEF AddressOK
  <2> QED
    BY <1>0, <2>1, <2>4, <2>6, Routeless, MailMoves
<1>2. ASSUME NEW e \in Emails, ChangeEmail(w, e) PROVE FALSE
  <2>1. /\ pc[w] = "account" /\ e # t.row.email
        /\ user' = [user EXCEPT ![t.user] = [t.row EXCEPT !.email = e, !.verified = FALSE]]
    BY <1>2 DEF ChangeEmail
  <2>2. t.user \in Users /\ user[t.user] # None /\ t.row \in Accounts
    BY <1>0, <2>1 DEF TypeInv, ShapeInv, ShapeOK, Existing
  <2>3. user'[t.user].email = e
    BY <1>0, <2>1, <2>2, ChangedAccount DEF TypeInv, TypeOK
  <2> QED
    BY <1>0, <2>1, <2>2, <2>3 DEF RouteOK, SameAddresses
<1> QED
  BY <1>1, <1>2

LEMMA StableStep == StableInv /\ [Next /\ SameAddresses]_vars => StableInv'
<1> SUFFICES ASSUME StableInv, [Next /\ SameAddresses]_vars PROVE MailInv'
  BY SafeStep DEF StableInv
<1>0. SafeInv /\ TypeInv /\ MailInv /\ AddressOK
  BY DEF StableInv, SafeInv, MailInv
<1>1. CASE UNCHANGED vars
  BY <1>0, <1>1 DEF vars, rows, history, MailInv, AddressOK, RouteOK, Mailed
<1>2. CASE Next /\ SameAddresses
  <2>0. SameAddresses
    BY <1>2
  <2>1. ASSUME NEW w \in Workers, Call(w) PROVE MailInv'
    BY <1>1, <2>0, <2>1, CallRoutes DEF TurnAway
  <2>2. ASSUME NEW w \in Workers, Login(w) \/ Abort(w) PROVE MailInv'
    <3>1. /\ TypeInv' /\ pc'[w] = "idle"
          /\ \A v \in Workers \ {w} : pc'[v] = pc[v] /\ tx'[v] = tx[v]
      BY <1>0, <2>2, LoginType, RejectType
    <3>2. UNCHANGED <<user, challenge, inbox, issued, uses, vouched>>
      BY <2>2 DEF Login, Abort, rows, history
    <3>3. CodesStay
      BY <1>0, <3>1, <3>2, CodesStayQuietly, IssuedStays DEF Existing
    <3> QED
      BY <1>0, <2>0, <3>1, <3>2, <3>3, VerifiedStays, Routeless, MailMoves
  <2>3. ASSUME NEW u \in Users, Logout(u) \/ DeleteAccount(u) PROVE MailInv'
    <3>1. /\ TypeInv' /\ \A v \in Users : user'[v] = user[v]
                                 \/ (user[v] # None /\ user'[v].verified = user[v].verified)
      BY <1>0, <2>3, LogoutType, DeleteAccountType DEF rows
    <3>2. UNCHANGED <<challenge, inbox, issued, uses, vouched, pc, tx>>
      BY <2>3 DEF Logout, DeleteAccount, rows, history
    <3>3. Existing \subseteq Existing'
      <4>1. CASE Logout(u)
        BY <4>1 DEF Logout, rows, Existing
      <4>2. CASE DeleteAccount(u)
        <5>1. user' = [user EXCEPT ![u] = [user[u] EXCEPT !.active = FALSE]]
          BY <4>2 DEF DeleteAccount
        <5>2. user[u] \in Accounts
          BY <1>0, <4>2, SessionExists DEF DeleteAccount, Authenticated, TypeInv, TypeOK
        <5>3. [user[u] EXCEPT !.active = FALSE] # None
          BY <5>2, ActiveFlag, AccountIsARow
        <5>4. \A v \in Users : user[v] # None => user'[v] # None
          BY <1>0, <5>1, <5>3 DEF TypeInv, TypeOK
        <5> QED
          BY <5>4 DEF Existing
      <4> QED
        BY <2>3, <4>1, <4>2
    <3>4. CodesStay
      BY <1>0, <3>1, <3>2, <3>3, CodesStayQuietly, IssuedStays
    <3> QED
      BY <1>0, <2>0, <3>1, <3>2, <3>4, VerifiedStays, MailStays
  <2>4. ASSUME NEW u \in Users, NEW b \in BOOLEAN, SetBlocked(u, b) \/ SetActive(u, b)
        PROVE MailInv'
    <3>1. /\ TypeInv' /\ UNCHANGED <<challenge, issued, pc, tx, uses, vouched>>
          /\ user[u] # None /\ user'[u].verified = user[u].verified
          /\ \A v \in Users \ {u} : user'[v] = user[v]
      BY <1>0, <2>4, SetFlagType
    <3>2. inbox' = inbox
      BY <2>4 DEF SetBlocked, SetActive
    <3>3. Existing \subseteq Existing'
      BY <1>0, <2>4, ActiveFlag, BlockedFlag, OwnAddressFree, AccountIsARow
         DEF SetBlocked, SetActive, Existing, TypeInv, TypeOK
    <3>4. CodesStay
      BY <1>0, <3>1, <3>2, <3>3, CodesStayQuietly, IssuedStays
    <3> QED
      BY <1>0, <2>0, <3>1, <3>4, VerifiedStays, MailStays
  <2>5. ASSUME NEW u \in Users, NEW a \in Accounts, SaveUser(u, a) PROVE MailInv'
    <3>1. /\ TypeInv' /\ UNCHANGED <<challenge, issued, pc, tx, uses>>
          /\ vouched \subseteq vouched' /\ (user'[u].verified => u \in vouched')
          /\ \A v \in Users \ {u} : user'[v] = user[v]
      BY <1>0, <2>5, SaveUserType
    <3>2. inbox' = inbox
      BY <2>5 DEF SaveUser
    <3>3. Existing \subseteq Existing'
      BY <1>0, <2>5, AccountIsARow DEF SaveUser, Existing, TypeInv, TypeOK
    <3>4. CodesStay
      BY <1>0, <3>1, <3>2, <3>3, CodesStayQuietly, IssuedStays
    <3>5. \A v \in Users : v \in vouched' \/ ~user'[v].verified \/ user'[v] = user[v]
      BY <3>1
    <3>6. \A v \in Users \ vouched' : user'[v] # None /\ user'[v].verified =>
                                          user[v] # None /\ Mailed(v)
      BY <1>0, <3>1, <3>5 DEF AddressOK
    <3> QED
      BY <1>0, <2>0, <3>1, <3>4, <3>6, MailStays
  <2>6. CASE Tick
    <3>1. TypeInv' /\ UNCHANGED <<user, challenge, inbox, issued, pc, tx, uses, vouched>>
      BY <1>0, <2>6, TickType DEF Tick, rows, history
    <3>2. CodesStay
      BY <1>0, <3>1, CodesStayQuietly, IssuedStays DEF Existing
    <3> QED
      BY <1>0, <2>0, <3>1, <3>2, VerifiedStays, MailStays
  <2> QED
    BY <1>2, <2>0, <2>1, <2>2, <2>3, <2>4, <2>5, <2>6, SaveRoutes, DeliverRoutes, CheckRoutes,
       PageRoutes DEF Next, Step, Administer
<1> QED
  BY <1>1, <1>2

(* As long as the address of an account stays what it was, a verified      *)
(* address got the code that verified it: the sending, typing and checking *)
(* of codes in apps/authentication, for any numbers of users and workers.  *)
(* What breaks it in Spec is that the account page and the admin change an *)
(* address and leave the challenge of the old one as it is.                *)
THEOREM StableAddressesWereMailed == StableSpec => []VerifiedAddressWasMailed
<1>1. Init => StableInv
  BY SafeInit, MailInit DEF StableInv
<1>2. StableInv => VerifiedAddressWasMailed
  BY DEF StableInv, MailInv, AddressOK, VerifiedAddressWasMailed, Mailed
<1> QED
  BY <1>1, <1>2, StableStep, PTL DEF StableSpec

-----------------------------------------------------------------------------
(* Blocks.  The account page is the only one that undoes them: when every  *)
(* page that is saved was loaded under the block that is still there, a    *)
(* block lasts.                                                            *)

FreshPages ==
    \A w \in Workers : SaveNames(w) \/ (\E e \in Emails : ChangeEmail(w, e)) =>
        tx[w].row.blocked = user[tx[w].user].blocked

FreshSpec == Init /\ [][Next /\ FreshPages]_vars

(* No decision about an account that does not exist.                       *)
BlockInv == BlockLasts /\ \A u \in Users : user[u] = None => ~decided[u]

FreshInv == TypeInv /\ BlockInv

(* A decision comes with its flag, and whatever else writes an account     *)
(* leaves the flag as it is.                                               *)
LEMMA BlocksStay ==
    ASSUME BlockInv, decided' = decided,
           \A u \in Users : \/ user'[u] = user[u]
                            \/ user[u] = None /\ user'[u] # None
                            \/ user[u] # None /\ user'[u].blocked = user[u].blocked
                               /\ user'[u] # None
    PROVE  BlockInv'
  BY DEF BlockInv, BlockLasts

LEMMA BlockDecided ==
    ASSUME BlockInv, NEW u \in Users, user'[u] # None, user'[u].blocked = decided'[u],
           \A v \in Users \ {u} : user'[v] = user[v] /\ decided'[v] = decided[v]
    PROVE  BlockInv'
  BY DEF BlockInv, BlockLasts

LEMMA WriteKeepsBlock ==
    ASSUME TypeInv, BlockInv, NEW u \in Users, user[u] # None, NEW a \in Accounts,
           a.blocked = user[u].blocked, user' = [user EXCEPT ![u] = a], decided' = decided
    PROVE  BlockInv'
<1>1. user'[u] = a /\ a # None /\ \A v \in Users \ {u} : user'[v] = user[v]
  BY AccountIsARow DEF TypeInv, TypeOK
<1>2. \A v \in Users : user'[v] = user[v] \/ v = u
  BY <1>1
<1> QED
  BY <1>1, <1>2, BlocksStay

LEMMA PageKeepsBlock ==
    ASSUME FreshInv, FreshPages, NEW w \in Workers,
           SaveNames(w) \/ \E e \in Emails : ChangeEmail(w, e)
    PROVE  BlockInv'
<1> PICK t : t = tx[w]
  OBVIOUS
<1>1. pc[w] = "account" /\ t.row.blocked = user[t.user].blocked /\ decided' = decided
  BY DEF FreshPages, SaveNames, ChangeEmail, history
<1>2. t.user \in Users /\ user[t.user] # None /\ t.row \in Accounts
  BY <1>1 DEF FreshInv, TypeInv, ShapeInv, ShapeOK, Existing
<1>3. CASE SaveNames(w)
  BY <1>1, <1>2, <1>3, WriteKeepsBlock DEF SaveNames, FreshInv
<1>4. ASSUME NEW e \in Emails, ChangeEmail(w, e) PROVE BlockInv'
  <2> PICK a : a = [t.row EXCEPT !.email = e, !.verified = FALSE]
    OBVIOUS
  <2>1. a \in Accounts /\ a.blocked = t.row.blocked
    BY <1>2 DEF Accounts
  <2>2. user' = [user EXCEPT ![t.user] = a]
    BY <1>4 DEF ChangeEmail
  <2> QED
    BY <1>1, <1>2, <2>1, <2>2, WriteKeepsBlock DEF FreshInv
<1> QED
  BY <1>3, <1>4

LEMMA FreshStep == FreshInv /\ [Next /\ FreshPages]_vars => FreshInv'
<1> SUFFICES ASSUME FreshInv, [Next /\ FreshPages]_vars PROVE BlockInv'
  BY TypeStep DEF FreshInv
<1>0. TypeInv /\ BlockInv /\ user \in [Users -> Accounts \cup {None}]
      /\ decided \in [Users -> BOOLEAN]
  BY DEF FreshInv, TypeInv, TypeOK
<1>1. ASSUME UNCHANGED <<user, decided>> PROVE BlockInv'
  BY <1>0, <1>1, BlocksStay
<1>2. ASSUME NEW w \in Workers, NEW u \in Users, NEW e \in Emails, Register(w, u, e)
      PROVE  BlockInv'
  <2>1. user[u] = None /\ user' = [user EXCEPT ![u] = NewAccount(e)] /\ decided' = decided
    BY <1>2 DEF Register, history
  <2>2. \A v \in Users : v # u => user'[v] = user[v]
    BY <1>0, <2>1
  <2>3. user'[u] # None
    BY <1>0, <2>1, NewAccountType, AccountIsARow
  <2> QED
    BY <1>0, <2>1, <2>2, <2>3, BlocksStay
<1>3. ASSUME NEW w \in Workers, RightCode(w) PROVE BlockInv'
  <2> PICK t : t = tx[w]
    OBVIOUS
  <2> PICK a : a = [user[t.user] EXCEPT !.verified = TRUE]
    OBVIOUS
  <2>1. pc[w] = "check" /\ Usable(t) /\ user' = [user EXCEPT ![t.user] = a] /\ decided' = decided
    BY <1>3 DEF RightCode
  <2>2. t.user \in Users /\ user[t.user] # None
    BY <1>0, <2>1, CheckedRow
  <2>3. a \in Accounts /\ a.blocked = user[t.user].blocked
    <3>1. user[t.user] \in Accounts
      BY <1>0, <2>2
    <3> QED
      BY <3>1 DEF Accounts
  <2> QED
    BY <1>0, <2>1, <2>2, <2>3, WriteKeepsBlock
<1>4. ASSUME NEW u \in Users, DeleteAccount(u) PROVE BlockInv'
  <2> PICK a : a = [user[u] EXCEPT !.active = FALSE]
    OBVIOUS
  <2>1. user[u] # None /\ user' = [user EXCEPT ![u] = a] /\ decided' = decided
    BY <1>0, <1>4, SessionExists DEF DeleteAccount, history, TypeInv
  <2>2. a \in Accounts /\ a.blocked = user[u].blocked
    <3>1. user[u] \in Accounts
      BY <1>0, <2>1
    <3> QED
      BY <3>1 DEF Accounts
  <2> QED
    BY <1>0, <2>1, <2>2, WriteKeepsBlock
<1>5. ASSUME NEW u \in Users, NEW b \in BOOLEAN, SetActive(u, b) PROVE BlockInv'
  <2> PICK a : a = [user[u] EXCEPT !.active = b]
    OBVIOUS
  <2>1. user[u] # None /\ user' = [user EXCEPT ![u] = a] /\ decided' = decided
    BY <1>5 DEF SetActive, history
  <2>2. a \in Accounts /\ a.blocked = user[u].blocked
    <3>1. user[u] \in Accounts
      BY <1>0, <2>1
    <3> QED
      BY <3>1 DEF Accounts
  <2> QED
    BY <1>0, <2>1, <2>2, WriteKeepsBlock
<1>6. ASSUME NEW u \in Users, NEW b \in BOOLEAN, SetBlocked(u, b) PROVE BlockInv'
  <2> PICK a : a = [user[u] EXCEPT !.blocked = b]
    OBVIOUS
  <2>1. user[u] # None /\ user' = [user EXCEPT ![u] = a]
        /\ decided' = [decided EXCEPT ![u] = b]
    BY <1>6 DEF SetBlocked
  <2>2. a # None /\ a.blocked = b
    <3>1. user[u] \in Accounts
      BY <1>0, <2>1
    <3>2. a \in Accounts /\ a.blocked = b
      BY <3>1 DEF Accounts
    <3> QED
      BY <3>2, AccountIsARow
  <2>3. user'[u] = a /\ decided'[u] = b
        /\ \A v \in Users \ {u} : user'[v] = user[v] /\ decided'[v] = decided[v]
    BY <1>0, <2>1
  <2> QED
    BY <1>0, <2>2, <2>3, BlockDecided
<1>7. ASSUME NEW u \in Users, NEW a \in Accounts, SaveUser(u, a) PROVE BlockInv'
  <2>1. user' = [user EXCEPT ![u] = a] /\ decided' = [decided EXCEPT ![u] = a.blocked]
    BY <1>7 DEF SaveUser
  <2>2. a # None
    BY AccountIsARow
  <2>3. user'[u] = a /\ decided'[u] = a.blocked
        /\ \A v \in Users \ {u} : user'[v] = user[v] /\ decided'[v] = decided[v]
    BY <1>0, <2>1
  <2> QED
    BY <1>0, <2>2, <2>3, BlockDecided
<1>8. CASE UNCHANGED vars
  BY <1>1, <1>8 DEF vars, rows, history
<1>9. CASE Next /\ FreshPages
  <2>1. ASSUME NEW w \in Workers, Call(w) PROVE BlockInv'
    BY <1>1, <1>2, <2>1
       DEF Call, TurnAway, Authenticate, LoadAccount, Resend, Verify, vars, rows, history
  <2>2. ASSUME NEW w \in Workers, Step(w) PROVE BlockInv'
    <3>1. CASE SaveNames(w) \/ \E e \in Emails : ChangeEmail(w, e)
      BY <1>9, <3>1, PageKeepsBlock
    <3>2. CASE RightCode(w)
      BY <1>3, <3>2
    <3>3. CASE \/ SaveChallenge(w) \/ Deliver(w) \/ LockChallenge(w) \/ RejectChallenge(w)
               \/ WrongCode(w) \/ Login(w)
      BY <1>1, <3>3 DEF SaveChallenge, Deliver, LockChallenge, RejectChallenge, WrongCode, Login,
                        rows, history
    <3> QED
      BY <2>2, <3>1, <3>2, <3>3 DEF Step
  <2>3. ASSUME NEW w \in Workers, Abort(w) PROVE BlockInv'
    BY <1>1, <2>3 DEF Abort, rows, history
  <2>4. ASSUME NEW u \in Users, Logout(u) PROVE BlockInv'
    BY <1>1, <2>4 DEF Logout, rows, history
  <2>5. CASE Tick
    BY <1>1, <2>5 DEF Tick, rows, history
  <2> QED
    BY <1>4, <1>5, <1>6, <1>7, <1>9, <2>1, <2>2, <2>3, <2>4, <2>5 DEF Next, Administer
<1> QED
  BY <1>8, <1>9

(* As long as no account page is saved that was loaded under another state *)
(* of the block, a block lasts until an administrator lifts it: login,     *)
(* codes, admin and the rest of apps/api/views.py leave it alone.  What    *)
(* breaks it in Spec is save(), which writes every column it loaded.       *)
THEOREM FreshPagesKeepBlocks == FreshSpec => []BlockLasts
<1>1. Init => FreshInv
  BY TypeInit DEF Init, FreshInv, BlockInv, BlockLasts
<1>2. FreshInv => BlockLasts
  BY DEF FreshInv, BlockInv
<1> QED
  BY <1>1, <1>2, FreshStep, PTL DEF FreshSpec

=============================================================================
