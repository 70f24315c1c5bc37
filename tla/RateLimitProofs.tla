-------------------------- MODULE RateLimitProofs --------------------------
(* Proofs about RateLimit, for any number of workers, scopes and callers.  *)
EXTENDS RateLimit, TLAPS

Active == {"add", "get", "purge", "set", "write"}
Between == {"get", "purge", "set", "write"}

(* The checks of a view are a sequence that is not empty.                  *)
LEMMA ViewChecks ==
    ASSUME NEW ip, NEW c \in Views(ip), \A i \in 1..Len(c) : c[i] \in Keys
    PROVE  c \in Seq(Keys) /\ c # <<>>
<1> DEFINE Single(s, i) == <<Check(s, i)>>
<1>1. ASSUME NEW s, NEW i, c = Single(s, i) PROVE c \in Seq(Keys) /\ c # <<>>
  <2>1. Len(c) = 1 /\ c[1] \in Keys
    BY <1>1
  <2> QED
    BY <1>1, <2>1
<1>2. ASSUME NEW a, NEW b, NEW d, c = <<a, b, d>> PROVE c \in Seq(Keys) /\ c # <<>>
  <2>1. Len(c) = 3
    BY <1>2
  <2>2. a \in Keys /\ b \in Keys /\ d \in Keys
    BY <1>2, <2>1
  <2> QED
    BY <1>2, <2>2
<1>3. CASE c \in {Register(ip), WebRegister(ip), VerifyEmail(ip), WebVerifyEmail(ip), Login(ip)}
  BY <1>1, <1>3 DEF Register, WebRegister, VerifyEmail, WebVerifyEmail, Login
<1>4. CASE c \in {Reserve(u, ip) : u \in Users}
  BY <1>1, <1>4 DEF Reserve
<1>5. CASE c \in {Resend(ip, e) : e \in Emails}
  BY <1>2, <1>5 DEF Resend
<1>6. CASE c \in {WebResend(ip, e) : e \in Emails}
  BY <1>2, <1>6 DEF WebResend
<1> QED
  BY <1>3, <1>4, <1>5, <1>6 DEF Views

LEMMA KeyType ==
    ASSUME TypeOK, NEW w \in Workers, pc[w] \in Active
    PROVE  /\ Key(w) \in Keys /\ tx[w].todo \in Seq(Keys)
           /\ Limit[Key(w).scope] \in Nat \ {0} /\ Window[Key(w).scope] \in Nat \ {0}
<1>1. tx[w].todo \in Seq(Keys) /\ tx[w].todo # <<>>
  BY DEF TypeOK, Locals, Active
<1>2. Key(w) \in Keys
  BY <1>1 DEF Key
<1> QED
  BY <1>1, <1>2, ScopesAssumption DEF Keys

LEMMA SpanType ==
    ASSUME NEW k \in Keys
    PROVE  /\ Span(k) \in Nat \ {0} /\ Narrow(k) \in Nat \ {0}
           /\ Window[k.scope] \in Nat \ {0} /\ Limit[k.scope] \in Nat \ {0}
           /\ Window[k.scope] <= Span(k) /\ Default <= Span(k)
           /\ Narrow(k) <= Window[k.scope] /\ Narrow(k) <= Default
  BY ScopesAssumption, TimesAssumption DEF Span, Narrow, Keys

(* A call that moves on keeps the types of the locals.                     *)
LEMMA GotoTypes ==
    ASSUME TypeOK, NEW w \in Workers, NEW label \in Labels, NEW t \in Locals,
           label \in Active => t.todo # <<>>, Goto(w, label, t)
    PROVE  /\ pc' \in [Workers -> Labels] /\ tx' \in [Workers -> Locals]
           /\ \A v \in Workers : pc'[v] \in Active => tx'[v].todo # <<>>
           /\ pc'[w] = label /\ tx'[w] = t
           /\ \A v \in Workers \ {w} : pc'[v] = pc[v] /\ tx'[v] = tx[v]
  BY DEF TypeOK, Goto, Active

LEMMA BlankType == Blank \in Locals
  BY DEF Blank, Locals

(* The locals of a call to add() or set().                                 *)
LEMMA SetsLocals ==
    ASSUME NEW r \in Locals, NEW b \in BOOLEAN, NEW n \in Nat \ {0}, NEW d \in Nat \ {0}
    PROVE  LET t == [r EXCEPT !.add = b, !.value = n, !.timeout = d] IN
           /\ t \in Locals /\ t.todo = r.todo /\ t.add = b /\ t.value = n /\ t.timeout = d
  BY DEF Locals

(* The types of what SELECT leaves.                                        *)
LEMMA SelectedType ==
    ASSUME NEW t \in Locals, NEW row, now \in Nat
    PROVE  /\ Selected(t, row) \in Locals
           /\ Selected(t, row).todo = t.todo /\ Selected(t, row).add = t.add
           /\ Selected(t, row).value = t.value /\ Selected(t, row).timeout = t.timeout
           /\ Selected(t, row).expires = now + t.timeout
           /\ Selected(t, row).found = "none" <=> row = None
           /\ Selected(t, row).found = "dead" <=> (row # None /\ row.expires < now)
           /\ Selected(t, row).found \in {"none", "live", "dead"}
<1> DEFINE f == IF row = None THEN "none" ELSE IF row.expires < now THEN "dead" ELSE "live"
<1>1. /\ f \in {"none", "live", "dead"}
      /\ f = "none" <=> row = None
      /\ f = "dead" <=> (row # None /\ row.expires < now)
  OBVIOUS
<1>2. Selected(t, row) = [t EXCEPT !.found = f, !.expires = now + t.timeout]
  BY DEF Selected
<1> HIDE DEF f
<1>3. now + t.timeout \in Nat
  BY DEF Locals
<1> QED
  BY <1>1, <1>2, <1>3 DEF Locals

LEMMA DisturbedType ==
    ASSUME TypeOK, NEW K, Disturbed(K)
    PROVE  /\ calm' \in [Keys -> [admitted : Nat, last : Times, clean : BOOLEAN]]
           /\ \A k \in Keys : /\ calm'[k].admitted = calm[k].admitted
                              /\ calm'[k].last = calm[k].last
                              /\ calm'[k].clean <=> (calm[k].clean /\ k \notin K)
<1> DEFINE c(k) == [calm[k] EXCEPT !.clean = @ /\ k \notin K]
<1>1. \A k \in Keys : c(k) \in [admitted : Nat, last : Times, clean : BOOLEAN]
                      /\ c(k).admitted = calm[k].admitted /\ c(k).last = calm[k].last
                      /\ c(k).clean = (calm[k].clean /\ k \notin K)
  BY DEF TypeOK
<1>2. calm' = [k \in Keys |-> c(k)]
  BY DEF Disturbed
<1> HIDE DEF c
<1> QED
  BY <1>1, <1>2

-----------------------------------------------------------------------------
(* Types                                                                   *)

(* What Begun does to the history.                                         *)
LEMMA BegunType ==
    ASSUME TypeOK, NEW w \in Workers, NEW k \in Keys, Begun(w, k)
    PROVE  /\ burst' \in [Keys -> [size : Nat, last : Times]]
           /\ calm' \in [Keys -> [admitted : Nat, last : Times, clean : BOOLEAN]]
           /\ \A j \in Keys \ {k} : burst'[j] = burst[j] /\ calm'[j] = calm[j]
           /\ burst'[k].last = burst[k].last
           /\ \/ burst'[k].size = burst[k].size
              \/ /\ burst'[k].size = 0
                 /\ now > burst[k].last + Span(k)
                 /\ \A v \in Workers \ {w} : ~Counting(v, k)
           /\ calm'[k].last = now
           /\ calm'[k].clean => \A v \in Workers \ {w} : ~Counting(v, k)
           /\ \/ calm'[k].admitted = 0
              \/ /\ calm'[k].admitted = calm[k].admitted
                 /\ now < calm[k].last + Narrow(k)
                 /\ calm'[k].clean => calm[k].clean
<1> DEFINE alone == \A v \in Workers \ {w} : ~Counting(v, k)
           c == calm[k]
           kept == [c EXCEPT !.last = now, !.clean = c.clean /\ alone]
           fresh == [admitted |-> 0, last |-> now, clean |-> alone]
<1>1. c \in [admitted : Nat, last : Times, clean : BOOLEAN] /\ now \in Times
  BY DEF TypeOK
<1>2. burst' = IF alone /\ now > burst[k].last + Span(k)
               THEN [burst EXCEPT ![k].size = 0] ELSE burst
  BY DEF Begun
<1>3. calm' = [calm EXCEPT ![k] = IF now < c.last + Narrow(k) THEN kept ELSE fresh]
  BY DEF Begun
<1>4. alone \in BOOLEAN
  OBVIOUS
<1>5. /\ kept \in [admitted : Nat, last : Times, clean : BOOLEAN]
      /\ kept.admitted = c.admitted /\ kept.last = now /\ kept.clean = (c.clean /\ alone)
  <2> HIDE DEF alone, c
  <2> QED
    BY <1>1, <1>4
<1>6. /\ fresh \in [admitted : Nat, last : Times, clean : BOOLEAN]
      /\ fresh.admitted = 0 /\ fresh.last = now /\ fresh.clean = alone
  <2> HIDE DEF alone, c
  <2> QED
    BY <1>1, <1>4
<1>7. /\ burst' \in [Keys -> [size : Nat, last : Times]]
      /\ \A j \in Keys \ {k} : burst'[j] = burst[j]
      /\ burst'[k].last = burst[k].last
      /\ \/ burst'[k].size = burst[k].size
         \/ burst'[k].size = 0 /\ now > burst[k].last + Span(k) /\ alone
  <2>1. burst \in [Keys -> [size : Nat, last : Times]]
    BY DEF TypeOK
  <2>2. CASE alone /\ now > burst[k].last + Span(k)
    <3> HIDE DEF alone
    <3> QED
      BY <1>2, <2>1, <2>2
  <2>3. CASE ~(alone /\ now > burst[k].last + Span(k))
    <3> HIDE DEF alone
    <3> QED
      BY <1>2, <2>1, <2>3
  <2> QED
    BY <2>2, <2>3
<1>8. /\ calm' \in [Keys -> [admitted : Nat, last : Times, clean : BOOLEAN]]
      /\ \A j \in Keys \ {k} : calm'[j] = calm[j]
      /\ calm'[k] = IF now < c.last + Narrow(k) THEN kept ELSE fresh
  <2>1. calm \in [Keys -> [admitted : Nat, last : Times, clean : BOOLEAN]]
    BY DEF TypeOK
  <2> HIDE DEF kept, fresh, c
  <2> QED
    BY <1>3, <1>5, <1>6, <2>1
<1>9. CASE now < c.last + Narrow(k)
  <2>1. calm'[k] = kept
    BY <1>8, <1>9
  <2>2. calm'[k].admitted = c.admitted /\ calm'[k].last = now /\ calm'[k].clean = (c.clean /\ alone)
    <3> HIDE DEF kept
    <3> QED
      BY <1>5, <2>1
  <2> QED
    BY <1>7, <1>8, <1>9, <2>2
<1>10. CASE ~(now < c.last + Narrow(k))
  <2>1. calm'[k] = fresh
    BY <1>8, <1>10
  <2>2. calm'[k].admitted = 0 /\ calm'[k].last = now /\ calm'[k].clean = alone
    <3> HIDE DEF fresh
    <3> QED
      BY <1>6, <2>1
  <2> QED
    BY <1>7, <1>8, <2>2
<1> QED
  BY <1>9, <1>10

(* What the decision does to the tables.                                   *)
LEMMA DecidedType ==
    ASSUME TypeOK, NEW w \in Workers, Decided(w)
    PROVE  /\ cache' \in [Keys -> Rows \cup {None}]
           /\ burst' \in [Keys -> [size : Nat, last : Times]]
           /\ \A j \in Keys \ {Key(w)} : cache'[j] = cache[j] /\ burst'[j] = burst[j]
           /\ burst'[Key(w)].size = burst[Key(w)].size + 1 /\ burst'[Key(w)].last = now
           /\ Key(w) \in Keys
           /\ IF Inserts(tx[w]) = Present(w) THEN cache'[Key(w)] = cache[Key(w)]
              ELSE /\ cache'[Key(w)] # None
                   /\ cache'[Key(w)].count = tx[w].value
                   /\ cache'[Key(w)].expires = tx[w].expires
<1> DEFINE k == Key(w)
           row == [count |-> tx[w].value, expires |-> tx[w].expires]
<1>1. k \in Keys
  BY KeyType DEF Decided, Active
<1>2. row \in Rows /\ row # None /\ row.count = tx[w].value /\ row.expires = tx[w].expires
  BY NoneAssumption DEF TypeOK, Locals, Rows
<1>3. cache' = IF Inserts(tx[w]) = Present(w) THEN cache ELSE [cache EXCEPT ![k] = row]
  BY DEF Decided, Stored
<1>4. burst' = [burst EXCEPT ![k] = [size |-> burst[k].size + 1, last |-> now]]
  BY DEF Decided
<1>5. cache \in [Keys -> Rows \cup {None}] /\ burst \in [Keys -> [size : Nat, last : Times]]
      /\ now \in Times
  BY DEF TypeOK
<1> HIDE DEF k, row
<1>6. /\ burst' \in [Keys -> [size : Nat, last : Times]]
      /\ \A j \in Keys \ {k} : burst'[j] = burst[j]
      /\ burst'[k].size = burst[k].size + 1 /\ burst'[k].last = now
  BY <1>1, <1>4, <1>5
<1>7. /\ cache' \in [Keys -> Rows \cup {None}]
      /\ \A j \in Keys \ {k} : cache'[j] = cache[j]
      /\ IF Inserts(tx[w]) = Present(w) THEN cache'[k] = cache[k] ELSE cache'[k] = row
  BY <1>1, <1>2, <1>3, <1>5
<1> QED
  BY <1>1, <1>2, <1>6, <1>7 DEF k

-----------------------------------------------------------------------------
(* Types                                                                   *)

LEMMA RequestType ==
    ASSUME TypeOK, NEW w \in Workers, Request(w)
    PROVE  TypeOK'
<1>1. PICK remote \in Peers, hop \in Peers \cup {None} :
        \E checks \in Views(ClientIp(remote, hop)) :
          /\ \A i \in 1..Len(checks) : checks[i] \in Keys /\ burst[checks[i]].size < MaxCalls
          /\ Goto(w, "add", [Blank EXCEPT !.todo = checks])
  BY DEF Request
<1>2. PICK checks \in Views(ClientIp(remote, hop)) :
          /\ \A i \in 1..Len(checks) : checks[i] \in Keys /\ burst[checks[i]].size < MaxCalls
          /\ Goto(w, "add", [Blank EXCEPT !.todo = checks])
  BY <1>1
<1>3. checks \in Seq(Keys) /\ checks # <<>>
  BY <1>2, ViewChecks
<1> DEFINE t == [Blank EXCEPT !.todo = checks]
<1>4. t \in Locals /\ t.todo = checks
  BY <1>3, BlankType DEF Locals
<1> HIDE DEF t
<1>5. "add" \in Labels /\ Goto(w, "add", t)
  BY <1>2 DEF Labels, t
<1>6. UNCHANGED <<cache, now, history>>
  BY DEF Request
<1> QED
  BY <1>3, <1>4, <1>5, <1>6, GotoTypes DEF TypeOK, history, Active

LEMMA SelectAddEffect ==
    ASSUME TypeOK, NEW w \in Workers, SelectAdd(w)
    PROVE  /\ TypeOK'
           /\ Key(w) \in Keys /\ tx'[w].todo = tx[w].todo /\ pc'[w] = "write"
           /\ tx'[w].add /\ tx'[w].value = 1 /\ tx'[w].timeout = Window[Key(w).scope]
           /\ tx'[w].expires = now + Window[Key(w).scope]
           /\ tx'[w].found = "none" <=> cache[Key(w)] = None
           /\ tx'[w].found = "dead" <=> (cache[Key(w)] # None /\ cache[Key(w)].expires < now)
           /\ \A v \in Workers \ {w} : pc'[v] = pc[v] /\ tx'[v] = tx[v]
<1> DEFINE k == Key(w)
           t == [tx[w] EXCEPT !.add = TRUE, !.value = 1, !.timeout = Window[k.scope]]
           s == Selected(t, cache[k])
<1>1. pc[w] = "add" /\ Begun(w, k) /\ Goto(w, "write", s) /\ UNCHANGED <<cache, now>>
  BY DEF SelectAdd
<1>2. k \in Keys /\ tx[w].todo # <<>> /\ Window[k.scope] \in Nat \ {0}
  BY <1>1, KeyType DEF Active, TypeOK
<1>3. t \in Locals /\ t.todo = tx[w].todo /\ t.add /\ t.value = 1 /\ t.timeout = Window[k.scope]
  <2> DEFINE d == Window[k.scope]
             r == tx[w]
  <2>1. r \in Locals /\ 1 \in Nat \ {0} /\ d \in Nat \ {0}
    BY <1>2 DEF TypeOK
  <2>2. t = [r EXCEPT !.add = TRUE, !.value = 1, !.timeout = d]
    OBVIOUS
  <2> HIDE DEF d, r, t
  <2>3. t \in Locals /\ t.todo = r.todo /\ t.add = TRUE /\ t.value = 1 /\ t.timeout = d
    BY <2>1, <2>2, SetsLocals
  <2> QED
    BY <2>3 DEF r, d
<1>4. now \in Nat
  BY DEF TypeOK, Times
<1> HIDE DEF k, t
<1>5. /\ s \in Locals /\ s.todo = tx[w].todo /\ s.add /\ s.value = 1 /\ s.timeout = Window[k.scope]
      /\ s.expires = now + Window[k.scope]
      /\ s.found = "none" <=> cache[k] = None
      /\ s.found = "dead" <=> (cache[k] # None /\ cache[k].expires < now)
  BY <1>3, <1>4, SelectedType
<1> HIDE DEF s
<1>6. /\ pc' \in [Workers -> Labels] /\ tx' \in [Workers -> Locals]
      /\ \A v \in Workers : pc'[v] \in Active => tx'[v].todo # <<>>
      /\ pc'[w] = "write" /\ tx'[w] = s
      /\ \A v \in Workers \ {w} : pc'[v] = pc[v] /\ tx'[v] = tx[v]
  BY <1>1, <1>2, <1>5, GotoTypes DEF Labels
<1>7. /\ burst' \in [Keys -> [size : Nat, last : Times]]
      /\ calm' \in [Keys -> [admitted : Nat, last : Times, clean : BOOLEAN]]
  BY <1>1, <1>2, BegunType
<1> QED
  BY <1>1, <1>2, <1>5, <1>6, <1>7 DEF TypeOK, Active, k

LEMMA SelectSetEffect ==
    ASSUME TypeOK, NEW w \in Workers, SelectSet(w)
    PROVE  /\ TypeOK'
           /\ Key(w) \in Keys /\ tx'[w].todo = tx[w].todo /\ pc'[w] = "write"
           /\ tx'[w].add = tx[w].add /\ tx'[w].value = tx[w].value
           /\ tx'[w].timeout = tx[w].timeout /\ tx'[w].expires = now + tx[w].timeout
           /\ tx'[w].found = "none" <=> cache[Key(w)] = None
           /\ \A v \in Workers \ {w} : pc'[v] = pc[v] /\ tx'[v] = tx[v]
<1> DEFINE k == Key(w)
           s == Selected(tx[w], cache[k])
<1>1. pc[w] = "set" /\ Goto(w, "write", s) /\ UNCHANGED <<cache, now, history>>
  BY DEF SelectSet
<1>2. k \in Keys /\ tx[w].todo # <<>> /\ tx[w] \in Locals
  BY <1>1, KeyType DEF Active, TypeOK
<1>4. now \in Nat
  BY DEF TypeOK, Times
<1> HIDE DEF k
<1>5. /\ s \in Locals /\ s.todo = tx[w].todo /\ s.add = tx[w].add /\ s.value = tx[w].value
      /\ s.timeout = tx[w].timeout /\ s.expires = now + tx[w].timeout
      /\ s.found = "none" <=> cache[k] = None
  BY <1>2, <1>4, SelectedType
<1> HIDE DEF s
<1>6. /\ pc' \in [Workers -> Labels] /\ tx' \in [Workers -> Locals]
      /\ \A v \in Workers : pc'[v] \in Active => tx'[v].todo # <<>>
      /\ pc'[w] = "write" /\ tx'[w] = s
      /\ \A v \in Workers \ {w} : pc'[v] = pc[v] /\ tx'[v] = tx[v]
  BY <1>1, <1>2, <1>5, GotoTypes DEF Labels
<1> QED
  BY <1>1, <1>2, <1>5, <1>6 DEF TypeOK, Active, k, history

(* A call that prepares set(), after get() or after deleting the row.      *)
LEMMA SetEffect ==
    ASSUME TypeOK, NEW w \in Workers, pc[w] \in Active,
           NEW n \in Nat \ {0}, NEW d \in Nat \ {0},
           Goto(w, "set", [tx[w] EXCEPT !.add = FALSE, !.value = n, !.timeout = d])
    PROVE  /\ pc' \in [Workers -> Labels] /\ tx' \in [Workers -> Locals]
           /\ \A v \in Workers : pc'[v] \in Active => tx'[v].todo # <<>>
           /\ pc'[w] = "set" /\ tx'[w].todo = tx[w].todo
           /\ ~tx'[w].add /\ tx'[w].value = n /\ tx'[w].timeout = d
           /\ \A v \in Workers \ {w} : pc'[v] = pc[v] /\ tx'[v] = tx[v]
<1> DEFINE t == [tx[w] EXCEPT !.add = FALSE, !.value = n, !.timeout = d]
<1>1. t \in Locals /\ t.todo = tx[w].todo /\ ~t.add /\ t.value = n /\ t.timeout = d
  BY DEF TypeOK, Locals
<1>2. tx[w].todo # <<>> /\ Goto(w, "set", t)
  BY DEF TypeOK, Active
<1> HIDE DEF t
<1> QED
  BY <1>1, <1>2, GotoTypes DEF Labels

(* What get() finds.                                                       *)
LEMMA GetEffect ==
    ASSUME TypeOK, NEW w \in Workers, Get(w)
    PROVE  /\ TypeOK' /\ UNCHANGED <<cache, now, burst, calm>>
           /\ Key(w) \in Keys /\ tx'[w].todo = tx[w].todo
           /\ \A v \in Workers \ {w} : pc'[v] = pc[v] /\ tx'[v] = tx[v]
           /\ \/ /\ pc'[w] = "purge" /\ cache[Key(w)] # None
                 /\ cache[Key(w)].expires <= now
              \/ /\ pc'[w] = "set" /\ ~tx'[w].add
                 /\ \/ /\ cache[Key(w)] # None /\ now <= cache[Key(w)].expires
                       /\ tx'[w].value = cache[Key(w)].count + 1 /\ tx'[w].timeout = Default
                    \/ /\ cache[Key(w)] = None
                       /\ tx'[w].value = 1 /\ tx'[w].timeout = Window[Key(w).scope]
<1> DEFINE k == Key(w)
<1>1. pc[w] = "get" /\ UNCHANGED <<cache, now, burst, calm>>
  BY DEF Get, history
<1>2. k \in Keys /\ Window[k.scope] \in Nat \ {0} /\ pc[w] \in Active
      /\ tx[w] \in Locals /\ tx[w].todo # <<>>
  BY <1>1, KeyType DEF Active, TypeOK
<1>3. CASE cache[k] # None /\ now <= cache[k].expires /\ Increments(w, cache[k])
  <2>1. cache[k].count + 1 \in Nat \ {0} /\ Default \in Nat \ {0}
    BY <1>2, <1>3, TimesAssumption DEF TypeOK, Rows
  <2> QED
    BY <1>1, <1>2, <1>3, <2>1, SetEffect DEF TypeOK, Active, Increments
<1>4. CASE cache[k] # None /\ cache[k].expires <= now /\ Goto(w, "purge", tx[w])
  BY <1>1, <1>2, <1>4, GotoTypes DEF TypeOK, Active, Labels
<1>5. CASE cache[k] = None /\ StartsAgain(w)
  <2>1. 1 \in Nat \ {0}
    OBVIOUS
  <2>2. Goto(w, "set", [tx[w] EXCEPT !.add = FALSE, !.value = 1, !.timeout = Window[k.scope]])
    BY <1>5 DEF StartsAgain
  <2> HIDE DEF k
  <2>3. /\ pc' \in [Workers -> Labels] /\ tx' \in [Workers -> Locals]
        /\ \A v \in Workers : pc'[v] \in Active => tx'[v].todo # <<>>
        /\ pc'[w] = "set" /\ tx'[w].todo = tx[w].todo
        /\ ~tx'[w].add /\ tx'[w].value = 1 /\ tx'[w].timeout = Window[k.scope]
        /\ \A v \in Workers \ {w} : pc'[v] = pc[v] /\ tx'[v] = tx[v]
    BY <1>2, <2>1, <2>2, SetEffect
  <2> QED
    BY <1>1, <1>2, <1>5, <2>3 DEF TypeOK, Active, k
<1> QED
  BY <1>3, <1>4, <1>5 DEF Get

LEMMA PurgeEffect ==
    ASSUME TypeOK, NEW w \in Workers, Purge(w)
    PROVE  /\ TypeOK' /\ UNCHANGED <<now, burst, calm>>
           /\ Key(w) \in Keys /\ tx'[w].todo = tx[w].todo /\ pc'[w] = "set"
           /\ \A v \in Workers \ {w} : pc'[v] = pc[v] /\ tx'[v] = tx[v]
           /\ cache'[Key(w)] = None /\ \A j \in Keys \ {Key(w)} : cache'[j] = cache[j]
           /\ ~tx'[w].add /\ tx'[w].value = 1 /\ tx'[w].timeout = Window[Key(w).scope]
<1>1. /\ pc[w] = "purge" /\ UNCHANGED <<now, burst, calm>>
      /\ cache' = [cache EXCEPT ![Key(w)] = None]
      /\ Goto(w, "set", [tx[w] EXCEPT !.add = FALSE, !.value = 1, !.timeout = Window[Key(w).scope]])
  BY DEF Purge, StartsAgain, history
<1>2. Key(w) \in Keys /\ Window[Key(w).scope] \in Nat \ {0} /\ pc[w] \in Active
  BY <1>1, KeyType DEF Active
<1>3. cache' \in [Keys -> Rows \cup {None}] /\ cache'[Key(w)] = None
      /\ \A j \in Keys \ {Key(w)} : cache'[j] = cache[j]
  BY <1>1, <1>2 DEF TypeOK
<1>4. 1 \in Nat \ {0}
  OBVIOUS
<1>5. /\ pc' \in [Workers -> Labels] /\ tx' \in [Workers -> Locals]
      /\ \A v \in Workers : pc'[v] \in Active => tx'[v].todo # <<>>
      /\ pc'[w] = "set" /\ tx'[w].todo = tx[w].todo
      /\ ~tx'[w].add /\ tx'[w].value = 1 /\ tx'[w].timeout = Window[Key(w).scope]
      /\ \A v \in Workers \ {w} : pc'[v] = pc[v] /\ tx'[v] = tx[v]
  BY <1>1, <1>2, <1>4, SetEffect
<1> QED
  BY <1>1, <1>2, <1>3, <1>5 DEF TypeOK, Active

LEMMA PassEffect ==
    ASSUME TypeOK, NEW w \in Workers, Pass(w)
    PROVE  /\ TypeOK' /\ Decided(w) /\ tx[w].value <= Limit[Key(w).scope] /\ now' = now
           /\ pc'[w] \in {"admitted", "add"}
           /\ \A v \in Workers \ {w} : pc'[v] = pc[v] /\ tx'[v] = tx[v]
           /\ calm'[Key(w)].admitted = calm[Key(w)].admitted + 1
           /\ calm'[Key(w)].clean = calm[Key(w)].clean /\ calm'[Key(w)].last = calm[Key(w)].last
           /\ \A j \in Keys \ {Key(w)} : calm'[j] = calm[j]
<1> DEFINE k == Key(w)
           t == [Blank EXCEPT !.todo = Tail(tx[w].todo)]
           label == Next1(tx[w].todo)
<1>1. /\ pc[w] = "write" /\ Decided(w) /\ ~Over(w) /\ now' = now /\ Goto(w, label, t)
      /\ calm' = [calm EXCEPT ![k].admitted = @ + 1]
  BY DEF Pass, Decided
<1>2. /\ k \in Keys /\ Limit[k.scope] \in Nat \ {0} /\ tx[w].todo \in Seq(Keys)
      /\ tx[w].todo # <<>> /\ tx[w].value \in Nat
  BY <1>1, KeyType DEF Active, TypeOK, Locals
<1>3. Tail(tx[w].todo) \in Seq(Keys) /\ (label = "add" => Tail(tx[w].todo) # <<>>)
      /\ label \in {"admitted", "add"}
  <2> DEFINE q == tx[w].todo
  <2>1. q \in Seq(Keys) /\ q # <<>>
    BY <1>2
  <2>2. label = IF Len(q) = 1 THEN "admitted" ELSE "add"
    BY DEF Next1
  <2> HIDE DEF q, label
  <2>3. Tail(q) \in Seq(Keys) /\ Len(Tail(q)) = Len(q) - 1 /\ Len(q) \in Nat
    BY <2>1
  <2>4. Len(q) # 1 => Tail(q) # <<>>
    BY <2>1, <2>3
  <2> QED
    BY <2>2, <2>3, <2>4 DEF q
<1>4. t \in Locals /\ t.todo = Tail(tx[w].todo)
  BY <1>3, BlankType DEF Locals
<1> DEFINE c == calm[k]
           d == [c EXCEPT !.admitted = c.admitted + 1]
<1>5. c \in [admitted : Nat, last : Times, clean : BOOLEAN]
  BY <1>2 DEF TypeOK
<1>6. d \in [admitted : Nat, last : Times, clean : BOOLEAN]
      /\ d.admitted = c.admitted + 1 /\ d.last = c.last /\ d.clean = c.clean
  <2> HIDE DEF c
  <2> QED
    BY <1>5
<1>7. calm' = [calm EXCEPT ![k] = d]
  BY <1>1
<1>8. /\ calm' \in [Keys -> [admitted : Nat, last : Times, clean : BOOLEAN]]
      /\ calm'[k] = d /\ \A j \in Keys \ {k} : calm'[j] = calm[j]
  <2> HIDE DEF d
  <2> QED
    BY <1>2, <1>6, <1>7 DEF TypeOK
<1>9. calm'[k].admitted = calm[k].admitted + 1 /\ calm'[k].clean = calm[k].clean
      /\ calm'[k].last = calm[k].last
  <2> HIDE DEF d
  <2> QED
    BY <1>6, <1>8
<1>10. /\ pc' \in [Workers -> Labels] /\ tx' \in [Workers -> Locals]
       /\ \A v \in Workers : pc'[v] \in Active => tx'[v].todo # <<>>
       /\ pc'[w] = label
       /\ \A v \in Workers \ {w} : pc'[v] = pc[v] /\ tx'[v] = tx[v]
  <2> HIDE DEF t, label
  <2>1. label \in Labels /\ (label \in Active => t.todo # <<>>)
    BY <1>3, <1>4 DEF Labels, Active
  <2> QED
    BY <1>1, <1>4, <2>1, GotoTypes
<1>11. tx[w].value <= Limit[k.scope]
  BY <1>1, <1>2 DEF Over
<1>12. cache' \in [Keys -> Rows \cup {None}] /\ burst' \in [Keys -> [size : Nat, last : Times]]
  BY <1>1, DecidedType
<1>13. TypeOK'
  BY <1>1, <1>8, <1>10, <1>12 DEF TypeOK, Active
<1> QED
  BY <1>1, <1>3, <1>8, <1>9, <1>10, <1>11, <1>13

LEMMA RefuseEffect ==
    ASSUME TypeOK, NEW w \in Workers, Refuse(w)
    PROVE  /\ TypeOK' /\ Decided(w) /\ tx[w].value > Limit[Key(w).scope]
           /\ UNCHANGED <<now, calm>> /\ pc'[w] = "refused"
           /\ \A v \in Workers \ {w} : pc'[v] = pc[v] /\ tx'[v] = tx[v]
<1>1. Decided(w) /\ Over(w) /\ UNCHANGED <<now, calm>> /\ Goto(w, "refused", tx[w])
  BY DEF Refuse
<1>2. tx[w] \in Locals
  BY DEF TypeOK
<1>3. /\ pc' \in [Workers -> Labels] /\ tx' \in [Workers -> Locals]
      /\ \A v \in Workers : pc'[v] \in Active => tx'[v].todo # <<>>
      /\ pc'[w] = "refused"
      /\ \A v \in Workers \ {w} : pc'[v] = pc[v] /\ tx'[v] = tx[v]
  BY <1>1, <1>2, GotoTypes DEF Labels, Active
<1>4. cache' \in [Keys -> Rows \cup {None}] /\ burst' \in [Keys -> [size : Nat, last : Times]]
  BY <1>1, DecidedType
<1> QED
  BY <1>1, <1>3, <1>4 DEF TypeOK, Active, Over

(* A view that shows a form, answers or dies.                              *)
LEMMA LeaveEffect ==
    ASSUME TypeOK, NEW w \in Workers, NEW label \in {"idle", "admitted"}, Goto(w, label, Blank)
    PROVE  /\ pc' \in [Workers -> Labels] /\ tx' \in [Workers -> Locals]
           /\ \A v \in Workers : pc'[v] \in Active => tx'[v].todo # <<>>
           /\ pc'[w] = label
           /\ \A v \in Workers \ {w} : pc'[v] = pc[v] /\ tx'[v] = tx[v]
  BY BlankType, GotoTypes DEF Labels, Active

LEMMA InitType == Init => TypeOK
  BY BlankType, TimesAssumption DEF Init, TypeOK, Labels, Times

LEMMA TypeStep == TypeOK /\ [Next]_vars => TypeOK'
<1> SUFFICES ASSUME TypeOK, [Next]_vars PROVE TypeOK'
  OBVIOUS
<1>1. ASSUME NEW w \in Workers, Visit(w) \/ Respond(w) PROVE TypeOK'
  BY <1>1, LeaveEffect DEF TypeOK, Visit, Respond, history, Active
<1>2. ASSUME NEW w \in Workers, Abort(w) PROVE TypeOK'
  <2>1. Goto(w, "idle", Blank) /\ UNCHANGED <<cache, now, burst>>
    BY <1>2 DEF Abort
  <2>2. calm' \in [Keys -> [admitted : Nat, last : Times, clean : BOOLEAN]]
    BY <1>2, DisturbedType DEF Abort
  <2> QED
    BY <2>1, <2>2, LeaveEffect DEF TypeOK, Active
<1>3. ASSUME NEW k \in Keys, Cull(k) PROVE TypeOK'
  <2>1. calm' \in [Keys -> [admitted : Nat, last : Times, clean : BOOLEAN]]
    BY <1>3, DisturbedType DEF Cull
  <2> QED
    BY <1>3, <2>1 DEF TypeOK, Cull
<1>4. ASSUME Tick PROVE TypeOK'
  <2>1. calm' \in [Keys -> [admitted : Nat, last : Times, clean : BOOLEAN]]
    BY <1>4, DisturbedType DEF Tick
  <2>2. now' \in Times
    BY <1>4, TimesAssumption DEF Tick, TypeOK, Times
  <2> QED
    BY <1>4, <2>1, <2>2 DEF TypeOK, Tick
<1>5. ASSUME NEW w \in Workers, AddFails(w) PROVE TypeOK'
  <2>1. Goto(w, "get", tx[w]) /\ pc[w] = "write" /\ UNCHANGED <<cache, now, burst, calm>>
    BY <1>5 DEF AddFails, history
  <2>2. tx[w] \in Locals /\ tx[w].todo # <<>>
    BY <2>1 DEF TypeOK
  <2> QED
    BY <2>1, <2>2, GotoTypes DEF TypeOK, Labels, Active
<1>6. CASE UNCHANGED vars
  BY <1>6 DEF TypeOK, vars, history
<1> QED
  BY <1>1, <1>2, <1>3, <1>4, <1>5, <1>6, RequestType, SelectAddEffect, SelectSetEffect, GetEffect,
     PurgeEffect, PassEffect, RefuseEffect DEF Next, Step

(* Rows, locals and history keep their types, whatever the cache loses:    *)
(* rate_limit.py never writes a count below one.                           *)
THEOREM TypeCorrect == Spec => []TypeOK
  BY InitType, TypeStep, PTL DEF Spec

-----------------------------------------------------------------------------
(* A refusal needs a burst                                                 *)

(* A row outlives the last check of its key by no more than Span, and while*)
(* it can be read it counts no more than the checks of the burst.          *)
RowOK(row, b, k, t) ==
    /\ b.last <= t
    /\ row # None => /\ row.expires <= b.last + Span(k)
                     /\ t <= row.expires => row.count <= b.size

(* What a worker is about to write is within those bounds too.             *)
CallOK(label, t, b, k, n) ==
    label \in {"set", "write"} =>
        /\ t.value <= b.size + 1
        /\ t.timeout <= Span(k)
        /\ label = "write" => t.expires <= n + t.timeout

RowsInv == \A k \in Keys : RowOK(cache[k], burst[k], k, now)
CallsInv == \A w \in Workers : CallOK(pc[w], tx[w], burst[tx[w].todo[1]], tx[w].todo[1], now)

BurstInv == TypeOK /\ RowsInv /\ CallsInv

(* Time passes.                                                            *)
LEMMA LaterRow ==
    ASSUME NEW row \in Rows \cup {None}, NEW b \in [size : Nat, last : Times], NEW k \in Keys,
           NEW t \in Nat, NEW u \in Nat, t <= u, RowOK(row, b, k, t)
    PROVE  RowOK(row, b, k, u)
  BY SpanType DEF RowOK, Rows, Times

LEMMA LaterCall ==
    ASSUME NEW label, NEW t \in Locals, NEW b \in [size : Nat, last : Times],
           NEW c \in [size : Nat, last : Times], NEW k, NEW n \in Nat, NEW m \in Nat,
           n <= m, b.size <= c.size, CallOK(label, t, b, k, n)
    PROVE  CallOK(label, t, c, k, m)
  BY DEF CallOK, Locals

(* The check of a worker that begins.                                      *)
LEMMA BurstSelectAdd ==
    ASSUME BurstInv, NEW w \in Workers, SelectAdd(w)
    PROVE  BurstInv'
<1> DEFINE k == Key(w)
<1>1. /\ TypeOK' /\ k \in Keys /\ tx'[w].todo = tx[w].todo /\ pc'[w] = "write"
      /\ tx'[w].value = 1 /\ tx'[w].timeout = Window[k.scope]
      /\ tx'[w].expires = now + Window[k.scope]
      /\ \A v \in Workers \ {w} : pc'[v] = pc[v] /\ tx'[v] = tx[v]
  BY SelectAddEffect DEF BurstInv
<1>2. TypeOK /\ RowsInv /\ CallsInv
  BY DEF BurstInv
<1>3. Begun(w, k) /\ cache' = cache /\ now' = now
  BY DEF SelectAdd
<1>4. /\ \A j \in Keys \ {k} : burst'[j] = burst[j]
      /\ burst'[k].last = burst[k].last
      /\ \/ burst'[k].size = burst[k].size
         \/ /\ burst'[k].size = 0
            /\ now > burst[k].last + Span(k)
            /\ \A v \in Workers \ {w} : ~Counting(v, k)
  BY <1>1, <1>2, <1>3, BegunType
<1>5. now \in Nat /\ cache \in [Keys -> Rows \cup {None}]
      /\ burst \in [Keys -> [size : Nat, last : Times]]
      /\ burst' \in [Keys -> [size : Nat, last : Times]]
  BY <1>1, <1>2 DEF TypeOK, Times
<1>6. ASSUME NEW j \in Keys PROVE RowOK(cache'[j], burst'[j], j, now')
  <2>1. RowOK(cache[j], burst[j], j, now)
    BY <1>2 DEF RowsInv
  <2>2. CASE j # k
    BY <1>3, <1>4, <2>1, <2>2
  <2>3. CASE j = k /\ burst'[k].size = burst[k].size
    BY <1>3, <1>4, <2>1, <2>3 DEF RowOK
  <2>4. CASE j = k /\ burst'[k].size = 0 /\ now > burst[k].last + Span(k)
    <3>1. cache[k] # None => ~(now <= cache[k].expires)
      BY <1>1, <1>5, <2>1, <2>4, SpanType DEF RowOK, Rows, Times
    <3> QED
      BY <1>3, <1>4, <2>1, <2>4, <3>1 DEF RowOK
  <2> QED
    BY <1>4, <2>2, <2>3, <2>4
<1>7. ASSUME NEW v \in Workers
      PROVE  CallOK(pc'[v], tx'[v], burst'[tx'[v].todo[1]], tx'[v].todo[1], now')
  <2>1. CASE v = w
    <3>1. tx'[w].todo[1] = k
      BY <1>1 DEF Key
    <3>2. burst'[k].size \in Nat /\ Window[k.scope] <= Span(k)
      BY <1>1, <1>5, SpanType
    <3>3. tx'[w].value <= burst'[k].size + 1 /\ tx'[w].expires <= now + tx'[w].timeout
      BY <1>1, <1>5, <3>2, SpanType
    <3> HIDE DEF k
    <3> QED
      BY <1>1, <1>3, <2>1, <3>1, <3>2, <3>3 DEF CallOK
  <2>2. CASE v # w
    <3> DEFINE j == tx[v].todo[1]
    <3>1. pc'[v] = pc[v] /\ tx'[v] = tx[v] /\ CallOK(pc[v], tx[v], burst[j], j, now)
      BY <1>1, <1>2, <2>2 DEF CallsInv
    <3>2. CASE pc[v] \notin {"set", "write"}
      BY <3>1, <3>2 DEF CallOK
    <3>3. CASE pc[v] \in {"set", "write"}
      <4>1. j \in Keys
        BY <1>2, <3>3, KeyType DEF Active, Key
      <4>2. CASE j = k /\ burst'[k].size = 0 /\ \A u \in Workers \ {w} : ~Counting(u, k)
        BY <2>2, <3>3, <4>2 DEF Counting, Key
      <4>3. CASE burst'[j].size = burst[j].size
        BY <1>3, <3>1, <4>3 DEF CallOK
      <4> QED
        BY <1>4, <4>1, <4>2, <4>3
    <3> QED
      BY <3>2, <3>3
  <2> QED
    BY <2>1, <2>2
<1> QED
  BY <1>1, <1>6, <1>7 DEF BurstInv, RowsInv, CallsInv

(* A step of one worker that leaves the history and the rows, but for one  *)
(* that it deletes, and whose own call stays within the bounds.            *)
LEMMA BurstQuiet ==
    ASSUME BurstInv, TypeOK', burst' = burst, now' \in Nat, now <= now',
           \A k \in Keys : cache'[k] = cache[k] \/ cache'[k] = None,
           \A v \in Workers :
              \/ pc'[v] = pc[v] /\ tx'[v] = tx[v]
              \/ CallOK(pc'[v], tx'[v], burst[tx'[v].todo[1]], tx'[v].todo[1], now')
    PROVE  BurstInv'
<1>1. TypeOK /\ RowsInv /\ CallsInv /\ now \in Nat
  BY DEF BurstInv, TypeOK, Times
<1>2. ASSUME NEW k \in Keys PROVE RowOK(cache'[k], burst'[k], k, now')
  <2>1. RowOK(cache[k], burst[k], k, now) /\ burst[k] \in [size : Nat, last : Times]
        /\ cache[k] \in Rows \cup {None}
    BY <1>1 DEF RowsInv, TypeOK
  <2>2. RowOK(cache[k], burst[k], k, now')
    BY <1>1, <2>1, LaterRow
  <2> QED
    BY <2>2 DEF RowOK
<1>3. ASSUME NEW v \in Workers
      PROVE  CallOK(pc'[v], tx'[v], burst'[tx'[v].todo[1]], tx'[v].todo[1], now')
  <2> DEFINE k == tx[v].todo[1]
  <2>1. CASE pc'[v] = pc[v] /\ tx'[v] = tx[v]
    <3>1. CallOK(pc[v], tx[v], burst[k], k, now)
      BY <1>1 DEF CallsInv
    <3>2. CASE pc[v] \notin {"set", "write"}
      BY <2>1, <3>2 DEF CallOK
    <3>3. CASE pc[v] \in {"set", "write"}
      <4>1. k \in Keys /\ tx[v] \in Locals
        BY <1>1, <3>3, KeyType DEF Active, Key, TypeOK
      <4>2. burst[k] \in [size : Nat, last : Times]
        BY <1>1, <4>1 DEF TypeOK
      <4>3. CallOK(pc[v], tx[v], burst[k], k, now')
        BY <1>1, <3>1, <4>1, <4>2, LaterCall
      <4> QED
        BY <2>1, <4>3
    <3> QED
      BY <3>2, <3>3
  <2> QED
    BY <2>1
<1> QED
  BY <1>2, <1>3 DEF BurstInv, RowsInv, CallsInv

(* The write of a worker, and its decision.                                *)
LEMMA BurstDecided ==
    ASSUME BurstInv, TypeOK', NEW w \in Workers, Decided(w), now' = now,
           pc'[w] \notin {"set", "write"},
           \A v \in Workers \ {w} : pc'[v] = pc[v] /\ tx'[v] = tx[v]
    PROVE  BurstInv'
<1> DEFINE k == Key(w)
<1>1. TypeOK /\ RowsInv /\ CallsInv /\ now \in Nat /\ pc[w] = "write"
  BY DEF BurstInv, TypeOK, Times, Decided
<1>2. /\ k \in Keys
      /\ \A j \in Keys \ {k} : cache'[j] = cache[j] /\ burst'[j] = burst[j]
      /\ burst'[k].size = burst[k].size + 1 /\ burst'[k].last = now
      /\ \/ cache'[k] = cache[k]
         \/ /\ cache'[k].count = tx[w].value
            /\ cache'[k].expires = tx[w].expires
  BY <1>1, DecidedType
<1>3. /\ burst \in [Keys -> [size : Nat, last : Times]]
      /\ burst' \in [Keys -> [size : Nat, last : Times]]
      /\ cache \in [Keys -> Rows \cup {None}] /\ cache' \in [Keys -> Rows \cup {None}]
      /\ tx[w] \in Locals
  BY <1>1 DEF TypeOK
<1>4. /\ tx[w].value <= burst[k].size + 1
      /\ tx[w].expires <= now + Span(k)
  <2>1. CallOK(pc[w], tx[w], burst[k], k, now)
    BY <1>1 DEF CallsInv, Key
  <2> HIDE DEF k
  <2>2. Span(k) \in Nat
    BY <1>2, SpanType
  <2> QED
    BY <1>1, <1>3, <2>1, <2>2 DEF CallOK, Locals
<1> HIDE DEF k
<1>5. ASSUME NEW j \in Keys PROVE RowOK(cache'[j], burst'[j], j, now')
  <2>1. RowOK(cache[j], burst[j], j, now)
    BY <1>1 DEF RowsInv
  <2>2. CASE j # k
    BY <1>2, <2>1, <2>2
  <2>3. CASE j = k
    <3>1. Span(k) \in Nat /\ burst[k].last \in Nat /\ burst[k].size \in Nat
      BY <1>2, <1>3, SpanType DEF Times
    <3>2. CASE cache'[k] = cache[k]
      <4>1. cache[k] # None => cache[k].expires \in Nat /\ cache[k].count \in Nat
        BY <1>2, <1>3 DEF Rows
      <4> QED
        BY <1>1, <1>2, <2>1, <2>3, <3>1, <3>2, <4>1 DEF RowOK
    <3>3. CASE cache'[k].count = tx[w].value /\ cache'[k].expires = tx[w].expires
      BY <1>1, <1>2, <1>4, <2>3, <3>1, <3>3 DEF RowOK
    <3> QED
      BY <1>2, <3>2, <3>3
  <2> QED
    BY <2>2, <2>3
<1>6. ASSUME NEW v \in Workers
      PROVE  CallOK(pc'[v], tx'[v], burst'[tx'[v].todo[1]], tx'[v].todo[1], now')
  <2>1. CASE v = w
    BY <2>1 DEF CallOK
  <2>2. CASE v # w
    <3> DEFINE j == tx[v].todo[1]
    <3>1. pc'[v] = pc[v] /\ tx'[v] = tx[v] /\ CallOK(pc[v], tx[v], burst[j], j, now)
      BY <1>1, <2>2 DEF CallsInv
    <3>2. CASE pc[v] \notin {"set", "write"}
      BY <3>1, <3>2 DEF CallOK
    <3>3. CASE pc[v] \in {"set", "write"}
      <4>1. j \in Keys /\ tx[v] \in Locals
        BY <1>1, <3>3, KeyType DEF Active, Key, TypeOK
      <4> HIDE DEF j
      <4>2. burst[j].size <= burst'[j].size
        <5>1. burst[j].size \in Nat
          BY <1>3, <4>1
        <5>2. burst'[j].size = burst[j].size + 1 \/ burst'[j] = burst[j]
          BY <1>2, <4>1
        <5> QED
          BY <5>1, <5>2
      <4>3. CallOK(pc[v], tx[v], burst'[j], j, now)
        BY <1>1, <1>3, <3>1, <4>1, <4>2, LaterCall
      <4> QED
        BY <3>1, <4>3 DEF j
    <3> QED
      BY <3>2, <3>3
  <2> QED
    BY <2>1, <2>2
<1> QED
  BY <1>5, <1>6 DEF BurstInv, RowsInv, CallsInv

LEMMA BurstInit == Init => BurstInv
<1> SUFFICES ASSUME Init PROVE BurstInv
  OBVIOUS
<1>1. ASSUME NEW k \in Keys PROVE RowOK(cache[k], burst[k], k, now)
  <2>1. cache[k] = None /\ burst[k] = [size |-> 0, last |-> 0] /\ now = 0
    BY DEF Init
  <2> QED
    BY <2>1 DEF RowOK
<1>2. \A w \in Workers : pc[w] = "idle"
  BY DEF Init
<1> QED
  BY <1>1, <1>2, InitType DEF BurstInv, RowsInv, CallsInv, CallOK

LEMMA BurstStep == BurstInv /\ [Next]_vars => BurstInv'
<1> SUFFICES ASSUME BurstInv, [Next]_vars PROVE BurstInv'
  OBVIOUS
<1>1. TypeOK /\ TypeOK' /\ now \in Nat
  BY TypeStep DEF BurstInv, TypeOK, Times
<1>2. ASSUME NEW w \in Workers, Visit(w) \/ Respond(w) \/ Abort(w) PROVE BurstInv'
  <2>1. burst' = burst /\ cache' = cache /\ now' = now
        /\ (Goto(w, "idle", Blank) \/ Goto(w, "admitted", Blank))
    BY <1>2 DEF Visit, Respond, Abort, history
  <2>2. pc'[w] \in {"idle", "admitted"} /\ \A v \in Workers \ {w} : pc'[v] = pc[v] /\ tx'[v] = tx[v]
    BY <1>1, <2>1, LeaveEffect
  <2> QED
    BY <1>1, <2>1, <2>2, BurstQuiet DEF CallOK
<1>3. ASSUME NEW w \in Workers, Request(w) PROVE BurstInv'
  <2>1. burst' = burst /\ cache' = cache /\ now' = now /\ pc' = [pc EXCEPT ![w] = "add"]
        /\ \A v \in Workers \ {w} : tx'[v] = tx[v]
    BY <1>1, <1>3 DEF Request, history, Goto, TypeOK
  <2>2. pc'[w] = "add" /\ \A v \in Workers \ {w} : pc'[v] = pc[v]
    BY <1>1, <2>1 DEF TypeOK
  <2> QED
    BY <1>1, <2>1, <2>2, BurstQuiet DEF CallOK
<1>4. ASSUME NEW w \in Workers, SelectSet(w) PROVE BurstInv'
  <2>1. burst' = burst /\ cache' = cache /\ now' = now /\ pc[w] = "set"
    BY <1>4 DEF SelectSet, history
  <2>2. /\ Key(w) \in Keys /\ tx'[w].todo = tx[w].todo /\ pc'[w] = "write"
        /\ tx'[w].value = tx[w].value
        /\ tx'[w].timeout = tx[w].timeout /\ tx'[w].expires = now + tx[w].timeout
        /\ \A v \in Workers \ {w} : pc'[v] = pc[v] /\ tx'[v] = tx[v]
    BY <1>1, <1>4, SelectSetEffect
  <2>3. CallOK(pc[w], tx[w], burst[Key(w)], Key(w), now) /\ Key(w) = tx[w].todo[1]
    BY DEF BurstInv, CallsInv, Key
  <2>4. tx[w].timeout \in Nat
    BY <1>1 DEF TypeOK, Locals
  <2>5. CallOK(pc'[w], tx'[w], burst[tx'[w].todo[1]], tx'[w].todo[1], now')
    BY <1>1, <2>1, <2>2, <2>3, <2>4 DEF CallOK
  <2> QED
    BY <1>1, <2>1, <2>2, <2>5, BurstQuiet
<1>5. ASSUME NEW w \in Workers, AddFails(w) PROVE BurstInv'
  <2>1. burst' = burst /\ cache' = cache /\ now' = now /\ Goto(w, "get", tx[w])
    BY <1>5 DEF AddFails, history
  <2>2. pc'[w] = "get" /\ \A v \in Workers \ {w} : pc'[v] = pc[v] /\ tx'[v] = tx[v]
    BY <1>1, <2>1 DEF Goto, TypeOK
  <2> QED
    BY <1>1, <2>1, <2>2, BurstQuiet DEF CallOK
<1>6. ASSUME NEW w \in Workers, Get(w) PROVE BurstInv'
  <2> DEFINE k == Key(w)
  <2>1. /\ UNCHANGED <<cache, now, burst, calm>> /\ k \in Keys /\ tx'[w].todo = tx[w].todo
        /\ \A v \in Workers \ {w} : pc'[v] = pc[v] /\ tx'[v] = tx[v]
        /\ \/ pc'[w] = "purge"
           \/ /\ pc'[w] = "set"
              /\ \/ /\ cache[k] # None /\ now <= cache[k].expires
                    /\ tx'[w].value = cache[k].count + 1 /\ tx'[w].timeout = Default
                 \/ tx'[w].value = 1 /\ tx'[w].timeout = Window[k.scope]
    BY <1>1, <1>6, GetEffect
  <2>2. tx'[w].todo[1] = k
    BY <2>1 DEF Key
  <2>3. RowOK(cache[k], burst[k], k, now)
    BY <2>1 DEF BurstInv, RowsInv
  <2>4. burst[k] \in [size : Nat, last : Times] /\ cache[k] \in Rows \cup {None}
    BY <1>1, <2>1 DEF TypeOK
  <2> HIDE DEF k
  <2>5. Default <= Span(k) /\ Window[k.scope] <= Span(k)
    BY <2>1, SpanType
  <2>6. CallOK(pc'[w], tx'[w], burst[k], k, now')
    BY <2>1, <2>3, <2>4, <2>5 DEF CallOK, RowOK, Rows
  <2> QED
    BY <1>1, <2>1, <2>2, <2>6, BurstQuiet
<1>7. ASSUME NEW w \in Workers, Purge(w) PROVE BurstInv'
  <2> DEFINE k == Key(w)
  <2>1. /\ UNCHANGED <<now, burst, calm>> /\ k \in Keys /\ tx'[w].todo = tx[w].todo
        /\ \A v \in Workers \ {w} : pc'[v] = pc[v] /\ tx'[v] = tx[v]
        /\ cache'[k] = None /\ \A j \in Keys \ {k} : cache'[j] = cache[j]
        /\ pc'[w] = "set" /\ tx'[w].value = 1 /\ tx'[w].timeout = Window[k.scope]
    BY <1>1, <1>7, PurgeEffect
  <2>2. tx'[w].todo[1] = k
    BY <2>1 DEF Key
  <2>3. burst[k] \in [size : Nat, last : Times]
    BY <1>1, <2>1 DEF TypeOK
  <2> HIDE DEF k
  <2>4. Window[k.scope] <= Span(k)
    BY <2>1, SpanType
  <2>5. CallOK(pc'[w], tx'[w], burst[k], k, now')
    BY <2>1, <2>3, <2>4 DEF CallOK
  <2>6. \A j \in Keys : cache'[j] = cache[j] \/ cache'[j] = None
    BY <2>1
  <2> QED
    BY <1>1, <2>1, <2>2, <2>5, <2>6, BurstQuiet
<1>8. ASSUME NEW w \in Workers, Pass(w) \/ Refuse(w) PROVE BurstInv'
  <2>1. /\ Decided(w) /\ now' = now /\ pc'[w] \notin {"set", "write"}
        /\ \A v \in Workers \ {w} : pc'[v] = pc[v] /\ tx'[v] = tx[v]
    BY <1>1, <1>8, PassEffect, RefuseEffect
  <2> QED
    BY <1>1, <2>1, BurstDecided
<1>9. ASSUME NEW k \in Keys, Cull(k) PROVE BurstInv'
  <2>1. UNCHANGED <<now, pc, tx, burst>> /\ cache' = [cache EXCEPT ![k] = None]
    BY <1>9 DEF Cull
  <2>2. \A j \in Keys : cache'[j] = cache[j] \/ cache'[j] = None
    BY <1>1, <2>1 DEF TypeOK
  <2> QED
    BY <1>1, <2>1, <2>2, BurstQuiet
<1>10. ASSUME Tick PROVE BurstInv'
  <2>1. UNCHANGED <<cache, pc, tx, burst>> /\ now' = now + 1
    BY <1>10 DEF Tick
  <2> QED
    BY <1>1, <2>1, BurstQuiet
<1>11. CASE UNCHANGED vars
  BY <1>1, <1>11, BurstQuiet DEF vars, history
<1> QED
  BY <1>2, <1>3, <1>4, <1>5, <1>6, <1>7, <1>8, <1>9, <1>10, <1>11, BurstSelectAdd DEF Next, Step

(* Nothing but the refusal of that very worker refuses it.                 *)
LEMMA RefusalIsRefuse ==
    ASSUME TypeOK, [Next]_vars, NEW w \in Workers, Refuses(w)
    PROVE  pc[w] = "write" /\ pc'[w] = "refused" /\ Refuse(w)
<1>0. pc[w] = "write" /\ pc'[w] = "refused"
  BY DEF Refuses
<1>1. ASSUME NEW v \in Workers, Step(v), v # w PROVE pc'[w] = pc[w]
  BY <1>0, <1>1 DEF Step, Visit, Request, SelectAdd, SelectSet, AddFails, Get, Increments,
     StartsAgain, Purge, Pass, Refuse, Respond, Abort, Goto, TypeOK
<1>2. ASSUME Step(w) PROVE Refuse(w)
  <2>1. ASSUME NEW label, NEW t, Goto(w, label, t) PROVE pc'[w] = label
    BY <1>0, <2>1 DEF Goto, TypeOK
  <2>2. ~Visit(w) /\ ~Request(w) /\ ~SelectAdd(w) /\ ~SelectSet(w) /\ ~Get(w) /\ ~Purge(w)
        /\ ~Respond(w)
    BY <1>0 DEF Visit, Request, SelectAdd, SelectSet, Get, Purge, Respond
  <2>3. ~AddFails(w)
    BY <1>0, <2>1 DEF AddFails
  <2>4. ~Abort(w)
    BY <1>0, <2>1 DEF Abort
  <2>5. ~Pass(w)
    BY <1>0, PassEffect
  <2> QED
    BY <1>2, <2>2, <2>3, <2>4, <2>5 DEF Step
<1>3. ASSUME (\E j \in Keys : Cull(j)) \/ Tick \/ UNCHANGED vars PROVE pc'[w] = pc[w]
  BY <1>3 DEF Cull, Tick, vars
<1> QED
  BY <1>0, <1>1, <1>2, <1>3 DEF Next

(* Whatever the cache loses and however the workers interleave, only a     *)
(* burst of more checks than the limit is refused: rate_limit.py:43.       *)
THEOREM RefusalsAreEarned == Spec => RefusalNeedsABurst
<1>1. ASSUME BurstInv, [Next]_vars, NEW w \in Workers, Refuses(w)
      PROVE  burst'[Key(w)].size > Limit[Key(w).scope]
  <2> DEFINE k == Key(w)
  <2>1. pc[w] = "write" /\ pc'[w] = "refused" /\ TypeOK
    BY <1>1 DEF Refuses, BurstInv
  <2>2. Refuse(w)
    BY <1>1, <2>1, RefusalIsRefuse
  <2>3. Decided(w) /\ tx[w].value > Limit[k.scope]
    BY <2>1, <2>2, RefuseEffect
  <2>4. burst'[k].size = burst[k].size + 1 /\ k \in Keys
    BY <2>1, <2>3, DecidedType
  <2>5. CallOK(pc[w], tx[w], burst[k], k, now)
    BY <1>1 DEF BurstInv, CallsInv, Key
  <2>6. burst[k] \in [size : Nat, last : Times] /\ tx[w] \in Locals /\ Limit[k.scope] \in Nat
    BY <2>1, <2>4, SpanType DEF TypeOK
  <2> HIDE DEF k
  <2>7. burst'[k].size > Limit[k.scope]
    BY <2>1, <2>3, <2>4, <2>5, <2>6 DEF CallOK, Locals
  <2> QED
    BY <2>7 DEF k
<1>2. BurstInv /\ [Next]_vars
      => [\A w \in Workers : Refuses(w) => burst'[Key(w)].size > Limit[Key(w).scope]]_vars
  BY <1>1
<1> QED
  BY <1>2, BurstInit, BurstStep, PTL DEF Spec, RefusalNeedsABurst

-----------------------------------------------------------------------------
(* A pause of Span ends a burst: the next check begins a new one, unless   *)
(* another one is still under way.                                         *)
Forgiven(k) ==
    (\E w \in Workers : Counting(w, k)) /\ calm[k].clean /\ now > burst[k].last + Span(k)
        => burst[k].size = 0

ForgivenInv == TypeOK /\ \A k \in Keys : Forgiven(k)

LEMMA ForgivenKept ==
    ASSUME NEW k \in Keys, Forgiven(k), burst'[k] = burst[k], now' = now,
           calm'[k].clean => calm[k].clean,
           \A v \in Workers : Counting(v, k)' => \E x \in Workers : Counting(x, k)
    PROVE  Forgiven(k)'
  BY DEF Forgiven

(* A worker that moves on, and starts no check.                            *)
LEMMA ForgivenMoves ==
    ASSUME ForgivenInv, NEW w \in Workers, burst' = burst, now' = now,
           \A k \in Keys : calm'[k].clean => calm[k].clean,
           \A v \in Workers \ {w} : pc'[v] = pc[v] /\ tx'[v] = tx[v],
           \/ pc'[w] \notin Between
           \/ pc[w] \in Between /\ tx'[w].todo = tx[w].todo
    PROVE  \A k \in Keys : Forgiven(k)'
<1>1. ASSUME NEW k \in Keys PROVE Forgiven(k)'
  <2>1. \A v \in Workers : Counting(v, k)' => Counting(v, k)
    BY DEF Counting, Key, Between
  <2> QED
    BY <2>1, ForgivenKept DEF ForgivenInv
<1> QED
  BY <1>1

LEMMA ForgivenSelectAdd ==
    ASSUME ForgivenInv, NEW w \in Workers, SelectAdd(w)
    PROVE  \A k \in Keys : Forgiven(k)'
<1> PICK j : j = Key(w)
  OBVIOUS
<1>0. TypeOK /\ now \in Nat
  BY DEF ForgivenInv, TypeOK, Times
<1>1. /\ j \in Keys /\ tx'[w].todo = tx[w].todo
      /\ \A v \in Workers \ {w} : pc'[v] = pc[v] /\ tx'[v] = tx[v]
  BY <1>0, SelectAddEffect
<1>2. Begun(w, j) /\ now' = now
  BY DEF SelectAdd
<1>3. /\ \A k \in Keys \ {j} : burst'[k] = burst[k] /\ calm'[k] = calm[k]
      /\ burst'[j].last = burst[j].last
      /\ calm'[j].clean => \A v \in Workers \ {w} : ~Counting(v, j)
  BY <1>0, <1>1, <1>2, BegunType
<1>4. ASSUME NEW k \in Keys, k # j PROVE Forgiven(k)'
  <2>1. \A v \in Workers : Counting(v, k)' => Counting(v, k)
    BY <1>1, <1>4 DEF Counting, Key
  <2> QED
    BY <1>2, <1>3, <1>4, <2>1, ForgivenKept DEF ForgivenInv
<1>5. Forgiven(j)'
  <2> SUFFICES ASSUME calm'[j].clean, now' > burst'[j].last + Span(j) PROVE burst'[j].size = 0
    BY DEF Forgiven
  <2>1. burst' = [burst EXCEPT ![j].size = 0]
    BY <1>2, <1>3 DEF Begun
  <2>2. burst[j] \in [size : Nat, last : Times] /\ burst'[j] = [burst[j] EXCEPT !.size = 0]
    BY <1>0, <1>1, <2>1 DEF TypeOK
  <2> QED
    BY <2>2
<1> QED
  BY <1>4, <1>5

LEMMA ForgivenDecided ==
    ASSUME ForgivenInv, NEW w \in Workers, Decided(w), now' = now,
           pc'[w] \notin Between, \A v \in Workers \ {w} : pc'[v] = pc[v] /\ tx'[v] = tx[v],
           \A k \in Keys : calm'[k].clean => calm[k].clean
    PROVE  \A k \in Keys : Forgiven(k)'
<1> PICK j : j = Key(w)
  OBVIOUS
<1>0. TypeOK /\ now \in Nat /\ pc[w] = "write"
  BY DEF ForgivenInv, TypeOK, Times, Decided
<1>1. j \in Keys /\ burst' = [burst EXCEPT ![j] = [size |-> burst[j].size + 1, last |-> now]]
  BY <1>0, KeyType DEF Decided, Active
<1>2. ASSUME NEW k \in Keys, k # j PROVE Forgiven(k)'
  <2>1. \A v \in Workers : Counting(v, k)' => Counting(v, k)
    BY DEF Counting, Key, Between
  <2>2. burst'[k] = burst[k]
    BY <1>0, <1>1, <1>2 DEF TypeOK
  <2> QED
    BY <2>1, <2>2, ForgivenKept DEF ForgivenInv
<1>3. Forgiven(j)'
  <2>1. burst'[j].last = now
    BY <1>0, <1>1 DEF TypeOK
  <2> QED
    BY <1>0, <1>1, <2>1, SpanType DEF Forgiven
<1> QED
  BY <1>2, <1>3

LEMMA ForgivenStep == ForgivenInv /\ [Next]_vars => ForgivenInv'
<1> SUFFICES ASSUME ForgivenInv, [Next]_vars PROVE \A k \in Keys : Forgiven(k)'
  BY TypeStep DEF ForgivenInv
<1>1. TypeOK
  BY DEF ForgivenInv
<1>2. ASSUME NEW w \in Workers, Visit(w) \/ Respond(w) PROVE \A k \in Keys : Forgiven(k)'
  <2>1. burst' = burst /\ calm' = calm /\ now' = now
        /\ (Goto(w, "idle", Blank) \/ Goto(w, "admitted", Blank))
    BY <1>2 DEF Visit, Respond, history
  <2>2. pc'[w] \notin Between /\ \A v \in Workers \ {w} : pc'[v] = pc[v] /\ tx'[v] = tx[v]
    BY <1>1, <2>1, LeaveEffect DEF Between
  <2> QED
    BY <2>1, <2>2, ForgivenMoves
<1>3. ASSUME NEW w \in Workers, Abort(w) PROVE \A k \in Keys : Forgiven(k)'
  <2>1. burst' = burst /\ now' = now /\ Goto(w, "idle", Blank)
    BY <1>3 DEF Abort
  <2>2. pc'[w] \notin Between /\ \A v \in Workers \ {w} : pc'[v] = pc[v] /\ tx'[v] = tx[v]
    BY <1>1, <2>1, LeaveEffect DEF Between
  <2>3. \A k \in Keys : calm'[k].clean => calm[k].clean
    BY <1>1, <1>3, DisturbedType DEF Abort
  <2> QED
    BY <2>1, <2>2, <2>3, ForgivenMoves
<1>4. ASSUME NEW w \in Workers, Request(w) PROVE \A k \in Keys : Forgiven(k)'
  <2>1. burst' = burst /\ calm' = calm /\ now' = now /\ pc' = [pc EXCEPT ![w] = "add"]
        /\ \A v \in Workers \ {w} : tx'[v] = tx[v]
    BY <1>1, <1>4 DEF Request, history, Goto, TypeOK
  <2>2. pc'[w] \notin Between /\ \A v \in Workers \ {w} : pc'[v] = pc[v]
    BY <1>1, <2>1 DEF TypeOK, Between
  <2> QED
    BY <2>1, <2>2, ForgivenMoves
<1>5. ASSUME NEW w \in Workers, SelectSet(w) PROVE \A k \in Keys : Forgiven(k)'
  <2>1. burst' = burst /\ calm' = calm /\ now' = now /\ pc[w] \in Between
    BY <1>5 DEF SelectSet, history, Between
  <2> QED
    BY <1>1, <1>5, <2>1, SelectSetEffect, ForgivenMoves
<1>6. ASSUME NEW w \in Workers, AddFails(w) PROVE \A k \in Keys : Forgiven(k)'
  <2>1. burst' = burst /\ calm' = calm /\ now' = now /\ pc[w] \in Between /\ Goto(w, "get", tx[w])
    BY <1>6 DEF AddFails, history, Between
  <2>2. tx'[w] = tx[w] /\ \A v \in Workers \ {w} : pc'[v] = pc[v] /\ tx'[v] = tx[v]
    BY <1>1, <2>1 DEF Goto, TypeOK
  <2> QED
    BY <2>1, <2>2, ForgivenMoves
<1>7. ASSUME NEW w \in Workers, Get(w) PROVE \A k \in Keys : Forgiven(k)'
  <2>1. pc[w] \in Between
    BY <1>7 DEF Get, Between
  <2> QED
    BY <1>1, <1>7, <2>1, GetEffect, ForgivenMoves
<1>8. ASSUME NEW w \in Workers, Purge(w) PROVE \A k \in Keys : Forgiven(k)'
  <2>1. pc[w] \in Between
    BY <1>8 DEF Purge, Between
  <2> QED
    BY <1>1, <1>8, <2>1, PurgeEffect, ForgivenMoves
<1>9. ASSUME NEW w \in Workers, Pass(w) \/ Refuse(w) PROVE \A k \in Keys : Forgiven(k)'
  <2>1. /\ Decided(w) /\ now' = now /\ pc'[w] \notin Between
        /\ \A v \in Workers \ {w} : pc'[v] = pc[v] /\ tx'[v] = tx[v]
    BY <1>1, <1>9, PassEffect, RefuseEffect DEF Between
  <2>2. \A k \in Keys : calm'[k].clean => calm[k].clean
    BY <1>1, <1>9, PassEffect, RefuseEffect
  <2> QED
    BY <2>1, <2>2, ForgivenDecided
<1>10. ASSUME NEW j \in Keys, Cull(j) PROVE \A k \in Keys : Forgiven(k)'
  <2>1. UNCHANGED <<now, pc, tx, burst>> /\ \A k \in Keys : calm'[k].clean => calm[k].clean
    BY <1>1, <1>10, DisturbedType DEF Cull
  <2> QED
    BY <2>1 DEF ForgivenInv, Forgiven, Counting, Key
<1>11. ASSUME Tick PROVE \A k \in Keys : Forgiven(k)'
  <2> PICK K : K = {k \in Keys : \E w \in Workers : Counting(w, k)}
    OBVIOUS
  <2>1. UNCHANGED <<pc, tx>> /\ Disturbed(K)
    BY <1>11 DEF Tick
  <2>2. \A k \in Keys : calm'[k].clean => k \notin K
    BY <1>1, <2>1, DisturbedType
  <2> QED
    BY <2>1, <2>2 DEF Forgiven, Counting, Key
<1>12. CASE UNCHANGED vars
  BY <1>12 DEF ForgivenInv, Forgiven, Counting, Key, vars, history
<1> QED
  BY <1>2, <1>3, <1>4, <1>5, <1>6, <1>7, <1>8, <1>9, <1>10, <1>11, <1>12, ForgivenSelectAdd
     DEF Next, Step

(* An undisturbed caller who paused for the window of the scope, or for    *)
(* the default timeout of the cache if that is longer, is not refused.     *)
PauseForgives ==
    [][\A w \in Workers : Refuses(w) /\ calm[Key(w)].clean =>
          now <= burst[Key(w)].last + Span(Key(w))]_vars

(* What makes rate_limit.py:21 wrong is only incr(), which puts the default*)
(* timeout: past it, and past the window, the calls of before are          *)
(* forgotten.                                                              *)
THEOREM PausesForgive == Spec => PauseForgives
<1>1. ASSUME BurstInv, ForgivenInv, [Next]_vars, NEW w \in Workers, Refuses(w), calm[Key(w)].clean
      PROVE  now <= burst[Key(w)].last + Span(Key(w))
  <2> PICK k : k = Key(w)
    OBVIOUS
  <2>1. TypeOK /\ pc[w] = "write"
    BY <1>1, RefusalIsRefuse DEF BurstInv
  <2>2. k \in Keys /\ tx[w].value > Limit[k.scope]
    BY <1>1, <2>1, RefusalIsRefuse, RefuseEffect, KeyType DEF Active
  <2>3. CallOK(pc[w], tx[w], burst[k], k, now)
    BY <1>1 DEF BurstInv, CallsInv, Key
  <2>4. /\ burst[k].size \in Nat /\ burst[k].last \in Nat /\ now \in Nat /\ tx[w].value \in Nat
        /\ Limit[k.scope] \in Nat \ {0} /\ Span(k) \in Nat
    <3>1. burst[k] \in [size : Nat, last : Times] /\ tx[w] \in Locals /\ now \in Times
      BY <2>1, <2>2 DEF TypeOK
    <3>2. tx[w].value \in Nat
      BY <3>1 DEF Locals
    <3>3. Limit[k.scope] \in Nat \ {0} /\ Span(k) \in Nat
      BY <2>2, SpanType
    <3> QED
      BY <3>1, <3>2, <3>3, TimesAssumption DEF Times
  <2>5. burst[k].size # 0
    BY <2>1, <2>2, <2>3, <2>4 DEF CallOK
  <2>6. Forgiven(k) /\ Counting(w, k)
    BY <1>1, <2>1, <2>2 DEF ForgivenInv, Counting
  <2> QED
    BY <1>1, <2>4, <2>5, <2>6 DEF Forgiven
<1>2. Init => ForgivenInv
  BY InitType DEF Init, ForgivenInv, Forgiven, Counting
<1>3. BurstInv /\ ForgivenInv /\ [Next]_vars
      => [\A w \in Workers : Refuses(w) /\ calm[Key(w)].clean =>
             now <= burst[Key(w)].last + Span(Key(w))]_vars
  BY <1>1
<1> QED
  BY <1>2, <1>3, BurstInit, BurstStep, ForgivenStep, PTL DEF Spec, PauseForgives

(* Scopes whose window is at least that timeout keep the promise of        *)
(* rate_limit.py:21; resend-cooldown, with its minute, does not.           *)
THEOREM LongWindowsForget ==
    ASSUME \A s \in Scopes : Window[s] >= Default
    PROVE  Spec => WindowForgets
<1>1. ASSUME TypeOK, [Next]_vars, NEW w \in Workers, Refuses(w),
             now <= burst[Key(w)].last + Span(Key(w))
      PROVE  now <= burst[Key(w)].last + Window[Key(w).scope]
  <2> PICK k : k = Key(w)
    OBVIOUS
  <2>1. k \in Keys
    BY <1>1, RefusalIsRefuse, KeyType DEF Active
  <2>2. Span(k) = Window[k.scope]
    BY <2>1, ScopesAssumption, TimesAssumption DEF Span, Keys
  <2> QED
    BY <1>1, <2>2
<1>2. TypeOK /\ [Next]_vars
         /\ [\A w \in Workers : Refuses(w) /\ calm[Key(w)].clean =>
                now <= burst[Key(w)].last + Span(Key(w))]_vars
      => [\A w \in Workers : Refuses(w) /\ calm[Key(w)].clean =>
             now <= burst[Key(w)].last + Window[Key(w).scope]]_vars
  BY <1>1
<1> QED
  BY <1>2, TypeCorrect, PausesForgive, PTL DEF Spec, PauseForgives, WindowForgets

-----------------------------------------------------------------------------
(* Lone callers are limited                                                *)

(* The row still counts the calls admitted, at least until t.              *)
Renewed(row, admitted, t) ==
    admitted = 0 \/ (row # None /\ row.count >= admitted /\ row.expires >= t)

(* The one check in progress of a clean stretch, at second n.              *)
LoneOK(label, t, row, admitted, last, k, n) ==
    /\ last = n
    /\ label = "write" => /\ t.found = "none" <=> row = None
                          /\ t.expires >= n + Narrow(k)
                          /\ t.add => /\ t.found = "dead" => row.expires < n
                                      /\ t.found = "live" \/ admitted = 0
                                      /\ t.value = 1
                          /\ ~t.add => t.value >= admitted + 1
    /\ label = "get" \/ (label = "write" /\ t.add) => Renewed(row, admitted, n + 1)
    /\ label = "purge" => admitted = 0
    /\ label = "set" => ~t.add /\ t.value >= admitted + 1 /\ t.timeout >= Narrow(k)

CalmOK(k) ==
    calm[k].clean =>
        /\ calm[k].admitted <= Limit[k.scope]
        /\ \A v \in Workers, w \in Workers : Counting(v, k) /\ Counting(w, k) => v = w
        /\ \A w \in Workers :
              Counting(w, k) =>
                  LoneOK(pc[w], tx[w], cache[k], calm[k].admitted, calm[k].last, k, now)
        /\ (\A w \in Workers : ~Counting(w, k)) =>
              Renewed(cache[k], calm[k].admitted, calm[k].last + Narrow(k))

LoneInv == TypeOK /\ \A k \in Keys : CalmOK(k)

(* A step that does not touch the row, the stretch or the checks of a key. *)
LEMMA CalmKept ==
    ASSUME NEW k \in Keys, CalmOK(k),
           calm'[k].clean =>
              /\ calm[k].clean
              /\ calm'[k].admitted = calm[k].admitted /\ calm'[k].last = calm[k].last
              /\ cache'[k] = cache[k]
              /\ now' = now \/ \A v \in Workers : ~Counting(v, k)
              /\ \A v \in Workers :
                    \/ pc'[v] = pc[v] /\ tx'[v] = tx[v]
                    \/ ~Counting(v, k) /\ ~(pc'[v] \in Between /\ tx'[v].todo[1] = k)
    PROVE  CalmOK(k)'
<1> SUFFICES ASSUME calm'[k].clean PROVE CalmOK(k)'
  BY DEF CalmOK
<1> DEFINE Before(v) == Counting(v, k)
           After(v) == pc'[v] \in Between /\ tx'[v].todo[1] = k
<1>1. \A v \in Workers : /\ After(v) <=> Before(v)
                         /\ Before(v) => pc'[v] = pc[v] /\ tx'[v] = tx[v]
  BY DEF Counting, Key, Between
<1>2. /\ calm'[k].admitted <= Limit[k.scope]
      /\ \A v \in Workers, w \in Workers : Before(v) /\ Before(w) => v = w
      /\ \A w \in Workers : Before(w) =>
            LoneOK(pc[w], tx[w], cache[k], calm[k].admitted, calm[k].last, k, now)
      /\ (\A w \in Workers : ~Before(w)) =>
            Renewed(cache'[k], calm'[k].admitted, calm'[k].last + Narrow(k))
  BY DEF CalmOK
<1>3. \A w \in Workers : Before(w) =>
         LoneOK(pc'[w], tx'[w], cache'[k], calm'[k].admitted, calm'[k].last, k, now')
  <2> SUFFICES ASSUME NEW w \in Workers, Before(w)
               PROVE  LoneOK(pc'[w], tx'[w], cache'[k], calm'[k].admitted, calm'[k].last, k, now')
    OBVIOUS
  <2>1. pc'[w] = pc[w] /\ tx'[w] = tx[w] /\ now' = now
    BY <1>1
  <2>2. LoneOK(pc[w], tx[w], cache[k], calm[k].admitted, calm[k].last, k, now)
    BY <1>2
  <2> QED
    BY <2>1, <2>2
<1> HIDE DEF Before
<1> QED
  BY <1>1, <1>2, <1>3 DEF CalmOK, Counting, Key, Between

(* A step of the one worker that checks a key.                             *)
LEMMA CalmActed ==
    ASSUME NEW k \in Keys, NEW w \in Workers,
           \A v \in Workers \ {w} : pc'[v] = pc[v] /\ tx'[v] = tx[v],
           calm'[k].clean => \A v \in Workers \ {w} : ~Counting(v, k),
           calm'[k].clean => calm'[k].admitted <= Limit[k.scope],
           calm'[k].clean =>
              IF pc'[w] \in Between /\ tx'[w].todo[1] = k
              THEN LoneOK(pc'[w], tx'[w], cache'[k], calm'[k].admitted, calm'[k].last, k, now')
              ELSE Renewed(cache'[k], calm'[k].admitted, calm'[k].last + Narrow(k))
    PROVE  CalmOK(k)'
<1> SUFFICES ASSUME calm'[k].clean PROVE CalmOK(k)'
  BY DEF CalmOK
<1>1. \A v \in Workers \ {w} : ~(pc'[v] \in Between /\ tx'[v].todo[1] = k)
  BY DEF Counting, Key, Between
<1>2. CASE pc'[w] \in Between /\ tx'[w].todo[1] = k
  <2>1. LoneOK(pc'[w], tx'[w], cache'[k], calm'[k].admitted, calm'[k].last, k, now')
    BY <1>2
  <2> QED
    BY <1>1, <1>2, <2>1 DEF CalmOK, Counting, Key, Between
<1>3. CASE ~(pc'[w] \in Between /\ tx'[w].todo[1] = k)
  <2>1. Renewed(cache'[k], calm'[k].admitted, calm'[k].last + Narrow(k))
    BY <1>3
  <2> QED
    BY <1>1, <1>3, <2>1 DEF CalmOK, Counting, Key, Between
<1> QED
  BY <1>2, <1>3

(* What the invariant says of a worker in the middle of a check.           *)
LEMMA CalmHere ==
    ASSUME LoneInv, NEW w \in Workers, pc[w] \in Between, calm[Key(w)].clean
    PROVE  LET k == Key(w) IN
           /\ calm[k].admitted <= Limit[k.scope]
           /\ \A v \in Workers \ {w} : ~Counting(v, k)
           /\ LoneOK(pc[w], tx[w], cache[k], calm[k].admitted, calm[k].last, k, now)
<1>1. Key(w) \in Keys
  BY KeyType DEF LoneInv, Active, Between
<1>2. Counting(w, Key(w)) /\ CalmOK(Key(w))
  BY <1>1 DEF LoneInv, Counting, Between
<1> QED
  BY <1>2 DEF CalmOK

LEMMA HistoryType ==
    ASSUME TypeOK, NEW k \in Keys
    PROVE  /\ calm[k].admitted \in Nat /\ calm[k].last \in Nat /\ calm[k].clean \in BOOLEAN
           /\ now \in Nat /\ cache[k] \in Rows \cup {None}
           /\ cache[k] # None => cache[k].count \in Nat /\ cache[k].expires \in Nat
  BY DEF TypeOK, Times, Rows

LEMMA CalmSelectAdd ==
    ASSUME LoneInv, NEW w \in Workers, SelectAdd(w)
    PROVE  LoneInv'
<1>0. PICK k \in Keys : k = Key(w)
  BY SelectAddEffect DEF LoneInv
<1>1. TypeOK /\ \A j \in Keys : CalmOK(j)
  BY <1>0 DEF LoneInv
<1>2. /\ TypeOK' /\ k \in Keys /\ tx'[w].todo = tx[w].todo /\ pc'[w] = "write"
      /\ tx'[w].add /\ tx'[w].value = 1
      /\ tx'[w].expires = now + Window[k.scope]
      /\ tx'[w].found = "none" <=> cache[k] = None
      /\ tx'[w].found = "dead" <=> (cache[k] # None /\ cache[k].expires < now)
      /\ \A v \in Workers \ {w} : pc'[v] = pc[v] /\ tx'[v] = tx[v]
  BY <1>0, <1>1, SelectAddEffect
<1>3. pc[w] = "add" /\ Begun(w, k) /\ cache' = cache /\ now' = now
  BY <1>0 DEF SelectAdd
<1>4. /\ \A j \in Keys \ {k} : calm'[j] = calm[j]
      /\ calm'[k].last = now
      /\ calm'[k].clean => \A v \in Workers \ {w} : ~Counting(v, k)
      /\ \/ calm'[k].admitted = 0
         \/ /\ calm'[k].admitted = calm[k].admitted
            /\ now < calm[k].last + Narrow(k)
            /\ calm'[k].clean => calm[k].clean
  BY <1>0, <1>1, <1>2, <1>3, BegunType
<1>5. tx'[w].todo[1] = k
  BY <1>0, <1>2 DEF Key
<1>6. ~Counting(w, k)
  BY <1>0, <1>3 DEF Counting
<1>7. tx'[w].found \in {"none", "live", "dead"}
  BY <1>0, <1>2 DEF TypeOK, Locals
<1>8. ASSUME calm'[k].clean
      PROVE  calm'[k].admitted <= Limit[k.scope] /\ Renewed(cache[k], calm'[k].admitted, now + 1)
  <2>1. CASE calm'[k].admitted = 0
    BY <1>0, <1>2, <2>1, SpanType DEF Renewed
  <2>2. CASE /\ calm'[k].admitted = calm[k].admitted
             /\ now < calm[k].last + Narrow(k) /\ calm[k].clean
    <3>1. CalmOK(k) /\ \A v \in Workers : ~Counting(v, k)
      BY <1>0, <1>1, <1>2, <1>4, <1>6, <1>8
    <3>2. calm[k].admitted <= Limit[k.scope]
          /\ Renewed(cache[k], calm[k].admitted, calm[k].last + Narrow(k))
      BY <1>0, <2>2, <3>1 DEF CalmOK
    <3> QED
      BY <1>0, <1>1, <1>2, <2>2, <3>2, HistoryType, SpanType DEF Renewed
  <2> QED
    BY <1>0, <1>4, <1>8, <2>1, <2>2
<1>9. ASSUME calm'[k].clean
      PROVE  LoneOK(pc'[w], tx'[w], cache'[k], calm'[k].admitted, calm'[k].last, k, now')
  <2>1. Renewed(cache[k], calm'[k].admitted, now + 1) /\ calm'[k].last = now'
        /\ cache'[k] = cache[k] /\ now' = now
    BY <1>0, <1>3, <1>4, <1>8, <1>9
  <2>2. tx'[w].expires >= now + Narrow(k)
    BY <1>0, <1>1, <1>2, SpanType, HistoryType
  <2>3. tx'[w].found = "live" \/ calm'[k].admitted = 0
    <3>1. now \in Nat /\ (cache[k] # None => cache[k].expires \in Nat)
      BY <1>0, <1>1, <1>2, HistoryType
    <3> QED
      BY <1>0, <1>2, <1>7, <2>1, <3>1 DEF Renewed
  <2> QED
    BY <1>0, <1>2, <2>1, <2>2, <2>3 DEF LoneOK
<1>10. CalmOK(k)'
  BY <1>0, <1>2, <1>4, <1>5, <1>8, <1>9, CalmActed DEF Between
<1>11. ASSUME NEW j \in Keys, j # k PROVE CalmOK(j)'
  <2>1. ~Counting(w, j) /\ ~(pc'[w] \in Between /\ tx'[w].todo[1] = j)
    BY <1>0, <1>3, <1>5, <1>11 DEF Counting
  <2> QED
    BY <1>0, <1>1, <1>2, <1>3, <1>4, <1>11, <2>1, CalmKept
<1>12. \A j \in Keys : CalmOK(j)'
  BY <1>0, <1>10, <1>11
<1> QED
  BY <1>0, <1>2, <1>12 DEF LoneInv

(* A statement of a check that neither decides nor ends it.                *)
LEMMA CalmMiddle ==
    ASSUME LoneInv, TypeOK', NEW w \in Workers, pc[w] \in Between,
           pc'[w] \in Between, tx'[w].todo = tx[w].todo,
           \A v \in Workers \ {w} : pc'[v] = pc[v] /\ tx'[v] = tx[v],
           \A j \in Keys \ {Key(w)} : cache'[j] = cache[j],
           calm' = calm, now' = now,
           calm[Key(w)].clean =>
              LoneOK(pc'[w], tx'[w], cache'[Key(w)], calm[Key(w)].admitted,
                     calm[Key(w)].last, Key(w), now)
    PROVE  LoneInv'
<1>0. PICK k \in Keys : k = Key(w)
  BY KeyType DEF LoneInv, Active, Between
<1>1. TypeOK /\ (\A j \in Keys : CalmOK(j)) /\ k \in Keys
  BY KeyType DEF LoneInv, Active, Between
<1>2. tx'[w].todo[1] = k
  BY <1>0 DEF Key
<1>3. calm[k].clean => /\ calm[k].admitted <= Limit[k.scope]
                       /\ \A v \in Workers \ {w} : ~Counting(v, k)
  BY <1>0, CalmHere
<1>4. calm[k].clean => LoneOK(pc'[w], tx'[w], cache'[k], calm'[k].admitted, calm'[k].last, k, now')
  BY <1>0
<1>5. CalmOK(k)'
  BY <1>0, <1>1, <1>2, <1>3, <1>4, CalmActed
<1>6. ASSUME NEW j \in Keys, j # k PROVE CalmOK(j)'
  <2>1. ~Counting(w, j) /\ ~(pc'[w] \in Between /\ tx'[w].todo[1] = j)
    BY <1>0, <1>2, <1>6 DEF Counting
  <2> QED
    BY <1>0, <1>1, <1>6, <2>1, CalmKept
<1>7. \A j \in Keys : CalmOK(j)'
  BY <1>0, <1>5, <1>6
<1> QED
  BY <1>0, <1>7 DEF LoneInv

(* The write of a worker, and its decision.                                *)
LEMMA CalmDecided ==
    ASSUME LoneInv, NEW w \in Workers, Pass(w) \/ Refuse(w)
    PROVE  LoneInv'
<1>0. PICK k \in Keys : k = Key(w)
  BY KeyType DEF LoneInv, Pass, Refuse, Decided, Active
<1>1. TypeOK /\ (\A j \in Keys : CalmOK(j)) /\ pc[w] = "write" /\ Decided(w)
  BY <1>0 DEF LoneInv, Pass, Refuse, Decided
<1>2. /\ TypeOK' /\ now' = now /\ pc'[w] \notin Between
      /\ \A v \in Workers \ {w} : pc'[v] = pc[v] /\ tx'[v] = tx[v]
      /\ calm'[k].clean = calm[k].clean /\ calm'[k].last = calm[k].last
      /\ \A j \in Keys \ {k} : calm'[j] = calm[j]
      /\ \/ calm'[k].admitted = calm[k].admitted + 1 /\ tx[w].value <= Limit[k.scope]
         \/ calm'[k].admitted = calm[k].admitted /\ tx[w].value > Limit[k.scope]
  <2>1. CASE Pass(w)
    BY <1>0, <1>1, <2>1, PassEffect DEF Between
  <2>2. CASE Refuse(w)
    BY <1>0, <1>1, <2>2, RefuseEffect DEF Between
  <2> QED
    BY <1>0, <2>1, <2>2
<1>3. /\ k \in Keys
      /\ \A j \in Keys \ {k} : cache'[j] = cache[j]
      /\ IF Inserts(tx[w]) = Present(w) THEN cache'[k] = cache[k]
         ELSE cache'[k] # None /\ cache'[k].count = tx[w].value /\ cache'[k].expires = tx[w].expires
  BY <1>0, <1>1, DecidedType
<1>4. /\ tx[w].value \in Nat /\ tx[w].expires \in Nat /\ tx[w].add \in BOOLEAN
      /\ tx[w].found \in {"none", "live", "dead"} /\ ~(tx[w].add /\ Inserts(tx[w]) /\ Present(w))
  BY <1>0, <1>1 DEF TypeOK, Locals, Decided
<1>5. Present(w) <=> cache[k] # None
  BY <1>0 DEF Present
<1>6. calm[k].clean => /\ calm[k].admitted <= Limit[k.scope]
                       /\ \A v \in Workers \ {w} : ~Counting(v, k)
                       /\ LoneOK("write", tx[w], cache[k], calm[k].admitted, calm[k].last, k, now)
  BY <1>0, <1>1, CalmHere DEF Between
<1>7. ASSUME calm[k].clean
      PROVE  /\ tx[w].value >= calm[k].admitted + 1
             /\ tx[w].expires >= calm[k].last + Narrow(k)
             /\ cache'[k] # None /\ cache'[k].count = tx[w].value
             /\ cache'[k].expires = tx[w].expires
  <2>1. LoneOK("write", tx[w], cache[k], calm[k].admitted, calm[k].last, k, now)
    BY <1>0, <1>6, <1>7
  <2>2. CASE tx[w].add
    <3>1. tx[w].found # "live"
      BY <1>0, <1>4, <1>5, <2>1, <2>2 DEF LoneOK, Inserts
    <3>2. tx[w].value = 1 /\ calm[k].admitted = 0
      BY <1>0, <2>1, <2>2, <3>1 DEF LoneOK
    <3>3. Inserts(tx[w]) <=> tx[w].found = "none"
      BY <1>0, <3>1 DEF Inserts
    <3>4. Inserts(tx[w]) <=> ~Present(w)
      BY <1>0, <1>5, <2>1, <3>3 DEF LoneOK
    <3> QED
      BY <1>0, <1>3, <2>1, <3>2, <3>4 DEF LoneOK
  <2>3. CASE ~tx[w].add
    <3>1. Inserts(tx[w]) <=> ~Present(w)
      BY <1>0, <1>5, <2>1, <2>3 DEF LoneOK, Inserts
    <3> QED
      BY <1>0, <1>3, <2>1, <2>3, <3>1 DEF LoneOK
  <2> QED
    BY <1>0, <2>2, <2>3
<1>8. calm[k].clean => /\ calm'[k].admitted <= Limit[k.scope]
                       /\ Renewed(cache'[k], calm'[k].admitted, calm'[k].last + Narrow(k))
  <2>1. calm[k].admitted \in Nat /\ calm[k].last \in Nat /\ Limit[k.scope] \in Nat /\ Narrow(k) \in Nat
    BY <1>0, <1>1, <1>3, HistoryType, SpanType
  <2> QED
    BY <1>0, <1>2, <1>4, <1>6, <1>7, <2>1 DEF Renewed
<1>9. CalmOK(k)'
  BY <1>0, <1>2, <1>3, <1>6, <1>8, CalmActed
<1>10. ASSUME NEW j \in Keys, j # k PROVE CalmOK(j)'
  <2>1. ~Counting(w, j)
    BY <1>0, <1>10 DEF Counting
  <2> QED
    BY <1>0, <1>1, <1>2, <1>3, <1>10, <2>1, CalmKept
<1>11. \A j \in Keys : CalmOK(j)'
  BY <1>0, <1>9, <1>10
<1> QED
  BY <1>0, <1>2, <1>11 DEF LoneInv

(* A view that starts, answers or dies.                                    *)
LEMMA CalmOutside ==
    ASSUME LoneInv, TypeOK', NEW w \in Workers, cache' = cache, now' = now,
           pc'[w] \notin Between, \A v \in Workers \ {w} : pc'[v] = pc[v] /\ tx'[v] = tx[v],
           \A k \in Keys : calm'[k].clean =>
              /\ calm[k].clean /\ ~Counting(w, k)
              /\ calm'[k].admitted = calm[k].admitted /\ calm'[k].last = calm[k].last
    PROVE  LoneInv'
<1>1. ASSUME NEW k \in Keys PROVE CalmOK(k)'
  <2>1. CalmOK(k)
    BY DEF LoneInv
  <2> QED
    BY <2>1, CalmKept
<1> QED
  BY <1>1 DEF LoneInv

LEMMA CalmInit == Init => LoneInv
<1> SUFFICES ASSUME Init PROVE LoneInv
  OBVIOUS
<1>1. ASSUME NEW k \in Keys PROVE CalmOK(k)
  <2>1. calm[k] = [admitted |-> 0, last |-> 0, clean |-> TRUE]
    BY DEF Init
  <2>2. \A w \in Workers : ~Counting(w, k)
    BY DEF Init, Counting
  <2> QED
    BY <2>1, <2>2, SpanType DEF CalmOK, Renewed
<1> QED
  BY <1>1, InitType DEF LoneInv

LEMMA CalmStep == LoneInv /\ [Next]_vars => LoneInv'
<1> SUFFICES ASSUME LoneInv, [Next]_vars PROVE LoneInv'
  OBVIOUS
<1>1. TypeOK /\ TypeOK' /\ now \in Nat /\ \A k \in Keys : CalmOK(k)
  BY TypeStep DEF LoneInv, TypeOK, Times
<1>2. ASSUME NEW w \in Workers, Visit(w) \/ Respond(w) PROVE LoneInv'
  <2>1. /\ calm' = calm /\ cache' = cache /\ now' = now /\ pc[w] \notin Between
        /\ Goto(w, "idle", Blank) \/ Goto(w, "admitted", Blank)
    BY <1>2 DEF Visit, Respond, history, Between
  <2>2. pc'[w] \notin Between /\ \A v \in Workers \ {w} : pc'[v] = pc[v] /\ tx'[v] = tx[v]
    BY <1>1, <2>1, LeaveEffect DEF Between
  <2>3. \A k \in Keys : ~Counting(w, k)
    BY <2>1 DEF Counting, Between
  <2> QED
    BY <1>1, <2>1, <2>2, <2>3, CalmOutside
<1>3. ASSUME NEW w \in Workers, Abort(w) PROVE LoneInv'
  <2>1. cache' = cache /\ now' = now /\ Goto(w, "idle", Blank)
        /\ Disturbed({k \in Keys : Counting(w, k)})
    BY <1>3 DEF Abort
  <2>2. pc'[w] \notin Between /\ \A v \in Workers \ {w} : pc'[v] = pc[v] /\ tx'[v] = tx[v]
    BY <1>1, <2>1, LeaveEffect DEF Between
  <2>3. \A k \in Keys : /\ calm'[k].admitted = calm[k].admitted /\ calm'[k].last = calm[k].last
                        /\ calm'[k].clean <=> calm[k].clean /\ k \notin {j \in Keys : Counting(w, j)}
    BY <1>1, <2>1, DisturbedType
  <2> QED
    BY <1>1, <2>1, <2>2, <2>3, CalmOutside
<1>4. ASSUME NEW w \in Workers, Request(w) PROVE LoneInv'
  <2>1. calm' = calm /\ cache' = cache /\ now' = now /\ pc[w] = "idle"
        /\ pc' = [pc EXCEPT ![w] = "add"]
        /\ \A v \in Workers \ {w} : tx'[v] = tx[v]
    BY <1>1, <1>4 DEF Request, history, Goto, TypeOK
  <2>2. pc'[w] \notin Between /\ \A v \in Workers \ {w} : pc'[v] = pc[v]
    BY <1>1, <2>1 DEF TypeOK, Between
  <2>3. \A k \in Keys : ~Counting(w, k)
    BY <2>1 DEF Counting
  <2> QED
    BY <1>1, <2>1, <2>2, <2>3, CalmOutside
<1>5. ASSUME NEW w \in Workers, SelectSet(w) PROVE LoneInv'
  <2> DEFINE k == Key(w)
  <2>1. calm' = calm /\ cache' = cache /\ now' = now /\ pc[w] = "set"
    BY <1>5 DEF SelectSet, history
  <2>2. /\ k \in Keys /\ tx'[w].todo = tx[w].todo /\ pc'[w] = "write"
        /\ tx'[w].add = tx[w].add /\ tx'[w].value = tx[w].value
        /\ tx'[w].expires = now + tx[w].timeout
        /\ tx'[w].found = "none" <=> cache[k] = None
        /\ \A v \in Workers \ {w} : pc'[v] = pc[v] /\ tx'[v] = tx[v]
    BY <1>1, <1>5, SelectSetEffect
  <2>3. calm[k].clean => LoneOK("set", tx[w], cache[k], calm[k].admitted, calm[k].last, k, now)
    BY <2>1, CalmHere DEF Between
  <2>4. tx[w].timeout \in Nat
    BY <1>1 DEF TypeOK, Locals
  <2>5. calm[k].clean => LoneOK("write", tx'[w], cache[k], calm[k].admitted, calm[k].last, k, now)
    <3> HIDE DEF k
    <3>1. Narrow(k) \in Nat
      BY <2>2, SpanType
    <3> QED
      BY <1>1, <2>2, <2>3, <2>4, <3>1 DEF LoneOK
  <2> QED
    BY <1>1, <2>1, <2>2, <2>5, CalmMiddle DEF Between
<1>6. ASSUME NEW w \in Workers, AddFails(w) PROVE LoneInv'
  <2>1. /\ calm' = calm /\ cache' = cache /\ now' = now /\ Goto(w, "get", tx[w])
        /\ pc[w] = "write" /\ tx[w].add
    BY <1>6 DEF AddFails, history
  <2>2. pc'[w] = "get" /\ tx'[w] = tx[w] /\ \A v \in Workers \ {w} : pc'[v] = pc[v] /\ tx'[v] = tx[v]
    BY <1>1, <2>1 DEF Goto, TypeOK
  <2>3. calm[Key(w)].clean =>
          LoneOK("write", tx[w], cache[Key(w)], calm[Key(w)].admitted, calm[Key(w)].last, Key(w), now)
    BY <2>1, CalmHere DEF Between
  <2>4. calm[Key(w)].clean =>
          LoneOK("get", tx[w], cache[Key(w)], calm[Key(w)].admitted, calm[Key(w)].last, Key(w), now)
    BY <2>1, <2>3 DEF LoneOK
  <2> QED
    BY <1>1, <2>1, <2>2, <2>4, CalmMiddle DEF Between
<1>7. ASSUME NEW w \in Workers, Get(w) PROVE LoneInv'
  <2> DEFINE k == Key(w)
  <2>1. /\ UNCHANGED <<cache, now, burst, calm>> /\ k \in Keys /\ tx'[w].todo = tx[w].todo
        /\ \A v \in Workers \ {w} : pc'[v] = pc[v] /\ tx'[v] = tx[v]
        /\ \/ pc'[w] = "purge" /\ cache[k] # None /\ cache[k].expires <= now
           \/ /\ pc'[w] = "set" /\ ~tx'[w].add
              /\ \/ /\ cache[k] # None /\ now <= cache[k].expires
                    /\ tx'[w].value = cache[k].count + 1 /\ tx'[w].timeout = Default
                 \/ /\ cache[k] = None
                    /\ tx'[w].value = 1 /\ tx'[w].timeout = Window[k.scope]
    BY <1>1, <1>7, GetEffect
  <2>2. pc[w] = "get" /\ pc'[w] \in Between
    BY <1>7, <2>1 DEF Get, Between
  <2>3. calm[k].clean => LoneOK("get", tx[w], cache[k], calm[k].admitted, calm[k].last, k, now)
    BY <2>2, CalmHere DEF Between
  <2>4. calm[k].clean => LoneOK(pc'[w], tx'[w], cache[k], calm[k].admitted, calm[k].last, k, now)
    <3> HIDE DEF k
    <3>1. /\ Narrow(k) \in Nat /\ Narrow(k) <= Default /\ Narrow(k) <= Window[k.scope]
          /\ calm[k].admitted \in Nat /\ now \in Nat
          /\ cache[k] # None => cache[k].count \in Nat /\ cache[k].expires \in Nat
      BY <1>1, <2>1, SpanType, HistoryType
    <3>2. CASE pc'[w] = "purge" /\ cache[k] # None /\ cache[k].expires <= now
      BY <2>3, <3>1, <3>2 DEF LoneOK, Renewed
    <3>3. CASE /\ pc'[w] = "set" /\ ~tx'[w].add /\ cache[k] # None
               /\ tx'[w].value = cache[k].count + 1 /\ tx'[w].timeout = Default
      BY <2>3, <3>1, <3>3, TimesAssumption DEF LoneOK, Renewed
    <3>4. CASE /\ pc'[w] = "set" /\ ~tx'[w].add /\ cache[k] = None
               /\ tx'[w].value = 1 /\ tx'[w].timeout = Window[k.scope]
      BY <2>1, <2>3, <3>1, <3>4, SpanType DEF LoneOK, Renewed
    <3> QED
      BY <2>1, <3>2, <3>3, <3>4
  <2> QED
    BY <1>1, <2>1, <2>2, <2>4, CalmMiddle DEF Between
<1>8. ASSUME NEW w \in Workers, Purge(w) PROVE LoneInv'
  <2> DEFINE k == Key(w)
  <2>1. /\ UNCHANGED <<now, burst, calm>> /\ k \in Keys /\ tx'[w].todo = tx[w].todo
        /\ \A v \in Workers \ {w} : pc'[v] = pc[v] /\ tx'[v] = tx[v]
        /\ cache'[k] = None /\ \A j \in Keys \ {k} : cache'[j] = cache[j]
        /\ pc'[w] = "set" /\ ~tx'[w].add /\ tx'[w].value = 1 /\ tx'[w].timeout = Window[k.scope]
    BY <1>1, <1>8, PurgeEffect
  <2>2. pc[w] = "purge"
    BY <1>8 DEF Purge
  <2>3. calm[k].clean => LoneOK("purge", tx[w], cache[k], calm[k].admitted, calm[k].last, k, now)
    BY <2>2, CalmHere DEF Between
  <2>4. calm[k].clean => LoneOK("set", tx'[w], cache'[k], calm[k].admitted, calm[k].last, k, now)
    <3> HIDE DEF k
    <3> QED
      BY <2>1, <2>3, SpanType DEF LoneOK
  <2> QED
    BY <1>1, <2>1, <2>2, <2>4, CalmMiddle DEF Between
<1>9. ASSUME NEW k \in Keys, Cull(k) PROVE LoneInv'
  <2>1. UNCHANGED <<now, pc, tx>> /\ cache' = [cache EXCEPT ![k] = None] /\ Disturbed({k})
    BY <1>9 DEF Cull
  <2>2. \A j \in Keys : /\ calm'[j].admitted = calm[j].admitted /\ calm'[j].last = calm[j].last
                        /\ calm'[j].clean <=> calm[j].clean /\ j \notin {k}
    BY <1>1, <2>1, DisturbedType
  <2>3. \A j \in Keys \ {k} : cache'[j] = cache[j]
    BY <1>1, <2>1 DEF TypeOK
  <2>4. ASSUME NEW j \in Keys PROVE CalmOK(j)'
    BY <1>1, <2>1, <2>2, <2>3, CalmKept
  <2> QED
    BY <1>1, <2>4 DEF LoneInv
<1>10. ASSUME Tick PROVE LoneInv'
  <2>1. UNCHANGED <<cache, pc, tx>> /\ Disturbed({k \in Keys : \E w \in Workers : Counting(w, k)})
    BY <1>10 DEF Tick
  <2>2. \A j \in Keys : /\ calm'[j].admitted = calm[j].admitted /\ calm'[j].last = calm[j].last
                        /\ calm'[j].clean <=> calm[j].clean
                              /\ j \notin {k \in Keys : \E w \in Workers : Counting(w, k)}
    BY <1>1, <2>1, DisturbedType
  <2>3. ASSUME NEW j \in Keys PROVE CalmOK(j)'
    BY <1>1, <2>1, <2>2, CalmKept
  <2> QED
    BY <1>1, <2>3 DEF LoneInv
<1>11. CASE UNCHANGED vars
  <2>1. UNCHANGED <<cache, now, pc, tx, calm>>
    BY <1>11 DEF vars, history
  <2>2. ASSUME NEW j \in Keys PROVE CalmOK(j)'
    BY <1>1, <2>1, CalmKept
  <2> QED
    BY <1>1, <2>2 DEF LoneInv
<1> QED
  BY <1>2, <1>3, <1>4, <1>5, <1>6, <1>7, <1>8, <1>9, <1>10, <1>11, CalmSelectAdd, CalmDecided
     DEF Next, Step

(* Where no two checks of a key overlap, last past a tick of the clock, die*)
(* half-way or lose their row, no more calls than the limit are admitted   *)
(* in a stretch whose pauses are below window and default timeout.         *)
THEOREM LoneCallersLimited == Spec => []LoneCallersAreLimited
<1>1. LoneInv => LoneCallersAreLimited
  BY DEF LoneInv, CalmOK, LoneCallersAreLimited
<1> QED
  BY <1>1, CalmInit, CalmStep, PTL DEF Spec

=============================================================================
