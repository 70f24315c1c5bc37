----------------------------- MODULE CodeAccess -----------------------------
(***************************************************************************)
(* What the verification of addresses promises, without workers, locks,    *)
(* clocks, messages or pages: codes are issued to a user one after another,*)
(* the last one is guessed at a bounded number of times and works once, and*)
(* only whoever had one that worked, or is trusted without, gets in.       *)
(***************************************************************************)
EXTENDS Integers

CONSTANTS Users, Codes, MaxAttempts, None

VARIABLES
    current,   \* the code issued last to a user, None before the first
    closed,    \* codes that will not be issued, or not again
    tries,     \* how often a code was guessed at
    used,      \* codes that were guessed
    proved,    \* users whose code was guessed
    vouched,   \* users trusted without one
    session    \* users who are in

vars == <<current, closed, tries, used, proved, vouched, session>>

Init ==
    /\ current = [u \in Users |-> None]
    /\ closed = {}
    /\ tries = [c \in Codes |-> 0]
    /\ used = {}
    /\ proved = {}
    /\ vouched = {}
    /\ session = {}

(* A code is issued once, to one user, and replaces the one before it.     *)
Issue(u, c) ==
    /\ c \notin closed
    /\ current' = [current EXCEPT ![u] = c]
    /\ closed' = closed \cup {c}
    /\ UNCHANGED <<tries, used, proved, vouched, session>>

(* A code is lost before it is issued.                                     *)
Lose(c) ==
    /\ c \notin closed
    /\ closed' = closed \cup {c}
    /\ UNCHANGED <<current, tries, used, proved, vouched, session>>

Guess(u) ==
    LET c == current[u] IN
    /\ c # None /\ c \notin used
    /\ tries[c] < MaxAttempts
    /\ tries' = [tries EXCEPT ![c] = @ + 1]
    /\ UNCHANGED <<current, closed, vouched, session>>

Miss(u) == Guess(u) /\ UNCHANGED <<used, proved>>

Hit(u) ==
    /\ Guess(u)
    /\ used' = used \cup {current[u]}
    /\ proved' = proved \cup {u}

Vouch(u) ==
    /\ vouched' = vouched \cup {u}
    /\ UNCHANGED <<current, closed, tries, used, proved, session>>

Enter(u) ==
    /\ u \in proved \cup vouched
    /\ session' = session \cup {u}
    /\ UNCHANGED <<current, closed, tries, used, proved, vouched>>

Leave(u) ==
    /\ session' = session \ {u}
    /\ UNCHANGED <<current, closed, tries, used, proved, vouched>>

Next ==
    \/ \E c \in Codes : Lose(c) \/ \E u \in Users : Issue(u, c)
    \/ \E u \in Users : Miss(u) \/ Hit(u) \/ Vouch(u) \/ Enter(u) \/ Leave(u)

Spec == Init /\ [][Next]_vars

=============================================================================
