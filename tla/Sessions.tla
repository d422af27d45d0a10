------------------------------ MODULE Sessions ------------------------------
(***************************************************************************)
(* What AuthService promises its clients, apart from tables, tokens and    *)
(* the order of its awaits: an email has one account, for good; a client   *)
(* is given a session of an account that was open to it, or access by a    *)
(* session that could be refreshed, at a moment of its own call; a session *)
(* that is closed stays closed; a call has one outcome (the four handlers  *)
(* of modules/auth/auth.service.ts).                                       *)
(***************************************************************************)
CONSTANTS Client, Email

VARIABLES
  accounts,  \* records of an id and its email
  barred,    \* ids of accounts that were switched off
  admitted,  \* calls that may be given a session: holder and account
  sessions,  \* the sessions given: holder and account
  open,      \* holders of sessions that can be refreshed
  cleared,   \* calls that may be given access: holder and session
  accesses,  \* the access given: holder and session
  over       \* calls that have ended

auth == <<accounts, barred, admitted, sessions, open, cleared, accesses, over>>

New(c)          == c \notin over /\ \A o \in admitted \cup cleared : o.holder # c
Without(c, set) == {o \in set : o.holder # c}

SessionsInit == /\ accounts = {} /\ barred = {} /\ admitted = {} /\ sessions = {}
                /\ open = {} /\ cleared = {} /\ accesses = {} /\ over = {}

\* an email without an account gets one
OpenAccount(c) ==
  /\ New(c)
  /\ \E e \in Email :
       /\ \A a \in accounts : a.email # e
       /\ accounts' = accounts \cup {[id |-> c, email |-> e]}
       /\ admitted' = admitted \cup {[holder |-> c, account |-> [id |-> c, email |-> e]]}
  /\ UNCHANGED <<barred, sessions, open, cleared, accesses, over>>

Admit(c) ==
  /\ New(c)
  /\ \E a \in accounts : /\ a.id \notin barred
                         /\ admitted' = admitted \cup {[holder |-> c, account |-> a]}
  /\ UNCHANGED <<accounts, barred, sessions, open, cleared, accesses, over>>

GiveSession(c) ==
  /\ \E o \in admitted : o.holder = c /\ sessions' = sessions \cup {o}
  /\ admitted' = Without(c, admitted) /\ open' = open \cup {c} /\ over' = over \cup {c}
  /\ UNCHANGED <<accounts, barred, cleared, accesses>>

Clear(c) ==
  /\ New(c)
  /\ \E s \in open : cleared' = cleared \cup {[holder |-> c, session |-> s]}
  /\ UNCHANGED <<accounts, barred, admitted, sessions, open, accesses, over>>

GiveAccess(c) ==
  /\ \E o \in cleared : o.holder = c /\ accesses' = accesses \cup {o}
  /\ cleared' = Without(c, cleared) /\ over' = over \cup {c}
  /\ UNCHANGED <<accounts, barred, admitted, sessions, open>>

\* nothing is given
End(c) ==
  /\ c \notin over /\ over' = over \cup {c}
  /\ admitted' = Without(c, admitted) /\ cleared' = Without(c, cleared)
  /\ UNCHANGED <<accounts, barred, sessions, open, accesses>>

SignOut(c) ==
  /\ New(c) /\ over' = over \cup {c}
  /\ \E s \in {o.holder : o \in sessions} : open' = open \ {s}
  /\ UNCHANGED <<accounts, barred, admitted, sessions, cleared, accesses>>

Lapse(s) == /\ open' = open \ {s}
            /\ UNCHANGED <<accounts, barred, admitted, sessions, cleared, accesses, over>>

Bar(c) == /\ \E a \in accounts : a.id = c
          /\ barred' = barred \cup {c}
          /\ UNCHANGED <<accounts, admitted, sessions, open, cleared, accesses, over>>

SessionsNext == \E c \in Client :
  \/ OpenAccount(c) \/ Admit(c) \/ GiveSession(c) \/ Clear(c)
  \/ GiveAccess(c) \/ End(c) \/ SignOut(c) \/ Lapse(c) \/ Bar(c)

SessionsSpec == SessionsInit /\ [][SessionsNext]_auth
=============================================================================
