-------------------------------- MODULE Auth --------------------------------
(***************************************************************************)
(* AuthService (modules/auth/auth.service.ts) with JwtUtils: register,     *)
(* login, refresh and logout, run by concurrent requests over the tables   *)
(* users and refresh_tokens.  One action per await on the database or on   *)
(* bcrypt.compare, as in Orders.                                           *)
(*                                                                         *)
(* A user is named by the request that registered it and a refresh token   *)
(* by the request that was given it (both ids are uuids), so an email is   *)
(* plain data.  The lifetime of the JWT and expires_at of its row come     *)
(* from the configuration by different parsers and end independently.      *)
(***************************************************************************)
EXTENDS Naturals

CONSTANTS
  Req,        \* calls of the service
  Email,
  MaxFaults,  \* bound: database round trips that fail
  None        \* NULL

ASSUME AuthAssumption == None \notin Req \cup Email /\ MaxFaults \in Nat

VARIABLES
  users,      \* ids of the rows of table users
  inactive,   \* users whose isActive is false
  tokens,     \* ids of the rows of table refresh_tokens
  revoked,    \* those whose revoked is true
  expired,    \* refresh tokens whose JWT has expired
  overdue,    \* refresh tokens whose row has expiresAt < now
  pc,         \* request -> the await it is at
  email,      \* request -> dto.email of a register or login
  user,       \* request -> the User entity it holds, by id
  isActive,   \* request -> isActive of that entity
  presented,  \* request -> refresh token of a refresh or logout
  answer,     \* request -> what the caller was told
  late,       \* history: requests that began after a logout of their token or
              \* after their user was deactivated
  faults      \* database faults so far

db      == <<users, inactive, tokens, revoked>>
clock   == <<expired, overdue>>
request == <<email, user, isActive, presented, late>>
vars    == <<db, clock, request, pc, answer, faults>>

-----------------------------------------------------------------------------
InFlight == {"insertUser", "comparePassword", "insertToken", "compareToken"}

Finish(r, a) == pc' = [pc EXCEPT ![r] = "done"] /\ answer' = [answer EXCEPT ![r] = a]
Goto(r, p)   == pc' = [pc EXCEPT ![r] = p] /\ UNCHANGED answer

HasEmail(e) == {u \in users : email[u] = e}
HandedOut   == {t \in Req : answer[t] = "session"}
SignedOut   == {presented[q] : q \in {q \in Req : answer[q] = "signedOut"}}

Init ==
  /\ users = {} /\ inactive = {} /\ tokens = {} /\ revoked = {}
  /\ expired = {} /\ overdue = {} /\ late = {} /\ faults = 0
  /\ pc = [r \in Req |-> "idle"] /\ answer = [r \in Req |-> "none"]
  /\ email = [r \in Req |-> None] /\ user = [r \in Req |-> None]
  /\ isActive = [r \in Req |-> FALSE] /\ presented = [r \in Req |-> None]

(* register *)

RegisterFind(r) ==
  /\ pc[r] = "idle"
  /\ \E e \in Email :
       /\ email' = [email EXCEPT ![r] = e]
       /\ \/ HasEmail(e) # {} /\ Finish(r, "400")
          \/ HasEmail(e) = {} /\ Goto(r, "insertUser")
  /\ UNCHANGED <<db, clock, user, isActive, presented, late, faults>>

\* mutant: the column email is not unique
InsertUserTwice(r) ==
  /\ pc[r] = "insertUser"
  /\ users' = users \cup {r} /\ user' = [user EXCEPT ![r] = r]
  /\ Goto(r, "insertToken")
  /\ UNCHANGED <<inactive, tokens, revoked, clock, email, isActive, presented, late, faults>>

\* mutant: the new user is known by its email
InsertUserByEmail(r) ==
  /\ pc[r] = "insertUser" /\ HasEmail(email[r]) = {}
  /\ users' = users \cup {r} /\ user' = [user EXCEPT ![r] = email[r]]
  /\ Goto(r, "insertToken")
  /\ UNCHANGED <<inactive, tokens, revoked, clock, email, isActive, presented, late, faults>>

\* after the hash of the password: the INSERT, which the UNIQUE email decides
InsertUser(r) ==
  /\ pc[r] = "insertUser"
  /\ \/ /\ HasEmail(email[r]) # {} /\ Finish(r, "error") /\ UNCHANGED <<users, user>>
     \/ /\ HasEmail(email[r]) = {}
        /\ users' = users \cup {r} /\ user' = [user EXCEPT ![r] = r]
        /\ Goto(r, "insertToken")
  /\ UNCHANGED <<inactive, tokens, revoked, clock, email, isActive, presented, late, faults>>

(* login *)

LoginFind(r) ==
  /\ pc[r] = "idle"
  /\ \E e \in Email :
       /\ email' = [email EXCEPT ![r] = e]
       /\ \/ HasEmail(e) = {} /\ Finish(r, "401") /\ UNCHANGED <<user, isActive>>
          \/ \E u \in HasEmail(e) :
               /\ user' = [user EXCEPT ![r] = u]
               /\ isActive' = [isActive EXCEPT ![r] = u \notin inactive]
               /\ Goto(r, "comparePassword")
  /\ late' = IF HasEmail(email'[r]) \cap inactive # {} THEN late \cup {r} ELSE late
  /\ UNCHANGED <<db, clock, presented, faults>>

\* mutant: isActive is not looked at
ComparePasswordOnly(r) ==
  /\ pc[r] = "comparePassword"
  /\ Finish(r, "401") \/ Goto(r, "insertToken")
  /\ UNCHANGED <<db, clock, request, faults>>

\* the password matches or not
ComparePassword(r) ==
  /\ pc[r] = "comparePassword"
  /\ \/ Finish(r, "401")
     \/ isActive[r] /\ Goto(r, "insertToken")
  /\ UNCHANGED <<db, clock, request, faults>>

\* mutant: the caller gets its tokens before the row is saved
InsertTokenNotAwaited(r) == /\ pc[r] = "insertToken" /\ Finish(r, "session")
                            /\ UNCHANGED <<db, clock, request, faults>>

\* buildAuthResponse: save the hashed token, return it
InsertToken(r) ==
  /\ pc[r] = "insertToken"
  /\ tokens' = tokens \cup {r}
  /\ Finish(r, "session")
  /\ UNCHANGED <<users, inactive, revoked, clock, request, faults>>

(* refresh and logout, of a token some caller was given *)

\* mutant: the flag revoked is not looked at
RecordRefusedUnrevoked(t) == t \notin tokens \/ t \in overdue

RecordRefused(t) == t \notin tokens \/ t \in revoked \/ t \in overdue

RefreshFind(r) ==
  /\ pc[r] = "idle"
  /\ \E t \in HandedOut :
       /\ presented' = [presented EXCEPT ![r] = t]
       /\ late' = IF t \in SignedOut THEN late \cup {r} ELSE late
       /\ \/ t \in expired /\ Finish(r, "401")
          \/ RecordRefused(t) /\ Finish(r, "401")
          \/ t \notin expired /\ ~RecordRefused(t) /\ Goto(r, "compareToken")
  /\ UNCHANGED <<db, clock, email, user, isActive, faults>>

\* the hash of the token is that of its row: sign an access token
CompareToken(r) ==
  /\ pc[r] = "compareToken" /\ Finish(r, "access")
  /\ UNCHANGED <<db, clock, request, faults>>

\* UPDATE of the flag; a JWT that has expired is left alone
Logout(r) ==
  /\ pc[r] = "idle"
  /\ \E t \in HandedOut :
       /\ presented' = [presented EXCEPT ![r] = t]
       /\ revoked' = IF t \in expired THEN revoked ELSE revoked \cup {t}
  /\ Finish(r, "signedOut")
  /\ UNCHANGED <<users, inactive, tokens, clock, email, user, isActive, late, faults>>

(* the environment *)

\* a round trip to the database fails; logout swallows the error
DbFault(r) ==
  /\ faults < MaxFaults /\ faults' = faults + 1
  /\ \/ pc[r] \in {"idle", "insertUser", "insertToken"} /\ Finish(r, "error") /\ UNCHANGED presented
     \/ /\ pc[r] = "idle" /\ Finish(r, "signedOut")
        /\ \E t \in HandedOut : presented' = [presented EXCEPT ![r] = t]
  /\ UNCHANGED <<db, clock, email, user, isActive, late>>

Crash(r) == /\ pc[r] \in InFlight /\ pc' = [pc EXCEPT ![r] = "crashed"]
            /\ UNCHANGED <<db, clock, request, answer, faults>>

\* an operator switches a user off in the database
Deactivate(u) == /\ u \in users /\ inactive' = inactive \cup {u}
                 /\ UNCHANGED <<users, tokens, revoked, clock, request, pc, answer, faults>>

\* the lifetime of a token ends, by its JWT or by its row
Expire(t) == /\ t \in tokens
             /\ \/ expired' = expired \cup {t} /\ UNCHANGED overdue
                \/ overdue' = overdue \cup {t} /\ UNCHANGED expired
             /\ UNCHANGED <<db, request, pc, answer, faults>>

-----------------------------------------------------------------------------
register(r) == RegisterFind(r) \/ InsertUser(r) \/ InsertToken(r)
login(r)    == LoginFind(r) \/ ComparePassword(r) \/ InsertToken(r)
refresh(r)  == RefreshFind(r) \/ CompareToken(r)

Next == \E r \in Req : \/ register(r) \/ login(r) \/ refresh(r) \/ Logout(r)
                       \/ DbFault(r) \/ Crash(r) \/ Deactivate(r) \/ Expire(r)

Spec == Init /\ [][Next]_vars

-----------------------------------------------------------------------------
TypeOK ==
  /\ users \in SUBSET Req /\ inactive \in SUBSET users
  /\ tokens \in SUBSET Req /\ revoked \in SUBSET tokens
  /\ expired \in SUBSET tokens /\ overdue \in SUBSET tokens
  /\ pc \in [Req -> InFlight \cup {"idle", "done", "crashed"}]
  /\ answer \in [Req -> {"none", "session", "access", "signedOut", "400", "401", "error"}]
  /\ email \in [Req -> Email \cup {None}] /\ user \in [Req -> Req \cup {None}]
  /\ isActive \in [Req -> BOOLEAN] /\ presented \in [Req -> Req \cup {None}]
  /\ late \in SUBSET Req /\ faults \in Nat

(* Registrations that race on an email make one user of it: the check in   *)
(* findOne and the UNIQUE column together (auth.service.ts:21, 36).        *)
OneUserPerEmail == \A u1, u2 \in users : email[u1] = email[u2] => u1 = u2

(* Whoever was given tokens is a user under the email of the request, and  *)
(* the refresh token has its row, whatever failed or raced before          *)
(* (auth.service.ts:100-113).                                              *)
SessionsAreBacked ==
  \A r \in Req : answer[r] = "session" =>
    r \in tokens /\ user[r] \in users /\ email[user[r]] = email[r]

(* Once a logout is answered, and the database did not fail it, no refresh *)
(* of that token that starts later is granted, however many requests use   *)
(* it at the time; nor is a login after the user was deactivated           *)
(* (auth.service.ts:47, 63, 84).                                           *)
LateIsRefused ==
  faults = 0 => \A r \in late : answer[r] \notin {"access", "session"}

-----------------------------------------------------------------------------
(* What the requests and the tables amount to for the clients (Sessions).  *)
MayGetSession == {r \in Req : pc[r] = "insertToken" \/ (pc[r] = "comparePassword" /\ isActive[r])}
MayGetAccess  == {r \in Req : pc[r] = "compareToken"}
GotAccess     == {r \in Req : answer[r] = "access"}

Account(u, e) == [id |-> u, email |-> e]
Seat(r)       == [holder |-> r, account |-> Account(user[r], email[r])]
Pass(r)       == [holder |-> r, session |-> presented[r]]

Accounts == {Account(u, email[u]) : u \in users}
Admitted == {Seat(r) : r \in MayGetSession}
Given    == {Seat(r) : r \in HandedOut}
Live     == tokens \ (revoked \cup expired \cup overdue)
Cleared  == {Pass(r) : r \in MayGetAccess}
Accesses == {Pass(r) : r \in GotAccess}
Over     == {r \in Req : pc[r] \in {"done", "crashed"}}

Promise == INSTANCE Sessions WITH
  Client <- Req, accounts <- Accounts, barred <- inactive, admitted <- Admitted, sessions <- Given,
  open <- Live, cleared <- Cleared, accesses <- Accesses, over <- Over

(* Requests that interleave on the tables, fail and crash half way give    *)
(* their clients what Sessions promises: a session only of an account its  *)
(* email had and that was open when the call looked it up, access only by  *)
(* a session that was neither signed out nor at its end when the call      *)
(* looked for it, and nothing twice (auth.service.ts:20-113).              *)
RefinesSessions == Promise!SessionsSpec
=============================================================================
