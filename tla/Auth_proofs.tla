---------------------------- MODULE Auth_proofs ----------------------------
(***************************************************************************)
(* Proofs about Auth, for any number of requests, emails and faults.       *)
(***************************************************************************)
EXTENDS Auth, TLAPS

(* What makes the safety properties inductive.  A request that has an      *)
(* answer is over, so its email and its token stay as they are; a user was *)
(* registered by a request past its INSERT; a request that is about to     *)
(* hand out tokens holds a user under the email it was asked for.          *)
Settled == /\ \A r \in Req : answer[r] # "none" => pc[r] = "done"
           /\ \A u \in users : pc[u] \notin {"idle", "insertUser"}

Holding == \A r \in Req : pc[r] \in {"comparePassword", "insertToken"} \/ answer[r] = "session"
             => user[r] \in users /\ email[user[r]] = email[r]

HandedOutRows == HandedOut \subseteq tokens

(* While the database does not fail, a token that was signed out is        *)
(* revoked or expired, and a late request is not on its way to an answer   *)
(* it must not get.                                                        *)
SignedOutRows == faults = 0 => SignedOut \subseteq revoked \cup expired

LateOnItsWay ==
  \A r \in late :
    /\ pc[r] # "idle"
    /\ faults = 0 => /\ pc[r] \notin {"insertUser", "insertToken", "compareToken"}
                     /\ pc[r] = "comparePassword" => ~isActive[r]
                     /\ answer[r] \notin {"access", "session"}

IInv == /\ TypeOK /\ Settled /\ Holding /\ HandedOutRows
        /\ OneUserPerEmail /\ SignedOutRows /\ LateOnItsWay

USE DEF db, clock, request

(* The initial state has no users, tokens or answers.                      *)
LEMMA InitIInv == Init => IInv
  <1> SUFFICES ASSUME Init PROVE IInv
    OBVIOUS
  <1>1. TypeOK
    BY AuthAssumption DEF Init, TypeOK
  <1>2. Settled /\ Holding /\ HandedOutRows
    BY DEF Init, Settled, Holding, HandedOutRows, HandedOut
  <1>3. OneUserPerEmail /\ SignedOutRows /\ LateOnItsWay
    BY DEF Init, OneUserPerEmail, SignedOutRows, SignedOut, LateOnItsWay
  <1> QED BY <1>1, <1>2, <1>3 DEF IInv

-----------------------------------------------------------------------------
(* Finish and Goto keep the types of pc and answer.                        *)
LEMMA FinishType ==
  ASSUME TypeOK, NEW r \in Req,
         NEW a \in {"session", "access", "signedOut", "400", "401", "error"}, Finish(r, a)
  PROVE  /\ pc' \in [Req -> InFlight \cup {"idle", "done", "crashed"}]
         /\ answer' \in [Req -> {"none", "session", "access", "signedOut", "400", "401", "error"}]
  BY DEF TypeOK, Finish

(* The same of Goto.                                                       *)
LEMMA GotoType ==
  ASSUME TypeOK, NEW r \in Req, NEW p \in InFlight, Goto(r, p)
  PROVE  /\ pc' \in [Req -> InFlight \cup {"idle", "done", "crashed"}]
         /\ answer' \in [Req -> {"none", "session", "access", "signedOut", "400", "401", "error"}]
  BY DEF TypeOK, Goto

(* Each step keeps the types; Logout needs that the token it revokes has a *)
(* row, which holds of every token handed out.                             *)
LEMMA NextType ==
  ASSUME TypeOK, HandedOutRows, [Next]_vars
  PROVE  TypeOK'
  <1> USE DEF InFlight
  <1>0. HandedOut \subseteq Req /\ HandedOut \subseteq tokens
    BY DEF HandedOut, HandedOutRows
  <1>1. ASSUME NEW r \in Req, RegisterFind(r) PROVE TypeOK'
    <2>1. PICK e \in Email : /\ email' = [email EXCEPT ![r] = e]
                             /\ Finish(r, "400") \/ Goto(r, "insertUser")
      BY <1>1 DEF RegisterFind
    <2> QED BY <1>1, <2>1, FinishType, GotoType DEF RegisterFind, TypeOK
  <1>2. ASSUME NEW r \in Req, InsertUser(r) PROVE TypeOK'
    <2>1. CASE Finish(r, "error") /\ UNCHANGED <<users, user>>
      BY <1>2, <2>1, FinishType DEF InsertUser, TypeOK
    <2>2. CASE users' = users \cup {r} /\ user' = [user EXCEPT ![r] = r] /\ Goto(r, "insertToken")
      BY <1>2, <2>2, GotoType DEF InsertUser, TypeOK
    <2> QED BY <1>2, <2>1, <2>2 DEF InsertUser
  <1>3. ASSUME NEW r \in Req, LoginFind(r) PROVE TypeOK'
    <2>1. PICK e \in Email :
            /\ email' = [email EXCEPT ![r] = e]
            /\ \/ Finish(r, "401") /\ UNCHANGED <<user, isActive>>
               \/ \E u \in HasEmail(e) : /\ user' = [user EXCEPT ![r] = u]
                                         /\ isActive' = [isActive EXCEPT ![r] = u \notin inactive]
                                         /\ Goto(r, "comparePassword")
      BY <1>3 DEF LoginFind
    <2>2. CASE Finish(r, "401") /\ UNCHANGED <<user, isActive>>
      BY <1>3, <2>1, <2>2, FinishType DEF LoginFind, TypeOK
    <2>3. ASSUME NEW u \in HasEmail(e), user' = [user EXCEPT ![r] = u],
                 isActive' = [isActive EXCEPT ![r] = u \notin inactive], Goto(r, "comparePassword")
          PROVE  TypeOK'
      <3>1. u \in Req
        BY DEF HasEmail, TypeOK
      <3>2. user' \in [Req -> Req \cup {None}] /\ isActive' \in [Req -> BOOLEAN]
        BY <2>3, <3>1 DEF TypeOK
      <3>3. late' \in SUBSET Req /\ email' \in [Req -> Email \cup {None}]
        BY <1>3, <2>1 DEF LoginFind, TypeOK
      <3>4. UNCHANGED <<db, clock, presented, faults>>
        BY <1>3 DEF LoginFind
      <3> QED BY <2>3, <3>2, <3>3, <3>4, GotoType DEF TypeOK
    <2> QED BY <2>1, <2>2, <2>3
  <1>4. ASSUME NEW r \in Req, ComparePassword(r) PROVE TypeOK'
    BY <1>4, FinishType, GotoType DEF ComparePassword, TypeOK
  <1>5. ASSUME NEW r \in Req, InsertToken(r) PROVE TypeOK'
    BY <1>5, FinishType DEF InsertToken, TypeOK
  <1>6. ASSUME NEW r \in Req, RefreshFind(r) PROVE TypeOK'
    <2>1. PICK t \in HandedOut : /\ presented' = [presented EXCEPT ![r] = t]
                                 /\ Finish(r, "401") \/ Goto(r, "compareToken")
      BY <1>6 DEF RefreshFind
    <2>2. presented' \in [Req -> Req \cup {None}] /\ late' \in SUBSET Req
      BY <1>0, <1>6, <2>1 DEF RefreshFind, TypeOK
    <2> QED BY <1>6, <2>1, <2>2, FinishType, GotoType DEF RefreshFind, TypeOK
  <1>7. ASSUME NEW r \in Req, CompareToken(r) PROVE TypeOK'
    BY <1>7, FinishType DEF CompareToken, TypeOK
  <1>8. ASSUME NEW r \in Req, Logout(r) PROVE TypeOK'
    <2>1. PICK t \in HandedOut : /\ presented' = [presented EXCEPT ![r] = t]
                                 /\ revoked' = IF t \in expired THEN revoked ELSE revoked \cup {t}
      BY <1>8 DEF Logout
    <2>2. presented' \in [Req -> Req \cup {None}] /\ revoked' \in SUBSET tokens
      BY <1>0, <2>1 DEF TypeOK
    <2> QED BY <1>8, <2>2, FinishType DEF Logout, TypeOK
  <1>9. ASSUME NEW r \in Req, DbFault(r) PROVE TypeOK'
    <2>1. faults' \in Nat
      <3>1. faults \in Nat /\ faults' = faults + 1
        BY <1>9 DEF DbFault, TypeOK
      <3> QED BY <3>1
    <2>2. Finish(r, "error") \/ Finish(r, "signedOut")
      BY <1>9 DEF DbFault
    <2>3. presented' \in [Req -> Req \cup {None}]
      BY <1>0, <1>9 DEF DbFault, TypeOK
    <2> QED BY <1>9, <2>1, <2>2, <2>3, FinishType DEF DbFault, TypeOK
  <1>10. ASSUME NEW r \in Req, Crash(r) \/ Deactivate(r) \/ Expire(r) PROVE TypeOK'
    BY <1>10 DEF Crash, Deactivate, Expire, TypeOK
  <1>11. CASE UNCHANGED vars
    BY <1>11 DEF vars, TypeOK
  <1> QED BY <1>1, <1>2, <1>3, <1>4, <1>5, <1>6, <1>7, <1>8, <1>9, <1>10, <1>11
          DEF Next, register, login, refresh

-----------------------------------------------------------------------------
(* A step of request r touches nothing another request holds.              *)
Step(r) == \/ register(r) \/ login(r) \/ refresh(r) \/ Logout(r)
           \/ DbFault(r) \/ Crash(r) \/ Deactivate(r) \/ Expire(r)

Same(q) == /\ pc'[q] = pc[q] /\ answer'[q] = answer[q] /\ email'[q] = email[q]
           /\ user'[q] = user[q] /\ isActive'[q] = isActive[q] /\ presented'[q] = presented[q]

(* Finish at the request itself and at the others.                         *)
LEMMA FinishAt ==
  ASSUME TypeOK, NEW r \in Req, NEW a, Finish(r, a)
  PROVE  pc'[r] = "done" /\ answer'[r] = a /\ \A q \in Req \ {r} : pc'[q] = pc[q] /\ answer'[q] = answer[q]
  BY DEF TypeOK, Finish

(* The same of Goto, which leaves the answers alone.                       *)
LEMMA GotoAt ==
  ASSUME TypeOK, NEW r \in Req, NEW p, Goto(r, p)
  PROVE  pc'[r] = p /\ answer' = answer /\ \A q \in Req \ {r} : pc'[q] = pc[q]
  BY DEF TypeOK, Goto

(* The requests other than r keep what they hold when r takes a step.      *)
LEMMA Frame ==
  ASSUME TypeOK, NEW r \in Req, Step(r), NEW q \in Req \ {r}
  PROVE  Same(q)
  <1>1. CASE RegisterFind(r)
    BY <1>1, FinishAt, GotoAt DEF RegisterFind, Same, TypeOK
  <1>2. CASE InsertUser(r)
    BY <1>2, FinishAt, GotoAt DEF InsertUser, Same, TypeOK
  <1>3. CASE LoginFind(r)
    <2>1. pc'[q] = pc[q] /\ answer'[q] = answer[q]
      BY <1>3, FinishAt, GotoAt DEF LoginFind
    <2>2. email'[q] = email[q] /\ user'[q] = user[q] /\ isActive'[q] = isActive[q] /\ presented' = presented
      BY <1>3 DEF LoginFind, TypeOK
    <2> QED BY <2>1, <2>2 DEF Same
  <1>4. CASE ComparePassword(r)
    BY <1>4, FinishAt, GotoAt DEF ComparePassword, Same
  <1>5. CASE InsertToken(r)
    BY <1>5, FinishAt DEF InsertToken, Same
  <1>6. CASE RefreshFind(r)
    BY <1>6, FinishAt, GotoAt DEF RefreshFind, Same, TypeOK
  <1>7. CASE CompareToken(r)
    BY <1>7, FinishAt DEF CompareToken, Same
  <1>8. CASE Logout(r)
    BY <1>8, FinishAt DEF Logout, Same, TypeOK
  <1>9. CASE DbFault(r)
    <2>1. pc'[q] = pc[q] /\ answer'[q] = answer[q]
      BY <1>9, FinishAt DEF DbFault
    <2>2. presented'[q] = presented[q]
      BY <1>9 DEF DbFault, TypeOK
    <2> QED BY <1>9, <2>1, <2>2 DEF DbFault, Same
  <1>10. CASE Crash(r) \/ Deactivate(r) \/ Expire(r)
    BY <1>10 DEF Crash, Deactivate, Expire, Same, TypeOK
  <1> QED BY <1>1, <1>2, <1>3, <1>4, <1>5, <1>6, <1>7, <1>8, <1>9, <1>10
          DEF Step, register, login, refresh

-----------------------------------------------------------------------------
(* Who is registered and who was given tokens stays so, and an email keeps *)
(* its one user: only an INSERT adds a user, and it looks for the email.   *)
Known == Settled /\ Holding /\ HandedOutRows /\ OneUserPerEmail

(* A request that has an answer keeps it and is over; one that is past its *)
(* INSERT does not go back.                                                *)
LEMMA SettledStep ==
  ASSUME TypeOK, Settled, NEW r \in Req, Step(r)
  PROVE  Settled'
  <1>1. /\ answer'[r] # "none" => pc'[r] = "done"
        /\ r \in users' => pc'[r] \notin {"idle", "insertUser"}
    <2> USE DEF Settled
    <2>1. CASE RegisterFind(r)
      BY <2>1, FinishAt, GotoAt DEF RegisterFind
    <2>2. CASE InsertUser(r)
      BY <2>2, FinishAt, GotoAt DEF InsertUser
    <2>3. CASE LoginFind(r)
      BY <2>3, FinishAt, GotoAt DEF LoginFind
    <2>4. CASE ComparePassword(r)
      BY <2>4, FinishAt, GotoAt DEF ComparePassword
    <2>5. CASE InsertToken(r) \/ CompareToken(r) \/ Logout(r) \/ DbFault(r)
      BY <2>5, FinishAt DEF InsertToken, CompareToken, Logout, DbFault
    <2>6. CASE RefreshFind(r)
      BY <2>6, FinishAt, GotoAt DEF RefreshFind
    <2>7. CASE Crash(r)
      BY <2>7 DEF Crash, InFlight, TypeOK
    <2>8. CASE Deactivate(r) \/ Expire(r)
      BY <2>8 DEF Deactivate, Expire
    <2> QED BY <2>1, <2>2, <2>3, <2>4, <2>5, <2>6, <2>7, <2>8 DEF Step, register, login, refresh
  <1>2. users' \subseteq users \cup {r} /\ users \subseteq Req
    BY DEF Step, register, login, refresh, RegisterFind, InsertUser, LoginFind, ComparePassword, InsertToken,
           RefreshFind, CompareToken, Logout, DbFault, Crash, Deactivate, Expire, TypeOK
  <1>3. ASSUME NEW q \in Req PROVE answer'[q] # "none" => pc'[q] = "done"
    BY <1>1, Frame DEF Settled, Same
  <1>4. ASSUME NEW u \in users' PROVE pc'[u] \notin {"idle", "insertUser"}
    BY <1>1, <1>2, Frame DEF Settled, Same
  <1> QED BY <1>3, <1>4 DEF Settled

(* A user keeps its email: the request that registered it is past the      *)
(* steps that take one.                                                    *)
LEMMA EmailKept ==
  ASSUME TypeOK, Settled, NEW r \in Req, Step(r), NEW u \in users
  PROVE  email'[u] = email[u] /\ u \in users'
  <1>1. users \subseteq Req
    BY DEF TypeOK
  <1>2. u \in users'
    BY DEF Step, register, login, refresh, RegisterFind, InsertUser, LoginFind, ComparePassword, InsertToken,
           RefreshFind, CompareToken, Logout, DbFault, Crash, Deactivate, Expire
  <1>3. CASE u # r
    BY <1>1, <1>2, <1>3, Frame DEF Same
  <1>4. CASE u = r
    <2>1. pc[r] # "idle"
      BY <1>4 DEF Settled
    <2>2. email' = email
      BY <2>1 DEF Step, register, login, refresh, RegisterFind, InsertUser, LoginFind, ComparePassword, InsertToken,
           RefreshFind, CompareToken, Logout, DbFault, Crash, Deactivate, Expire
    <2> QED BY <1>2, <2>2
  <1> QED BY <1>3, <1>4

(* The INSERT of a user is refused when the email is taken.                *)
LEMMA OneUserStep ==
  ASSUME TypeOK, Settled, OneUserPerEmail, NEW r \in Req, Step(r)
  PROVE  OneUserPerEmail'
  <1>1. CASE users' = users
    BY <1>1, EmailKept DEF OneUserPerEmail
  <1>2. CASE users' # users
    <2>1. InsertUser(r)
      BY <1>2 DEF Step, register, login, refresh, RegisterFind, LoginFind, ComparePassword, InsertToken,
           RefreshFind, CompareToken, Logout, DbFault, Crash, Deactivate, Expire
    <2>2. users' = users \cup {r} /\ email' = email /\ \A u \in users : email[u] # email[r]
      BY <1>2, <2>1 DEF InsertUser, HasEmail
    <2> QED BY <2>2 DEF OneUserPerEmail
  <1> QED BY <1>1, <1>2

(* What a request holds stays what it is, and only InsertUser and LoginFind*)
(* give it a user.                                                         *)
LEMMA HoldingStep ==
  ASSUME TypeOK, Settled, Holding, NEW r \in Req, Step(r)
  PROVE  Holding'
  <1>1. ASSUME NEW q \in Req \ {r},
               pc'[q] \in {"comparePassword", "insertToken"} \/ answer'[q] = "session"
        PROVE  user'[q] \in users' /\ email'[user'[q]] = email'[q]
    <2>1. Same(q)
      BY Frame
    <2>2. user[q] \in users /\ email[user[q]] = email[q]
      BY <1>1, <2>1 DEF Holding, Same
    <2>3. email'[user[q]] = email[user[q]] /\ user[q] \in users'
      BY <2>2, EmailKept
    <2> QED BY <2>1, <2>2, <2>3 DEF Same
  <1>2. ASSUME pc'[r] \in {"comparePassword", "insertToken"} \/ answer'[r] = "session"
        PROVE  user'[r] \in users' /\ email'[user'[r]] = email'[r]
    <2>1. CASE InsertUser(r)
      <3>1. users' = users \cup {r} /\ user' = [user EXCEPT ![r] = r] /\ email' = email
        BY <1>2, <2>1, FinishAt DEF InsertUser
      <3>2. user'[r] = r
        BY <3>1 DEF TypeOK
      <3> QED BY <3>1, <3>2
    <2>2. CASE LoginFind(r)
      <3>0. ~Finish(r, "401")
        BY <1>2, FinishAt
      <3>1. PICK e \in Email : email' = [email EXCEPT ![r] = e] /\ \E u \in HasEmail(e) : user' = [user EXCEPT ![r] = u]
        BY <2>2, <3>0 DEF LoginFind
      <3>2. PICK u \in HasEmail(e) : user' = [user EXCEPT ![r] = u]
        BY <3>1
      <3>3. u \in users /\ email[u] = e
        BY <3>2 DEF HasEmail
      <3>4. user'[r] = u /\ email'[r] = e
        BY <3>1, <3>2 DEF TypeOK
      <3> QED BY <3>3, <3>4, EmailKept
    <2>3. CASE ComparePassword(r) \/ InsertToken(r) \/ Deactivate(r) \/ Expire(r)
      <3>1. pc[r] \in {"comparePassword", "insertToken"} \/ answer[r] = "session"
        BY <1>2, <2>3 DEF ComparePassword, InsertToken, Deactivate, Expire
      <3>2. UNCHANGED <<user, email>>
        BY <2>3 DEF ComparePassword, InsertToken, Deactivate, Expire
      <3>3. user[r] \in users /\ email[user[r]] = email[r]
        BY <3>1 DEF Holding
      <3> QED BY <3>2, <3>3, EmailKept
    <2>4. CASE RegisterFind(r)
      BY <1>2, <2>4, FinishAt, GotoAt DEF RegisterFind, Settled
    <2>5. CASE RefreshFind(r)
      BY <1>2, <2>5, FinishAt, GotoAt DEF RefreshFind, Settled
    <2>6. CASE CompareToken(r) \/ Logout(r)
      BY <1>2, <2>6, FinishAt DEF CompareToken, Logout
    <2>8. CASE DbFault(r)
      <3>1. Finish(r, "error") \/ Finish(r, "signedOut")
        BY <2>8 DEF DbFault
      <3> QED BY <1>2, <3>1, FinishAt
    <2>7. CASE Crash(r)
      <3>1. pc'[r] = "crashed" /\ answer' = answer /\ answer[r] # "session"
        BY <2>7 DEF Crash, InFlight, Settled, TypeOK
      <3> QED BY <1>2, <3>1
    <2> QED BY <2>1, <2>2, <2>3, <2>4, <2>5, <2>6, <2>7, <2>8 DEF Step, register, login, refresh
  <1> QED BY <1>1, <1>2 DEF Holding

(* A refresh token is handed out after its row is saved; rows stay.        *)
LEMMA HandedOutStep ==
  ASSUME TypeOK, Settled, HandedOutRows, NEW r \in Req, Step(r)
  PROVE  HandedOutRows'
  <1>1. tokens \subseteq tokens'
    BY DEF Step, register, login, refresh, RegisterFind, InsertUser, LoginFind, ComparePassword, InsertToken,
           RefreshFind, CompareToken, Logout, DbFault, Crash, Deactivate, Expire
  <1>2. answer'[r] = "session" => r \in tokens' \/ answer[r] = "session"
    <2>1. CASE InsertToken(r)
      BY <2>1 DEF InsertToken
    <2>2. CASE RegisterFind(r) \/ InsertUser(r) \/ ComparePassword(r)
      BY <2>2, FinishAt, GotoAt DEF RegisterFind, InsertUser, ComparePassword
    <2>3. CASE LoginFind(r)
      BY <2>3, FinishAt, GotoAt DEF LoginFind
    <2>4. CASE RefreshFind(r)
      BY <2>4, FinishAt, GotoAt DEF RefreshFind
    <2>5. CASE CompareToken(r) \/ Logout(r)
      BY <2>5, FinishAt DEF CompareToken, Logout
    <2>7. CASE DbFault(r)
      <3>1. Finish(r, "error") \/ Finish(r, "signedOut")
        BY <2>7 DEF DbFault
      <3> QED BY <3>1, FinishAt
    <2>6. CASE Crash(r) \/ Deactivate(r) \/ Expire(r)
      BY <2>6 DEF Crash, Deactivate, Expire
    <2> QED BY <2>1, <2>2, <2>3, <2>4, <2>5, <2>6, <2>7 DEF Step, register, login, refresh
  <1>3. ASSUME NEW q \in Req, answer'[q] = "session" PROVE q \in tokens'
    BY <1>1, <1>2, <1>3, Frame DEF HandedOutRows, HandedOut, Same
  <1> QED BY <1>3 DEF HandedOutRows, HandedOut

(* The four together.                                                      *)
LEMMA KnownStep ==
  ASSUME TypeOK, Known, NEW r \in Req, Step(r)
  PROVE  Known'
  BY SettledStep, HoldingStep, HandedOutStep, OneUserStep DEF Known

-----------------------------------------------------------------------------
(* A logout that is answered while the database holds has revoked its      *)
(* token, unless the token had expired; neither is ever undone.            *)
LEMMA SignedOutStep ==
  ASSUME TypeOK, Settled, SignedOutRows, NEW r \in Req, Step(r)
  PROVE  SignedOutRows'
  <1> SUFFICES ASSUME faults' = 0 PROVE SignedOut' \subseteq revoked' \cup expired'
    BY DEF SignedOutRows
  <1>1. ~DbFault(r)
    <2>1. faults \in Nat /\ (DbFault(r) => faults' = faults + 1)
      BY DEF DbFault, TypeOK
    <2> QED BY <2>1
  <1>2. /\ SignedOut \subseteq revoked \cup expired
        /\ revoked \subseteq revoked' /\ expired \subseteq expired'
    BY <1>1 DEF SignedOutRows, Step, register, login, refresh, RegisterFind, InsertUser, LoginFind, ComparePassword,
           InsertToken, RefreshFind, CompareToken, Logout, Crash, Deactivate, Expire
  <1>3. answer'[r] = "signedOut" => presented'[r] \in revoked' \cup expired'
    <2>1. CASE Logout(r)
      <3>1. PICK t \in HandedOut : /\ presented' = [presented EXCEPT ![r] = t]
                                   /\ revoked' = IF t \in expired THEN revoked ELSE revoked \cup {t}
        BY <2>1 DEF Logout
      <3>2. presented'[r] = t /\ expired' = expired
        BY <2>1, <3>1 DEF Logout, TypeOK
      <3> QED BY <3>1, <3>2
    <2>2. CASE RegisterFind(r) \/ InsertUser(r) \/ ComparePassword(r)
      <3>1. answer'[r] # "signedOut"
        BY <2>2, FinishAt, GotoAt DEF RegisterFind, InsertUser, ComparePassword, Settled
      <3> QED BY <3>1
    <2>3. CASE LoginFind(r)
      <3>1. answer'[r] # "signedOut"
        BY <2>3, FinishAt, GotoAt DEF LoginFind, Settled
      <3> QED BY <3>1
    <2>4. CASE RefreshFind(r)
      <3>1. answer'[r] # "signedOut"
        BY <2>4, FinishAt, GotoAt DEF RefreshFind, Settled
      <3> QED BY <3>1
    <2>5. CASE InsertToken(r) \/ CompareToken(r)
      <3>1. answer'[r] # "signedOut"
        BY <2>5, FinishAt DEF InsertToken, CompareToken
      <3> QED BY <3>1
    <2>6. CASE Crash(r) \/ Deactivate(r) \/ Expire(r)
      <3>1. UNCHANGED <<answer, presented>>
        BY <2>6 DEF Crash, Deactivate, Expire
      <3> QED BY <1>2, <3>1 DEF SignedOut
    <2> QED BY <1>1, <2>1, <2>2, <2>3, <2>4, <2>5, <2>6 DEF Step, register, login, refresh
  <1>4. ASSUME NEW q \in Req, answer'[q] = "signedOut" PROVE presented'[q] \in revoked' \cup expired'
    <2>1. CASE q = r
      BY <1>3, <1>4, <2>1
    <2>2. CASE q # r
      <3>1. answer[q] = "signedOut" /\ presented'[q] = presented[q]
        BY <1>4, <2>2, Frame DEF Same
      <3> QED BY <1>2, <3>1 DEF SignedOut
    <2> QED BY <2>1, <2>2
  <1> QED BY <1>4 DEF SignedOut

(* LateOnItsWay of one request.                                            *)
OnItsWay(q) ==
  /\ pc[q] # "idle"
  /\ faults = 0 => /\ pc[q] \notin {"insertUser", "insertToken", "compareToken"}
                   /\ pc[q] = "comparePassword" => ~isActive[q]
                   /\ answer[q] \notin {"access", "session"}

(* A late request is refused: its token was signed out before it began, so *)
(* it finds the flag or the expiry; or the user of its email was inactive, *)
(* and the email has no other.                                             *)
LEMMA LateStep ==
  ASSUME TypeOK, Settled, OneUserPerEmail, SignedOutRows, LateOnItsWay, NEW r \in Req, Step(r)
  PROVE  LateOnItsWay'
  <1> USE DEF LateOnItsWay, OnItsWay
  <1>1. \A q \in late : OnItsWay(q)
    OBVIOUS
  <1>2. late' \subseteq late \cup {r} /\ late \subseteq Req
    BY DEF Step, register, login, refresh, RegisterFind, InsertUser, LoginFind, ComparePassword, InsertToken,
           RefreshFind, CompareToken, Logout, DbFault, Crash, Deactivate, Expire, TypeOK
  <1>3. faults' = 0 => faults = 0
    <2>1. faults \in Nat /\ faults' \in {faults, faults + 1}
      BY DEF Step, register, login, refresh, RegisterFind, InsertUser, LoginFind, ComparePassword, InsertToken,
           RefreshFind, CompareToken, Logout, DbFault, Crash, Deactivate, Expire, TypeOK
    <2> QED BY <2>1
  <1>4. ASSUME NEW q \in late', q # r PROVE OnItsWay(q)'
    <2>1. q \in late /\ q \in Req \ {r}
      BY <1>2, <1>4
    <2>2. OnItsWay(q) /\ Same(q)
      BY <1>1, <2>1, Frame
    <2> QED BY <1>3, <2>2 DEF Same
  <1>5. ASSUME r \in late' PROVE OnItsWay(r)'
    <2>1. CASE RegisterFind(r)
      BY <1>1, <1>5, <2>1 DEF RegisterFind
    <2>2. CASE InsertUser(r)
      <3>1. r \in late /\ pc[r] = "insertUser" /\ faults' = faults
        BY <1>5, <2>2 DEF InsertUser
      <3>2. faults # 0
        BY <1>1, <3>1
      <3>3. pc'[r] # "idle"
        BY <2>2, FinishAt, GotoAt DEF InsertUser
      <3> QED BY <3>1, <3>2, <3>3
    <2>3. CASE LoginFind(r)
      <3>1. r \notin late /\ answer[r] = "none"
        BY <1>1, <2>3 DEF LoginFind, Settled
      <3>2. CASE Finish(r, "401")
        BY <3>2, FinishAt
      <3>3. CASE ~Finish(r, "401")
        <4>1. PICK e \in Email : /\ email' = [email EXCEPT ![r] = e]
                                 /\ \E u \in HasEmail(e) : /\ isActive' = [isActive EXCEPT ![r] = u \notin inactive]
                                                           /\ Goto(r, "comparePassword")
          BY <2>3, <3>3 DEF LoginFind
        <4>2. PICK u \in HasEmail(e) : isActive' = [isActive EXCEPT ![r] = u \notin inactive]
          BY <4>1
        <4>3. email'[r] = e /\ isActive'[r] = (u \notin inactive)
          BY <4>1, <4>2 DEF TypeOK
        <4>4. HasEmail(email'[r]) \cap inactive # {}
          BY <1>5, <2>3, <3>1 DEF LoginFind
        <4>5. u \in inactive
          BY <4>3, <4>4 DEF HasEmail, OneUserPerEmail
        <4>6. pc'[r] = "comparePassword" /\ answer' = answer
          BY <4>1, GotoAt
        <4> QED BY <3>1, <4>3, <4>5, <4>6
      <3> QED BY <3>2, <3>3
    <2>4. CASE ComparePassword(r)
      <3>1. r \in late /\ pc[r] = "comparePassword" /\ faults' = faults
        BY <1>5, <2>4 DEF ComparePassword
      <3>2. CASE Finish(r, "401")
        BY <3>2, FinishAt
      <3>3. CASE isActive[r] /\ Goto(r, "insertToken")
        <4>1. faults # 0 /\ pc'[r] = "insertToken"
          BY <1>1, <3>1, <3>3, GotoAt
        <4> QED BY <3>1, <4>1
      <3> QED BY <2>4, <3>2, <3>3 DEF ComparePassword
    <2>5. CASE InsertToken(r) \/ CompareToken(r)
      <3>1. r \in late /\ pc[r] \in {"insertToken", "compareToken"} /\ faults' = faults
        BY <1>5, <2>5 DEF InsertToken, CompareToken
      <3>2. pc'[r] = "done"
        BY <2>5, FinishAt DEF InsertToken, CompareToken
      <3> QED BY <1>1, <3>1, <3>2
    <2>6. CASE RefreshFind(r)
      <3>1. PICK t \in HandedOut : /\ late' = IF t \in SignedOut THEN late \cup {r} ELSE late
                                   /\ \/ Finish(r, "401")
                                      \/ t \notin expired /\ ~RecordRefused(t) /\ Goto(r, "compareToken")
        BY <2>6 DEF RefreshFind
      <3>2. t \in SignedOut /\ faults' = faults /\ answer[r] = "none"
        BY <1>1, <1>5, <2>6, <3>1 DEF RefreshFind, Settled
      <3>3. CASE Finish(r, "401")
        BY <3>3, FinishAt
      <3>4. CASE t \notin expired /\ ~RecordRefused(t) /\ Goto(r, "compareToken")
        <4>1. faults # 0
          BY <3>2, <3>4 DEF RecordRefused, SignedOutRows
        <4>2. pc'[r] = "compareToken"
          BY <3>4, GotoAt
        <4> QED BY <3>2, <4>1, <4>2
      <3> QED BY <3>1, <3>3, <3>4
    <2>7. CASE Logout(r)
      BY <2>7, FinishAt DEF Logout
    <2>8. CASE DbFault(r)
      <3>1. Finish(r, "error") \/ Finish(r, "signedOut")
        BY <2>8 DEF DbFault
      <3> QED BY <3>1, FinishAt
    <2>9. CASE Crash(r)
      <3>1. r \in late /\ faults' = faults /\ pc'[r] = "crashed" /\ answer' = answer
        BY <1>5, <2>9 DEF Crash, TypeOK
      <3> QED BY <1>1, <3>1
    <2>10. CASE Deactivate(r) \/ Expire(r)
      BY <1>1, <1>5, <2>10 DEF Deactivate, Expire
    <2> QED BY <2>1, <2>2, <2>3, <2>4, <2>5, <2>6, <2>7, <2>8, <2>9, <2>10 DEF Step, register, login, refresh
  <1> QED BY <1>2, <1>4, <1>5

-----------------------------------------------------------------------------
(* The invariant holds in every reachable state.                           *)
THEOREM Invariant == Spec => []IInv
  <1>1. IInv /\ [Next]_vars => IInv'
    <2> SUFFICES ASSUME IInv, [Next]_vars PROVE IInv'
      OBVIOUS
    <2>1. TypeOK'
      BY NextType DEF IInv
    <2>2. CASE UNCHANGED vars
      BY <2>1, <2>2 DEF vars, IInv, Settled, Holding, HandedOutRows, HandedOut, OneUserPerEmail, SignedOutRows,
                        SignedOut, LateOnItsWay
    <2>3. CASE Next
      <3>1. PICK r \in Req : Step(r)
        BY <2>3 DEF Next, Step
      <3>2. Known'
        BY <3>1, KnownStep DEF IInv, Known
      <3>3. SignedOutRows' /\ LateOnItsWay'
        BY <3>1, SignedOutStep, LateStep DEF IInv
      <3> QED BY <2>1, <3>2, <3>3 DEF IInv, Known
    <2> QED BY <2>2, <2>3
  <1> QED BY InitIInv, <1>1, PTL DEF Spec

(* Every variable keeps its type: a revocation or an expiry is of a token  *)
(* that has its row (auth.service.ts:81-88).                               *)
THEOREM TypeCorrect == Spec => []TypeOK
  <1>1. IInv => TypeOK
    BY DEF IInv
  <1> QED BY Invariant, <1>1, PTL

(* Registrations that race make one user of an email, for any number of    *)
(* them (auth.service.ts:21, 36).                                          *)
THEOREM OneUser == Spec => []OneUserPerEmail
  <1>1. IInv => OneUserPerEmail
    BY DEF IInv
  <1> QED BY Invariant, <1>1, PTL

(* Whoever was given tokens is a user, and the refresh token has its row   *)
(* (auth.service.ts:100-113).                                              *)
THEOREM SessionsBacked == Spec => []SessionsAreBacked
  <1>1. IInv => SessionsAreBacked
    BY DEF IInv, Holding, HandedOutRows, HandedOut, SessionsAreBacked
  <1> QED BY Invariant, <1>1, PTL

(* A refresh that starts after the logout of its token, or a login after   *)
(* the user was deactivated, is refused (auth.service.ts:47, 63, 84).      *)
THEOREM LateRefused == Spec => []LateIsRefused
  <1>1. IInv => LateIsRefused
    BY DEF IInv, LateOnItsWay, LateIsRefused
  <1> QED BY Invariant, <1>1, PTL


-----------------------------------------------------------------------------
(* The refinement of Sessions needs two facts more: a registration at its  *)
(* INSERT has an email, and every refresh token with a row was handed out. *)
Asked == /\ \A r \in Req : pc[r] = "insertUser" => email[r] \in Email
         /\ tokens \subseteq HandedOut

(* A call that is over takes no step of its own.                           *)
LEMMA OverAtRest ==
  ASSUME TypeOK, NEW r \in Req, pc[r] \in {"done", "crashed"}, Step(r)
  PROVE  /\ Deactivate(r) \/ Expire(r)
         /\ Same(r)
  BY DEF Step, register, login, refresh, RegisterFind, InsertUser, LoginFind, ComparePassword, InsertToken,
         RefreshFind, CompareToken, Logout, DbFault, Crash, Deactivate, Expire, InFlight, Same

(* Where a step of r leaves r, by its action.                              *)
LEMMA AskedStep ==
  ASSUME TypeOK, Settled, Asked, NEW r \in Req, Step(r)
  PROVE  Asked'
  <1>1. pc'[r] = "insertUser" => email'[r] \in Email
    <2>1. CASE RegisterFind(r)
      BY <2>1 DEF RegisterFind, TypeOK
    <2>2. CASE InsertUser(r)
      BY <2>2, FinishAt, GotoAt DEF InsertUser
    <2>3. CASE LoginFind(r)
      BY <2>3, FinishAt, GotoAt DEF LoginFind
    <2>4. CASE ComparePassword(r)
      BY <2>4, FinishAt, GotoAt DEF ComparePassword
    <2>5. CASE InsertToken(r) \/ CompareToken(r) \/ Logout(r) \/ DbFault(r)
      BY <2>5, FinishAt DEF InsertToken, CompareToken, Logout, DbFault
    <2>6. CASE RefreshFind(r)
      BY <2>6, FinishAt, GotoAt DEF RefreshFind
    <2>7. CASE Crash(r) \/ Deactivate(r) \/ Expire(r)
      BY <2>7 DEF Crash, Deactivate, Expire, TypeOK, Asked
    <2> QED BY <2>1, <2>2, <2>3, <2>4, <2>5, <2>6, <2>7 DEF Step, register, login, refresh
  <1>2. ASSUME NEW q \in Req, pc'[q] = "insertUser" PROVE email'[q] \in Email
    BY <1>1, <1>2, Frame DEF Asked, Same
  <1>3. tokens' \subseteq tokens \cup {r} /\ (r \in tokens' \ tokens => InsertToken(r))
    BY DEF Step, register, login, refresh, RegisterFind, InsertUser, LoginFind, ComparePassword, InsertToken,
           RefreshFind, CompareToken, Logout, DbFault, Crash, Deactivate, Expire
  <1>4. ASSUME NEW t \in tokens' PROVE t \in Req /\ answer'[t] = "session"
    <2>1. CASE t \notin tokens
      <3>1. t = r /\ InsertToken(r)
        BY <1>3, <1>4, <2>1
      <3> QED BY <3>1, FinishAt DEF InsertToken
    <2>2. CASE t \in tokens
      <3>1. t \in Req /\ answer[t] = "session" /\ pc[t] = "done"
        BY <2>2 DEF Asked, HandedOut, Settled
      <3>2. Same(t)
        BY <3>1, Frame, OverAtRest
      <3> QED BY <3>1, <3>2 DEF Same
    <2> QED BY <2>1, <2>2
  <1> QED BY <1>2, <1>4 DEF Asked, HandedOut

(* Both invariants, in every reachable state.                              *)
LEMMA AskedAlways == Spec => [](IInv /\ Asked)
  <1>1. Init => Asked
    BY DEF Init, Asked
  <1>2. IInv /\ Asked /\ [Next]_vars => Asked'
    <2> SUFFICES ASSUME IInv, Asked, [Next]_vars PROVE Asked'
      OBVIOUS
    <2>1. CASE UNCHANGED vars
      BY <2>1 DEF vars, Asked, HandedOut
    <2>2. CASE Next
      <3>1. PICK r \in Req : Step(r)
        BY <2>2 DEF Next, Step
      <3> QED BY <3>1, AskedStep DEF IInv
    <2> QED BY <2>1, <2>2
  <1> QED BY Invariant, <1>1, <1>2, PTL DEF Spec

-----------------------------------------------------------------------------
(* What one step of r does to the calls that may be given something, and   *)
(* to what was given: nothing but r's own record comes or goes.            *)
LEMMA AdmittedStep ==
  ASSUME TypeOK, NEW r \in Req, Step(r)
  PROVE  /\ r \in MayGetSession' /\ r \notin MayGetSession => Admitted' = Admitted \cup {Seat(r)'}
         /\ r \notin MayGetSession' => Admitted' = {o \in Admitted : o.holder # r}
         /\ r \notin MayGetSession' /\ r \notin MayGetSession => Admitted' = Admitted
         /\ r \in MayGetSession' /\ r \in MayGetSession /\ Seat(r)' = Seat(r) => Admitted' = Admitted
  <1>1. \A q \in Req \ {r} : (q \in MayGetSession' <=> q \in MayGetSession) /\ Seat(q)' = Seat(q)
    BY Frame DEF Same, MayGetSession, Seat, Account
  <1>2. MayGetSession' \subseteq Req /\ MayGetSession \subseteq Req
    BY DEF MayGetSession
  <1>3. \A q \in Req : Seat(q).holder = q
    BY DEF Seat
  <1>4. ASSUME r \in MayGetSession', r \notin MayGetSession PROVE Admitted' = Admitted \cup {Seat(r)'}
    <2>1. MayGetSession' = MayGetSession \cup {r}
      BY <1>1, <1>2, <1>4
    <2>2. \A q \in MayGetSession : Seat(q)' = Seat(q)
      BY <1>1, <1>2, <1>4
    <2> QED BY <2>1, <2>2 DEF Admitted
  <1>5. ASSUME r \notin MayGetSession' PROVE Admitted' = {o \in Admitted : o.holder # r}
    <2>1. MayGetSession' = MayGetSession \ {r}
      BY <1>1, <1>2, <1>5
    <2>2. \A q \in MayGetSession' : Seat(q)' = Seat(q)
      BY <1>1, <1>2, <1>5
    <2> QED BY <1>2, <1>3, <2>1, <2>2 DEF Admitted
  <1>6. ASSUME r \notin MayGetSession', r \notin MayGetSession PROVE Admitted' = Admitted
    <2>1. MayGetSession' = MayGetSession /\ \A q \in MayGetSession : Seat(q)' = Seat(q)
      BY <1>1, <1>2, <1>6
    <2> QED BY <2>1 DEF Admitted
  <1>7. ASSUME r \in MayGetSession', r \in MayGetSession, Seat(r)' = Seat(r) PROVE Admitted' = Admitted
    <2>1. MayGetSession' = MayGetSession /\ \A q \in MayGetSession : Seat(q)' = Seat(q)
      BY <1>1, <1>2, <1>7
    <2> QED BY <2>1 DEF Admitted
  <1> QED BY <1>4, <1>5, <1>6, <1>7

(* The same of the calls that may be given access.                         *)
LEMMA ClearedStep ==
  ASSUME TypeOK, NEW r \in Req, Step(r)
  PROVE  /\ r \in MayGetAccess' /\ r \notin MayGetAccess => Cleared' = Cleared \cup {Pass(r)'}
         /\ r \notin MayGetAccess' => Cleared' = {o \in Cleared : o.holder # r}
         /\ r \notin MayGetAccess' /\ r \notin MayGetAccess => Cleared' = Cleared
         /\ Same(r) => Cleared' = Cleared
  <1>1. \A q \in Req \ {r} : (q \in MayGetAccess' <=> q \in MayGetAccess) /\ Pass(q)' = Pass(q)
    BY Frame DEF Same, MayGetAccess, Pass
  <1>2. MayGetAccess' \subseteq Req /\ MayGetAccess \subseteq Req
    BY DEF MayGetAccess
  <1>3. \A q \in Req : Pass(q).holder = q
    BY DEF Pass
  <1>4. ASSUME r \in MayGetAccess', r \notin MayGetAccess PROVE Cleared' = Cleared \cup {Pass(r)'}
    <2>1. MayGetAccess' = MayGetAccess \cup {r}
      BY <1>1, <1>2, <1>4
    <2>2. \A q \in MayGetAccess : Pass(q)' = Pass(q)
      BY <1>1, <1>2, <1>4
    <2> QED BY <2>1, <2>2 DEF Cleared
  <1>5. ASSUME r \notin MayGetAccess' PROVE Cleared' = {o \in Cleared : o.holder # r}
    <2>1. MayGetAccess' = MayGetAccess \ {r}
      BY <1>1, <1>2, <1>5
    <2>2. \A q \in MayGetAccess' : Pass(q)' = Pass(q)
      BY <1>1, <1>2, <1>5
    <2> QED BY <1>2, <1>3, <2>1, <2>2 DEF Cleared
  <1>6. ASSUME r \notin MayGetAccess', r \notin MayGetAccess PROVE Cleared' = Cleared
    <2>1. MayGetAccess' = MayGetAccess /\ \A q \in MayGetAccess : Pass(q)' = Pass(q)
      BY <1>1, <1>2, <1>6
    <2> QED BY <2>1 DEF Cleared
  <1>7. ASSUME Same(r) PROVE Cleared' = Cleared
    <2>1. (r \in MayGetAccess' <=> r \in MayGetAccess) /\ Pass(r)' = Pass(r)
      BY <1>7 DEF Same, MayGetAccess, Pass
    <2>2. MayGetAccess' = MayGetAccess /\ \A q \in MayGetAccess : Pass(q)' = Pass(q)
      BY <1>1, <1>2, <2>1
    <2> QED BY <2>2 DEF Cleared
  <1> QED BY <1>4, <1>5, <1>6, <1>7

(* The same of what was given, which stays as it is.                       *)
LEMMA GivenStep ==
  ASSUME TypeOK, Settled, NEW r \in Req, Step(r)
  PROVE  /\ answer[r] # "session" /\ answer'[r] = "session" => Given' = Given \cup {Seat(r)'}
         /\ answer'[r] # "session" => Given' = Given
         /\ answer[r] # "access" /\ answer'[r] = "access" => Accesses' = Accesses \cup {Pass(r)'}
         /\ answer'[r] # "access" => Accesses' = Accesses
         /\ Same(r) => Given' = Given /\ Accesses' = Accesses
  <1>1. \A q \in Req \ {r} : /\ q \in HandedOut' <=> q \in HandedOut
                             /\ q \in GotAccess' <=> q \in GotAccess
                             /\ Seat(q)' = Seat(q) /\ Pass(q)' = Pass(q)
    BY Frame DEF Same, HandedOut, GotAccess, Seat, Account, Pass
  <1>2. HandedOut \subseteq Req /\ HandedOut' \subseteq Req /\ GotAccess \subseteq Req /\ GotAccess' \subseteq Req
    BY DEF HandedOut, GotAccess
  <1>3. ASSUME answer[r] # "none" PROVE Same(r)
    BY <1>3, OverAtRest DEF Settled
  <1>4. ASSUME Same(r) PROVE Given' = Given /\ Accesses' = Accesses
    <2>1. /\ r \in HandedOut' <=> r \in HandedOut
          /\ r \in GotAccess' <=> r \in GotAccess
          /\ Seat(r)' = Seat(r) /\ Pass(r)' = Pass(r)
      BY <1>4 DEF Same, HandedOut, GotAccess, Seat, Account, Pass
    <2>2. HandedOut' = HandedOut /\ GotAccess' = GotAccess
      BY <1>1, <1>2, <2>1
    <2>3. \A q \in Req : Seat(q)' = Seat(q) /\ Pass(q)' = Pass(q)
      BY <1>1, <2>1
    <2> QED BY <1>2, <2>2, <2>3 DEF Given, Accesses
  <1>5. ASSUME ~Same(r), answer'[r] # "session" PROVE Given' = Given
    <2>1. r \notin HandedOut /\ r \notin HandedOut'
      BY <1>3, <1>5 DEF HandedOut
    <2>2. HandedOut' = HandedOut /\ \A q \in HandedOut : Seat(q)' = Seat(q)
      BY <1>1, <1>2, <2>1
    <2> QED BY <2>2 DEF Given
  <1>6. ASSUME ~Same(r), answer'[r] # "access" PROVE Accesses' = Accesses
    <2>1. r \notin GotAccess /\ r \notin GotAccess'
      BY <1>3, <1>6 DEF GotAccess
    <2>2. GotAccess' = GotAccess /\ \A q \in GotAccess : Pass(q)' = Pass(q)
      BY <1>1, <1>2, <2>1
    <2> QED BY <2>2 DEF Accesses
  <1>7. ASSUME answer[r] # "session", answer'[r] = "session" PROVE Given' = Given \cup {Seat(r)'}
    <2>1. HandedOut' = HandedOut \cup {r} /\ r \notin HandedOut
      BY <1>1, <1>2, <1>7 DEF HandedOut
    <2>2. \A q \in HandedOut : Seat(q)' = Seat(q)
      BY <1>1, <1>2, <2>1
    <2> QED BY <2>1, <2>2 DEF Given
  <1>8. ASSUME answer[r] # "access", answer'[r] = "access" PROVE Accesses' = Accesses \cup {Pass(r)'}
    <2>1. GotAccess' = GotAccess \cup {r} /\ r \notin GotAccess
      BY <1>1, <1>2, <1>8 DEF GotAccess
    <2>2. \A q \in GotAccess : Pass(q)' = Pass(q)
      BY <1>1, <1>2, <2>1
    <2> QED BY <2>1, <2>2 DEF Accesses
  <1> QED BY <1>4, <1>5, <1>6, <1>7, <1>8

(* And of the accounts and of the calls that have ended.                   *)
LEMMA AccountsStep ==
  ASSUME TypeOK, Settled, NEW r \in Req, Step(r)
  PROVE  /\ users' = users => Accounts' = Accounts
         /\ users' = users \cup {r} => Accounts' = Accounts \cup {Account(r, email'[r])}
         /\ pc'[r] \in {"done", "crashed"} => Over' = Over \cup {r}
         /\ pc'[r] \notin {"done", "crashed"} => Over' = Over
         /\ Same(r) => Over' = Over
  <1>1. \A u \in users : Account(u, email[u])' = Account(u, email[u])
    BY EmailKept DEF Account
  <1>2. \A q \in Req \ {r} : q \in Over' <=> q \in Over
    BY Frame DEF Same, Over
  <1>3. Over \subseteq Req /\ Over' \subseteq Req
    BY DEF Over
  <1>4. users' = users => Accounts' = Accounts
    BY <1>1 DEF Accounts
  <1>5. users' = users \cup {r} => Accounts' = Accounts \cup {Account(r, email'[r])}
    BY <1>1 DEF Accounts, Account
  <1>6. pc'[r] \in {"done", "crashed"} => Over' = Over \cup {r}
    BY <1>2, <1>3 DEF Over
  <1>7. r \in Over => Same(r)
    BY OverAtRest DEF Over
  <1>8. Same(r) => Over' = Over
    BY <1>2, <1>3 DEF Over, Same
  <1>9. pc'[r] \notin {"done", "crashed"} => Over' = Over
    <2>1. CASE r \in Over
      BY <1>7, <1>8, <2>1
    <2>2. CASE r \notin Over
      BY <1>2, <1>3, <2>2 DEF Over
    <2> QED BY <2>1, <2>2
  <1> QED BY <1>4, <1>5, <1>6, <1>8, <1>9


(* A call that is at none of the places where something is promised to it, *)
(* and is not over, is new to Sessions.                                    *)
LEMMA NewCall ==
  ASSUME NEW r \in Req, r \notin MayGetSession, r \notin MayGetAccess, pc[r] \notin {"done", "crashed"}
  PROVE  Promise!New(r)
  <1>1. \A o \in Admitted : o.holder # r
    BY DEF Admitted, Seat
  <1>2. \A o \in Cleared : o.holder # r
    BY DEF Cleared, Pass
  <1>3. r \notin Over
    BY DEF Over
  <1> QED BY <1>1, <1>2, <1>3 DEF Promise!New

(* A call that ends with nothing given, whatever it was at: a refusal, a   *)
(* fault or a crash.                                                       *)
LEMMA EndStep ==
  ASSUME TypeOK, Settled, NEW r \in Req, Step(r), UNCHANGED <<users, inactive, tokens, revoked, expired, overdue>>,
         pc[r] \notin {"done", "crashed"}, pc'[r] \in {"done", "crashed"}, answer'[r] \notin {"session", "access"}
  PROVE  Promise!End(r)
  <1>1. r \notin MayGetSession' /\ r \notin MayGetAccess'
    BY DEF MayGetSession, MayGetAccess
  <1>2. r \notin Over
    BY DEF Over
  <1>3. /\ Over' = Over \cup {r} /\ Accounts' = Accounts /\ Given' = Given /\ Accesses' = Accesses
        /\ Live' = Live
    BY AccountsStep, GivenStep DEF Live
  <1>4. Admitted' = {o \in Admitted : o.holder # r} /\ Cleared' = {o \in Cleared : o.holder # r}
    BY <1>1, AdmittedStep, ClearedStep
  <1> QED BY <1>2, <1>3, <1>4 DEF Promise!End, Promise!Without

(* A step that ends nothing, promises nothing and gives nothing.           *)
LEMMA QuietStep ==
  ASSUME TypeOK, Settled, NEW r \in Req, Step(r), UNCHANGED <<users, inactive, tokens, revoked, expired, overdue>>,
         pc'[r] \notin {"done", "crashed"}, answer' = answer, answer[r] = "none",
         r \notin MayGetAccess, r \notin MayGetAccess',
         \/ r \notin MayGetSession /\ r \notin MayGetSession'
         \/ r \in MayGetSession /\ r \in MayGetSession' /\ Seat(r)' = Seat(r)
  PROVE  UNCHANGED Promise!auth
  <1>1. Over' = Over /\ Accounts' = Accounts /\ Given' = Given /\ Accesses' = Accesses /\ Live' = Live
    BY AccountsStep, GivenStep DEF Live
  <1>2. Admitted' = Admitted /\ Cleared' = Cleared
    BY AdmittedStep, ClearedStep
  <1> QED BY <1>1, <1>2 DEF Promise!auth

(* Each step of register is one of Sessions or none: the INSERT that the   *)
(* UNIQUE email lets through opens the account.                            *)
LEMMA RegisterKeepsPromise ==
  ASSUME IInv, Asked, NEW r \in Req, RegisterFind(r) \/ InsertUser(r)
  PROVE  \/ Promise!OpenAccount(r)
         \/ Promise!End(r)
         \/ UNCHANGED Promise!auth
  <1>0. TypeOK /\ Settled /\ Step(r)
    BY DEF IInv, Step, register
  <1>1. pc[r] \in {"idle", "insertUser"} /\ answer[r] = "none"
    BY <1>0 DEF RegisterFind, InsertUser, Settled
  <1>2. r \notin MayGetSession /\ r \notin MayGetAccess
    BY <1>1 DEF MayGetSession, MayGetAccess
  <1>3. CASE Finish(r, "400") \/ Finish(r, "error")
    <2>1. pc'[r] = "done" /\ answer'[r] \notin {"session", "access"}
      BY <1>0, <1>3, FinishAt
    <2>2. UNCHANGED <<users, inactive, tokens, revoked, expired, overdue>>
      <3>1. CASE RegisterFind(r)
        BY <3>1 DEF RegisterFind
      <3>2. CASE InsertUser(r)
        <4>1. ~Goto(r, "insertToken")
          BY <1>0, <2>1, GotoAt
        <4> QED BY <3>2, <4>1 DEF InsertUser
      <3> QED BY <3>1, <3>2
    <2> QED BY <1>0, <1>1, <2>1, <2>2, EndStep
  <1>4. CASE RegisterFind(r) /\ Goto(r, "insertUser")
    <2>1. pc'[r] = "insertUser" /\ answer' = answer
      BY <1>0, <1>4, GotoAt
    <2>2. r \notin MayGetSession' /\ r \notin MayGetAccess'
      BY <2>1 DEF MayGetSession, MayGetAccess
    <2>3. UNCHANGED <<users, inactive, tokens, revoked, expired, overdue>>
      BY <1>4 DEF RegisterFind
    <2> QED BY <1>0, <1>1, <1>2, <2>1, <2>2, <2>3, QuietStep
  <1>5. CASE InsertUser(r) /\ ~Finish(r, "error")
    <2>1. /\ HasEmail(email[r]) = {} /\ users' = users \cup {r} /\ user' = [user EXCEPT ![r] = r]
          /\ Goto(r, "insertToken") /\ pc[r] = "insertUser"
      BY <1>5 DEF InsertUser
    <2>2. UNCHANGED <<inactive, tokens, revoked, expired, overdue, email>>
      BY <1>5 DEF InsertUser
    <2>3. pc'[r] = "insertToken" /\ answer' = answer
      BY <1>0, <2>1, GotoAt
    <2>4. email[r] \in Email
      BY <2>1 DEF Asked
    <2>5. \A a \in Accounts : a.email # email[r]
      BY <2>1 DEF HasEmail, Accounts, Account
    <2>6. Accounts' = Accounts \cup {[id |-> r, email |-> email[r]]}
      BY <1>0, <2>1, <2>2, AccountsStep DEF Account
    <2>7. user'[r] = r
      BY <1>0, <2>1 DEF TypeOK
    <2>8. Admitted' = Admitted \cup {[holder |-> r, account |-> [id |-> r, email |-> email[r]]]}
      <3>1. r \in MayGetSession'
        BY <2>3 DEF MayGetSession
      <3>2. Seat(r)' = [holder |-> r, account |-> [id |-> r, email |-> email[r]]]
        BY <2>2, <2>7 DEF Seat, Account
      <3> QED BY <1>0, <1>2, <3>1, <3>2, AdmittedStep
    <2>9. Cleared' = Cleared /\ Over' = Over /\ Given' = Given /\ Accesses' = Accesses /\ Live' = Live
      <3>1. r \notin MayGetAccess'
        BY <2>3 DEF MayGetAccess
      <3>2. Live' = Live
        BY <2>2 DEF Live
      <3> QED BY <1>0, <1>1, <1>2, <2>3, <3>1, <3>2, ClearedStep, AccountsStep, GivenStep
    <2>10. Promise!New(r)
      BY <1>1, <1>2, NewCall
    <2> QED BY <2>2, <2>4, <2>5, <2>6, <2>8, <2>9, <2>10 DEF Promise!OpenAccount
  <1> QED BY <1>3, <1>4, <1>5 DEF RegisterFind

(* Each step of login up to the tokens: the look-up of an active user      *)
(* admits the call, whatever happens to the user from then on.             *)
LEMMA LoginKeepsPromise ==
  ASSUME IInv, NEW r \in Req, LoginFind(r) \/ ComparePassword(r)
  PROVE  \/ Promise!Admit(r)
         \/ Promise!End(r)
         \/ UNCHANGED Promise!auth
  <1>0. TypeOK /\ Settled /\ Holding /\ Step(r)
    BY DEF IInv, Step, login
  <1>1. pc[r] \in {"idle", "comparePassword"} /\ answer[r] = "none"
    BY <1>0 DEF LoginFind, ComparePassword, Settled
  <1>2. UNCHANGED <<users, inactive, tokens, revoked, expired, overdue>>
    BY DEF LoginFind, ComparePassword
  <1>3. CASE Finish(r, "401")
    <2>1. pc'[r] = "done" /\ answer'[r] \notin {"session", "access"}
      BY <1>0, <1>3, FinishAt
    <2> QED BY <1>0, <1>1, <1>2, <2>1, EndStep
  <1>4. CASE LoginFind(r) /\ ~Finish(r, "401")
    <2>1. PICK e \in Email :
            /\ email' = [email EXCEPT ![r] = e]
            /\ \E u \in HasEmail(e) : /\ user' = [user EXCEPT ![r] = u]
                                      /\ isActive' = [isActive EXCEPT ![r] = u \notin inactive]
                                      /\ Goto(r, "comparePassword")
      BY <1>4 DEF LoginFind
    <2>2. PICK u \in HasEmail(e) : /\ user' = [user EXCEPT ![r] = u]
                                   /\ isActive' = [isActive EXCEPT ![r] = u \notin inactive]
                                   /\ Goto(r, "comparePassword")
      BY <2>1
    <2>3. u \in users /\ email[u] = e
      BY <2>2 DEF HasEmail
    <2>4. user'[r] = u /\ email'[r] = e /\ isActive'[r] = (u \notin inactive)
      BY <1>0, <2>1, <2>2 DEF TypeOK
    <2>5. pc[r] = "idle" /\ pc'[r] = "comparePassword" /\ answer' = answer
      BY <1>0, <1>4, <2>2, GotoAt DEF LoginFind
    <2>6. r \notin MayGetSession /\ r \notin MayGetAccess /\ r \notin MayGetAccess'
      BY <2>5 DEF MayGetSession, MayGetAccess
    <2>7. CASE u \in inactive
      <3>1. r \notin MayGetSession'
        BY <2>4, <2>5, <2>7 DEF MayGetSession
      <3> QED BY <1>0, <1>1, <1>2, <2>5, <2>6, <3>1, QuietStep
    <2>8. CASE u \notin inactive
      <3>1. r \in MayGetSession'
        BY <2>4, <2>5, <2>8 DEF MayGetSession
      <3>2. Seat(r)' = [holder |-> r, account |-> Account(u, email[u])]
        BY <2>3, <2>4 DEF Seat, Account
      <3>3. Admitted' = Admitted \cup {[holder |-> r, account |-> Account(u, email[u])]}
        BY <1>0, <2>6, <3>1, <3>2, AdmittedStep
      <3>4. Account(u, email[u]) \in Accounts /\ Account(u, email[u]).id = u
        BY <2>3 DEF Accounts, Account
      <3>5. Cleared' = Cleared /\ Over' = Over /\ Given' = Given /\ Accesses' = Accesses /\ Live' = Live
            /\ Accounts' = Accounts
        <4>1. Live' = Live
          BY <1>2 DEF Live
        <4> QED BY <1>0, <1>1, <1>2, <2>5, <2>6, <4>1, ClearedStep, AccountsStep, GivenStep
      <3>6. Promise!New(r)
        BY <2>5, <2>6, NewCall
      <3> QED BY <1>2, <2>8, <3>3, <3>4, <3>5, <3>6 DEF Promise!Admit
    <2> QED BY <2>7, <2>8
  <1>5. CASE ComparePassword(r) /\ ~Finish(r, "401")
    <2>1. isActive[r] /\ Goto(r, "insertToken") /\ pc[r] = "comparePassword" /\ UNCHANGED <<user, email>>
      BY <1>5 DEF ComparePassword
    <2>2. pc'[r] = "insertToken" /\ answer' = answer
      BY <1>0, <2>1, GotoAt
    <2>3. r \in MayGetSession /\ r \in MayGetSession' /\ r \notin MayGetAccess /\ r \notin MayGetAccess'
      BY <2>1, <2>2 DEF MayGetSession, MayGetAccess
    <2>4. Seat(r)' = Seat(r)
      BY <2>1 DEF Seat, Account
    <2> QED BY <1>0, <1>1, <1>2, <2>2, <2>3, <2>4, QuietStep
  <1> QED BY <1>3, <1>4, <1>5


(* Saving the refresh token gives the session, which can be refreshed from *)
(* then on: the token is new, so nothing has revoked it.                   *)
LEMMA TokenKeepsPromise ==
  ASSUME IInv, Asked, NEW r \in Req, InsertToken(r)
  PROVE  Promise!GiveSession(r)
  <1>0. TypeOK /\ Settled /\ Step(r)
    BY DEF IInv, Step, login
  <1>1. pc[r] = "insertToken" /\ tokens' = tokens \cup {r} /\ Finish(r, "session") /\ answer[r] = "none"
    BY <1>0 DEF InsertToken, Settled
  <1>2. UNCHANGED <<users, inactive, revoked, expired, overdue, user, email>>
    BY DEF InsertToken
  <1>3. pc'[r] = "done" /\ answer'[r] = "session"
    BY <1>0, <1>1, FinishAt
  <1>4. r \in MayGetSession /\ r \notin MayGetSession' /\ r \notin MayGetAccess /\ r \notin MayGetAccess'
    BY <1>1, <1>3 DEF MayGetSession, MayGetAccess
  <1>5. Seat(r) \in Admitted /\ Seat(r).holder = r /\ Seat(r)' = Seat(r)
    BY <1>2, <1>4 DEF Admitted, Seat, Account
  <1>6. Given' = Given \cup {Seat(r)} /\ Accesses' = Accesses
    BY <1>0, <1>1, <1>3, <1>5, GivenStep
  <1>7. Live' = Live \cup {r}
    <2>1. r \notin tokens
      BY <1>1 DEF Asked, HandedOut
    <2>2. r \notin revoked \cup expired \cup overdue
      BY <1>0, <2>1 DEF TypeOK
    <2> QED BY <1>1, <1>2, <2>2 DEF Live
  <1>8. Admitted' = {o \in Admitted : o.holder # r} /\ Cleared' = Cleared
    BY <1>0, <1>4, AdmittedStep, ClearedStep
  <1>9. Accounts' = Accounts /\ Over' = Over \cup {r}
    BY <1>0, <1>2, <1>3, AccountsStep
  <1> QED BY <1>2, <1>5, <1>6, <1>7, <1>8, <1>9 DEF Promise!GiveSession, Promise!Without

(* A refresh finds its row fit for use, or ends; the access token that     *)
(* CompareToken signs was cleared by that look-up.                         *)
LEMMA RefreshKeepsPromise ==
  ASSUME IInv, NEW r \in Req, RefreshFind(r) \/ CompareToken(r)
  PROVE  \/ Promise!Clear(r)
         \/ Promise!GiveAccess(r)
         \/ Promise!End(r)
  <1>0. TypeOK /\ Settled /\ HandedOutRows /\ Step(r)
    BY DEF IInv, Step, refresh
  <1>1. pc[r] \in {"idle", "compareToken"} /\ answer[r] = "none"
    BY <1>0 DEF RefreshFind, CompareToken, Settled
  <1>2. UNCHANGED <<users, inactive, tokens, revoked, expired, overdue>>
    BY DEF RefreshFind, CompareToken
  <1>3. Live' = Live /\ r \notin MayGetSession
    BY <1>1, <1>2 DEF Live, MayGetSession
  <1>4. CASE Finish(r, "401")
    <2>1. pc'[r] = "done" /\ answer'[r] \notin {"session", "access"}
      BY <1>0, <1>4, FinishAt
    <2> QED BY <1>0, <1>1, <1>2, <2>1, EndStep
  <1>5. CASE RefreshFind(r) /\ ~Finish(r, "401")
    <2>1. PICK t \in HandedOut : /\ presented' = [presented EXCEPT ![r] = t]
                                 /\ t \notin expired /\ ~RecordRefused(t) /\ Goto(r, "compareToken")
      BY <1>5 DEF RefreshFind
    <2>2. t \in Live
      BY <1>0, <2>1 DEF RecordRefused, Live
    <2>3. pc[r] = "idle" /\ pc'[r] = "compareToken" /\ answer' = answer
      BY <1>0, <1>5, <2>1, GotoAt DEF RefreshFind
    <2>4. r \notin MayGetSession' /\ r \notin MayGetAccess /\ r \in MayGetAccess'
      BY <2>3 DEF MayGetSession, MayGetAccess
    <2>5. Pass(r)' = [holder |-> r, session |-> t]
      BY <1>0, <2>1 DEF Pass, TypeOK
    <2>6. Cleared' = Cleared \cup {[holder |-> r, session |-> t]}
      BY <1>0, <2>4, <2>5, ClearedStep
    <2>7. Admitted' = Admitted /\ Over' = Over /\ Given' = Given /\ Accesses' = Accesses /\ Accounts' = Accounts
      BY <1>0, <1>1, <1>2, <1>3, <2>3, <2>4, AdmittedStep, AccountsStep, GivenStep
    <2>8. Promise!New(r)
      BY <1>3, <2>3, <2>4, NewCall
    <2> QED BY <1>2, <1>3, <2>2, <2>6, <2>7, <2>8 DEF Promise!Clear
  <1>6. CASE CompareToken(r)
    <2>1. pc[r] = "compareToken" /\ pc'[r] = "done" /\ answer'[r] = "access" /\ presented' = presented
      BY <1>0, <1>6, FinishAt DEF CompareToken
    <2>2. r \in MayGetAccess /\ r \notin MayGetAccess' /\ r \notin MayGetSession'
      BY <2>1 DEF MayGetAccess, MayGetSession
    <2>3. Pass(r) \in Cleared /\ Pass(r).holder = r /\ Pass(r)' = Pass(r)
      BY <2>1, <2>2 DEF Cleared, Pass
    <2>4. Accesses' = Accesses \cup {Pass(r)} /\ Given' = Given
      BY <1>0, <1>1, <2>1, <2>3, GivenStep
    <2>5. Cleared' = {o \in Cleared : o.holder # r} /\ Admitted' = Admitted
      BY <1>0, <1>3, <2>2, AdmittedStep, ClearedStep
    <2>6. Accounts' = Accounts /\ Over' = Over \cup {r}
      BY <1>0, <1>2, <2>1, AccountsStep
    <2> QED BY <1>2, <1>3, <2>3, <2>4, <2>5, <2>6 DEF Promise!GiveAccess, Promise!Without
  <1> QED BY <1>4, <1>5, <1>6

(* A logout closes the session of its token, or finds it closed.           *)
LEMMA LogoutKeepsPromise ==
  ASSUME IInv, NEW r \in Req, Logout(r)
  PROVE  Promise!SignOut(r)
  <1>0. TypeOK /\ Settled /\ Step(r)
    BY DEF IInv, Step
  <1>1. PICK t \in HandedOut : revoked' = IF t \in expired THEN revoked ELSE revoked \cup {t}
    BY DEF Logout
  <1>2. UNCHANGED <<users, inactive, tokens, expired, overdue>> /\ pc[r] = "idle" /\ answer[r] = "none"
    BY <1>0 DEF Logout, Settled
  <1>3. pc'[r] = "done" /\ answer'[r] = "signedOut"
    BY <1>0, FinishAt DEF Logout
  <1>4. Live' = Live \ {t}
    BY <1>1, <1>2 DEF Live
  <1>5. t \in {o.holder : o \in Given}
    <2>1. Seat(t) \in Given /\ Seat(t).holder = t
      BY DEF Given, Seat
    <2> QED BY <2>1
  <1>6. r \notin MayGetSession /\ r \notin MayGetSession' /\ r \notin MayGetAccess /\ r \notin MayGetAccess'
    BY <1>2, <1>3 DEF MayGetSession, MayGetAccess
  <1>7. Admitted' = Admitted /\ Cleared' = Cleared /\ Given' = Given /\ Accesses' = Accesses
    BY <1>0, <1>3, <1>6, AdmittedStep, ClearedStep, GivenStep
  <1>8. Accounts' = Accounts /\ Over' = Over \cup {r}
    BY <1>0, <1>2, <1>3, AccountsStep
  <1>9. Promise!New(r)
    BY <1>2, <1>6, NewCall
  <1> QED BY <1>2, <1>4, <1>5, <1>7, <1>8, <1>9 DEF Promise!SignOut

(* Faults and crashes end a call with nothing given; the lifetime of a     *)
(* token ends its session, and a deactivation bars the account.            *)
LEMMA EnvironmentKeepsPromise ==
  ASSUME IInv, NEW r \in Req, DbFault(r) \/ Crash(r) \/ Deactivate(r) \/ Expire(r)
  PROVE  Promise!End(r) \/ Promise!Bar(r) \/ Promise!Lapse(r)
  <1>0. TypeOK /\ Settled /\ Step(r)
    BY DEF IInv, Step
  <1>1. CASE DbFault(r)
    <2>1. Finish(r, "error") \/ Finish(r, "signedOut")
      BY <1>1 DEF DbFault
    <2>2. pc'[r] = "done" /\ answer'[r] \notin {"session", "access"}
      BY <1>0, <2>1, FinishAt
    <2>3. pc[r] \notin {"done", "crashed"} /\ UNCHANGED <<users, inactive, tokens, revoked, expired, overdue>>
      BY <1>1 DEF DbFault
    <2> QED BY <1>0, <2>2, <2>3, EndStep
  <1>2. CASE Crash(r)
    <2>1. pc[r] \notin {"done", "crashed"} /\ pc'[r] = "crashed" /\ answer' = answer /\ answer[r] = "none"
      BY <1>0, <1>2 DEF Crash, InFlight, Settled, TypeOK
    <2>2. UNCHANGED <<users, inactive, tokens, revoked, expired, overdue>>
      BY <1>2 DEF Crash
    <2> QED BY <1>0, <2>1, <2>2, EndStep
  <1>3. CASE Deactivate(r) \/ Expire(r)
    <2>1. Same(r) /\ users' = users
      BY <1>3 DEF Deactivate, Expire, Same
    <2>2. Accounts' = Accounts /\ Over' = Over /\ Cleared' = Cleared /\ Given' = Given /\ Accesses' = Accesses
      BY <1>0, <2>1, AccountsStep, ClearedStep, GivenStep
    <2>3. Admitted' = Admitted
      <3>1. (r \in MayGetSession' <=> r \in MayGetSession) /\ Seat(r)' = Seat(r)
        BY <2>1 DEF Same, MayGetSession, Seat, Account
      <3> QED BY <1>0, <3>1, AdmittedStep
    <2>4. CASE Deactivate(r)
      <3>1. r \in users /\ inactive' = inactive \cup {r} /\ Live' = Live
        BY <2>4 DEF Deactivate, Live
      <3>2. Account(r, email[r]) \in Accounts /\ Account(r, email[r]).id = r
        BY <3>1 DEF Accounts, Account
      <3> QED BY <2>2, <2>3, <3>1, <3>2 DEF Promise!Bar
    <2>5. CASE Expire(r)
      <3>1. inactive' = inactive /\ Live' = Live \ {r}
        BY <2>5 DEF Expire, Live
      <3> QED BY <2>2, <2>3, <3>1 DEF Promise!Lapse
    <2> QED BY <1>3, <2>4, <2>5
  <1> QED BY <1>1, <1>2, <1>3

(* AuthService keeps what Sessions promises, for any number of calls,      *)
(* emails and faults: registrations that race open one account; a session  *)
(* or an access is given only if the account was open, or the session could*)
(* be refreshed, when the call looked it up (auth.service.ts:20-113).      *)
THEOREM ImplementsSessions == Spec => RefinesSessions
  <1>1. Init => Promise!SessionsInit
    <2> SUFFICES ASSUME Init PROVE Promise!SessionsInit
      OBVIOUS
    <2>1. MayGetSession = {} /\ HandedOut = {} /\ MayGetAccess = {} /\ GotAccess = {}
      BY DEF Init, MayGetSession, HandedOut, MayGetAccess, GotAccess
    <2>2. Accounts = {} /\ Over = {} /\ Live = {} /\ inactive = {}
      BY DEF Init, Accounts, Over, Live
    <2>3. Admitted = {} /\ Given = {} /\ Cleared = {} /\ Accesses = {}
      BY <2>1 DEF Admitted, Given, Cleared, Accesses
    <2> QED BY <2>2, <2>3 DEF Promise!SessionsInit
  <1>2. IInv /\ Asked /\ [Next]_vars => [Promise!SessionsNext]_(Promise!auth)
    <2> SUFFICES ASSUME IInv, Asked, [Next]_vars PROVE [Promise!SessionsNext]_(Promise!auth)
      OBVIOUS
    <2>1. CASE UNCHANGED vars
      <3>1. HandedOut' = HandedOut /\ MayGetSession' = MayGetSession /\ MayGetAccess' = MayGetAccess
            /\ GotAccess' = GotAccess
        BY <2>1 DEF vars, HandedOut, MayGetSession, MayGetAccess, GotAccess
      <3>2. \A r \in Req : Seat(r)' = Seat(r) /\ Pass(r)' = Pass(r)
        BY <2>1 DEF vars, Seat, Account, Pass
      <3>3. HandedOut \subseteq Req /\ MayGetSession \subseteq Req /\ MayGetAccess \subseteq Req /\ GotAccess \subseteq Req
        BY DEF HandedOut, MayGetSession, MayGetAccess, GotAccess
      <3>4. Admitted' = Admitted /\ Given' = Given /\ Cleared' = Cleared /\ Accesses' = Accesses
        BY <3>1, <3>2, <3>3 DEF Admitted, Given, Cleared, Accesses
      <3>5. Accounts' = Accounts /\ Over' = Over /\ Live' = Live /\ inactive' = inactive
        BY <2>1 DEF vars, Accounts, Account, Over, Live
      <3> QED BY <3>4, <3>5 DEF Promise!auth
    <2>2. CASE Next
      <3>1. PICK r \in Req : Step(r)
        BY <2>2 DEF Next, Step
      <3>2. CASE RegisterFind(r) \/ InsertUser(r)
        BY <3>2, RegisterKeepsPromise DEF Promise!SessionsNext
      <3>3. CASE LoginFind(r) \/ ComparePassword(r)
        BY <3>3, LoginKeepsPromise DEF Promise!SessionsNext
      <3>4. CASE InsertToken(r)
        BY <3>4, TokenKeepsPromise DEF Promise!SessionsNext
      <3>5. CASE RefreshFind(r) \/ CompareToken(r)
        BY <3>5, RefreshKeepsPromise DEF Promise!SessionsNext
      <3>6. CASE Logout(r)
        BY <3>6, LogoutKeepsPromise DEF Promise!SessionsNext
      <3>7. CASE DbFault(r) \/ Crash(r) \/ Deactivate(r) \/ Expire(r)
        BY <3>7, EnvironmentKeepsPromise DEF Promise!SessionsNext
      <3> QED BY <3>1, <3>2, <3>3, <3>4, <3>5, <3>6, <3>7 DEF Step, register, login, refresh
    <2> QED BY <2>1, <2>2
  <1> QED BY <1>1, <1>2, AskedAlways, PTL DEF Spec, RefinesSessions, Promise!SessionsSpec
=============================================================================
