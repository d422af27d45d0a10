-------------------------- MODULE CourierHttp_proofs --------------------------
(***************************************************************************)
(* Theorems about CourierHttp, for any number of calls, retries, tokens    *)
(* revoked and failing refreshes.                                          *)
(***************************************************************************)
EXTENDS CourierHttp, TLAPS

-----------------------------------------------------------------------------
(* The invariant                                                           *)

\* a call that will still be sent, if nothing makes it give up
Pending == Waiting \cup {"idle", "send", "sleep"}

(* Every sending is paid for: the first one, one for each counted retry,   *)
(* one for the flag of the 401 - and a call that is still to be sent has   *)
(* one of them in hand.                                                    *)
SendsPaid(c) ==
  sends[c] + (IF pc[c] \in Pending THEN 1 ELSE 0) <= retryCount[c] + (IF authRetried[c] THEN 2 ELSE 1)

(* So is every time the courier acts on a call; a 401 costs nothing.       *)
ActsPaid(c) ==
  performed[c] + (IF pc[c] \in Pending \/ (pc[c] = "receive" /\ reply[c] = "401") THEN 1 ELSE 0)
    <= retryCount[c] + 1

(* A call whose 401 was answered by a refresh cannot meet another while    *)
(* the courier revokes one token only: the revoked one is older than what  *)
(* the call has by now, and than what it would get.                        *)
Absorbed(c) ==
  /\ pc[c] = "receive" /\ reply[c] = "401" => token[c] # 0 /\ token[c] \notin accepted
  /\ revocations <= 1 =>
       /\ outcome[c] # "unauthorized"
       /\ authRetried[c] /\ pc[c] # "done" =>
            /\ revocations = 1
            /\ pc[c] # "awaitAuth" =>
                 /\ token[c] \in accepted /\ issued \in accepted
                 /\ ~(pc[c] = "receive" /\ reply[c] = "401")

CallInv(c) == /\ SendsPaid(c) /\ ActsPaid(c) /\ Absorbed(c)
              /\ pc[c] \in {"send", "receive"} => token[c] # 0

(* The cache holds the last token issued, and what the courier does not    *)
(* accept any more it has revoked.                                         *)
TokensInv == /\ cache \in {0, issued}
             /\ revocations = 0 => accepted = 1..issued
             /\ revocations = 1 => \A s, t \in (1..issued) \ accepted : s = t

HttpInv == /\ TypeOK /\ OneRefresh /\ TokensInv
           /\ \A c \in Call : CallInv(c)

(* Types by their parts: what belongs to one call, and what all share.     *)
CallTypeOK ==
  /\ pc \in [Call -> Waiting \cup {"idle", "send", "receive", "sleep", "done"}]
  /\ retryCount \in [Call -> 0..maxRetries]
  /\ authRetried \in [Call -> BOOLEAN]
  /\ token \in [Call -> 0..issued]
  /\ reply \in [Call -> {"none", "200", "401", "4xx", "failed"}]
  /\ outcome \in [Call -> Ends \cup {"none"}]
  /\ performed \in [Call -> Nat] /\ sends \in [Call -> Nat]
SharedTypeOK ==
  /\ credentials \in BOOLEAN
  /\ cache \in 0..issued /\ fresh \in BOOLEAN /\ refreshing \in Nat
  /\ issued \in Nat /\ accepted \in SUBSET (1..issued)
  /\ revocations \in 0..MaxRevocations /\ authFaults \in 0..MaxAuthFaults

(* TypeOK is the two together.                                             *)
LEMMA TypeParts == (TypeOK <=> CallTypeOK /\ SharedTypeOK) /\ (TypeOK' <=> CallTypeOK' /\ SharedTypeOK')
  <1>1. TypeOK <=> CallTypeOK /\ SharedTypeOK
    BY DEF TypeOK, CallTypeOK, SharedTypeOK
  <1>2. TypeOK' <=> CallTypeOK' /\ SharedTypeOK'
    BY DEF TypeOK, CallTypeOK, SharedTypeOK
  <1> QED BY <1>1, <1>2

(* Before the first call the invariant holds.                              *)
LEMMA HttpInit == Init => HttpInv
  <1> SUFFICES ASSUME Init PROVE HttpInv
    OBVIOUS
  <1>1. TypeOK
    <2>1. credentials \in BOOLEAN
      BY DEF Init
    <2>2. fresh \in BOOLEAN /\ authRetried \in [Call -> BOOLEAN]
      BY DEF Init
    <2>3. CallTypeOK
      BY <2>2, RetryAssumption DEF Init, CallTypeOK, Waiting, Ends
    <2>4. /\ cache = 0 /\ refreshing = 0 /\ accepted = {} /\ issued = 0 /\ revocations = 0 /\ authFaults = 0
      BY DEF Init
    <2>5. SharedTypeOK
      BY <2>1, <2>2, <2>4, CourierAssumption DEF SharedTypeOK
    <2> QED BY <2>3, <2>5, TypeParts
  <1>2. OneRefresh
    BY DEF Init, OneRefresh, Waiters, Waiting
  <1>3. TokensInv
    BY DEF Init, TokensInv
  <1>4. \A c \in Call : CallInv(c)
    BY DEF Init, CallInv, SendsPaid, ActsPaid, Absorbed, Pending
  <1> QED BY <1>1, <1>2, <1>3, <1>4 DEF HttpInv

-----------------------------------------------------------------------------
(* Steps of one call                                                       *)

(* What a step of call c leaves alone: other calls, the tokens.            *)
Others(c) ==
  /\ \A d \in Call \ {c} :
       /\ pc'[d] = pc[d] /\ retryCount'[d] = retryCount[d] /\ authRetried'[d] = authRetried[d]
       /\ token'[d] = token[d] /\ reply'[d] = reply[d] /\ outcome'[d] = outcome[d]
       /\ performed'[d] = performed[d] /\ sends'[d] = sends[d]
  /\ UNCHANGED <<credentials, cache, fresh, accepted, issued, revocations, authFaults>>

(* A step of one call keeps the invariant when it does for that call, and  *)
(* a call that starts to wait has a refresh to wait for.                   *)
LEMMA OneCall ==
  ASSUME HttpInv, NEW c \in Call, Others(c), CallTypeOK', CallInv(c)',
         refreshing' \in {0, 1}, refreshing' >= refreshing,
         pc'[c] \in Waiting => refreshing' = 1
  PROVE  HttpInv'
  <1>1. SharedTypeOK'
    BY TypeParts DEF HttpInv, SharedTypeOK, Others
  <1>2. TokensInv'
    BY DEF HttpInv, TokensInv, Others
  <1>3. ASSUME NEW d \in Call PROVE CallInv(d)'
    <2>1. CASE d = c
      BY <2>1
    <2>2. CASE d # c
      BY <2>2 DEF HttpInv, Others, CallInv, SendsPaid, ActsPaid, Absorbed
    <2> QED BY <2>1, <2>2
  <1>4. OneRefresh'
    <2>1. refreshing \in Nat /\ refreshing <= 1 /\ (Waiters # {} => refreshing = 1)
      BY DEF HttpInv, OneRefresh, TypeOK
    <2>2. ASSUME NEW d \in Call, pc'[d] \in Waiting PROVE refreshing' = 1
      <3>1. CASE d = c
        BY <2>2, <3>1
      <3>2. CASE d # c
        <4>1. d \in Waiters
          BY <2>2, <3>2 DEF Others, Waiters
        <4> QED BY <2>1, <4>1
      <3> QED BY <3>1, <3>2
    <2> QED BY <2>2 DEF OneRefresh, Waiters
  <1> QED BY <1>1, <1>2, <1>3, <1>4, TypeParts DEF HttpInv

(* What Attach does for a call: a token that is not null, a wait for a     *)
(* refresh that is under way, or an error.                                 *)
LEMMA AttachStep ==
  ASSUME HttpInv, NEW c \in Call, Attach(c)
  PROVE  /\ pc' \in [Call -> Waiting \cup {"idle", "send", "receive", "sleep", "done"}]
         /\ token' \in [Call -> 0..issued] /\ outcome' \in [Call -> Ends \cup {"none"}]
         /\ \A d \in Call \ {c} : pc'[d] = pc[d] /\ token'[d] = token[d] /\ outcome'[d] = outcome[d]
         /\ refreshing' \in {0, 1} /\ refreshing' >= refreshing
         /\ \/ /\ pc'[c] = "send" /\ token'[c] = issued /\ issued # 0 /\ outcome'[c] = outcome[c]
            \/ /\ pc'[c] = "awaitToken" /\ refreshing' = 1
               /\ token'[c] = token[c] /\ outcome'[c] = outcome[c]
            \/ /\ pc'[c] = "done" /\ outcome'[c] = "authError" /\ token'[c] = token[c]
  <1>0. /\ CallTypeOK /\ SharedTypeOK /\ refreshing \in {0, 1} /\ cache \in {0, issued}
    BY TypeParts DEF HttpInv, OneRefresh, TokensInv, SharedTypeOK
  <1>1. CASE /\ cache # 0 /\ fresh
             /\ token' = [token EXCEPT ![c] = cache]
             /\ pc' = [pc EXCEPT ![c] = "send"]
             /\ UNCHANGED <<outcome, refreshing>>
    <2>1. cache = issued /\ issued # 0 /\ issued \in 0..issued
      BY <1>0, <1>1 DEF SharedTypeOK
    <2> QED BY <1>0, <1>1, <2>1 DEF CallTypeOK
  <1>2. CASE /\ pc' = [pc EXCEPT ![c] = "awaitToken"]
             /\ refreshing' = IF refreshing > 0 THEN refreshing ELSE 1
             /\ UNCHANGED <<outcome, token>>
    BY <1>0, <1>2 DEF CallTypeOK, Waiting
  <1>3. CASE End(c, "authError") /\ UNCHANGED <<refreshing, token>>
    BY <1>0, <1>3 DEF CallTypeOK, End, Ends
  <1> QED BY <1>1, <1>2, <1>3 DEF Attach, refreshToken

(* A call begins, or tries again after its backoff.                        *)
LEMMA AttachingStep ==
  ASSUME HttpInv, NEW c \in Call, Begin(c) \/ Wake(c)
  PROVE  HttpInv'
  <1>0. CallTypeOK /\ SharedTypeOK /\ CallInv(c)
    BY TypeParts DEF HttpInv
  <1>1. /\ Attach(c) /\ pc[c] \in {"idle", "sleep"}
        /\ UNCHANGED <<credentials, retryCount, authRetried, reply, sends, cache, fresh, courier>>
    BY DEF Begin, Wake
  <1>2. Others(c)
    BY <1>1, AttachStep DEF Others, courier
  <1>3. CallTypeOK'
    BY <1>0, <1>1, AttachStep DEF CallTypeOK, courier
  <1>4. /\ sends'[c] = sends[c] /\ retryCount'[c] = retryCount[c] /\ authRetried'[c] = authRetried[c]
        /\ performed'[c] = performed[c] /\ UNCHANGED <<accepted, issued, revocations>>
    BY <1>1 DEF courier
  <1>5. pc[c] \in Pending /\ pc'[c] \in {"send", "awaitToken", "done"}
        /\ {"send", "awaitToken"} \subseteq Pending /\ "done" \notin Pending
    BY <1>1, AttachStep DEF Pending, Waiting
  <1>6. SendsPaid(c)' /\ ActsPaid(c)'
    <2>1. sends[c] \in Nat /\ performed[c] \in Nat /\ retryCount[c] \in Nat
      BY <1>0, RetryAssumption DEF CallTypeOK
    <2>2. SendsPaid(c)'
      BY <1>0, <1>4, <1>5, <2>1 DEF CallInv, SendsPaid
    <2>3. ActsPaid(c)'
      BY <1>0, <1>4, <1>5, <2>1 DEF CallInv, ActsPaid
    <2> QED BY <2>2, <2>3
  <1>7. Absorbed(c)'
    BY <1>0, <1>1, <1>4, <1>5, AttachStep DEF CallInv, Absorbed
  <1>8. pc'[c] \in {"send", "receive"} => token'[c] # 0
    BY <1>1, AttachStep
  <1>9. CallInv(c)'
    BY <1>6, <1>7, <1>8 DEF CallInv
  <1>10. pc'[c] \in Waiting => refreshing' = 1
    BY <1>1, AttachStep DEF Waiting
  <1> QED BY <1>1, <1>2, <1>3, <1>9, <1>10, AttachStep, OneCall

(* The courier answers.                                                    *)
LEMMA HandleStep ==
  ASSUME HttpInv, NEW c \in Call, Handle(c)
  PROVE  HttpInv'
  <1>0. CallTypeOK /\ SharedTypeOK /\ CallInv(c) /\ refreshing \in {0, 1}
    BY TypeParts DEF HttpInv, OneRefresh, SharedTypeOK
  <1>1. /\ pc[c] = "send" /\ pc' = [pc EXCEPT ![c] = "receive"]
        /\ sends' = [sends EXCEPT ![c] = @ + 1]
        /\ UNCHANGED <<credentials, retryCount, authRetried, outcome, token, cache, fresh, refreshing,
                       accepted, issued, revocations, authFaults>>
    BY DEF Handle, manager
  <1>2. PICK r \in {"200", "401", "4xx", "failed"}, n \in {0, 1} :
          /\ reply' = [reply EXCEPT ![c] = r] /\ performed' = [performed EXCEPT ![c] = @ + n]
          /\ r = "401" => n = 0 /\ token[c] \notin accepted
    <2>1. performed = [performed EXCEPT ![c] = @ + 0]
      BY <1>0 DEF CallTypeOK
    <2> QED BY <2>1 DEF Handle
  <1>3. Others(c)
    BY <1>0, <1>1, <1>2 DEF Others, CallTypeOK
  <1>4. CallTypeOK'
    BY <1>0, <1>1, <1>2 DEF CallTypeOK
  <1>5. /\ pc'[c] = "receive" /\ sends'[c] = sends[c] + 1 /\ reply'[c] = r /\ performed'[c] = performed[c] + n
        /\ sends[c] \in Nat /\ performed[c] \in Nat /\ retryCount[c] \in Nat
    BY <1>0, <1>1, <1>2, RetryAssumption DEF CallTypeOK
  <1>6. "send" \in Pending /\ "receive" \notin Pending
    BY DEF Pending, Waiting
  <1>7. SendsPaid(c)' /\ ActsPaid(c)'
    BY <1>0, <1>1, <1>2, <1>5, <1>6 DEF CallInv, SendsPaid, ActsPaid
  <1>8. Absorbed(c)'
    BY <1>0, <1>1, <1>2, <1>5 DEF CallInv, Absorbed
  <1>9. CallInv(c)'
    BY <1>0, <1>1, <1>5, <1>7, <1>8 DEF CallInv
  <1> QED BY <1>0, <1>1, <1>3, <1>4, <1>5, <1>9, OneCall DEF Waiting

(* The response interceptor.                                               *)
LEMMA ReceiveStep ==
  ASSUME HttpInv, NEW c \in Call, Receive(c)
  PROVE  HttpInv'
  <1>0. CallTypeOK /\ SharedTypeOK /\ CallInv(c) /\ refreshing \in {0, 1} /\ maxRetries \in Nat
    BY TypeParts, RetryAssumption DEF HttpInv, OneRefresh, SharedTypeOK
  <1>1. /\ pc[c] = "receive" /\ reply' = [reply EXCEPT ![c] = "none"]
        /\ UNCHANGED <<credentials, token, sends, cache, fresh, courier>>
    BY DEF Receive
  <1>2. /\ \A d \in Call \ {c} : /\ pc'[d] = pc[d] /\ outcome'[d] = outcome[d]
                                /\ retryCount'[d] = retryCount[d] /\ authRetried'[d] = authRetried[d]
        /\ pc' \in [Call -> Waiting \cup {"idle", "send", "receive", "sleep", "done"}]
        /\ outcome' \in [Call -> Ends \cup {"none"}]
        /\ retryCount' \in [Call -> 0..maxRetries] /\ retryCount'[c] >= retryCount[c]
        /\ authRetried' \in [Call -> BOOLEAN] /\ (authRetried[c] => authRetried'[c])
        /\ refreshing' \in {0, 1} /\ refreshing' >= refreshing
        /\ \/ pc'[c] = "done"
           \/ /\ pc'[c] = "awaitAuth" /\ reply[c] = "401" /\ ~authRetried[c] /\ authRetried'[c]
              /\ refreshing' = 1 /\ outcome'[c] = outcome[c] /\ retryCount'[c] = retryCount[c]
           \/ /\ pc'[c] = "sleep" /\ reply[c] # "401" /\ retryCount'[c] = retryCount[c] + 1
              /\ (authRetried'[c] => authRetried[c]) /\ outcome'[c] = outcome[c]
        /\ outcome'[c] = "unauthorized" => outcome[c] = "unauthorized" \/ (reply[c] = "401" /\ authRetried[c])
    <2>0. /\ pc \in [Call -> Waiting \cup {"idle", "send", "receive", "sleep", "done"}]
          /\ outcome \in [Call -> Ends \cup {"none"}] /\ retryCount \in [Call -> 0..maxRetries]
          /\ retryCount[c] \in 0..maxRetries /\ authRetried \in [Call -> BOOLEAN]
      BY <1>0 DEF CallTypeOK
    <2>1. CASE \E h \in {"ok", "rejected"} : End(c, h) /\ UNCHANGED <<retryCount, authRetried, refreshing>>
      BY <1>0, <2>0, <2>1 DEF End, Ends
    <2>2. CASE reply[c] = "401" /\ Unauthorized(c) /\ UNCHANGED retryCount
      <3>1. CASE authRetried[c] /\ End(c, "unauthorized") /\ UNCHANGED <<authRetried, refreshing>>
        BY <1>0, <2>0, <2>2, <3>1 DEF End, Ends
      <3>2. CASE /\ ~authRetried[c] /\ authRetried' = [authRetried EXCEPT ![c] = TRUE]
                 /\ pc' = [pc EXCEPT ![c] = "awaitAuth"] /\ UNCHANGED outcome
                 /\ refreshing' = IF refreshing > 0 THEN refreshing ELSE 1
        <4>1. /\ \A d \in Call \ {c} : authRetried'[d] = authRetried[d]
              /\ authRetried' \in [Call -> BOOLEAN] /\ authRetried'[c]
          BY <2>0, <3>2
        <4>2. /\ pc'[c] = "awaitAuth" /\ \A d \in Call \ {c} : pc'[d] = pc[d]
              /\ pc' \in [Call -> Waiting \cup {"idle", "send", "receive", "sleep", "done"}]
          BY <2>0, <3>2 DEF Waiting
        <4>3. /\ refreshing' = 1 /\ refreshing' >= refreshing
              /\ outcome' = outcome /\ retryCount' = retryCount /\ ~authRetried[c] /\ reply[c] = "401"
          BY <1>0, <2>2, <3>2
        <4> QED BY <2>0, <4>1, <4>2, <4>3
      <3>3. CASE /\ ~authRetried[c] /\ authRetried' = [authRetried EXCEPT ![c] = TRUE]
                 /\ End(c, "authError") /\ UNCHANGED refreshing
        BY <1>0, <2>0, <2>2, <3>3 DEF End, Ends
      <3> QED BY <2>2, <3>1, <3>2, <3>3 DEF Unauthorized, refreshToken
    <2>3. CASE reply[c] = "failed" /\ Retry(c) /\ UNCHANGED <<authRetried, refreshing>>
      <3>1. CASE /\ retryCount[c] < maxRetries /\ retryCount' = [retryCount EXCEPT ![c] = @ + 1]
                 /\ pc' = [pc EXCEPT ![c] = "sleep"] /\ UNCHANGED outcome
        BY <1>0, <2>0, <2>3, <3>1
      <3>2. CASE End(c, "unavailable") /\ UNCHANGED retryCount
        BY <1>0, <2>0, <2>3, <3>2 DEF End, Ends
      <3> QED BY <2>3, <3>1, <3>2 DEF Retry
    <2> QED BY <2>1, <2>2, <2>3 DEF Receive
  <1>3. Others(c)
    BY <1>0, <1>1, <1>2 DEF Others, CallTypeOK, courier
  <1>4. /\ reply'[c] = "none" /\ sends'[c] = sends[c] /\ performed'[c] = performed[c] /\ token'[c] = token[c]
        /\ sends[c] \in Nat /\ performed[c] \in Nat /\ retryCount[c] \in Nat /\ retryCount'[c] \in Nat
        /\ UNCHANGED <<accepted, issued, revocations>> /\ revocations \in Nat
    <2>1. sends[c] \in Nat /\ performed[c] \in Nat /\ retryCount[c] \in Nat /\ revocations \in Nat
      BY <1>0, CourierAssumption DEF CallTypeOK, SharedTypeOK
    <2>2. retryCount'[c] \in Nat
      BY <1>0, <1>2
    <2>3. reply'[c] = "none"
      BY <1>0, <1>1 DEF CallTypeOK
    <2> QED BY <1>1, <2>1, <2>2, <2>3 DEF courier
  <1>5. CallTypeOK'
    BY <1>0, <1>1, <1>2 DEF CallTypeOK, courier
  <1>6. /\ "receive" \notin Pending /\ "done" \notin Pending /\ {"awaitAuth", "sleep"} \subseteq Pending
        /\ "done" \notin Waiting /\ "sleep" \notin Waiting
    BY DEF Pending, Waiting
  <1>7. SendsPaid(c)'
    BY <1>0, <1>1, <1>2, <1>4, <1>6 DEF CallInv, SendsPaid
  <1>8. ActsPaid(c)'
    BY <1>0, <1>1, <1>2, <1>4, <1>6 DEF CallInv, ActsPaid
  <1>9. Absorbed(c)'
    <2>1. CASE pc'[c] = "awaitAuth"
      <3>1. token[c] \notin accepted /\ token[c] \in 1..issued /\ (revocations = 0 => accepted = 1..issued)
        BY <1>0, <1>1, <1>2, <2>1 DEF CallInv, Absorbed, CallTypeOK, SharedTypeOK, HttpInv, TokensInv
      <3>2. revocations # 0
        BY <3>1
      <3>3. revocations <= 1 => revocations = 1
        BY <1>4, <3>2
      <3> QED BY <1>0, <1>1, <1>2, <1>4, <2>1, <3>3 DEF CallInv, Absorbed
    <2>2. CASE pc'[c] = "sleep"
      BY <1>0, <1>1, <1>2, <1>4, <2>2 DEF CallInv, Absorbed
    <2>3. CASE pc'[c] = "done"
      BY <1>0, <1>1, <1>2, <1>4, <2>3 DEF CallInv, Absorbed
    <2> QED BY <1>2, <2>1, <2>2, <2>3
  <1>10. CallInv(c)'
    BY <1>2, <1>4, <1>7, <1>8, <1>9 DEF CallInv
  <1> QED BY <1>2, <1>3, <1>4, <1>5, <1>6, <1>10, OneCall

-----------------------------------------------------------------------------
(* Steps of the token manager and of the courier                           *)

(* A refresh ends well: whoever waited goes on with the new token.         *)
LEMMA SucceedsStep ==
  ASSUME HttpInv, RefreshSucceeds
  PROVE  HttpInv'
  <1>0. /\ CallTypeOK /\ SharedTypeOK /\ TokensInv /\ \A c \in Call : CallInv(c)
        /\ refreshing \in {0, 1} /\ issued \in Nat /\ accepted \subseteq 1..issued /\ revocations \in Nat
    BY TypeParts, CourierAssumption DEF HttpInv, OneRefresh, SharedTypeOK
  <1>1. /\ refreshing = 1 /\ refreshing' = 0 /\ issued' = issued + 1 /\ accepted' = accepted \cup {issued + 1}
        /\ cache' = issued + 1 /\ fresh' = TRUE /\ issued + 1 \notin accepted
        /\ token' = [c \in Call |-> IF c \in Waiters THEN issued + 1 ELSE token[c]]
        /\ pc' = [c \in Call |-> IF c \in Waiters THEN "send" ELSE pc[c]]
        /\ UNCHANGED <<credentials, request, performed, revocations, authFaults>>
    BY <1>0 DEF RefreshSucceeds, Release
  <1>2. CallTypeOK'
    <2>1. \A c \in Call : token[c] \in 0..issued
      BY <1>0 DEF CallTypeOK
    <2>2. token' \in [Call -> 0..issued']
      BY <1>0, <1>1, <2>1
    <2> QED BY <1>0, <1>1, <2>2 DEF CallTypeOK, request
  <1>3. SharedTypeOK'
    <2>1. fresh' \in BOOLEAN /\ credentials' \in BOOLEAN
      BY <1>0, <1>1 DEF SharedTypeOK
    <2>2. /\ cache' \in 0..issued' /\ issued' \in Nat /\ accepted' \in SUBSET (1..issued')
          /\ refreshing' \in Nat
      BY <1>0, <1>1
    <2>3. revocations' \in 0..MaxRevocations /\ authFaults' \in 0..MaxAuthFaults
      BY <1>0, <1>1 DEF SharedTypeOK
    <2> QED BY <2>1, <2>2, <2>3 DEF SharedTypeOK
  <1>4. OneRefresh'
    BY <1>1 DEF OneRefresh, Waiters, Waiting
  <1>5. TokensInv'
    <2>1. 1..issued' = (1..issued) \cup {issued + 1}
      BY <1>0, <1>1
    <2> QED BY <1>0, <1>1, <2>1 DEF TokensInv
  <1>6. ASSUME NEW c \in Call PROVE CallInv(c)'
    <2>0. /\ retryCount'[c] = retryCount[c] /\ authRetried'[c] = authRetried[c] /\ reply'[c] = reply[c]
          /\ outcome'[c] = outcome[c] /\ sends'[c] = sends[c] /\ performed'[c] = performed[c]
          /\ revocations' = revocations
      BY <1>1 DEF request
    <2>1. CASE c \in Waiters
      <3>1. pc'[c] = "send" /\ token'[c] = issued + 1 /\ pc[c] \in Waiting
        BY <1>1, <2>1 DEF Waiters
      <3>2. pc[c] \in Pending /\ pc'[c] \in Pending /\ pc[c] # "done" /\ pc'[c] # "awaitAuth" /\ issued + 1 # 0
        BY <1>0, <3>1 DEF Pending, Waiting
      <3>3. SendsPaid(c)' /\ ActsPaid(c)'
        BY <1>0, <2>0, <3>2 DEF CallInv, SendsPaid, ActsPaid
      <3> QED BY <1>0, <1>1, <2>0, <3>1, <3>2, <3>3 DEF CallInv, Absorbed
    <2>2. CASE c \notin Waiters
      <3>1. pc'[c] = pc[c] /\ token'[c] = token[c] /\ pc[c] # "awaitAuth" /\ token[c] \in 0..issued
        BY <1>0, <1>1, <2>2 DEF Waiters, Waiting, CallTypeOK
      <3>2. token[c] \notin accepted => token[c] \notin accepted'
        BY <1>0, <1>1, <3>1
      <3>3. SendsPaid(c)' /\ ActsPaid(c)'
        BY <1>0, <2>0, <3>1 DEF CallInv, SendsPaid, ActsPaid
      <3> QED BY <1>0, <1>1, <2>0, <3>1, <3>2, <3>3 DEF CallInv, Absorbed
    <2> QED BY <2>1, <2>2
  <1> QED BY <1>2, <1>3, <1>4, <1>5, <1>6, TypeParts DEF HttpInv

(* A refresh fails: whoever waited ends with an error.                     *)
LEMMA FailsStep ==
  ASSUME HttpInv, RefreshFails
  PROVE  HttpInv'
  <1>0. /\ CallTypeOK /\ SharedTypeOK /\ TokensInv /\ \A c \in Call : CallInv(c)
        /\ refreshing \in {0, 1} /\ issued \in Nat
    BY TypeParts DEF HttpInv, OneRefresh, SharedTypeOK
  <1>1. /\ refreshing = 1 /\ refreshing' = 0 /\ cache' = 0 /\ fresh' = FALSE
        /\ authFaults < MaxAuthFaults /\ authFaults' = authFaults + 1
        /\ pc' = [c \in Call |-> IF c \in Waiters THEN "done" ELSE pc[c]]
        /\ outcome' = [c \in Call |-> IF c \in Waiters THEN "authError" ELSE outcome[c]]
        /\ UNCHANGED <<credentials, retryCount, authRetried, reply, sends, token, accepted, issued,
                       performed, revocations>>
    BY <1>0 DEF RefreshFails
  <1>2. CallTypeOK'
    BY <1>0, <1>1 DEF CallTypeOK, Ends
  <1>3. SharedTypeOK'
    <2>1. authFaults' \in 0..MaxAuthFaults
      BY <1>0, <1>1, CourierAssumption DEF SharedTypeOK
    <2>2. fresh' \in BOOLEAN /\ credentials' \in BOOLEAN
      BY <1>0, <1>1 DEF SharedTypeOK
    <2>3. /\ cache' \in 0..issued' /\ issued' \in Nat /\ accepted' \in SUBSET (1..issued')
          /\ refreshing' \in Nat /\ revocations' \in 0..MaxRevocations
      BY <1>0, <1>1 DEF SharedTypeOK
    <2> QED BY <2>1, <2>2, <2>3 DEF SharedTypeOK
  <1>4. OneRefresh'
    BY <1>1 DEF OneRefresh, Waiters, Waiting
  <1>5. TokensInv'
    BY <1>0, <1>1 DEF TokensInv
  <1>6. ASSUME NEW c \in Call PROVE CallInv(c)'
    <2>1. CASE c \in Waiters
      <3>1. pc'[c] = "done" /\ outcome'[c] = "authError" /\ pc[c] \in Pending /\ "done" \notin Pending
        BY <1>1, <2>1 DEF Waiters, Pending, Waiting
      <3>2. sends[c] \in Nat /\ performed[c] \in Nat /\ retryCount[c] \in Nat
        BY <1>0, RetryAssumption DEF CallTypeOK
      <3>3. SendsPaid(c)' /\ ActsPaid(c)'
        BY <1>0, <1>1, <3>1, <3>2 DEF CallInv, SendsPaid, ActsPaid
      <3> QED BY <3>1, <3>3 DEF CallInv, Absorbed
    <2>2. CASE c \notin Waiters
      <3>1. pc'[c] = pc[c] /\ outcome'[c] = outcome[c]
        BY <1>1, <2>2
      <3> QED BY <1>0, <1>1, <3>1 DEF CallInv, SendsPaid, ActsPaid, Absorbed
    <2> QED BY <2>1, <2>2
  <1> QED BY <1>2, <1>3, <1>4, <1>5, <1>6, TypeParts DEF HttpInv

(* The courier takes a token back.                                         *)
LEMMA RevokeStep ==
  ASSUME HttpInv, NEW t \in accepted, Revoke(t)
  PROVE  HttpInv'
  <1>0. /\ CallTypeOK /\ SharedTypeOK /\ TokensInv /\ OneRefresh /\ \A c \in Call : CallInv(c)
        /\ issued \in Nat /\ accepted \subseteq 1..issued /\ revocations \in Nat
    BY TypeParts, CourierAssumption DEF HttpInv, SharedTypeOK
  <1>1. /\ accepted' = accepted \ {t} /\ revocations < MaxRevocations /\ revocations' = revocations + 1
        /\ UNCHANGED <<credentials, pc, request, token, manager, issued, performed, authFaults>>
    BY DEF Revoke
  <1>2. CallTypeOK'
    BY <1>0, <1>1 DEF CallTypeOK, request
  <1>3. SharedTypeOK'
    <2>1. revocations' \in 0..MaxRevocations
      BY <1>0, <1>1, CourierAssumption DEF SharedTypeOK
    <2> QED BY <1>0, <1>1, <2>1 DEF SharedTypeOK, manager
  <1>4. OneRefresh'
    BY <1>0, <1>1 DEF OneRefresh, Waiters, manager
  <1>5. TokensInv'
    BY <1>0, <1>1 DEF TokensInv, manager
  <1>6. ASSUME NEW c \in Call PROVE CallInv(c)'
    <2>1. SendsPaid(c)' /\ ActsPaid(c)'
      BY <1>0, <1>1 DEF CallInv, SendsPaid, ActsPaid, request
    <2>2. revocations' <= 1 => revocations = 0 /\ revocations <= 1
      BY <1>0, <1>1
    <2>3. Absorbed(c)'
      BY <1>0, <1>1, <2>2 DEF CallInv, Absorbed, request
    <2> QED BY <1>0, <1>1, <2>1, <2>3 DEF CallInv
  <1> QED BY <1>2, <1>3, <1>4, <1>5, <1>6, TypeParts DEF HttpInv

(* The cached token gets old, or nothing happens.                          *)
LEMMA QuietStep ==
  ASSUME HttpInv, Expire \/ UNCHANGED vars
  PROVE  HttpInv'
  <1>1. /\ UNCHANGED <<credentials, pc, request, token, cache, refreshing, courier>>
        /\ fresh' \in BOOLEAN
    BY TypeParts DEF Expire, vars, manager, HttpInv, SharedTypeOK
  <1>2. TypeOK'
    BY <1>1, TypeParts DEF HttpInv, CallTypeOK, SharedTypeOK, request, courier
  <1>3. OneRefresh' /\ TokensInv'
    BY <1>1 DEF HttpInv, OneRefresh, TokensInv, Waiters, courier
  <1>4. \A c \in Call : CallInv(c)'
    BY <1>1 DEF HttpInv, CallInv, SendsPaid, ActsPaid, Absorbed, request, courier
  <1> QED BY <1>2, <1>3, <1>4 DEF HttpInv

(* Every step keeps the invariant.                                         *)
LEMMA HttpNext == HttpInv /\ [Next]_vars => HttpInv'
  BY AttachingStep, HandleStep, ReceiveStep, SucceedsStep, FailsStep, RevokeStep, QuietStep
     DEF Next, Progress, Refreshed

-----------------------------------------------------------------------------
(* Theorems                                                                *)

(* The invariant of calls, token manager and courier together.             *)
THEOREM HttpCorrect == Spec => []HttpInv
  BY HttpInit, HttpNext, PTL DEF Spec

(* Every variable keeps its type, retryCount its bound.                    *)
THEOREM TypeCorrect == Spec => []TypeOK
  <1>1. HttpInv => TypeOK
    BY DEF HttpInv
  <1> QED BY HttpCorrect, <1>1, PTL

(* One refresh for everyone who needs one, and nobody waits for none.      *)
THEOREM RefreshShared == Spec => []OneRefresh
  <1>1. HttpInv => OneRefresh
    BY DEF HttpInv
  <1> QED BY HttpCorrect, <1>1, PTL

(* No request leaves without a token.                                      *)
THEOREM AlwaysAttached == Spec => []TokenAttached
  <1>1. HttpInv => TokenAttached
    BY DEF HttpInv, CallInv, TokenAttached
  <1> QED BY HttpCorrect, <1>1, PTL

(* A call is sent maxRetries + 2 times at most, for every maxRetries.      *)
THEOREM SendsBounded == Spec => []BoundedSends
  <1>1. ASSUME HttpInv, NEW c \in Call PROVE sends[c] <= maxRetries + 2
    <2>1. sends[c] \in Nat /\ retryCount[c] \in 0..maxRetries /\ maxRetries \in Nat
      BY <1>1, RetryAssumption DEF HttpInv, TypeOK
    <2>2. SendsPaid(c)
      BY <1>1 DEF HttpInv, CallInv
    <2>3. sends[c] <= retryCount[c] + 2
      BY <2>1, <2>2 DEF SendsPaid
    <2> QED BY <2>1, <2>3
  <1>2. HttpInv => BoundedSends
    BY <1>1 DEF BoundedSends
  <1> QED BY HttpCorrect, <1>2, PTL

(* The courier acts on a call once, and once more for a counted retry.     *)
THEOREM ActsBounded == Spec => []OncePerRetry
  <1>1. ASSUME HttpInv, NEW c \in Call PROVE performed[c] <= 1 + retryCount[c]
    <2>1. performed[c] \in Nat /\ retryCount[c] \in 0..maxRetries /\ maxRetries \in Nat
      BY <1>1, RetryAssumption DEF HttpInv, TypeOK
    <2>2. ActsPaid(c)
      BY <1>1 DEF HttpInv, CallInv
    <2> QED BY <2>1, <2>2 DEF ActsPaid
  <1>2. HttpInv => OncePerRetry
    BY <1>1 DEF OncePerRetry
  <1> QED BY HttpCorrect, <1>2, PTL

(* One revoked token never surfaces, for any number of calls, retries and  *)
(* failing refreshes.                                                      *)
THEOREM RevocationAbsorbed == Spec => []OneRevocationIsAbsorbed
  <1>1. HttpInv => OneRevocationIsAbsorbed
    BY DEF HttpInv, CallInv, Absorbed, OneRevocationIsAbsorbed
  <1> QED BY HttpCorrect, <1>1, PTL


-----------------------------------------------------------------------------
(* Progress.  That a call ends is a matter of fairness and left to TLC;    *)
(* what is proved is that every await that ends spends something no call   *)
(* has more of than its maxRetries and its one flag allow.                 *)

\* the awaits of one round of the interceptors that are still to come
Stage(where) == CASE where = "idle" -> 6 [] where = "sleep" -> 5 [] where \in Waiting -> 4
                  [] where = "send" -> 3 [] where = "receive" -> 2 [] OTHER -> 0

\* and a round for each retry, and one for the 401, that are left
Budget(c) == 6 * (maxRetries - retryCount[c]) + (IF authRetried[c] THEN 0 ELSE 6) + Stage(pc[c])

(* A budget is a natural number.                                           *)
LEMMA BudgetNat ==
  ASSUME NEW k \in Nat, NEW n \in 0..k, NEW flag \in BOOLEAN, NEW stage \in Nat
  PROVE  6 * (k - n) + (IF flag THEN 0 ELSE 6) + stage \in Nat
  <1>1. k - n \in Nat
    OBVIOUS
  <1>2. 6 * (k - n) \in Nat
    BY <1>1
  <1> QED BY <1>2

(* The pieces of a call's budget are numbers, before a step and after it.  *)
LEMMA BudgetType ==
  ASSUME NEW c \in Call
  PROVE  /\ TypeOK => /\ maxRetries \in Nat /\ retryCount[c] \in 0..maxRetries /\ Stage(pc[c]) \in Nat
                     /\ Budget(c) \in Nat
         /\ TypeOK' => retryCount'[c] \in 0..maxRetries /\ Budget(c)' \in Nat
  <1>1. \A where : Stage(where) \in Nat
    BY DEF Stage
  <1>2. maxRetries \in Nat
    BY RetryAssumption
  <1>3. TypeOK => retryCount[c] \in 0..maxRetries /\ authRetried[c] \in BOOLEAN
    BY DEF TypeOK
  <1>4. TypeOK' => retryCount'[c] \in 0..maxRetries /\ authRetried'[c] \in BOOLEAN
    BY DEF TypeOK
  <1>5. TypeOK => Budget(c) \in Nat
    BY <1>1, <1>2, <1>3, BudgetNat DEF Budget
  <1>6. TypeOK' => Budget(c)' \in Nat
    BY <1>1, <1>2, <1>4, BudgetNat DEF Budget
  <1> QED BY <1>1, <1>2, <1>3, <1>4, <1>5, <1>6

(* A step of a call spends some of its budget.                             *)
LEMMA CallSpends ==
  ASSUME HttpInv, TypeOK', NEW c \in Call, Begin(c) \/ Progress(c)
  PROVE  Budget(c)' < Budget(c)
  <1>0. /\ maxRetries \in Nat /\ retryCount[c] \in 0..maxRetries /\ retryCount'[c] \in 0..maxRetries
        /\ pc \in [Call -> Waiting \cup {"idle", "send", "receive", "sleep", "done"}]
        /\ retryCount \in [Call -> 0..maxRetries] /\ authRetried \in [Call -> BOOLEAN]
    BY BudgetType DEF HttpInv, TypeOK
  <1>1. CASE Begin(c) \/ Wake(c)
    <2>1. /\ pc[c] \in {"idle", "sleep"} /\ pc'[c] \in {"send", "awaitToken", "done"}
          /\ retryCount' = retryCount /\ authRetried' = authRetried
      BY <1>0, <1>1 DEF Begin, Wake, Attach, refreshToken, End
    <2>2. Stage(pc'[c]) < Stage(pc[c]) /\ Stage(pc'[c]) \in Nat /\ Stage(pc[c]) \in Nat
      BY <2>1 DEF Stage, Waiting
    <2> QED BY <1>0, <2>1, <2>2 DEF Budget
  <1>2. CASE Handle(c)
    <2>1. /\ pc[c] = "send" /\ pc'[c] = "receive" /\ retryCount' = retryCount /\ authRetried' = authRetried
      BY <1>0, <1>2 DEF Handle
    <2>2. Stage(pc'[c]) = 2 /\ Stage(pc[c]) = 3
      BY <2>1 DEF Stage, Waiting
    <2> QED BY <1>0, <2>1, <2>2 DEF Budget
  <1>3. CASE Receive(c)
    <2>1. \/ pc'[c] = "done" /\ retryCount'[c] = retryCount[c] /\ authRetried'[c] = authRetried[c]
          \/ /\ pc'[c] \in {"awaitAuth", "done"} /\ retryCount'[c] = retryCount[c]
             /\ ~authRetried[c] /\ authRetried'[c] = TRUE
          \/ pc'[c] = "sleep" /\ retryCount'[c] = retryCount[c] + 1 /\ authRetried'[c] = authRetried[c]
      <3>1. CASE reply[c] \in {"200", "4xx"}
        BY <1>0, <1>3, <3>1 DEF Receive, End
      <3>2. CASE reply[c] = "401" /\ Unauthorized(c) /\ UNCHANGED retryCount
        BY <1>0, <3>2 DEF Unauthorized, refreshToken, End
      <3>3. CASE reply[c] = "failed" /\ Retry(c) /\ UNCHANGED authRetried
        BY <1>0, <3>3 DEF Retry, End
      <3> QED BY <1>3, <3>1, <3>2, <3>3 DEF Receive
    <2>2. Stage(pc[c]) = 2 /\ pc[c] = "receive"
      BY <1>3 DEF Receive, Stage, Waiting
    <2>3. CASE pc'[c] = "done" /\ retryCount'[c] = retryCount[c] /\ authRetried'[c] = authRetried[c]
      <3>1. Stage(pc'[c]) = 0
        BY <2>3 DEF Stage, Waiting
      <3> QED BY <1>0, <2>2, <2>3, <3>1 DEF Budget
    <2>4. CASE /\ pc'[c] \in {"awaitAuth", "done"} /\ retryCount'[c] = retryCount[c]
               /\ ~authRetried[c] /\ authRetried'[c] = TRUE
      <3>1. Stage(pc'[c]) \in {0, 4}
        BY <2>4 DEF Stage, Waiting
      <3>2. Budget(c) = 6 * (maxRetries - retryCount[c]) + 6 + 2
            /\ Budget(c)' = 6 * (maxRetries - retryCount[c]) + 0 + Stage(pc'[c])
        BY <2>2, <2>4 DEF Budget
      <3> QED BY <1>0, <3>1, <3>2
    <2>5. CASE pc'[c] = "sleep" /\ retryCount'[c] = retryCount[c] + 1 /\ authRetried'[c] = authRetried[c]
      <3>1. Stage(pc'[c]) = 5
        BY <2>5 DEF Stage, Waiting
      <3> QED BY <1>0, <2>2, <2>5, <3>1 DEF Budget
    <2> QED BY <2>1, <2>3, <2>4, <2>5
  <1> QED BY <1>1, <1>2, <1>3 DEF Progress

(* What a step does to a call that does not take it: the end of a refresh  *)
(* releases those that wait for it, and nothing else touches it.           *)
LEMMA OthersSpend ==
  ASSUME HttpInv, [Next]_vars, NEW c \in Call, ~Begin(c), ~Progress(c)
  PROVE  /\ retryCount'[c] = retryCount[c] /\ authRetried'[c] = authRetried[c]
         /\ \/ pc'[c] = pc[c] /\ outcome'[c] = outcome[c] /\ ~(Refreshed /\ c \in Waiters)
            \/ Refreshed /\ c \in Waiters /\ pc'[c] \in {"send", "done"}
  <1>0. /\ pc \in [Call -> Waiting \cup {"idle", "send", "receive", "sleep", "done"}]
        /\ retryCount \in [Call -> 0..maxRetries] /\ authRetried \in [Call -> BOOLEAN]
        /\ outcome \in [Call -> Ends \cup {"none"}] /\ refreshing \in {0, 1}
    <2>1. refreshing \in Nat /\ refreshing <= 1
      BY DEF HttpInv, TypeOK, OneRefresh
    <2> QED BY <2>1 DEF HttpInv, TypeOK
  <1>1. CASE Refreshed
    <2>1. UNCHANGED <<retryCount, authRetried>>
      BY <1>1 DEF Refreshed, RefreshSucceeds, RefreshFails, request
    <2>2. CASE RefreshSucceeds
      BY <1>0, <1>1, <2>1, <2>2 DEF RefreshSucceeds, Release, request, Waiters
    <2>3. CASE RefreshFails
      BY <1>0, <1>1, <2>1, <2>3 DEF RefreshFails, Waiters
    <2> QED BY <1>1, <2>2, <2>3 DEF Refreshed
  <1>2. ASSUME NEW d \in Call, Begin(d) \/ Progress(d), ~Refreshed
        PROVE  /\ retryCount'[c] = retryCount[c] /\ authRetried'[c] = authRetried[c]
               /\ pc'[c] = pc[c] /\ outcome'[c] = outcome[c]
    <2>0. d # c
      BY <1>2
    <2>1. \E w : pc' = [pc EXCEPT ![d] = w]
      BY <1>2 DEF Begin, Progress, Handle, Receive, Wake, Attach, refreshToken, Unauthorized, Retry, End
    <2>2. outcome' = outcome \/ \E w : outcome' = [outcome EXCEPT ![d] = w]
      BY <1>2 DEF Begin, Progress, Handle, Receive, Wake, Attach, refreshToken, Unauthorized, Retry, End
    <2>3. retryCount' = retryCount \/ \E w : retryCount' = [retryCount EXCEPT ![d] = w]
      BY <1>2 DEF Begin, Progress, Handle, Receive, Wake, Retry
    <2>4. authRetried' = authRetried \/ \E w : authRetried' = [authRetried EXCEPT ![d] = w]
      BY <1>2 DEF Begin, Progress, Handle, Receive, Wake, Unauthorized
    <2> QED BY <1>0, <2>0, <2>1, <2>2, <2>3, <2>4
  <1>3. CASE (Expire \/ (\E t \in accepted : Revoke(t)) \/ UNCHANGED vars) /\ ~Refreshed
    BY <1>3 DEF Expire, Revoke, vars, request
  <1> QED BY <1>1, <1>2, <1>3 DEF Next

(* Every step of a call, and the end of the refresh it waits for, spends   *)
(* some of its budget, which is at most 6 * (maxRetries + 2); nobody gives *)
(* it any back, and a call that has ended keeps its outcome.  With the     *)
(* timeouts that end every await this is why every call ends, however      *)
(* 401s, 5xx and refreshes alternate (http.client.ts:44-95).               *)
THEOREM CallsAdvance ==
  Spec => /\ [](\A c \in Call : Budget(c) \in 0..6 * (maxRetries + 2))
          /\ [][\A c \in Call :
                  /\ Begin(c) \/ Progress(c) => Budget(c)' < Budget(c)
                  /\ Refreshed /\ c \in Waiters => Budget(c)' < Budget(c)
                  /\ Budget(c)' <= Budget(c)
                  /\ pc[c] = "done" => pc'[c] = "done" /\ outcome'[c] = outcome[c]]_vars
  <1>1. HttpInv => \A c \in Call : Budget(c) \in 0..6 * (maxRetries + 2)
    <2> SUFFICES ASSUME HttpInv, NEW c \in Call PROVE Budget(c) \in 0..6 * (maxRetries + 2)
      OBVIOUS
    <2>1. Stage(pc[c]) <= 6
      BY DEF Stage
    <2>2. maxRetries \in Nat /\ retryCount[c] \in 0..maxRetries /\ Stage(pc[c]) \in Nat /\ Budget(c) \in Nat
      BY BudgetType DEF HttpInv
    <2>3. Budget(c) <= 6 * (maxRetries - retryCount[c]) + 12
      BY <2>1, <2>2 DEF Budget
    <2> QED BY <2>2, <2>3
  <1>2. HttpInv /\ HttpInv' /\ [Next]_vars =>
          [\A c \in Call :
             /\ Begin(c) \/ Progress(c) => Budget(c)' < Budget(c)
             /\ Refreshed /\ c \in Waiters => Budget(c)' < Budget(c)
             /\ Budget(c)' <= Budget(c)
             /\ pc[c] = "done" => pc'[c] = "done" /\ outcome'[c] = outcome[c]]_vars
    <2> SUFFICES ASSUME HttpInv, HttpInv', [Next]_vars, NEW c \in Call
                 PROVE  /\ Begin(c) \/ Progress(c) => Budget(c)' < Budget(c)
                        /\ Refreshed /\ c \in Waiters => Budget(c)' < Budget(c)
                        /\ Budget(c)' <= Budget(c)
                        /\ pc[c] = "done" => pc'[c] = "done" /\ outcome'[c] = outcome[c]
      OBVIOUS
    <2>0. Budget(c) \in Nat /\ Budget(c)' \in Nat
      BY BudgetType DEF HttpInv
    <2>1. CASE Begin(c) \/ Progress(c)
      <3>1. Budget(c)' < Budget(c)
        BY <2>1, CallSpends DEF HttpInv
      <3>2. pc[c] # "done"
        BY <2>1 DEF Begin, Progress, Handle, Receive, Wake
      <3> QED BY <2>0, <3>1, <3>2
    <2>2. CASE ~Begin(c) /\ ~Progress(c)
      <3>1. CASE pc'[c] = pc[c] /\ outcome'[c] = outcome[c] /\ ~(Refreshed /\ c \in Waiters)
        <4>1. Budget(c)' = Budget(c)
          BY <2>2, <3>1, OthersSpend DEF Budget
        <4> QED BY <2>0, <2>2, <3>1, <4>1
      <3>2. CASE Refreshed /\ c \in Waiters /\ pc'[c] \in {"send", "done"}
        <4>1. Stage(pc[c]) = 4 /\ Stage(pc'[c]) \in {0, 3} /\ pc[c] # "done"
          BY <3>2 DEF Stage, Waiters, Waiting
        <4>2. retryCount'[c] = retryCount[c] /\ authRetried'[c] = authRetried[c]
          BY <2>2, OthersSpend
        <4>3. Budget(c)' < Budget(c)
          <5>1. maxRetries \in Nat /\ retryCount[c] \in 0..maxRetries
            BY BudgetType DEF HttpInv
          <5> QED BY <4>1, <4>2, <5>1 DEF Budget
        <4> QED BY <2>0, <2>2, <4>1, <4>3
      <3> QED BY <2>2, <3>1, <3>2, OthersSpend
    <2> QED BY <2>1, <2>2
  <1> QED BY <1>1, <1>2, HttpCorrect, PTL DEF Spec
=============================================================================
