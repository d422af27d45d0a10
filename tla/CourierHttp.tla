---------------------------- MODULE CourierHttp ----------------------------
(***************************************************************************)
(* The client of a courier: createCourierHttpClient (shared/http.client.ts)*)
(* with its two interceptors, over UrbaneBoltTokenManager                  *)
(* (couriers/urbanebolt/token-manager.ts).                                 *)
(*                                                                         *)
(* All calls of the process share one token manager.  What runs between    *)
(* two awaits that need the network or a timer is one action: the promise  *)
(* callbacks that a finished refresh sets off run before any other event,  *)
(* so every call that waited for the token goes on in that action.         *)
(*                                                                         *)
(* The courier (external) performs a call or not, whatever it answers      *)
(* except 200 and 4xx, and an answer may be lost; it may take a token back *)
(* before its time.                                                        *)
(***************************************************************************)
EXTENDS Naturals, FiniteSets

CONSTANTS
  Call,           \* calls of the adapter: manifest, tracking, cancel
  maxRetries,     \* of the CourierProvider row
  MaxRevocations, \* bound: tokens the courier takes back
  MaxAuthFaults   \* bound: auth requests that fail

ASSUME RetryAssumption == maxRetries \in Nat
ASSUME CourierAssumption == MaxRevocations \in Nat /\ MaxAuthFaults \in Nat

VARIABLES
  credentials,  \* whether the CourierProvider row has authCredentials
  pc,           \* call -> the await it is at
  retryCount,   \* config._retryCount
  authRetried,  \* config._authRetried
  token,        \* call -> token in its Authorization header, 0 for none
  reply,        \* call -> what the courier answered it last
  outcome,      \* call -> how it ended for the adapter
  cache,        \* cached token, 0 for null
  fresh,        \* Date.now() < cache.expiresAt
  refreshing,   \* auth requests in flight
  accepted,     \* tokens the courier accepts
  issued,       \* tokens issued so far
  performed,    \* call -> times the courier carried it out
  sends,        \* call -> times it was sent
  revocations, authFaults

manager == <<cache, fresh, refreshing>>
courier == <<accepted, issued, performed, revocations, authFaults>>
request == <<retryCount, authRetried, reply, outcome, sends>>
vars    == <<credentials, pc, request, token, manager, courier>>

-----------------------------------------------------------------------------
Waiting == {"awaitToken", "awaitAuth"}
Ends    == {"ok", "rejected", "unauthorized", "unavailable", "authError"}

Init ==
  /\ credentials \in BOOLEAN
  /\ pc = [c \in Call |-> "idle"] /\ outcome = [c \in Call |-> "none"]
  /\ retryCount = [c \in Call |-> 0] /\ authRetried = [c \in Call |-> FALSE]
  /\ token = [c \in Call |-> 0] /\ reply = [c \in Call |-> "none"]
  /\ cache = 0 /\ fresh = FALSE /\ refreshing = 0
  /\ accepted = {} /\ issued = 0 /\ performed = [c \in Call |-> 0]
  /\ sends = [c \in Call |-> 0] /\ revocations = 0 /\ authFaults = 0

End(c, how) == /\ pc' = [pc EXCEPT ![c] = "done"]
               /\ outcome' = [outcome EXCEPT ![c] = how]

\* mutant: every caller starts a request of its own
refreshTokenAlways(c, from) ==
  /\ credentials
  /\ pc' = [pc EXCEPT ![c] = from]
  /\ refreshing' = refreshing + 1
  /\ UNCHANGED outcome

\* join the refresh in flight or start one; doRefresh throws at once when the
\* row has no credentials, and leaves the cache as it is
refreshToken(c, from) ==
  \/ /\ credentials
     /\ pc' = [pc EXCEPT ![c] = from]
     /\ refreshing' = IF refreshing > 0 THEN refreshing ELSE 1
     /\ UNCHANGED outcome
  \/ ~credentials /\ End(c, "authError") /\ UNCHANGED refreshing

\* the request interceptor: getToken, then the Authorization header
Attach(c) ==
  \/ /\ cache # 0 /\ fresh
     /\ token' = [token EXCEPT ![c] = cache]
     /\ pc' = [pc EXCEPT ![c] = "send"]
     /\ UNCHANGED <<outcome, refreshing>>
  \/ ~(cache # 0 /\ fresh) /\ refreshToken(c, "awaitToken") /\ UNCHANGED token

Begin(c) == /\ pc[c] = "idle" /\ Attach(c)
            /\ UNCHANGED <<credentials, retryCount, authRetried, reply, sends, cache, fresh, courier>>

\* the request reaches the courier, which answers
Handle(c) ==
  /\ pc[c] = "send"
  /\ sends' = [sends EXCEPT ![c] = @ + 1]
  /\ \/ /\ token[c] \in accepted
        /\ \/ /\ reply' = [reply EXCEPT ![c] = "200"]
              /\ performed' = [performed EXCEPT ![c] = @ + 1]
           \/ reply' = [reply EXCEPT ![c] = "4xx"] /\ UNCHANGED performed
     \/ /\ token[c] \notin accepted
        /\ reply' = [reply EXCEPT ![c] = "401"] /\ UNCHANGED performed
     \/ /\ reply' = [reply EXCEPT ![c] = "failed"]
        /\ \/ UNCHANGED performed
           \/ /\ token[c] \in accepted
              /\ performed' = [performed EXCEPT ![c] = @ + 1]
  /\ pc' = [pc EXCEPT ![c] = "receive"]
  /\ UNCHANGED <<credentials, retryCount, authRetried, outcome, token, manager,
                 accepted, issued, revocations, authFaults>>

\* mutant: config._authRetried is not looked at
UnauthorizedAgain(c) ==
  /\ authRetried' = [authRetried EXCEPT ![c] = TRUE]
  /\ refreshToken(c, "awaitAuth")

\* a 401: refresh once, then give up
Unauthorized(c) ==
  \/ /\ ~authRetried[c]
     /\ authRetried' = [authRetried EXCEPT ![c] = TRUE]
     /\ refreshToken(c, "awaitAuth")
  \/ authRetried[c] /\ End(c, "unauthorized") /\ UNCHANGED <<authRetried, refreshing>>

\* mutant: the retry is not counted
RetryUncounted(c) ==
  /\ retryCount[c] < maxRetries
  /\ pc' = [pc EXCEPT ![c] = "sleep"] /\ UNCHANGED <<retryCount, outcome>>

\* mutant: one retry too many
RetryOnceMore(c) ==
  \/ /\ retryCount[c] <= maxRetries
     /\ retryCount' = [retryCount EXCEPT ![c] = @ + 1]
     /\ pc' = [pc EXCEPT ![c] = "sleep"] /\ UNCHANGED outcome
  \/ retryCount[c] > maxRetries /\ End(c, "unavailable") /\ UNCHANGED retryCount

\* a 5xx or no answer: sleep and try again while maxRetries allows
Retry(c) ==
  \/ /\ retryCount[c] < maxRetries
     /\ retryCount' = [retryCount EXCEPT ![c] = @ + 1]
     /\ pc' = [pc EXCEPT ![c] = "sleep"] /\ UNCHANGED outcome
  \/ retryCount[c] >= maxRetries /\ End(c, "unavailable") /\ UNCHANGED retryCount

\* the response interceptor
Receive(c) ==
  /\ pc[c] = "receive"
  /\ \/ /\ reply[c] = "200" /\ End(c, "ok")
        /\ UNCHANGED <<retryCount, authRetried, refreshing>>
     \/ /\ reply[c] = "401" /\ Unauthorized(c) /\ UNCHANGED retryCount
     \/ /\ reply[c] = "failed" /\ Retry(c) /\ UNCHANGED <<authRetried, refreshing>>
     \/ /\ reply[c] = "4xx" /\ End(c, "rejected")
        /\ UNCHANGED <<retryCount, authRetried, refreshing>>
  /\ reply' = [reply EXCEPT ![c] = "none"]
  /\ UNCHANGED <<credentials, token, sends, cache, fresh, courier>>

\* the backoff is over: instance(config) runs the request interceptor again
Wake(c) == /\ pc[c] = "sleep" /\ Attach(c)
           /\ UNCHANGED <<credentials, retryCount, authRetried, reply, sends, cache, fresh, courier>>

Waiters == {c \in Call : pc[c] \in Waiting}

\* mutant: a retried call keeps the header it was sent with
ReleaseOldHeader(t) == /\ token' = [c \in Call |-> IF pc[c] = "awaitToken" THEN t ELSE token[c]]
                       /\ pc' = [c \in Call |-> IF c \in Waiters THEN "send" ELSE pc[c]]

\* mutant: a refresh after a 401 wakes nobody up
ReleaseGetTokenOnly(t) == LET Woken == {c \in Call : pc[c] = "awaitToken"}
                          IN /\ token' = [c \in Call |-> IF c \in Woken THEN t ELSE token[c]]
                             /\ pc' = [c \in Call |-> IF c \in Woken THEN "send" ELSE pc[c]]

\* everyone who waited gets the new token: getToken returns it, and the retry
\* of a 401 goes through the request interceptor, which finds it in the cache
Release(t) == /\ token' = [c \in Call |-> IF c \in Waiters THEN t ELSE token[c]]
              /\ pc' = [c \in Call |-> IF c \in Waiters THEN "send" ELSE pc[c]]

RefreshSucceeds ==
  /\ refreshing > 0 /\ refreshing' = refreshing - 1
  /\ issued' = issued + 1 /\ accepted' = accepted \cup {issued'}
  /\ cache' = issued' /\ fresh' = TRUE
  /\ Release(issued')
  /\ UNCHANGED <<credentials, request, performed, revocations, authFaults>>

\* mutant: the error of the refresh is swallowed
RefreshFailsQuietly ==
  /\ refreshing > 0 /\ refreshing' = refreshing - 1
  /\ authFaults < MaxAuthFaults /\ authFaults' = authFaults + 1
  /\ cache' = 0 /\ fresh' = FALSE
  /\ Release(0)
  /\ UNCHANGED <<credentials, request, accepted, issued, performed, revocations>>

RefreshFails ==
  /\ refreshing > 0 /\ refreshing' = refreshing - 1
  /\ authFaults < MaxAuthFaults /\ authFaults' = authFaults + 1
  /\ cache' = 0 /\ fresh' = FALSE
  /\ pc' = [c \in Call |-> IF c \in Waiters THEN "done" ELSE pc[c]]
  /\ outcome' = [c \in Call |-> IF c \in Waiters THEN "authError" ELSE outcome[c]]
  /\ UNCHANGED <<credentials, retryCount, authRetried, reply, sends, token, accepted, issued,
                 performed, revocations>>

\* 55 minutes go by
Expire == /\ fresh /\ fresh' = FALSE
          /\ UNCHANGED <<credentials, pc, request, token, cache, refreshing, courier>>

\* the courier takes a token back before that
Revoke(t) == /\ t \in accepted /\ accepted' = accepted \ {t}
             /\ revocations < MaxRevocations /\ revocations' = revocations + 1
             /\ UNCHANGED <<credentials, pc, request, token, manager, issued, performed, authFaults>>

-----------------------------------------------------------------------------
Progress(c) == Handle(c) \/ Receive(c) \/ Wake(c)

Refreshed == RefreshSucceeds \/ RefreshFails

Next == \/ \E c \in Call : Begin(c) \/ Progress(c)
        \/ Refreshed \/ Expire
        \/ \E t \in accepted : Revoke(t)

Spec == Init /\ [][Next]_vars

\* both clients have a timeout and the backoff is finite, so every await ends
FairSpec == Spec /\ WF_vars(Refreshed) /\ \A c \in Call : WF_vars(Progress(c))

-----------------------------------------------------------------------------
TypeOK ==
  /\ credentials \in BOOLEAN
  /\ pc \in [Call -> Waiting \cup {"idle", "send", "receive", "sleep", "done"}]
  /\ retryCount \in [Call -> 0..maxRetries]
  /\ authRetried \in [Call -> BOOLEAN]
  /\ token \in [Call -> 0..issued]
  /\ reply \in [Call -> {"none", "200", "401", "4xx", "failed"}]
  /\ outcome \in [Call -> Ends \cup {"none"}]
  /\ cache \in 0..issued /\ fresh \in BOOLEAN /\ refreshing \in Nat
  /\ issued \in Nat /\ accepted \in SUBSET (1..issued)
  /\ performed \in [Call -> Nat] /\ sends \in [Call -> Nat]
  /\ revocations \in 0..MaxRevocations /\ authFaults \in 0..MaxAuthFaults

(* One refresh at a time, shared by every call that needs it, and nobody   *)
(* waits for a refresh that is not under way (token-manager.ts:40-49,      *)
(* DESIGN.md:216).                                                         *)
OneRefresh == refreshing <= 1 /\ (Waiters # {} => refreshing = 1)

(* No request leaves without a token: this.cache! after the await in       *)
(* getToken is never null, whichever refresh it joined                     *)
(* (token-manager.ts:35-36).                                               *)
TokenAttached == \A c \in Call : pc[c] = "send" => token[c] # 0

(* The two retries of a call do not feed each other: it is sent at most    *)
(* maxRetries + 2 times however 401s and 5xx alternate                     *)
(* (http.client.ts:59, 77).                                                *)
BoundedSends == \A c \in Call : sends[c] <= maxRetries + 2

(* Repeating a call after a 401 is harmless: the courier carries a call    *)
(* out once, and once more at most for each counted retry.  That is not    *)
(* "no duplicate shipments" (DESIGN.md:9): a POST /create repeated after a *)
(* lost answer may be carried out 1 + maxRetries times (http.client.ts:77, *)
(* and Orders.NoDuplicateShipments for what it leaves behind).             *)
OncePerRetry == \A c \in Call : performed[c] <= 1 + retryCount[c]

(* One revoked token never surfaces: while the courier has revoked no more *)
(* than one, no call ends in a 401, however late its own 401 arrives,      *)
(* whoever refreshed before it and whichever refresh failed                *)
(* (http.client.ts:59-70).                                                 *)
OneRevocationIsAbsorbed ==
  revocations <= 1 => \A c \in Call : outcome[c] # "unauthorized"

(* Every call ends.                                                        *)
EveryCallEnds == \A c \in Call : pc[c] # "idle" ~> pc[c] = "done"
=============================================================================
