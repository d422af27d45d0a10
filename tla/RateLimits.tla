----------------------------- MODULE RateLimits -----------------------------
(***************************************************************************)
(* The four rate limiters (shared/middleware/rate-limiter.middleware.ts).  *)
(*                                                                         *)
(* Each has a RedisStore of its own, but none of them sets a prefix and    *)
(* all use req.ip as the key: they count in ONE Redis key per address,     *)
(* which gets the window of whichever limiter set it.  An increment is one *)
(* script that Redis runs atomically (external: rate-limit-redis, whose    *)
(* resetExpiryOnChange is off), for all processes.                         *)
(*                                                                         *)
(* Time is counted in the unit of the shortest window.  The counter stops  *)
(* at MaxHits, above every limit, where no limiter can tell values apart.  *)
(***************************************************************************)
EXTENDS Naturals

CONSTANTS
  Ip,        \* addresses of clients
  windowMs,  \* limiter -> its windowMs
  max,       \* limiter -> its max
  MaxHits    \* bound: where counting stops

Limiter == {"global", "auth", "register", "courier"}

ASSUME WindowAssumption == windowMs \in [Limiter -> Nat \ {0}]
ASSUME LimitAssumption == max \in [Limiter -> Nat] /\ MaxHits \in Nat
                          /\ \A l \in Limiter : max[l] < MaxHits

VARIABLES
  hits,     \* ip -> value of its key, 0 when there is none
  ttl,      \* ip -> time until the key expires, 0 when there is none
  admitted  \* history: ip -> limiter -> requests let through since the key was set

limits == <<hits, ttl, admitted>>

NoneAdmitted == [l \in Limiter |-> 0]

LimitsInit == /\ hits = [i \in Ip |-> 0] /\ ttl = [i \in Ip |-> 0]
              /\ admitted = [i \in Ip |-> NoneAdmitted]

\* what the script returns
totalHits(i) == IF ttl[i] = 0 THEN 1 ELSE IF hits[i] < MaxHits THEN hits[i] + 1 ELSE MaxHits

\* express-rate-limit compares the shared count with the limiter's own max
admits(i, l) == totalHits(i) <= max[l]

\* mutant: the key is set without PX, and PTTL is -1
windowAfterNoExpiry(i, l) == IF ttl[i] = 0 THEN 0 - 1 ELSE ttl[i]

windowAfter(i, l) == IF ttl[i] = 0 THEN windowMs[l] ELSE ttl[i]

admittedAfter(i, l) ==
  LET before == IF ttl[i] = 0 THEN NoneAdmitted ELSE admitted[i]
  IN  [before EXCEPT ![l] = IF admits(i, l) THEN @ + 1 ELSE @]

\* limiter l counts a request of i
increment(i, l) ==
  /\ hits' = [hits EXCEPT ![i] = totalHits(i)]
  /\ ttl' = [ttl EXCEPT ![i] = windowAfter(i, l)]
  /\ admitted' = [admitted EXCEPT ![i] = admittedAfter(i, l)]

\* time passes; Redis drops the keys whose time is over
Tick == /\ \E i \in Ip : ttl[i] > 0
        /\ ttl' = [i \in Ip |-> IF ttl[i] > 0 THEN ttl[i] - 1 ELSE 0]
        /\ hits' = [i \in Ip |-> IF ttl[i] > 1 THEN hits[i] ELSE 0]
        /\ admitted' = [i \in Ip |-> IF ttl[i] > 1 THEN admitted[i] ELSE NoneAdmitted]

LimitsTypeOK == /\ hits \in [Ip -> 0..MaxHits]
                /\ ttl \in [Ip -> Nat]
                /\ admitted \in [Ip -> [Limiter -> Nat]]

(* In the life of the one key of an address a limiter lets no more of its  *)
(* requests through than its max, however they overlap and though the      *)
(* process restarts (DESIGN.md:196, "survives restarts").  The life of the *)
(* key is not the limiter's documented window: what becomes of that is in  *)
(* RegisterWindow (rate-limiter.middleware.ts:27-30, 59-61).               *)
CeilingPerKey == \A i \in Ip, l \in Limiter : admitted[i][l] <= max[l]
=============================================================================
