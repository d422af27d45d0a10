--------------------------- MODULE RegisterWindow ---------------------------
(***************************************************************************)
(* The documented limit of registrations, "5 req / 1 hour / IP"            *)
(* (DESIGN.md:203, auth.routes.ts:13), beside the limiters of the service. *)
(* The window of the document is kept as a history of its own: it begins   *)
(* with the first registration let through, lasts windowMs["register"],    *)
(* and is not the life of the key that all limiters share.  Its unit of    *)
(* time is much longer than a request, so time passes between requests.    *)
(***************************************************************************)
EXTENDS Server

VARIABLES
  left,    \* history: ip -> time left of its window of registrations, or 0
  granted  \* history: ip -> registrations let through in that window

watch == <<left, granted>>

WatchInit == Init /\ left = [i \in Ip |-> 0] /\ granted = [i \in Ip |-> 0]

\* registerRateLimiter calls next
registerRateLimiter(c) ==
  pc[c] = "limiter" /\ route[c] = "register" /\ routeLimiter(c) /\ pc'[c] = "handler"

Grant(i) == /\ left' = [left EXCEPT ![i] = IF @ = 0 THEN windowMs["register"] ELSE @]
            /\ granted' = [granted EXCEPT ![i] = IF left[i] = 0 THEN 1 ELSE @ + 1]

Elapse == /\ left' = [i \in Ip |-> IF left[i] > 0 THEN left[i] - 1 ELSE 0]
          /\ granted' = [i \in Ip |-> IF left[i] > 1 THEN granted[i] ELSE 0]

WatchNext ==
  \/ Pass /\ Elapse /\ \A c \in Conn : pc[c] \notin Busy
  \/ \E c \in Conn : registerRateLimiter(c) /\ Grant(ipOf[c])
  \/ /\ Next /\ ~Pass /\ \A c \in Conn : ~registerRateLimiter(c)
     /\ UNCHANGED watch

WatchSpec == WatchInit /\ [][WatchNext]_<<vars, watch>>

(* "Rate limited: 5 requests / hour / IP" (auth.routes.ts:13): no address  *)
(* has more registrations let through than that in one window of the       *)
(* length that registerRateLimiter is configured with.                     *)
RegistersPerHour == \A i \in Ip : granted[i] <= max["register"]
=============================================================================
