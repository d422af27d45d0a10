---------------------------- MODULE OrderLedger ----------------------------
(***************************************************************************)
(* What createOrder promises its callers (DESIGN.md 3.3 and 3.4), apart    *)
(* from how it keeps the promise: an external id is claimed once and for   *)
(* good by one call, only that call books a shipment for it, a call told   *)
(* "created" has booked one, and a call told "duplicate" lost the id to    *)
(* another.  A call may fail at any time, before or after it claimed or    *)
(* booked: the ledger does not promise that a failure leaves no trace, nor *)
(* that a call that books does so once (see Orders.NoDuplicateShipments).  *)
(***************************************************************************)
CONSTANTS
  Caller,  \* calls of createOrder
  ExtId,   \* external order ids
  None

ASSUME LedgerAssumption == None \notin Caller

VARIABLES
  owner,   \* external id -> the call whose order bears it, or None
  booked,  \* calls that booked a shipment
  outcome  \* call -> what it was told

ledger == <<owner, booked, outcome>>

Outcome == {"none", "created", "duplicate", "failed"}

LedgerTypeOK == /\ owner \in [ExtId -> Caller \cup {None}]
                /\ booked \subseteq Caller
                /\ outcome \in [Caller -> Outcome]

Owns(r) == \E e \in ExtId : owner[e] = r

LedgerInit == /\ owner = [e \in ExtId |-> None]
              /\ booked = {}
              /\ outcome = [r \in Caller |-> "none"]

\* mutant: the external id is not unique
ClaimAgain(r) == /\ outcome[r] = "none" /\ ~Owns(r)
                 /\ \E e \in ExtId : owner' = [owner EXCEPT ![e] = r]
                 /\ UNCHANGED <<booked, outcome>>

Claim(r) == /\ outcome[r] = "none" /\ ~Owns(r)
            /\ \E e \in ExtId : owner[e] = None /\ owner' = [owner EXCEPT ![e] = r]
            /\ UNCHANGED <<booked, outcome>>

Book(r) == /\ outcome[r] = "none" /\ Owns(r)
           /\ booked' = booked \cup {r}
           /\ UNCHANGED <<owner, outcome>>

Tell(r, what) == /\ outcome[r] = "none"
                 /\ outcome' = [outcome EXCEPT ![r] = what]
                 /\ UNCHANGED <<owner, booked>>

Created(r)   == r \in booked /\ Tell(r, "created")
Duplicate(r) == /\ ~Owns(r)
                /\ \E e \in ExtId : owner[e] # None
                /\ Tell(r, "duplicate")
Fail(r)      == Tell(r, "failed")

LedgerNext == \E r \in Caller : Claim(r) \/ Book(r) \/ Created(r) \/ Duplicate(r) \/ Fail(r)

LedgerSpec == LedgerInit /\ [][LedgerNext]_ledger

(* The calls that booked a shipment own an external id, and own it alone:  *)
(* no external id is shipped by two calls, or by two runs of its job       *)
(* (order.service.ts:22-34).                                               *)
OneBookingPerExtId ==
  \A r \in booked : \E e \in ExtId : owner[e] = r /\ \A q \in booked : owner[e] = q => q = r
=============================================================================
