------------------------------- MODULE Orders -------------------------------
(***************************************************************************)
(* OrderService (src/modules/orders/order.service.ts): createOrder,        *)
(* trackOrder and cancelOrder, run by concurrent requests over one         *)
(* PostgreSQL database and one courier.                                    *)
(*                                                                         *)
(* A request is one call of a service method, an async function: it gives  *)
(* up the event loop at each await, so each await on the database or on    *)
(* the courier is one action here and the synchronous code after it        *)
(* belongs to the same action.  pc[r] names the await the request is at.   *)
(*                                                                         *)
(* Orders are named by the request that inserts them (the generated uuid), *)
(* so external ids stay plain data and their uniqueness is the work of the *)
(* INSERT, not of the representation.  An AWB is a Boolean column: a       *)
(* courier never hands out the same number to two orders.                  *)
(*                                                                         *)
(* repository.save of an entity that has an id is two round trips: TypeORM *)
(* reads the row, compares it with the entity column by column, then       *)
(* UPDATEs the columns that differ.  The xxxSelect and xxxUpdate actions   *)
(* are these two.                                                          *)
(*                                                                         *)
(* The HTTP client repeats a POST that got no answer or a 5xx              *)
(* (http.client.ts:73-95), and the courier may have acted on each one: one *)
(* call of adapter.createOrder books up to maxRetries + 1 shipments, which *)
(* is what CourierHttp.OncePerRetry bounds.                                *)
(***************************************************************************)
EXTENDS Naturals, Sequences, FiniteSets

CONSTANTS
  Req,         \* calls of the service; also the ids of the orders they insert
  ExtId,       \* order_id of the payload, the caller's idempotency key
  Partner,     \* values of courier_partner
  Registered,  \* partners CourierFactory has an adapter for
  ScanPath,    \* raw statuses the courier records for a shipment, in order
  maxRetries,  \* how often http.client.ts sends a failed call again
  MaxFaults,   \* bound: database round trips that fail
  None         \* NULL

ASSUME RegisteredAssumption == Registered \subseteq Partner
ASSUME NoneAssumption == None \notin Req /\ None \notin ExtId
ASSUME RetriesAssumption == maxRetries \in Nat
ASSUME FaultsAssumption == MaxFaults \in Nat

VARIABLES
  placed,    \* ids of the rows of table orders
  orders,    \* order id -> row, meaningful for ids in placed
  events,    \* order id -> rows of table tracking_events
  shipments, \* order id -> shipments the courier has booked for it
  scans,     \* order id -> raw statuses the courier has recorded
  pc,        \* request -> the await it is at
  ext,       \* request -> order_id of the payload of a create
  target,    \* request -> the order it works on
  mem,       \* request -> the Order entity it holds in memory
  dirty,     \* request -> columns the UPDATE of its save will write
  fetched,   \* request -> how many scans the tracking reply carried
  appended,  \* request -> how many of them are in tracking_events already
  answer,    \* request -> what the caller was told
  faults,    \* database faults so far
  stale      \* history: requests whose entity is older than a write by another

db      == <<placed, orders, events>>
courier == <<shipments, scans>>
local   == <<ext, target, fetched, appended>>
vars    == <<db, courier, local, pc, mem, dirty, answer, faults, stale>>

-----------------------------------------------------------------------------
OrderStatus == {"CREATED", "PICKED_UP", "IN_TRANSIT", "DELIVERED", "CANCELLED", "FAILED"}

RawStatus == {"ORDER PLACED", "MANIFESTED", "PICKED UP", "PICKUP DONE", "IN TRANSIT",
              "OUT FOR DELIVERY", "DELIVERED", "CANCELLED", "RTO", "LOST", "OTHER"}

ASSUME ScanPathAssumption == ScanPath \in Seq(RawStatus)

\* mutant: the courier's own words reach the status column
normalizeStatusRaw(raw) == raw

\* UB_STATUS_MAP; a status it does not list is taken for IN_TRANSIT
normalizeStatus(raw) ==
  CASE raw \in {"ORDER PLACED", "MANIFESTED"} -> "CREATED"
    [] raw \in {"PICKED UP", "PICKUP DONE"}   -> "PICKED_UP"
    [] raw = "DELIVERED"                      -> "DELIVERED"
    [] raw = "CANCELLED"                      -> "CANCELLED"
    [] raw \in {"RTO", "LOST"}                -> "FAILED"
    [] OTHER                                  -> "IN_TRANSIT"

\* mutant: the status is asked for again after the events were saved
currentStatusLater(o, n) == IF scans[o] = << >> THEN "IN_TRANSIT" ELSE normalizeStatus(scans[o][Len(scans[o])])

\* currentStatus of a tracking reply that carries the first n scans
currentStatus(o, n) == IF n = 0 THEN "IN_TRANSIT" ELSE normalizeStatus(scans[o][n])

Column == {"status", "awb", "cancelledBy", "failureReason"}

Row == [status: OrderStatus, awb: BOOLEAN, cancelledBy: Req \cup {None}, failureReason: BOOLEAN]

NewOrder == [status |-> "CREATED", awb |-> FALSE, cancelledBy |-> None, failureReason |-> FALSE]

Event == [from: {"service", "courier"}, scan: Nat, normalizedStatus: OrderStatus]

ServiceEvent(s)    == [from |-> "service", scan |-> 0, normalizedStatus |-> s]
CourierEvent(o, n) == [from |-> "courier", scan |-> n, normalizedStatus |-> normalizeStatus(scans[o][n])]

Answers == {"none", "201", "200", "400", "404", "409", "error"}

CreatePc == {"insert", "manifest", "createSelect", "createUpdate", "placedEvent",
             "failSelect", "failUpdate"}
TrackPc  == {"fetch", "append", "trackSelect", "trackUpdate", "readEvents"}
CancelPc == {"courierCancel", "cancelSelect", "cancelUpdate", "cancelEvent"}
InFlight == CreatePc \cup TrackPc \cup CancelPc
Pc       == InFlight \cup {"idle", "done", "crashed"}

\* mutant: a failed order gives its external id back
ExtTakenUnlessFailed(e) == \E o \in placed : ext[o] = e /\ orders[o].status # "FAILED"

ExtTaken(e) == \E o \in placed : ext[o] = e

\* CourierFactory.getAdapter finds one, or throws UNKNOWN_COURIER
HasAdapter(p) == p \in Registered

\* the orders the courier holds a shipment for
shipped == {o \in Req : shipments[o] > 0}

\* n of the POSTs that one call of adapter.createOrder sends are acted on
Book(r, n) == shipments' = [shipments EXCEPT ![r] = @ + n]

-----------------------------------------------------------------------------
Goto(r, p) == pc' = [pc EXCEPT ![r] = p] /\ UNCHANGED answer

Finish(r, a) == /\ pc' = [pc EXCEPT ![r] = "done"]
                /\ answer' = [answer EXCEPT ![r] = a]

\* findOne by id: a fresh entity with the row's values
LoadEntity(r, o) == /\ target' = [target EXCEPT ![r] = o]
                    /\ mem' = [mem EXCEPT ![r] = orders[o]]
                    /\ stale' = stale \ {r}

Differ(a, b) == {c \in Column : \/ c = "status"        /\ a.status # b.status
                                \/ c = "awb"           /\ a.awb # b.awb
                                \/ c = "cancelledBy"   /\ a.cancelledBy # b.cancelledBy
                                \/ c = "failureReason" /\ a.failureReason # b.failureReason}

\* the row old after an UPDATE of the columns cols to the values of new
Merge(old, new, cols) ==
  [status        |-> IF "status" \in cols THEN new.status ELSE old.status,
   awb           |-> IF "awb" \in cols THEN new.awb ELSE old.awb,
   cancelledBy   |-> IF "cancelledBy" \in cols THEN new.cancelledBy ELSE old.cancelledBy,
   failureReason |-> IF "failureReason" \in cols THEN new.failureReason ELSE old.failureReason]

\* first half of save(entity): SELECT the row and compare
SelectForSave(r) == dirty' = [dirty EXCEPT ![r] = Differ(mem[r], orders[target[r]])]

\* second half: UPDATE what differed, no statement at all when nothing did
UpdateRow(r) ==
  /\ orders' = [orders EXCEPT ![target[r]] = Merge(@, mem[r], dirty[r])]
  /\ stale' = IF dirty[r] = {} THEN stale
              ELSE stale \cup {q \in Req \ {r} : target[q] = target[r] /\ pc[q] \in InFlight}
  /\ dirty' = [dirty EXCEPT ![r] = {}]
  /\ UNCHANGED <<placed, events>>

appendTrackingEvent(o, ev) == /\ events' = [events EXCEPT ![o] = Append(@, ev)]
                              /\ UNCHANGED <<placed, orders>>

\* mutant: the catch block forgets the status
RecordFailureReasonOnly(r) == mem' = [mem EXCEPT ![r].failureReason = TRUE]

\* mutant: the reason is logged and not stored
RecordFailureStatusOnly(r) == mem' = [mem EXCEPT ![r].status = "FAILED"]

\* the statements of the catch block before its save
RecordFailure(r) == mem' = [mem EXCEPT ![r].status = "FAILED", ![r].failureReason = TRUE]

-----------------------------------------------------------------------------
Init ==
  /\ placed = {} /\ orders = [o \in Req |-> NewOrder] /\ events = [o \in Req |-> << >>]
  /\ shipments = [o \in Req |-> 0] /\ scans = [o \in Req |-> << >>]
  /\ pc = [r \in Req |-> "idle"] /\ answer = [r \in Req |-> "none"]
  /\ ext = [r \in Req |-> None] /\ target = [r \in Req |-> None]
  /\ mem = [r \in Req |-> NewOrder] /\ dirty = [r \in Req |-> {}]
  /\ fetched = [r \in Req |-> 0] /\ appended = [r \in Req |-> 0]
  /\ faults = 0 /\ stale = {}

(* createOrder *)

\* findOne by external id, then CourierFactory.getAdapter
CreateFind(r) ==
  /\ pc[r] = "idle"
  /\ \E e \in ExtId, p \in Partner :
       /\ ext' = [ext EXCEPT ![r] = e]
       /\ \/ ExtTaken(e) /\ Finish(r, "409") /\ UNCHANGED target
          \/ ~ExtTaken(e) /\ ~HasAdapter(p) /\ Finish(r, "400") /\ UNCHANGED target
          \/ /\ ~ExtTaken(e) /\ HasAdapter(p)
             /\ target' = [target EXCEPT ![r] = r]
             /\ Goto(r, "insert")
  /\ UNCHANGED <<db, courier, fetched, appended, mem, dirty, faults, stale>>

\* save of the new entity, outside the try: a unique violation goes to the caller
Insert(r) ==
  /\ pc[r] = "insert"
  /\ \/ /\ ExtTaken(ext[r])
        /\ Finish(r, "error")
        /\ UNCHANGED <<db, mem>>
     \/ /\ ~ExtTaken(ext[r])
        /\ placed' = placed \cup {r}
        /\ orders' = [orders EXCEPT ![r] = NewOrder]
        /\ mem' = [mem EXCEPT ![r] = NewOrder]
        /\ Goto(r, "manifest")
        /\ UNCHANGED events
  /\ UNCHANGED <<courier, local, dirty, faults, stale>>

\* mutant: any reply of the courier is taken for a booking
ManifestUnchecked(r) ==
  /\ pc[r] = "manifest"
  /\ \E n \in 0..maxRetries + 1 : Book(r, n)
  /\ mem' = [mem EXCEPT ![r].awb = TRUE] /\ Goto(r, "createSelect")
  /\ UNCHANGED <<db, scans, local, dirty, faults, stale>>

\* adapter.createOrder.  With a reply the last POST was acted on, with none
\* perhaps no POST was; the earlier ones were or were not.
Manifest(r) ==
  /\ pc[r] = "manifest"
  /\ \/ /\ \E n \in 1..maxRetries + 1 : Book(r, n)
        /\ mem' = [mem EXCEPT ![r].awb = TRUE, ![r].status = "CREATED"]
        /\ Goto(r, "createSelect")
     \/ /\ \E n \in 0..maxRetries + 1 : Book(r, n)
        /\ RecordFailure(r)
        /\ Goto(r, "failSelect")
  /\ UNCHANGED <<db, scans, local, dirty, faults, stale>>

CreateSelect(r) ==
  /\ pc[r] = "createSelect" /\ SelectForSave(r) /\ Goto(r, "createUpdate")
  /\ UNCHANGED <<db, courier, local, mem, faults, stale>>

CreateUpdate(r) ==
  /\ pc[r] = "createUpdate" /\ UpdateRow(r) /\ Goto(r, "placedEvent")
  /\ UNCHANGED <<courier, local, mem, faults>>

\* mutant: the caller is answered before the event is saved
PlacedEventSkipped(r) == /\ pc[r] = "placedEvent" /\ Finish(r, "201")
                         /\ UNCHANGED <<db, courier, local, mem, dirty, faults, stale>>

PlacedEvent(r) ==
  /\ pc[r] = "placedEvent"
  /\ appendTrackingEvent(r, ServiceEvent("CREATED"))
  /\ Finish(r, "201")
  /\ UNCHANGED <<courier, local, mem, dirty, faults, stale>>

FailSelect(r) ==
  /\ pc[r] = "failSelect" /\ SelectForSave(r) /\ Goto(r, "failUpdate")
  /\ UNCHANGED <<db, courier, local, mem, faults, stale>>

FailUpdate(r) ==
  /\ pc[r] = "failUpdate" /\ UpdateRow(r) /\ Finish(r, "error")
  /\ UNCHANGED <<courier, local, mem, faults>>

(* trackOrder *)

TrackFind(r) ==
  /\ pc[r] = "idle"
  /\ \E o \in Req :
       \/ o \notin placed /\ Finish(r, "404") /\ UNCHANGED <<target, mem, stale>>
       \/ /\ o \in placed /\ LoadEntity(r, o)
          /\ Goto(r, IF orders[o].awb THEN "fetch" ELSE "readEvents")
  /\ UNCHANGED <<db, courier, ext, fetched, appended, dirty, faults>>

\* mutant: a cancelled order follows the courier's status again
AfterReplyReopens(r, n) ==
  LET current == currentStatus(target[r], n) IN
  \/ /\ mem[r].status # current
     /\ mem' = [mem EXCEPT ![r].status = current]
     /\ Goto(r, "trackSelect")
  \/ /\ mem[r].status = current
     /\ Goto(r, "readEvents")
     /\ UNCHANGED mem

\* what follows the last event of the reply: line 128's comparison
AfterReply(r, n) ==
  LET current == currentStatus(target[r], n) IN
  \/ /\ mem[r].status \notin {current, "CANCELLED"}
     /\ mem' = [mem EXCEPT ![r].status = current]
     /\ Goto(r, "trackSelect")
  \/ /\ mem[r].status \in {current, "CANCELLED"}
     /\ Goto(r, "readEvents")
     /\ UNCHANGED mem

\* adapter.trackOrder: every scan the courier has by now, or an error
Fetch(r) ==
  /\ pc[r] = "fetch"
  /\ LET n == Len(scans[target[r]]) IN
     \/ /\ n > 0 /\ fetched' = [fetched EXCEPT ![r] = n]
        /\ Goto(r, "append") /\ UNCHANGED mem
     \/ n = 0 /\ AfterReply(r, 0) /\ UNCHANGED fetched
     \/ Goto(r, "readEvents") /\ UNCHANGED <<mem, fetched>>
  /\ UNCHANGED <<db, courier, ext, target, appended, dirty, faults, stale>>

\* mutant: the saves are not awaited, and nobody waits for the last of them
AppendScanNotAwaited(r) ==
  /\ pc[r] = "append"
  /\ LET n == appended[r] + 1 IN
     /\ appendTrackingEvent(target[r], CourierEvent(target[r], n))
     /\ appended' = [appended EXCEPT ![r] = n]
     /\ \/ n < fetched[r] /\ Goto(r, "append") /\ UNCHANGED mem
        \/ AfterReply(r, n)
  /\ UNCHANGED <<courier, ext, target, fetched, dirty, faults, stale>>

\* one turn of the loop over result.events, and what follows the last one
AppendScan(r) ==
  /\ pc[r] = "append"
  /\ LET n == appended[r] + 1 IN
     /\ appendTrackingEvent(target[r], CourierEvent(target[r], n))
     /\ appended' = [appended EXCEPT ![r] = n]
     /\ \/ n < fetched[r] /\ Goto(r, "append") /\ UNCHANGED mem
        \/ n = fetched[r] /\ AfterReply(r, n)
  /\ UNCHANGED <<courier, ext, target, fetched, dirty, faults, stale>>

TrackSelect(r) ==
  /\ pc[r] = "trackSelect" /\ SelectForSave(r) /\ Goto(r, "trackUpdate")
  /\ UNCHANGED <<db, courier, local, mem, faults, stale>>

TrackUpdate(r) ==
  /\ pc[r] = "trackUpdate" /\ UpdateRow(r) /\ Goto(r, "readEvents")
  /\ UNCHANGED <<courier, local, mem, faults>>

ReadEvents(r) ==
  /\ pc[r] = "readEvents" /\ Finish(r, "200")
  /\ UNCHANGED <<db, courier, local, mem, dirty, faults, stale>>

(* cancelOrder *)

CancelFind(r) ==
  /\ pc[r] = "idle"
  /\ \E o \in Req :
       \/ o \notin placed /\ Finish(r, "404") /\ UNCHANGED <<target, mem, stale>>
       \/ /\ o \in placed /\ orders[o].status \in {"CANCELLED", "DELIVERED", "FAILED"}
          /\ Finish(r, "400") /\ UNCHANGED <<target, mem, stale>>
       \/ /\ o \in placed /\ orders[o].status \in {"CREATED", "PICKED_UP", "IN_TRANSIT"}
          /\ LoadEntity(r, o)
          /\ Goto(r, IF orders[o].awb THEN "courierCancel" ELSE "cancelSelect")
  /\ UNCHANGED <<db, courier, ext, fetched, appended, dirty, faults>>

Concluded(o) == scans[o] # << >> /\ scans[o][Len(scans[o])] \in {"DELIVERED", "CANCELLED"}

\* adapter.cancelOrder: its success flag is not looked at and its error is
\* swallowed, so the courier may or may not have cancelled in either case
CourierCancel(r) ==
  /\ pc[r] = "courierCancel"
  /\ \/ UNCHANGED scans
     \/ /\ ~Concluded(target[r])
        /\ scans' = [scans EXCEPT ![target[r]] = Append(@, "CANCELLED")]
  /\ Goto(r, "cancelSelect")
  /\ UNCHANGED <<db, shipments, ext, target, fetched, appended, mem, dirty, faults, stale>>

\* status and cancelledById are set before the SELECT of the save
CancelSelect(r) ==
  /\ pc[r] = "cancelSelect"
  /\ mem' = [mem EXCEPT ![r].status = "CANCELLED", ![r].cancelledBy = r]
  /\ dirty' = [dirty EXCEPT ![r] = Differ(mem'[r], orders[target[r]])]
  /\ Goto(r, "cancelUpdate")
  /\ UNCHANGED <<db, courier, local, faults, stale>>

CancelUpdate(r) ==
  /\ pc[r] = "cancelUpdate" /\ UpdateRow(r) /\ Goto(r, "cancelEvent")
  /\ UNCHANGED <<courier, local, mem, faults>>

CancelEvent(r) ==
  /\ pc[r] = "cancelEvent"
  /\ appendTrackingEvent(target[r], ServiceEvent("CANCELLED"))
  /\ Finish(r, "200")
  /\ UNCHANGED <<courier, local, mem, dirty, faults, stale>>

(* the environment *)

\* A round trip to the database fails and takes no effect: the await throws.
DbFault(r) ==
  /\ faults < MaxFaults /\ faults' = faults + 1
  /\ \/ /\ pc[r] \in {"createSelect", "createUpdate", "placedEvent"}
        /\ RecordFailure(r)
        /\ Goto(r, "failSelect")
     \/ /\ pc[r] \in {"append", "trackSelect", "trackUpdate"}
        /\ Goto(r, "readEvents")
        /\ UNCHANGED mem
     \/ /\ pc[r] \in {"idle", "insert", "failSelect", "failUpdate", "readEvents",
                      "cancelSelect", "cancelUpdate", "cancelEvent"}
        /\ Finish(r, "error")
        /\ UNCHANGED mem
  /\ UNCHANGED <<db, courier, local, dirty, stale>>

\* The process that runs r dies; the caller hears nothing.
Crash(r) ==
  /\ pc[r] \in InFlight
  /\ pc' = [pc EXCEPT ![r] = "crashed"]
  /\ UNCHANGED <<db, courier, local, mem, dirty, answer, faults, stale>>

\* The courier moves a parcel on.
CourierScan(o) ==
  /\ o \in shipped /\ ~Concluded(o) /\ Len(scans[o]) < Len(ScanPath)
  /\ scans' = [scans EXCEPT ![o] = Append(@, ScanPath[Len(@) + 1])]
  /\ UNCHANGED <<db, shipments, local, pc, mem, dirty, answer, faults, stale>>

-----------------------------------------------------------------------------
createOrder(r) == \/ CreateFind(r) \/ Insert(r) \/ Manifest(r)
                  \/ CreateSelect(r) \/ CreateUpdate(r) \/ PlacedEvent(r)
                  \/ FailSelect(r) \/ FailUpdate(r)

trackOrder(r) == \/ TrackFind(r) \/ Fetch(r) \/ AppendScan(r)
                 \/ TrackSelect(r) \/ TrackUpdate(r) \/ ReadEvents(r)

cancelOrder(r) == \/ CancelFind(r) \/ CourierCancel(r) \/ CancelSelect(r)
                  \/ CancelUpdate(r) \/ CancelEvent(r)

Serve(r) == createOrder(r) \/ trackOrder(r) \/ cancelOrder(r)

Next == \/ \E r \in Req : Serve(r) \/ DbFault(r) \/ Crash(r)
        \/ \E o \in Req : CourierScan(o)

Spec == Init /\ [][Next]_vars

\* An await on the database or on the courier (whose client has a timeout)
\* ends, so a request that was accepted moves on.  Nothing obliges a request
\* to arrive, the courier to scan a parcel, or anything to fail.
FairSpec == Spec /\ \A r \in Req : WF_vars(pc[r] \in InFlight /\ Serve(r))

-----------------------------------------------------------------------------
TypeOK ==
  /\ placed \in SUBSET Req
  /\ orders \in [Req -> Row]
  /\ events \in [Req -> Seq(Event)]
  /\ shipments \in [Req -> Nat]
  /\ scans \in [Req -> Seq(RawStatus)]
  /\ pc \in [Req -> Pc]
  /\ ext \in [Req -> ExtId \cup {None}]
  /\ target \in [Req -> Req \cup {None}]
  /\ mem \in [Req -> Row]
  /\ dirty \in [Req -> SUBSET Column]
  /\ fetched \in [Req -> Nat]
  /\ appended \in [Req -> Nat]
  /\ answer \in [Req -> Answers]
  /\ faults \in Nat
  /\ stale \in SUBSET Req

(* However requests interleave, fail, crash and are repeated, only one     *)
(* call per external id reaches the courier: the check in findOne and the  *)
(* UNIQUE column together (order.service.ts:20, DESIGN.md 3.3).  More than *)
(* one shipment of an external id is always the work of one call whose     *)
(* POST the HTTP client repeated, and at most one per repetition.          *)
RepeatedPostOnly ==
  /\ \A o1, o2 \in shipped : ext[o1] = ext[o2] => o1 = o2
  /\ \A o \in Req : shipments[o] <= maxRetries + 1

HasEvent(o, s) == \E i \in 1..Len(events[o]) : events[o][i].normalizedStatus = s

(* Whatever stale entity wrote it last, a status that can only come from   *)
(* the courier is backed by an event in the audit trail, and a FAILED      *)
(* order has a reason or such an event (trackOrder saves the events before *)
(* the status; createOrder's catch sets both columns).                     *)
StatusHasEvidence ==
  \A o \in placed :
    /\ orders[o].status \in {"PICKED_UP", "DELIVERED"} => HasEvent(o, orders[o].status)
    /\ orders[o].status = "FAILED" => orders[o].failureReason \/ HasEvent(o, "FAILED")

(* A caller told 201 has a row, a shipment and the first tracking event,   *)
(* even when other requests and faults interleave with its saves.          *)
CreatedIsBacked ==
  \A r \in Req : answer[r] = "201" => r \in placed /\ r \in shipped /\ HasEvent(r, "CREATED")

(* A create that placed its row and told its caller of an error left the   *)
(* order FAILED, or a cancel has closed it since, as long as the database  *)
(* answers: the catch block's save is not lost to other requests' saves.   *)
FailureIsRecorded ==
  \A r \in Req : r \in placed /\ answer[r] = "error" /\ faults = 0
                   => orders[r].status \in {"FAILED", "CANCELLED"}

(* Of an order whose create was answered the row keeps what it takes to    *)
(* reconcile it with the courier's books ("Persist failure for later       *)
(* reconciliation", order.service.ts:78): the reason when the caller was   *)
(* told of an error while the database held, the AWB when it was told 201, *)
(* or who cancelled the order since.  Only two saves of stale entities can *)
(* leave a shipment without any of them, and no crash leaves one without a *)
(* row: the INSERT comes first (order.service.ts:39).                      *)
RowBeforeShipment == shipped \subseteq placed

Cancelled(o) == orders[o].cancelledBy # None

ShipmentsAccounted ==
  /\ RowBeforeShipment
  /\ \A o \in shipped :
       /\ answer[o] = "error" /\ faults = 0 => orders[o].failureReason \/ Cancelled(o)
       /\ answer[o] = "201" => \/ orders[o].awb \/ Cancelled(o)
                               \/ \E a, b \in stale \ {o} : a # b /\ target[a] = o /\ target[b] = o

InTrail(o, n) == \E i \in 1..Len(events[o]) : events[o][i] = CourierEvent(o, n)

(* A caller answered by trackOrder while the database holds finds every    *)
(* scan of the courier's reply in the audit trail, under the status it     *)
(* stands for, whatever other requests append and save meanwhile           *)
(* (order.service.ts:115-125).                                             *)
TrailComplete ==
  \A r \in Req : answer[r] = "200" /\ faults = 0 =>
    \A n \in 1..fetched[r] : InTrail(target[r], n)

Saving == {"createUpdate", "failUpdate", "trackUpdate", "cancelUpdate"}

LosesData(o) == \/ orders[o].awb /\ ~orders'[o].awb
                \/ orders[o].cancelledBy # None /\ orders'[o].cancelledBy = None
                \/ orders[o].status = "CANCELLED" /\ orders'[o].status # "CANCELLED"
                \/ /\ orders[o].status \in {"DELIVERED", "FAILED"}
                   /\ orders'[o].cancelledBy # orders[o].cancelledBy

(* An order loses its AWB, its canceller or its cancellation, or is        *)
(* cancelled although it is DELIVERED or FAILED, only by the UPDATE of a   *)
(* request whose entity was loaded before another request's write:         *)
(* requests that do not overlap on an order never lose anything, and a     *)
(* tracking after a cancellation, one the courier refused too, does not    *)
(* open the order again (order.service.ts:128, 153-166).                   *)
OnlyStaleSavesLoseData ==
  [][\A o \in placed : LosesData(o) =>
       \E r \in stale : target[r] = o /\ pc[r] \in Saving /\ pc'[r] # pc[r]]_vars

(* createOrder, with tracking, cancellation, faults and crashes around it, *)
(* implements the ledger.                                                  *)
OutcomeOf(a) == CASE a = "201" -> "created"
                  [] a = "409" -> "duplicate"
                  [] a \in {"400", "404", "error"} -> "failed"
                  [] OTHER -> "none"

OwnerOf(e) == IF ExtTaken(e) THEN CHOOSE o \in placed : ext[o] = e ELSE None

Ledger == INSTANCE OrderLedger WITH
            Caller  <- Req,
            owner   <- [e \in ExtId |-> OwnerOf(e)],
            booked  <- shipped,
            outcome <- [r \in Req |-> OutcomeOf(answer[r])]

RefinesLedger == Ledger!LedgerSpec

-----------------------------------------------------------------------------
(* Claims of the source and of DESIGN.md                                   *)

Progress(s) == CASE s = "CREATED" -> 0 [] s = "PICKED_UP" -> 1 [] s = "IN_TRANSIT" -> 2 [] OTHER -> 3

(* order.service.ts:127, "Update order status if it has progressed": a     *)
(* tracking request that overlaps no other save never takes an order back  *)
(* to an earlier status.                                                   *)
StatusOnlyProgresses ==
  [][\A r \in Req \ stale : pc[r] = "trackUpdate" /\ pc'[r] = "readEvents" =>
       Progress(orders'[target[r]].status) >= Progress(orders[target[r]].status)]_vars

(* DESIGN.md:9, "no duplicate shipments even under retry storms": the      *)
(* courier is never left with two shipments of one external id.            *)
NoDuplicateShipments ==
  /\ \A o1, o2 \in shipped : ext[o1] = ext[o2] => o1 = o2
  /\ \A o \in Req : shipments[o] <= 1

(* DESIGN.md:273, "created_by, cancelled_by on every order" and DESIGN.md  *)
(* 3.4, "Audit trail is never lost": who cancelled is never erased.        *)
CancelledByNeverErased ==
  [][\A o \in placed : orders[o].cancelledBy # None => orders'[o].cancelledBy # None]_vars
=============================================================================
