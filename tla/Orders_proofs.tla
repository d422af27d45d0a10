--------------------------- MODULE Orders_proofs ---------------------------
(***************************************************************************)
(* Proofs about Orders, for any number of requests, external ids, partners *)
(* and faults and any path of scans.                                       *)
(***************************************************************************)
EXTENDS Orders, TLAPS

-----------------------------------------------------------------------------
(* Type correctness.  A request in flight works on an order of Req: the    *)
(* type of target alone would let it save to None.                         *)
TargetOK == \A r \in Req : pc[r] \in InFlight => target[r] \in Req

TypeInv == TypeOK /\ TargetOK

USE DEF db, courier, local

(* Bookings change nothing of an order that has its shipment.              *)
LEMMA ShippedSame == UNCHANGED shipments => UNCHANGED shipped
  BY DEF shipped

USE ShippedSame

(* One call of the adapter ships its own order, or none.                   *)
LEMMA BookShips ==
  ASSUME shipments \in [Req -> Nat], NEW r \in Req, NEW n \in 0..maxRetries + 1, Book(r, n)
  PROVE  /\ shipments' \in [Req -> Nat]
         /\ shipments'[r] = shipments[r] + n
         /\ \A o \in Req \ {r} : shipments'[o] = shipments[o]
         /\ shipped' \in {shipped, shipped \cup {r}}
         /\ n > 0 => r \in shipped'
  <1>1. /\ shipments' \in [Req -> Nat] /\ shipments'[r] = shipments[r] + n
        /\ \A o \in Req \ {r} : shipments'[o] = shipments[o]
    BY RetriesAssumption DEF Book
  <1>2. \A o \in Req \ {r} : o \in shipped' <=> o \in shipped
    BY <1>1 DEF shipped
  <1>3. r \in shipped => r \in shipped'
    BY <1>1, RetriesAssumption DEF shipped
  <1>4. shipped \subseteq Req /\ shipped' \subseteq Req
    BY DEF shipped
  <1>5. n > 0 => r \in shipped'
    BY <1>1, RetriesAssumption DEF shipped
  <1> QED BY <1>1, <1>2, <1>3, <1>4, <1>5

(* normalizeStatus answers a value of the status column for any raw text.  *)
LEMMA NormalizeType == ASSUME NEW raw PROVE normalizeStatus(raw) \in OrderStatus
  BY DEF normalizeStatus, OrderStatus

(* An UPDATE of some columns leaves a row.                                 *)
LEMMA MergeType ==
  ASSUME NEW old \in Row, NEW new \in Row, NEW cols
  PROVE  Merge(old, new, cols) \in Row
  BY DEF Merge, Row

(* The catch block's assignments leave an entity.                          *)
LEMMA FailureType ==
  ASSUME NEW r \in Req, mem \in [Req -> Row], RecordFailure(r)
  PROVE  mem' \in [Req -> Row]
  BY DEF RecordFailure, Row, OrderStatus

(* The second half of a save preserves the types of what it writes.        *)
LEMMA UpdateType ==
  ASSUME TypeInv, NEW r \in Req, pc[r] \in InFlight, UpdateRow(r)
  PROVE  /\ orders' \in [Req -> Row] /\ stale' \in SUBSET Req
         /\ dirty' \in [Req -> SUBSET Column]
  <1>1. target[r] \in Req /\ mem[r] \in Row /\ orders[target[r]] \in Row
    BY DEF TypeInv, TypeOK, TargetOK
  <1>2. Merge(orders[target[r]], mem[r], dirty[r]) \in Row
    BY <1>1, MergeType
  <1>3. orders' \in [Req -> Row]
    BY <1>1, <1>2 DEF TypeInv, TypeOK, UpdateRow
  <1>4. stale' \in SUBSET Req /\ dirty' \in [Req -> SUBSET Column]
    BY DEF TypeInv, TypeOK, UpdateRow
  <1> QED BY <1>3, <1>4

(* AfterReply leaves an entity.                                            *)
LEMMA AfterReplyType ==
  ASSUME TypeInv, NEW r \in Req, NEW n, AfterReply(r, n)
  PROVE  mem' \in [Req -> Row] /\ pc' \in [Req -> Pc] /\ answer' = answer
  <1>1. currentStatus(target[r], n) \in OrderStatus
    BY NormalizeType DEF currentStatus, OrderStatus
  <1>2. mem \in [Req -> Row]
    BY DEF TypeInv, TypeOK
  <1>3. \/ mem' = mem
        \/ mem' = [mem EXCEPT ![r].status = currentStatus(target[r], n)]
    BY DEF AfterReply
  <1>4. mem' \in [Req -> Row]
    BY <1>1, <1>2, <1>3 DEF Row
  <1> QED BY <1>4 DEF AfterReply, Goto, TypeInv, TypeOK, Pc, InFlight, TrackPc

(* Saving an event leaves a sequence of events per order.                  *)
LEMMA AppendType ==
  ASSUME events \in [Req -> Seq(Event)], NEW o \in Req, NEW ev \in Event,
         appendTrackingEvent(o, ev)
  PROVE  events' \in [Req -> Seq(Event)]
  BY DEF appendTrackingEvent

(* What is written to a tracking event is an Event.                        *)
LEMMA EventType ==
  /\ ServiceEvent("CREATED") \in Event
  /\ ServiceEvent("CANCELLED") \in Event
  /\ \A o, n : n \in Nat => CourierEvent(o, n) \in Event
  BY NormalizeType DEF ServiceEvent, CourierEvent, Event, OrderStatus

(* Going to the next await, or answering, keeps pc and answer typed and    *)
(* the targets of the requests in flight.                                  *)
TypedControl == pc' \in [Req -> Pc] /\ answer' \in [Req -> Answers] /\ TargetOK'

(* Going to the next await keeps the types of the control state.           *)
LEMMA GotoType ==
  ASSUME TypeInv, NEW r \in Req, NEW p \in InFlight, Goto(r, p),
         target'[r] \in Req, \A q \in Req \ {r} : target'[q] = target[q]
  PROVE  TypedControl
  BY DEF TypeInv, TypeOK, TargetOK, Goto, Pc, TypedControl

(* So does answering, after which the request has no target to keep.       *)
LEMMA FinishType ==
  ASSUME TypeInv, NEW r \in Req, NEW a \in Answers, Finish(r, a),
         \A q \in Req \ {r} : target'[q] = target[q]
  PROVE  TypedControl
  <1>1. "done" \in Pc /\ "done" \notin InFlight
    BY DEF Pc, InFlight, CreatePc, TrackPc, CancelPc
  <1> QED BY <1>1 DEF TypeInv, TypeOK, TargetOK, Finish, TypedControl

(* findOne gives a request an order of Req and an entity.                  *)
LEMMA LoadType ==
  ASSUME TypeOK, NEW r \in Req, NEW o \in Req, LoadEntity(r, o)
  PROVE  /\ target' \in [Req -> Req \cup {None}] /\ mem' \in [Req -> Row]
         /\ stale' \in SUBSET Req
         /\ target'[r] \in Req /\ \A q \in Req \ {r} : target'[q] = target[q]
  BY DEF LoadEntity, TypeOK

(* The first half of a save computes a set of columns.                     *)
LEMMA SelectType ==
  ASSUME TypeOK, NEW r \in Req, SelectForSave(r)
  PROVE  dirty' \in [Req -> SUBSET Column]
  <1>1. Differ(mem[r], orders[target[r]]) \in SUBSET Column
    BY DEF Differ
  <1> QED BY <1>1 DEF SelectForSave, TypeOK

(* A step that leaves the targets alone, of a request in flight.           *)
LEMMA SameTarget ==
  ASSUME TypeInv, NEW r \in Req, pc[r] \in InFlight, UNCHANGED target
  PROVE  target'[r] \in Req /\ \A q \in Req \ {r} : target'[q] = target[q]
  BY DEF TypeInv, TargetOK

(* The initial state is well typed.                                        *)
LEMMA InitType == Init => TypeInv
  BY NoneAssumption, FaultsAssumption
  DEF Init, TypeInv, TypeOK, TargetOK, Row, NewOrder, OrderStatus, Answers, Pc, InFlight,
      CreatePc, TrackPc, CancelPc

(* The steps of createOrder keep the types.                                *)
LEMMA CreateType ==
  ASSUME TypeInv, NEW r \in Req, createOrder(r)
  PROVE  TypeInv'
  <1> USE DEF TypeInv
  <1>1. CASE CreateFind(r)
    <2>1. PICK e \in ExtId, p \in Partner :
            /\ ext' = [ext EXCEPT ![r] = e]
            /\ \/ ExtTaken(e) /\ Finish(r, "409") /\ UNCHANGED target
               \/ ~ExtTaken(e) /\ p \notin Registered /\ Finish(r, "400") /\ UNCHANGED target
               \/ /\ ~ExtTaken(e) /\ p \in Registered
                  /\ target' = [target EXCEPT ![r] = r]
                  /\ Goto(r, "insert")
      BY <1>1 DEF CreateFind, HasAdapter
    <2>2. ext' \in [Req -> ExtId \cup {None}]
      BY <2>1 DEF TypeOK
    <2>3. /\ target' \in [Req -> Req \cup {None}]
          /\ \A q \in Req \ {r} : target'[q] = target[q]
      BY <2>1 DEF TypeOK
    <2>4. Goto(r, "insert") => target'[r] \in Req
      <3>1. Goto(r, "insert") => pc'[r] = "insert"
        BY DEF Goto, TypeOK
      <3>2. \A a : Finish(r, a) => pc'[r] = "done"
        BY DEF Finish, TypeOK
      <3> QED BY <2>1, <3>1, <3>2 DEF TypeOK
    <2>5. TypedControl
      BY <2>1, <2>3, <2>4, GotoType, FinishType DEF Answers, InFlight, CreatePc
    <2> QED BY <1>1, <2>2, <2>3, <2>5 DEF CreateFind, TypeOK, TypedControl
  <1>2. CASE Insert(r)
    <2>1. NewOrder \in Row
      BY DEF NewOrder, Row, OrderStatus
    <2>2. placed' \in SUBSET Req /\ orders' \in [Req -> Row] /\ mem' \in [Req -> Row]
      BY <1>2, <2>1 DEF Insert, TypeOK
    <2>3. pc[r] \in InFlight /\ "manifest" \in InFlight /\ "error" \in Answers
      BY <1>2 DEF Insert, InFlight, CreatePc, Answers
    <2>4. TypedControl
      BY <1>2, <2>3, SameTarget, GotoType, FinishType DEF Insert
    <2> QED BY <1>2, <2>2, <2>4 DEF Insert, TypeOK, TypedControl
  <1>3. CASE Manifest(r)
    <2>1. mem' \in [Req -> Row]
      <3>1. CASE mem' = [mem EXCEPT ![r].awb = TRUE, ![r].status = "CREATED"]
        <4>1. mem[r] \in Row /\ [[mem[r] EXCEPT !.awb = TRUE] EXCEPT !.status = "CREATED"] \in Row
          BY DEF TypeOK, Row, OrderStatus
        <4> QED BY <3>1, <4>1 DEF TypeOK
      <3>2. CASE RecordFailure(r)
        BY <3>2, FailureType DEF TypeOK
      <3> QED BY <1>3, <3>1, <3>2 DEF Manifest
    <2>2. pc[r] \in InFlight /\ {"createSelect", "failSelect"} \subseteq InFlight
      BY <1>3 DEF Manifest, InFlight, CreatePc
    <2>3. TypedControl
      BY <1>3, <2>2, SameTarget, GotoType DEF Manifest
    <2>4. shipments' \in [Req -> Nat]
      <3>1. PICK n \in 0..maxRetries + 1 : Book(r, n)
        BY <1>3, RetriesAssumption DEF Manifest
      <3> QED BY <3>1, BookShips DEF TypeOK
    <2> QED BY <1>3, <2>1, <2>3, <2>4 DEF Manifest, TypeOK, TypedControl
  <1>4. CASE CreateSelect(r)
    <2>1. pc[r] \in InFlight /\ "createUpdate" \in InFlight
      BY <1>4 DEF CreateSelect, InFlight, CreatePc
    <2>2. TypedControl /\ dirty' \in [Req -> SUBSET Column]
      BY <1>4, <2>1, SameTarget, GotoType, SelectType DEF CreateSelect
    <2> QED BY <1>4, <2>2 DEF CreateSelect, TypeOK, TypedControl
  <1>5. CASE CreateUpdate(r)
    <2>1. pc[r] \in InFlight /\ "placedEvent" \in InFlight
      BY <1>5 DEF CreateUpdate, InFlight, CreatePc
    <2>2. /\ orders' \in [Req -> Row] /\ stale' \in SUBSET Req
          /\ dirty' \in [Req -> SUBSET Column] /\ TypedControl
      BY <1>5, <2>1, UpdateType, SameTarget, GotoType DEF CreateUpdate
    <2> QED BY <1>5, <2>2 DEF CreateUpdate, UpdateRow, TypeOK, TypedControl
  <1>6. CASE PlacedEvent(r)
    <2>1. pc[r] \in InFlight /\ "201" \in Answers
      BY <1>6 DEF PlacedEvent, InFlight, CreatePc, Answers
    <2>2. events' \in [Req -> Seq(Event)]
      BY <1>6, EventType, AppendType DEF PlacedEvent, TypeOK
    <2>3. TypedControl
      BY <1>6, <2>1, SameTarget, FinishType DEF PlacedEvent
    <2> QED BY <1>6, <2>2, <2>3 DEF PlacedEvent, appendTrackingEvent, TypeOK, TypedControl
  <1>7. CASE FailSelect(r)
    <2>1. pc[r] \in InFlight /\ "failUpdate" \in InFlight
      BY <1>7 DEF FailSelect, InFlight, CreatePc
    <2>2. TypedControl /\ dirty' \in [Req -> SUBSET Column]
      BY <1>7, <2>1, SameTarget, GotoType, SelectType DEF FailSelect
    <2> QED BY <1>7, <2>2 DEF FailSelect, TypeOK, TypedControl
  <1>8. CASE FailUpdate(r)
    <2>1. pc[r] \in InFlight /\ "error" \in Answers
      BY <1>8 DEF FailUpdate, InFlight, CreatePc, Answers
    <2>2. /\ orders' \in [Req -> Row] /\ stale' \in SUBSET Req
          /\ dirty' \in [Req -> SUBSET Column] /\ TypedControl
      BY <1>8, <2>1, UpdateType, SameTarget, FinishType DEF FailUpdate
    <2> QED BY <1>8, <2>2 DEF FailUpdate, UpdateRow, TypeOK, TypedControl
  <1> QED BY <1>1, <1>2, <1>3, <1>4, <1>5, <1>6, <1>7, <1>8 DEF createOrder

(* The steps of trackOrder keep the types.                                 *)
LEMMA TrackType ==
  ASSUME TypeInv, NEW r \in Req, trackOrder(r)
  PROVE  TypeInv'
  <1> USE DEF TypeInv
  <1>1. CASE TrackFind(r)
    <2>1. PICK o \in Req :
            \/ o \notin placed /\ Finish(r, "404") /\ UNCHANGED <<target, mem, stale>>
            \/ /\ o \in placed /\ LoadEntity(r, o)
               /\ Goto(r, IF orders[o].awb THEN "fetch" ELSE "readEvents")
      BY <1>1 DEF TrackFind
    <2>2. {"fetch", "readEvents"} \subseteq InFlight /\ "404" \in Answers
      BY DEF InFlight, TrackPc, Answers
    <2>3. CASE Finish(r, "404") /\ UNCHANGED <<target, mem, stale>>
      BY <1>1, <2>2, <2>3, FinishType DEF TrackFind, TypeOK, TypedControl
    <2>4. CASE LoadEntity(r, o) /\ Goto(r, IF orders[o].awb THEN "fetch" ELSE "readEvents")
      <3>1. TypedControl
        BY <2>2, <2>4, LoadType, GotoType
      <3> QED BY <1>1, <2>4, <3>1, LoadType DEF TrackFind, TypeOK, TypedControl
    <2> QED BY <2>1, <2>3, <2>4
  <1>2. CASE Fetch(r)
    <2>1. Len(scans[target[r]]) \in Nat /\ pc[r] \in InFlight
      BY <1>2 DEF Fetch, TypeOK, TargetOK, InFlight, TrackPc
    <2>2. fetched' \in [Req -> Nat]
      BY <1>2, <2>1 DEF Fetch, TypeOK
    <2>3. mem' \in [Req -> Row]
      BY <1>2, AfterReplyType DEF Fetch, TypeOK
    <2>4. TypedControl
      BY <1>2, <2>1, SameTarget, GotoType DEF Fetch, AfterReply, InFlight, TrackPc
    <2> QED BY <1>2, <2>2, <2>3, <2>4 DEF Fetch, TypeOK, TypedControl
  <1>3. CASE AppendScan(r)
    <2>1. appended[r] + 1 \in Nat /\ pc[r] \in InFlight /\ target[r] \in Req
      BY <1>3 DEF AppendScan, TypeOK, TargetOK, InFlight, TrackPc
    <2>2. events' \in [Req -> Seq(Event)]
      BY <1>3, <2>1, EventType, AppendType DEF AppendScan, TypeOK
    <2>3. mem' \in [Req -> Row]
      BY <1>3, AfterReplyType DEF AppendScan, TypeOK
    <2>4. TypedControl
      BY <1>3, <2>1, SameTarget, GotoType DEF AppendScan, AfterReply, InFlight, TrackPc
    <2>5. appended' \in [Req -> Nat]
      BY <1>3, <2>1 DEF AppendScan, TypeOK
    <2> QED BY <1>3, <2>2, <2>3, <2>4, <2>5
         DEF AppendScan, appendTrackingEvent, TypeOK, TypedControl
  <1>4. CASE TrackSelect(r)
    <2>1. pc[r] \in InFlight /\ "trackUpdate" \in InFlight
      BY <1>4 DEF TrackSelect, InFlight, TrackPc
    <2>2. TypedControl /\ dirty' \in [Req -> SUBSET Column]
      BY <1>4, <2>1, SameTarget, GotoType, SelectType DEF TrackSelect
    <2> QED BY <1>4, <2>2 DEF TrackSelect, TypeOK, TypedControl
  <1>5. CASE TrackUpdate(r)
    <2>1. pc[r] \in InFlight /\ "readEvents" \in InFlight
      BY <1>5 DEF TrackUpdate, InFlight, TrackPc
    <2>2. /\ orders' \in [Req -> Row] /\ stale' \in SUBSET Req
          /\ dirty' \in [Req -> SUBSET Column] /\ TypedControl
      BY <1>5, <2>1, UpdateType, SameTarget, GotoType DEF TrackUpdate
    <2> QED BY <1>5, <2>2 DEF TrackUpdate, UpdateRow, TypeOK, TypedControl
  <1>6. CASE ReadEvents(r)
    <2>1. pc[r] \in InFlight /\ "200" \in Answers
      BY <1>6 DEF ReadEvents, InFlight, TrackPc, Answers
    <2>2. TypedControl
      BY <1>6, <2>1, SameTarget, FinishType DEF ReadEvents
    <2> QED BY <1>6, <2>2 DEF ReadEvents, TypeOK, TypedControl
  <1> QED BY <1>1, <1>2, <1>3, <1>4, <1>5, <1>6 DEF trackOrder

(* The steps of cancelOrder keep the types.                                *)
LEMMA CancelType ==
  ASSUME TypeInv, NEW r \in Req, cancelOrder(r)
  PROVE  TypeInv'
  <1> USE DEF TypeInv
  <1>1. CASE CancelFind(r)
    <2>1. PICK o \in Req :
            \/ Finish(r, "404") /\ UNCHANGED <<target, mem, stale>>
            \/ Finish(r, "400") /\ UNCHANGED <<target, mem, stale>>
            \/ /\ LoadEntity(r, o)
               /\ Goto(r, IF orders[o].awb THEN "courierCancel" ELSE "cancelSelect")
      BY <1>1 DEF CancelFind
    <2>2. {"courierCancel", "cancelSelect"} \subseteq InFlight /\ {"404", "400"} \subseteq Answers
      BY DEF InFlight, CancelPc, Answers
    <2>3. CASE (\E a \in {"404", "400"} : Finish(r, a)) /\ UNCHANGED <<target, mem, stale>>
      BY <1>1, <2>2, <2>3, FinishType DEF CancelFind, TypeOK, TypedControl
    <2>4. CASE /\ LoadEntity(r, o)
               /\ Goto(r, IF orders[o].awb THEN "courierCancel" ELSE "cancelSelect")
      <3>1. TypedControl
        BY <2>2, <2>4, LoadType, GotoType
      <3> QED BY <1>1, <2>4, <3>1, LoadType DEF CancelFind, TypeOK, TypedControl
    <2> QED BY <2>1, <2>3, <2>4
  <1>2. CASE CourierCancel(r)
    <2>1. pc[r] \in InFlight /\ "cancelSelect" \in InFlight
      BY <1>2 DEF CourierCancel, InFlight, CancelPc
    <2>2. scans' \in [Req -> Seq(RawStatus)]
      <3>1. "CANCELLED" \in RawStatus /\ scans \in [Req -> Seq(RawStatus)] /\ target[r] \in Req
        BY <2>1 DEF RawStatus, TypeOK, TargetOK
      <3>2. Append(scans[target[r]], "CANCELLED") \in Seq(RawStatus)
        BY <3>1
      <3> QED BY <1>2, <3>1, <3>2 DEF CourierCancel
    <2>3. TypedControl
      BY <1>2, <2>1, SameTarget, GotoType DEF CourierCancel
    <2> QED BY <1>2, <2>2, <2>3 DEF CourierCancel, TypeOK, TypedControl
  <1>3. CASE CancelSelect(r)
    <2>1. mem' \in [Req -> Row]
      <3>1. mem[r] \in Row /\ [[mem[r] EXCEPT !.status = "CANCELLED"] EXCEPT !.cancelledBy = r] \in Row
        BY DEF TypeOK, Row, OrderStatus
      <3> QED BY <1>3, <3>1 DEF CancelSelect, TypeOK
    <2>2. dirty' \in [Req -> SUBSET Column]
      BY <1>3 DEF CancelSelect, Differ, TypeOK
    <2>3. pc[r] \in InFlight /\ "cancelUpdate" \in InFlight
      BY <1>3 DEF CancelSelect, InFlight, CancelPc
    <2>4. TypedControl
      BY <1>3, <2>3, SameTarget, GotoType DEF CancelSelect
    <2> QED BY <1>3, <2>1, <2>2, <2>4 DEF CancelSelect, TypeOK, TypedControl
  <1>4. CASE CancelUpdate(r)
    <2>1. pc[r] \in InFlight /\ "cancelEvent" \in InFlight
      BY <1>4 DEF CancelUpdate, InFlight, CancelPc
    <2>2. /\ orders' \in [Req -> Row] /\ stale' \in SUBSET Req
          /\ dirty' \in [Req -> SUBSET Column] /\ TypedControl
      BY <1>4, <2>1, UpdateType, SameTarget, GotoType DEF CancelUpdate
    <2> QED BY <1>4, <2>2 DEF CancelUpdate, UpdateRow, TypeOK, TypedControl
  <1>5. CASE CancelEvent(r)
    <2>1. pc[r] \in InFlight /\ target[r] \in Req /\ "200" \in Answers
      BY <1>5 DEF CancelEvent, TargetOK, InFlight, CancelPc, Answers
    <2>2. events' \in [Req -> Seq(Event)]
      BY <1>5, <2>1, EventType, AppendType DEF CancelEvent, TypeOK
    <2>3. TypedControl
      BY <1>5, <2>1, SameTarget, FinishType DEF CancelEvent
    <2> QED BY <1>5, <2>2, <2>3 DEF CancelEvent, appendTrackingEvent, TypeOK, TypedControl
  <1> QED BY <1>1, <1>2, <1>3, <1>4, <1>5 DEF cancelOrder

(* Faults, crashes and the courier's scans keep the types.                 *)
LEMMA EnvironmentType ==
  ASSUME TypeInv, NEW r \in Req, DbFault(r) \/ Crash(r) \/ CourierScan(r)
  PROVE  TypeInv'
  <1> USE DEF TypeInv
  <1>1. CASE DbFault(r)
    <2>1. mem' \in [Req -> Row]
      BY <1>1, FailureType DEF DbFault, TypeOK
    <2>2. {"failSelect", "readEvents"} \subseteq InFlight /\ "error" \in Answers
      BY DEF InFlight, CreatePc, TrackPc, Answers
    <2>3. pc[r] \in {"createSelect", "createUpdate", "placedEvent",
                     "append", "trackSelect", "trackUpdate"} => pc[r] \in InFlight
      BY DEF InFlight, CreatePc, TrackPc
    <2>4. UNCHANGED target /\ faults' \in Nat
      BY <1>1 DEF DbFault, TypeOK
    <2>5. TypedControl
      BY <1>1, <2>2, <2>3, <2>4, SameTarget, GotoType, FinishType DEF DbFault
    <2> QED BY <1>1, <2>1, <2>4, <2>5 DEF DbFault, TypeOK, TypedControl
  <1>2. CASE Crash(r)
    <2>1. "crashed" \in Pc /\ "crashed" \notin InFlight
      BY DEF Pc, InFlight, CreatePc, TrackPc, CancelPc
    <2> QED BY <1>2, <2>1 DEF Crash, TypeOK, TargetOK
  <1>3. CASE CourierScan(r)
    <2>1. ScanPath[Len(scans[r]) + 1] \in RawStatus
      BY <1>3, ScanPathAssumption DEF CourierScan, TypeOK
    <2>2. scans' \in [Req -> Seq(RawStatus)]
      BY <1>3, <2>1 DEF CourierScan, TypeOK
    <2> QED BY <1>3, <2>2 DEF CourierScan, TypeOK, TargetOK
  <1> QED BY <1>1, <1>2, <1>3

(* Every step keeps the types.                                             *)
LEMMA NextType == TypeInv /\ [Next]_vars => TypeInv'
  <1> SUFFICES ASSUME TypeInv, [Next]_vars PROVE TypeInv'
    OBVIOUS
  <1>1. CASE UNCHANGED vars
    BY <1>1 DEF vars, TypeInv, TypeOK, TargetOK
  <1> QED
    BY <1>1, CreateType, TrackType, CancelType, EnvironmentType DEF Next, Serve

(* Every variable keeps its type and every request in flight a target.     *)
THEOREM TypeCorrect == Spec => []TypeOK
  <1>1. TypeInv => TypeOK
    BY DEF TypeInv
  <1> QED BY <1>1, InitType, NextType, PTL DEF Spec
-----------------------------------------------------------------------------
(* The inductive invariant.  PlacedInv relates the rows to the awaits of   *)
(* the requests that insert them; it is what makes a shipment's external   *)
(* id unique, because nobody is between the INSERT and the courier without *)
(* a row, and no two rows share an id.                                     *)
PlacedInv ==
  /\ shipped \subseteq placed
  /\ \A o \in placed : ext[o] \in ExtId
  /\ \A o1, o2 \in placed : ext[o1] = ext[o2] => o1 = o2
  /\ \A r \in Req : pc[r] \in {"idle", "insert"} => r \notin placed
  /\ \A r \in Req : pc[r] = "insert" => ext[r] \in ExtId
  /\ \A r \in Req : pc[r] \in CreatePc => target[r] = r
  /\ \A r \in Req : pc[r] \in InFlight \ {"insert"} => target[r] \in placed

(* An entity no other request has written behind keeps what its row has:   *)
(* this is why only stale saves lose data.                                 *)
Keeps(m, row) == /\ row.awb => m.awb
                 /\ row.cancelledBy # None => m.cancelledBy # None
                 /\ row.status = "CANCELLED" => m.status = "CANCELLED"

FreshInv ==
  /\ \A r \in Req : pc[r] \in CreatePc \ {"insert"} => mem[r].status \in {"CREATED", "FAILED"}
  /\ \A r \in Req \ stale : pc[r] \in InFlight \ {"insert"} => Keeps(mem[r], orders[target[r]])

(* Nobody is answered in flight, and what goes back 201 has been booked.   *)
ToldInv ==
  /\ \A r \in Req : answer[r] # "none" => pc[r] = "done"
  /\ \A r \in Req : pc[r] \in {"createSelect", "createUpdate", "placedEvent"} => r \in shipped

IInv == TypeInv /\ PlacedInv /\ FreshInv /\ ToldInv

(* The initial state satisfies the invariant: nothing is placed or         *)
(* shipped.                                                                *)
LEMMA InitIInv == Init => IInv
  <1> SUFFICES ASSUME Init PROVE IInv
    OBVIOUS
  <1>1. TypeInv
    BY InitType
  <1>2. PlacedInv /\ FreshInv /\ ToldInv
    BY DEF Init, shipped, PlacedInv, FreshInv, ToldInv, InFlight, CreatePc, TrackPc, CancelPc
  <1> QED BY <1>1, <1>2 DEF IInv

(* A step of a request that neither loads an external id nor inserts.      *)
LEMMA PlacedStep ==
  ASSUME TypeInv, PlacedInv, NEW r \in Req, NEW p,
         pc' = [pc EXCEPT ![r] = p], UNCHANGED <<placed, ext>>,
         \A q \in Req \ {r} : target'[q] = target[q],
         shipped' \subseteq placed, p \notin {"idle", "insert"},
         p \in CreatePc => target'[r] = r,
         p \in InFlight => target'[r] \in placed
  PROVE  PlacedInv'
  BY DEF TypeInv, TypeOK, PlacedInv

(* A step of a request that does not write the table orders.               *)
LEMMA FreshStep ==
  ASSUME TypeInv, FreshInv, NEW r \in Req, UNCHANGED orders,
         \A q \in Req \ {r} : /\ pc'[q] = pc[q] /\ mem'[q] = mem[q]
                              /\ target'[q] = target[q] /\ (q \in stale => q \in stale'),
         pc'[r] \in CreatePc \ {"insert"} => mem'[r].status \in {"CREATED", "FAILED"},
         pc'[r] \in InFlight \ {"insert"} /\ r \notin stale' => Keeps(mem'[r], orders[target'[r]])
  PROVE  FreshInv'
  BY DEF FreshInv

(* An UPDATE of no columns leaves the row as it is.                        *)
LEMMA MergeNothing ==
  ASSUME NEW old \in Row, NEW new PROVE Merge(old, new, {}) = old
  BY DEF Merge, Row

(* A save: whoever else holds the order becomes stale, and the saved       *)
(* entity keeps what the row has after it.                                 *)
LEMMA FreshUpdate ==
  ASSUME TypeInv, FreshInv, NEW r \in Req, pc[r] \in InFlight \ {"insert"}, NEW p,
         pc' = [pc EXCEPT ![r] = p], UpdateRow(r), UNCHANGED <<mem, target>>,
         p \in CreatePc => pc[r] \in CreatePc \ {"insert"}
  PROVE  FreshInv'
  <1>1. target[r] \in Req /\ mem[r] \in Row /\ orders[target[r]] \in Row
    BY DEF TypeInv, TypeOK, TargetOK
  <1>2. \A q \in Req : pc'[q] \in CreatePc \ {"insert"} => mem'[q].status \in {"CREATED", "FAILED"}
    BY DEF FreshInv, TypeInv, TypeOK
  <1>3. ASSUME NEW q \in Req, q \notin stale', pc'[q] \in InFlight \ {"insert"}
        PROVE  Keeps(mem'[q], orders'[target'[q]])
    <2>1. q \notin stale
      BY <1>3 DEF UpdateRow
    <2>2. q # r => pc[q] \in InFlight \ {"insert"}
      BY <1>3 DEF TypeInv, TypeOK
    <2>3. Keeps(mem[q], orders[target[q]])
      BY <2>1, <2>2 DEF FreshInv
    <2>4. CASE q = r
      <3>1. orders'[target[r]] = Merge(orders[target[r]], mem[r], dirty[r])
        BY <1>1 DEF UpdateRow, TypeInv, TypeOK
      <3> QED BY <1>1, <2>3, <2>4, <3>1 DEF Merge, Keeps
    <2>5. CASE q # r /\ (dirty[r] = {} \/ target[q] # target[r])
      <3>1. orders'[target[q]] = orders[target[q]]
        <4>1. CASE dirty[r] = {}
          <5>1. Merge(orders[target[r]], mem[r], dirty[r]) = orders[target[r]]
            BY <1>1, <4>1, MergeNothing
          <5>2. orders' = orders
            BY <1>1, <5>1 DEF UpdateRow, TypeInv, TypeOK
          <5> QED BY <5>2
        <4>2. CASE target[q] # target[r]
          BY <1>1, <4>2 DEF UpdateRow, TypeInv, TypeOK
        <4> QED BY <2>5, <4>1, <4>2
      <3> QED BY <2>3, <3>1
    <2>6. CASE q # r /\ dirty[r] # {} /\ target[q] = target[r]
      BY <1>3, <2>2, <2>6 DEF UpdateRow
    <2> QED BY <2>4, <2>5, <2>6
  <1> QED BY <1>2, <1>3 DEF FreshInv

(* The steps of createOrder keep the invariant; INSERT is where the        *)
(* external id is compared with those of all rows.                         *)
LEMMA CreateIInv ==
  ASSUME IInv, NEW r \in Req, createOrder(r)
  PROVE  PlacedInv' /\ FreshInv' /\ ToldInv'
  <1> USE DEF IInv, CreatePc, TrackPc, CancelPc, InFlight
  <1>0. pc \in [Req -> Pc] /\ target \in [Req -> Req \cup {None}] /\ ext \in [Req -> ExtId \cup {None}]
        /\ mem \in [Req -> Row] /\ orders \in [Req -> Row] /\ answer \in [Req -> Answers]
    BY DEF TypeInv, TypeOK
  <1>1. CASE CreateFind(r)
    <2>1. PICK e \in ExtId : ext' = [ext EXCEPT ![r] = e]
      BY <1>1 DEF CreateFind
    <2>2. /\ pc[r] = "idle" /\ UNCHANGED <<placed, orders, mem, stale, shipped>>
          /\ \/ pc' = [pc EXCEPT ![r] = "done"] /\ UNCHANGED target
             \/ /\ pc' = [pc EXCEPT ![r] = "insert"]
                /\ target' = [target EXCEPT ![r] = r] /\ UNCHANGED answer
      BY <1>1 DEF CreateFind, Goto, Finish
    <2>3. PlacedInv'
      BY <1>0, <2>1, <2>2 DEF PlacedInv
    <2>4. FreshInv'
      BY <1>0, <2>2 DEF FreshInv
    <2>5. ToldInv'
      BY <1>0, <1>1 DEF CreateFind, Goto, Finish, ToldInv
    <2> QED BY <2>3, <2>4, <2>5
  <1>2. CASE Insert(r)
    <2>1. CASE ExtTaken(ext[r])
      <3>1. PlacedInv'
        BY <1>0, <1>2, <2>1 DEF Insert, Finish, PlacedInv
      <3>2. FreshInv'
        BY <1>0, <1>2, <2>1 DEF Insert, Finish, FreshInv
      <3>3. ToldInv'
        BY <1>0, <1>2, <2>1 DEF Insert, Finish, ToldInv
      <3> QED BY <3>1, <3>2, <3>3
    <2>2. CASE ~ExtTaken(ext[r])
      <3>0. /\ pc[r] = "insert" /\ placed' = placed \cup {r} /\ UNCHANGED <<ext, target, shipped, stale>>
            /\ orders' = [orders EXCEPT ![r] = NewOrder] /\ mem' = [mem EXCEPT ![r] = NewOrder]
            /\ pc' = [pc EXCEPT ![r] = "manifest"]
            /\ r \notin placed /\ target[r] = r /\ ext[r] \in ExtId
        BY <1>2, <2>2 DEF Insert, Goto, PlacedInv
      <3>1. PlacedInv'
        <4>1. \A o1, o2 \in placed' : ext'[o1] = ext'[o2] => o1 = o2
          BY <2>2, <3>0 DEF ExtTaken, PlacedInv
        <4>2. \A q \in Req : pc'[q] = IF q = r THEN "manifest" ELSE pc[q]
          BY <1>0, <3>0
        <4> QED BY <3>0, <4>1, <4>2 DEF PlacedInv
      <3>2. FreshInv'
        <4>1. Keeps(mem'[r], orders'[target'[r]]) /\ mem'[r].status = "CREATED"
          BY <1>0, <3>0 DEF Keeps, NewOrder
        <4>2. \A q \in Req \ {r} : /\ mem'[q] = mem[q] /\ pc'[q] = pc[q]
                                  /\ pc[q] \in InFlight \ {"insert"} => orders'[target'[q]] = orders[target[q]]
          BY <1>0, <3>0 DEF PlacedInv
        <4> QED BY <3>0, <4>1, <4>2 DEF FreshInv
      <3>3. ToldInv'
        BY <1>0, <1>2, <2>2 DEF Insert, Goto, ToldInv
      <3> QED BY <3>1, <3>2, <3>3
    <2> QED BY <2>1, <2>2
  <1>3. CASE Manifest(r)
    <2>0. PICK n \in 0..maxRetries + 1 :
            /\ Book(r, n)
            /\ \/ pc' = [pc EXCEPT ![r] = "createSelect"] /\ n > 0
               \/ pc' = [pc EXCEPT ![r] = "failSelect"]
      BY <1>3, RetriesAssumption DEF Manifest, Goto
    <2>1. /\ pc[r] = "manifest" /\ UNCHANGED <<placed, orders, ext, target, answer, stale>>
          /\ shipped' \in {shipped, shipped \cup {r}}
          /\ r \in placed /\ target[r] = r
          /\ \/ pc' = [pc EXCEPT ![r] = "createSelect"] /\ r \in shipped'
             \/ pc' = [pc EXCEPT ![r] = "failSelect"]
      BY <1>3, <2>0, BookShips DEF Manifest, Goto, PlacedInv, TypeInv, TypeOK
    <2>2. PlacedInv'
      <3>1. UNCHANGED <<placed, ext, target>> /\ shipped' \subseteq placed /\ target[r] \in placed
        BY <2>1 DEF PlacedInv
      <3>2. CASE pc' = [pc EXCEPT ![r] = "createSelect"]
        BY <2>1, <3>1, <3>2, PlacedStep
      <3>3. CASE pc' = [pc EXCEPT ![r] = "failSelect"]
        BY <2>1, <3>1, <3>3, PlacedStep
      <3> QED BY <2>1, <3>2, <3>3
    <2>3. /\ mem'[r].status \in {"CREATED", "FAILED"} /\ mem[r].status # "CANCELLED"
          /\ mem'[r].cancelledBy = mem[r].cancelledBy
          /\ mem[r].awb => mem'[r].awb
          /\ \A q \in Req \ {r} : mem'[q] = mem[q]
      BY <1>0, <1>3 DEF Manifest, RecordFailure, FreshInv, Row
    <2>4. FreshInv'
      <3>1. r \notin stale => Keeps(mem'[r], orders[target[r]])
        BY <2>1, <2>3 DEF FreshInv, Keeps
      <3> QED BY <1>0, <2>1, <2>3, <3>1, FreshStep
    <2>5. ToldInv'
      BY <1>0, <2>1 DEF ToldInv
    <2> QED BY <2>2, <2>4, <2>5
  <1>4. CASE CreateSelect(r)
    <2>1. /\ pc[r] = "createSelect" /\ pc' = [pc EXCEPT ![r] = "createUpdate"]
          /\ UNCHANGED <<placed, orders, ext, target, answer, stale, shipped, mem>>
          /\ r \in placed /\ target[r] = r
      BY <1>4 DEF CreateSelect, Goto, PlacedInv
    <2>2. PlacedInv'
      BY <2>1, PlacedStep DEF PlacedInv
    <2>3. FreshInv'
      BY <1>0, <2>1 DEF FreshInv
    <2>4. ToldInv'
      BY <1>0, <2>1 DEF ToldInv
    <2> QED BY <2>2, <2>3, <2>4
  <1>5. CASE CreateUpdate(r)
    <2>1. /\ pc[r] = "createUpdate" /\ pc' = [pc EXCEPT ![r] = "placedEvent"]
          /\ UNCHANGED <<placed, ext, target, answer, shipped, mem>>
          /\ r \in placed /\ target[r] = r /\ UpdateRow(r)
      BY <1>5 DEF CreateUpdate, Goto, PlacedInv, UpdateRow
    <2>2. PlacedInv'
      BY <2>1, PlacedStep DEF PlacedInv
    <2>3. FreshInv'
      BY <2>1, FreshUpdate
    <2>4. ToldInv'
      BY <1>0, <2>1 DEF ToldInv
    <2> QED BY <2>2, <2>3, <2>4
  <1>6. CASE PlacedEvent(r)
    <2>1. /\ pc[r] = "placedEvent" /\ pc' = [pc EXCEPT ![r] = "done"]
          /\ answer' = [answer EXCEPT ![r] = "201"]
          /\ UNCHANGED <<placed, orders, ext, target, shipped, mem, stale>>
      BY <1>6 DEF PlacedEvent, Finish, appendTrackingEvent
    <2>2. PlacedInv'
      BY <2>1, PlacedStep DEF PlacedInv
    <2>3. FreshInv'
      BY <1>0, <2>1 DEF FreshInv
    <2>4. ToldInv'
      BY <1>0, <2>1 DEF ToldInv
    <2> QED BY <2>2, <2>3, <2>4
  <1>7. CASE FailSelect(r)
    <2>1. /\ pc[r] = "failSelect" /\ pc' = [pc EXCEPT ![r] = "failUpdate"]
          /\ UNCHANGED <<placed, orders, ext, target, answer, stale, shipped, mem>>
          /\ r \in placed /\ target[r] = r
      BY <1>7 DEF FailSelect, Goto, PlacedInv
    <2>2. PlacedInv'
      BY <2>1, PlacedStep DEF PlacedInv
    <2>3. FreshInv'
      BY <1>0, <2>1 DEF FreshInv
    <2>4. ToldInv'
      BY <1>0, <2>1 DEF ToldInv
    <2> QED BY <2>2, <2>3, <2>4
  <1>8. CASE FailUpdate(r)
    <2>1. /\ pc[r] = "failUpdate" /\ pc' = [pc EXCEPT ![r] = "done"]
          /\ answer' = [answer EXCEPT ![r] = "error"]
          /\ UNCHANGED <<placed, ext, target, shipped, mem>> /\ UpdateRow(r)
      BY <1>8 DEF FailUpdate, Finish, UpdateRow
    <2>2. PlacedInv'
      BY <2>1, PlacedStep DEF PlacedInv
    <2>3. FreshInv'
      BY <2>1, FreshUpdate
    <2>4. ToldInv'
      BY <1>0, <2>1 DEF ToldInv
    <2> QED BY <2>2, <2>3, <2>4
  <1> QED BY <1>1, <1>2, <1>3, <1>4, <1>5, <1>6, <1>7, <1>8 DEF createOrder
(* The steps of trackOrder keep the invariant.                             *)
LEMMA TrackIInv ==
  ASSUME IInv, NEW r \in Req, trackOrder(r)
  PROVE  PlacedInv' /\ FreshInv' /\ ToldInv'
  <1> USE DEF IInv, CreatePc, TrackPc, CancelPc, InFlight
  <1>0. pc \in [Req -> Pc] /\ target \in [Req -> Req \cup {None}] /\ ext \in [Req -> ExtId \cup {None}]
        /\ mem \in [Req -> Row] /\ orders \in [Req -> Row] /\ answer \in [Req -> Answers]
    BY DEF TypeInv, TypeOK
  <1>1. CASE TrackFind(r)
    <2>1. PICK o \in Req :
            \/ /\ pc' = [pc EXCEPT ![r] = "done"]
               /\ (\E a : answer' = [answer EXCEPT ![r] = a]) /\ UNCHANGED <<target, mem, stale>>
            \/ /\ o \in placed /\ (\E p \in {"fetch", "readEvents"} : pc' = [pc EXCEPT ![r] = p])
               /\ UNCHANGED answer /\ target' = [target EXCEPT ![r] = o]
               /\ mem' = [mem EXCEPT ![r] = orders[o]] /\ stale' = stale \ {r}
      BY <1>1 DEF TrackFind, Finish, Goto, LoadEntity
    <2>2. pc[r] = "idle" /\ UNCHANGED <<placed, orders, ext, shipped>>
      BY <1>1 DEF TrackFind
    <2>3. PlacedInv'
      <3>1. CASE pc' = [pc EXCEPT ![r] = "done"] /\ UNCHANGED target
        BY <2>2, <3>1, PlacedStep DEF PlacedInv
      <3>2. ASSUME NEW p \in {"fetch", "readEvents", "courierCancel", "cancelSelect"},
                   o \in placed, pc' = [pc EXCEPT ![r] = p], target' = [target EXCEPT ![r] = o]
            PROVE  PlacedInv'
        <4>1. target'[r] \in placed /\ \A q \in Req \ {r} : target'[q] = target[q]
          BY <1>0, <3>2
        <4> QED BY <2>2, <3>2, <4>1, PlacedStep DEF PlacedInv
      <3> QED BY <2>1, <3>1, <3>2
    <2>4. FreshInv'
      <3>1. target' = [target EXCEPT ![r] = o] /\ mem' = [mem EXCEPT ![r] = orders[o]]
              => Keeps(mem'[r], orders[target'[r]])
        BY <1>0 DEF Keeps
      <3> QED BY <1>0, <2>1, <2>2, <3>1, FreshStep
    <2>5. ToldInv'
      BY <1>0, <2>1, <2>2 DEF ToldInv
    <2> QED BY <2>3, <2>4, <2>5
  <1>2. CASE Fetch(r)
    <2>1. /\ pc[r] = "fetch" /\ UNCHANGED <<placed, orders, ext, target, shipped, answer, stale>>
          /\ \E p \in {"append", "trackSelect", "readEvents"} : pc' = [pc EXCEPT ![r] = p]
      BY <1>2 DEF Fetch, AfterReply, Goto, appendTrackingEvent
    <2>2. PlacedInv'
      BY <2>1, PlacedStep DEF PlacedInv
    <2>3. /\ \A q \in Req \ {r} : mem'[q] = mem[q]
          /\ \/ mem' = mem
             \/ /\ mem[r].status # "CANCELLED"
                /\ mem'[r].awb = mem[r].awb /\ mem'[r].cancelledBy = mem[r].cancelledBy
      <3>1. \A n : AfterReply(r, n) =>
              \/ mem' = mem
              \/ /\ mem[r].status # "CANCELLED"
                 /\ mem' = [mem EXCEPT ![r].status = currentStatus(target[r], n)]
        BY DEF AfterReply
      <3> QED BY <1>0, <1>2, <3>1 DEF Fetch, Row
    <2>4. FreshInv'
      <3>1. r \notin stale => Keeps(mem[r], orders[target[r]])
        BY <2>1 DEF FreshInv
      <3>2. r \notin stale => Keeps(mem'[r], orders[target[r]])
        BY <1>0, <2>3, <3>1 DEF Keeps, Row
      <3> QED BY <1>0, <2>1, <2>3, <3>2, FreshStep
    <2>5. ToldInv'
      BY <1>0, <2>1 DEF ToldInv
    <2> QED BY <2>2, <2>4, <2>5
  <1>3. CASE AppendScan(r)
    <2>1. /\ pc[r] = "append" /\ UNCHANGED <<placed, orders, ext, target, shipped, answer, stale>>
          /\ \E p \in {"append", "trackSelect", "readEvents"} : pc' = [pc EXCEPT ![r] = p]
      BY <1>3 DEF AppendScan, AfterReply, Goto, appendTrackingEvent
    <2>2. PlacedInv'
      BY <2>1, PlacedStep DEF PlacedInv
    <2>3. /\ \A q \in Req \ {r} : mem'[q] = mem[q]
          /\ \/ mem' = mem
             \/ /\ mem[r].status # "CANCELLED"
                /\ mem'[r].awb = mem[r].awb /\ mem'[r].cancelledBy = mem[r].cancelledBy
      <3>1. \A n : AfterReply(r, n) =>
              \/ mem' = mem
              \/ /\ mem[r].status # "CANCELLED"
                 /\ mem' = [mem EXCEPT ![r].status = currentStatus(target[r], n)]
        BY DEF AfterReply
      <3> QED BY <1>0, <1>3, <3>1 DEF AppendScan, Row
    <2>4. FreshInv'
      <3>1. r \notin stale => Keeps(mem[r], orders[target[r]])
        BY <2>1 DEF FreshInv
      <3>2. r \notin stale => Keeps(mem'[r], orders[target[r]])
        BY <1>0, <2>3, <3>1 DEF Keeps, Row
      <3> QED BY <1>0, <2>1, <2>3, <3>2, FreshStep
    <2>5. ToldInv'
      BY <1>0, <2>1 DEF ToldInv
    <2> QED BY <2>2, <2>4, <2>5
  <1>4. CASE TrackSelect(r)
    <2>1. /\ pc[r] = "trackSelect" /\ pc' = [pc EXCEPT ![r] = "trackUpdate"]
          /\ UNCHANGED <<placed, ext, target, shipped, mem, orders, stale, answer>>
      BY <1>4 DEF TrackSelect, Goto
    <2>2. PlacedInv'
      BY <2>1, PlacedStep DEF PlacedInv
    <2>3. FreshInv'
      BY <1>0, <2>1 DEF FreshInv
    <2>4. ToldInv'
      BY <1>0, <2>1 DEF ToldInv
    <2> QED BY <2>2, <2>3, <2>4
  <1>5. CASE TrackUpdate(r)
    <2>1. /\ pc[r] = "trackUpdate" /\ pc' = [pc EXCEPT ![r] = "readEvents"]
          /\ UNCHANGED <<placed, ext, target, shipped, mem, answer>> /\ UpdateRow(r)
      BY <1>5 DEF TrackUpdate, Goto, UpdateRow
    <2>2. PlacedInv'
      BY <2>1, PlacedStep DEF PlacedInv
    <2>3. FreshInv'
      BY <2>1, FreshUpdate
    <2>4. ToldInv'
      BY <1>0, <2>1 DEF ToldInv
    <2> QED BY <2>2, <2>3, <2>4
  <1>6. CASE ReadEvents(r)
    <2>1. /\ pc[r] = "readEvents" /\ pc' = [pc EXCEPT ![r] = "done"]
          /\ answer' = [answer EXCEPT ![r] = "200"]
          /\ UNCHANGED <<placed, ext, target, shipped, mem, orders, stale>>
      BY <1>6 DEF ReadEvents, Finish
    <2>2. PlacedInv'
      BY <2>1, PlacedStep DEF PlacedInv
    <2>3. FreshInv'
      BY <1>0, <2>1 DEF FreshInv
    <2>4. ToldInv'
      BY <1>0, <2>1 DEF ToldInv
    <2> QED BY <2>2, <2>3, <2>4
  <1> QED BY <1>1, <1>2, <1>3, <1>4, <1>5, <1>6 DEF trackOrder

(* The steps of cancelOrder keep the invariant.                            *)
LEMMA CancelIInv ==
  ASSUME IInv, NEW r \in Req, cancelOrder(r)
  PROVE  PlacedInv' /\ FreshInv' /\ ToldInv'
  <1> USE DEF IInv, CreatePc, TrackPc, CancelPc, InFlight
  <1>0. pc \in [Req -> Pc] /\ target \in [Req -> Req \cup {None}] /\ ext \in [Req -> ExtId \cup {None}]
        /\ mem \in [Req -> Row] /\ orders \in [Req -> Row] /\ answer \in [Req -> Answers]
    BY DEF TypeInv, TypeOK
  <1>1. CASE CancelFind(r)
    <2>1. PICK o \in Req :
            \/ /\ pc' = [pc EXCEPT ![r] = "done"]
               /\ (\E a : answer' = [answer EXCEPT ![r] = a]) /\ UNCHANGED <<target, mem, stale>>
            \/ /\ o \in placed /\ (\E p \in {"courierCancel", "cancelSelect"} : pc' = [pc EXCEPT ![r] = p])
               /\ UNCHANGED answer /\ target' = [target EXCEPT ![r] = o]
               /\ mem' = [mem EXCEPT ![r] = orders[o]] /\ stale' = stale \ {r}
      BY <1>1 DEF CancelFind, Finish, Goto, LoadEntity
    <2>2. pc[r] = "idle" /\ UNCHANGED <<placed, orders, ext, shipped>>
      BY <1>1 DEF CancelFind
    <2>3. PlacedInv'
      <3>1. CASE pc' = [pc EXCEPT ![r] = "done"] /\ UNCHANGED target
        BY <2>2, <3>1, PlacedStep DEF PlacedInv
      <3>2. ASSUME NEW p \in {"fetch", "readEvents", "courierCancel", "cancelSelect"},
                   o \in placed, pc' = [pc EXCEPT ![r] = p], target' = [target EXCEPT ![r] = o]
            PROVE  PlacedInv'
        <4>1. target'[r] \in placed /\ \A q \in Req \ {r} : target'[q] = target[q]
          BY <1>0, <3>2
        <4> QED BY <2>2, <3>2, <4>1, PlacedStep DEF PlacedInv
      <3> QED BY <2>1, <3>1, <3>2
    <2>4. FreshInv'
      <3>1. target' = [target EXCEPT ![r] = o] /\ mem' = [mem EXCEPT ![r] = orders[o]]
              => Keeps(mem'[r], orders[target'[r]])
        BY <1>0 DEF Keeps
      <3> QED BY <1>0, <2>1, <2>2, <3>1, FreshStep
    <2>5. ToldInv'
      BY <1>0, <2>1, <2>2 DEF ToldInv
    <2> QED BY <2>3, <2>4, <2>5
  <1>2. CASE CourierCancel(r)
    <2>1. /\ pc[r] = "courierCancel" /\ pc' = [pc EXCEPT ![r] = "cancelSelect"]
          /\ UNCHANGED <<placed, ext, target, shipped, mem, orders, stale, answer>>
      BY <1>2 DEF CourierCancel, Goto
    <2>2. PlacedInv'
      BY <2>1, PlacedStep DEF PlacedInv
    <2>3. FreshInv'
      BY <1>0, <2>1 DEF FreshInv
    <2>4. ToldInv'
      BY <1>0, <2>1 DEF ToldInv
    <2> QED BY <2>2, <2>3, <2>4
  <1>3. CASE CancelSelect(r)
    <2>1. /\ pc[r] = "cancelSelect" /\ pc' = [pc EXCEPT ![r] = "cancelUpdate"]
          /\ UNCHANGED <<placed, orders, ext, target, shipped, answer, stale>>
          /\ mem' = [mem EXCEPT ![r].status = "CANCELLED", ![r].cancelledBy = r]
      BY <1>3 DEF CancelSelect, Goto
    <2>2. PlacedInv'
      BY <2>1, PlacedStep DEF PlacedInv
    <2>3. FreshInv'
      <3>1. r \notin stale => Keeps(mem[r], orders[target[r]])
        BY <2>1 DEF FreshInv
      <3>2. r \notin stale => Keeps(mem'[r], orders[target[r]])
        BY <1>0, <2>1, <3>1, NoneAssumption DEF Keeps, Row
      <3> QED BY <1>0, <2>1, <3>2, FreshStep
    <2>4. ToldInv'
      BY <1>0, <2>1 DEF ToldInv
    <2> QED BY <2>2, <2>3, <2>4
  <1>4. CASE CancelUpdate(r)
    <2>1. /\ pc[r] = "cancelUpdate" /\ pc' = [pc EXCEPT ![r] = "cancelEvent"]
          /\ UNCHANGED <<placed, ext, target, shipped, mem, answer>> /\ UpdateRow(r)
      BY <1>4 DEF CancelUpdate, Goto, UpdateRow
    <2>2. PlacedInv'
      BY <2>1, PlacedStep DEF PlacedInv
    <2>3. FreshInv'
      BY <2>1, FreshUpdate
    <2>4. ToldInv'
      BY <1>0, <2>1 DEF ToldInv
    <2> QED BY <2>2, <2>3, <2>4
  <1>5. CASE CancelEvent(r)
    <2>1. /\ pc[r] = "cancelEvent" /\ pc' = [pc EXCEPT ![r] = "done"]
          /\ answer' = [answer EXCEPT ![r] = "200"]
          /\ UNCHANGED <<placed, ext, target, shipped, mem, orders, stale>>
      BY <1>5 DEF CancelEvent, Finish, appendTrackingEvent
    <2>2. PlacedInv'
      BY <2>1, PlacedStep DEF PlacedInv
    <2>3. FreshInv'
      BY <1>0, <2>1 DEF FreshInv
    <2>4. ToldInv'
      BY <1>0, <2>1 DEF ToldInv
    <2> QED BY <2>2, <2>3, <2>4
  <1> QED BY <1>1, <1>2, <1>3, <1>4, <1>5 DEF cancelOrder

(* Faults, crashes and the courier's scans keep the invariant.             *)
LEMMA EnvironmentIInv ==
  ASSUME IInv, NEW r \in Req, DbFault(r) \/ Crash(r) \/ CourierScan(r)
  PROVE  PlacedInv' /\ FreshInv' /\ ToldInv'
  <1> USE DEF IInv, CreatePc, TrackPc, CancelPc, InFlight
  <1>0. pc \in [Req -> Pc] /\ target \in [Req -> Req \cup {None}] /\ ext \in [Req -> ExtId \cup {None}]
        /\ mem \in [Req -> Row] /\ orders \in [Req -> Row] /\ answer \in [Req -> Answers]
    BY DEF TypeInv, TypeOK
  <1>1. CASE DbFault(r)
    <2>1. UNCHANGED <<placed, orders, ext, target, shipped, stale>>
      BY <1>1 DEF DbFault
    <2>2. CASE /\ pc[r] \in {"createSelect", "createUpdate", "placedEvent"}
               /\ RecordFailure(r) /\ Goto(r, "failSelect")
      <3>1. PlacedInv'
        BY <2>1, <2>2, PlacedStep DEF PlacedInv, Goto
      <3>2. FreshInv'
        <4>1. /\ mem'[r].status = "FAILED" /\ mem[r].status # "CANCELLED"
              /\ mem'[r].cancelledBy = mem[r].cancelledBy /\ mem'[r].awb = mem[r].awb
              /\ \A q \in Req \ {r} : mem'[q] = mem[q]
          BY <1>0, <2>2 DEF RecordFailure, FreshInv, Row
        <4>2. r \notin stale => Keeps(mem'[r], orders[target[r]])
          BY <2>2, <4>1 DEF FreshInv, Keeps
        <4> QED BY <1>0, <2>1, <2>2, <4>1, <4>2, FreshStep DEF Goto
      <3>3. ToldInv'
        BY <1>0, <2>1, <2>2 DEF ToldInv, Goto
      <3> QED BY <3>1, <3>2, <3>3
    <2>3. CASE /\ pc[r] \in {"append", "trackSelect", "trackUpdate"}
               /\ Goto(r, "readEvents") /\ UNCHANGED mem
      <3>1. PlacedInv'
        BY <2>1, <2>3, PlacedStep DEF PlacedInv, Goto
      <3>2. FreshInv'
        BY <1>0, <2>1, <2>3 DEF FreshInv, Goto
      <3>3. ToldInv'
        BY <1>0, <2>1, <2>3 DEF ToldInv, Goto
      <3> QED BY <3>1, <3>2, <3>3
    <2>4. CASE pc[r] \notin {"done", "crashed"} /\ Finish(r, "error") /\ UNCHANGED mem
      <3>1. PlacedInv'
        BY <2>1, <2>4, PlacedStep DEF PlacedInv, Finish
      <3>2. FreshInv'
        BY <1>0, <2>1, <2>4 DEF FreshInv, Finish
      <3>3. ToldInv'
        BY <1>0, <2>1, <2>4 DEF ToldInv, Finish
      <3> QED BY <3>1, <3>2, <3>3
    <2> QED BY <1>1, <2>2, <2>3, <2>4 DEF DbFault
  <1>2. CASE Crash(r)
    <2>1. /\ pc[r] \in InFlight /\ pc' = [pc EXCEPT ![r] = "crashed"]
          /\ UNCHANGED <<placed, orders, ext, target, shipped, answer, stale, mem>>
      BY <1>2 DEF Crash
    <2>2. PlacedInv'
      BY <2>1, PlacedStep DEF PlacedInv
    <2>3. FreshInv'
      BY <1>0, <2>1 DEF FreshInv
    <2>4. ToldInv'
      BY <1>0, <2>1 DEF ToldInv
    <2> QED BY <2>2, <2>3, <2>4
  <1>3. CASE CourierScan(r)
    BY <1>3 DEF CourierScan, PlacedInv, FreshInv, ToldInv
  <1> QED BY <1>1, <1>2, <1>3

(* Every step keeps the invariant.                                         *)
LEMMA NextIInv == IInv /\ [Next]_vars => IInv'
  <1> SUFFICES ASSUME IInv, [Next]_vars PROVE IInv'
    OBVIOUS
  <1>1. TypeInv'
    BY NextType DEF IInv
  <1>2. PlacedInv' /\ FreshInv' /\ ToldInv'
    <2>1. CASE UNCHANGED vars
      BY <2>1 DEF vars, IInv, PlacedInv, FreshInv, ToldInv
    <2> QED BY <2>1, CreateIInv, TrackIInv, CancelIInv, EnvironmentIInv DEF Next, Serve
  <1> QED BY <1>1, <1>2 DEF IInv

(* The invariant holds in every reachable state of OrderService.           *)
THEOREM Invariant == Spec => []IInv
  BY InitIInv, NextIInv, PTL DEF Spec

(* How often an order was booked: nothing before its one call of the       *)
(* adapter, and what that call may send after it.                          *)
BookedInv ==
  \A o \in Req : /\ shipments[o] <= maxRetries + 1
                 /\ pc[o] \in {"idle", "insert", "manifest"} => shipments[o] = 0

(* Only the call of the adapter books, and a request makes one.            *)
LEMMA NextBooked == TypeInv /\ BookedInv /\ [Next]_vars => BookedInv'
  <1> SUFFICES ASSUME TypeInv, BookedInv, [Next]_vars PROVE BookedInv'
    OBVIOUS
  <1>0. pc \in [Req -> Pc] /\ shipments \in [Req -> Nat]
    BY DEF TypeInv, TypeOK
  <1>1. ASSUME NEW r \in Req, Manifest(r) PROVE BookedInv'
    <2>1. PICK n \in 0..maxRetries + 1 : Book(r, n)
      BY <1>1, RetriesAssumption DEF Manifest
    <2>2. pc[r] = "manifest" /\ (pc' = [pc EXCEPT ![r] = "createSelect"] \/ pc' = [pc EXCEPT ![r] = "failSelect"])
      BY <1>1 DEF Manifest, Goto
    <2>3. shipments'[r] <= maxRetries + 1 /\ \A o \in Req \ {r} : shipments'[o] = shipments[o]
      BY <1>0, <2>1, <2>2, BookShips, RetriesAssumption DEF BookedInv
    <2> QED BY <1>0, <2>2, <2>3 DEF BookedInv
  <1>2. ASSUME UNCHANGED shipments,
               \A o \in Req : pc'[o] \in {"idle", "insert", "manifest"} => pc[o] \in {"idle", "insert", "manifest"}
        PROVE  BookedInv'
    BY <1>2 DEF BookedInv
  <1>3. ASSUME NEW r \in Req, createOrder(r), ~Manifest(r)
        PROVE  /\ UNCHANGED shipments
               /\ \A o \in Req : pc'[o] \in {"idle", "insert", "manifest"}
                                   => pc[o] \in {"idle", "insert", "manifest"}
    BY <1>0, <1>3 DEF createOrder, CreateFind, Insert, CreateSelect, CreateUpdate, PlacedEvent,
         FailSelect, FailUpdate, Goto, Finish
  <1>4. ASSUME NEW r \in Req, trackOrder(r) \/ cancelOrder(r)
        PROVE  /\ UNCHANGED shipments
               /\ \A o \in Req : pc'[o] \in {"idle", "insert", "manifest"}
                                   => pc[o] \in {"idle", "insert", "manifest"}
    BY <1>0, <1>4 DEF trackOrder, cancelOrder, TrackFind, Fetch, AppendScan, AfterReply, TrackSelect,
         TrackUpdate, ReadEvents, CancelFind, CourierCancel, CancelSelect, CancelUpdate, CancelEvent,
         Goto, Finish
  <1>5. ASSUME NEW r \in Req, DbFault(r) \/ Crash(r) \/ CourierScan(r)
        PROVE  /\ UNCHANGED shipments
               /\ \A o \in Req : pc'[o] \in {"idle", "insert", "manifest"}
                                   => pc[o] \in {"idle", "insert", "manifest"}
    BY <1>0, <1>5 DEF DbFault, Crash, CourierScan, Goto, Finish
  <1>6. CASE UNCHANGED vars
    BY <1>2, <1>6 DEF vars
  <1> QED BY <1>1, <1>2, <1>3, <1>4, <1>5, <1>6 DEF Next, Serve

(* Shipments of one external id belong to one order, and there is at most  *)
(* one of them for each time its POST was sent.                            *)
THEOREM ShipmentsBounded == Spec => []RepeatedPostOnly
  <1>1. Init => BookedInv
    BY RetriesAssumption DEF Init, BookedInv
  <1>2. IInv /\ BookedInv => RepeatedPostOnly
    BY DEF IInv, PlacedInv, BookedInv, RepeatedPostOnly
  <1>3. IInv => TypeInv
    BY DEF IInv
  <1> QED BY <1>1, <1>2, <1>3, NextBooked, Invariant, PTL DEF Spec

(* The documented promise holds for a courier that is configured with no   *)
(* retries: the repeated POST is all that breaks it.                       *)
THEOREM NoRetriesNoDuplicates ==
  ASSUME maxRetries = 0
  PROVE  Spec => []NoDuplicateShipments
  <1>1. RepeatedPostOnly => NoDuplicateShipments
    BY DEF RepeatedPostOnly, NoDuplicateShipments
  <1> QED BY <1>1, ShipmentsBounded, PTL

(* Every shipment has its row.                                             *)
THEOREM ShipmentsRecorded == Spec => []RowBeforeShipment
  <1>1. IInv => RowBeforeShipment
    BY DEF IInv, PlacedInv, RowBeforeShipment
  <1> QED BY <1>1, Invariant, PTL
-----------------------------------------------------------------------------
(* Whom a fresh entity may take for the canceller of its order: the one of *)
(* its row, or the request itself while the row is still open.             *)
Cancelling == {"courierCancel", "cancelSelect", "cancelUpdate"}

SameCanceller(r) ==
  /\ pc[r] \in Cancelling => orders[target[r]].status \notin {"DELIVERED", "FAILED"}
  /\ pc[r] \notin Cancelling => mem[r].cancelledBy = orders[target[r]].cancelledBy

Watched == InFlight \ {"insert", "cancelEvent"}

OpenInv == \A r \in Req \ stale : pc[r] \in Watched => SameCanceller(r)

(* A step of a request that does not write the table orders.               *)
LEMMA OpenStep ==
  ASSUME OpenInv, NEW r \in Req, UNCHANGED orders,
         \A q \in Req \ {r} : /\ pc'[q] = pc[q] /\ mem'[q] = mem[q]
                              /\ target'[q] = target[q] /\ (q \in stale => q \in stale'),
         r \notin stale' /\ pc'[r] \in Watched => SameCanceller(r)'
  PROVE  OpenInv'
  BY DEF OpenInv, SameCanceller

(* A step that leaves entity and order alone, to an await of its kind.     *)
LEMMA OpenGoto ==
  ASSUME TypeInv, OpenInv, NEW r \in Req, NEW p, pc' = [pc EXCEPT ![r] = p],
         UNCHANGED <<orders, target, stale>>,
         \A q \in Req \ {r} : mem'[q] = mem[q],
         p \in Watched => pc[r] \in Watched /\ (pc[r] \in Cancelling <=> p \in Cancelling),
         p \in Watched \ Cancelling => mem'[r].cancelledBy = mem[r].cancelledBy
  PROVE  OpenInv'
  <1>1. pc'[r] = p /\ \A q \in Req \ {r} : pc'[q] = pc[q]
    BY DEF TypeInv, TypeOK
  <1>2. r \notin stale' /\ pc'[r] \in Watched => SameCanceller(r)'
    BY <1>1 DEF OpenInv, SameCanceller
  <1> QED BY <1>1, <1>2, OpenStep

(* A save makes everybody else who holds the order stale, or writes        *)
(* nothing.                                                                *)
LEMMA OpenUpdate ==
  ASSUME TypeInv, OpenInv, NEW r \in Req, pc[r] \in Watched, NEW p,
         pc' = [pc EXCEPT ![r] = p], UpdateRow(r), UNCHANGED <<mem, target>>,
         p \in Watched => p \notin Cancelling /\ pc[r] \notin Cancelling
  PROVE  OpenInv'
  <1>1. target[r] \in Req /\ mem[r] \in Row /\ orders[target[r]] \in Row
    BY DEF TypeInv, TypeOK, TargetOK, Watched
  <1>2. ASSUME NEW q \in Req, q \notin stale', pc'[q] \in Watched
        PROVE  SameCanceller(q)'
    <2>1. q \notin stale
      BY <1>2 DEF UpdateRow
    <2>2. q # r => pc'[q] = pc[q] /\ pc[q] \in Watched
      BY <1>2 DEF TypeInv, TypeOK
    <2>3. pc[q] \in Watched /\ SameCanceller(q)
      BY <2>1, <2>2 DEF OpenInv
    <2>4. CASE q = r
      <3>1. orders'[target[r]] = Merge(orders[target[r]], mem[r], dirty[r])
        BY <1>1 DEF UpdateRow, TypeInv, TypeOK
      <3>2. mem[r].cancelledBy = orders'[target[r]].cancelledBy
        <4>1. pc'[r] = p
          BY DEF TypeInv, TypeOK
        <4>2. mem[r].cancelledBy = orders[target[r]].cancelledBy
          BY <1>2, <2>3, <2>4, <4>1 DEF SameCanceller
        <4> QED BY <3>1, <4>2 DEF Merge
      <3> QED BY <1>2, <2>4, <3>2 DEF SameCanceller, TypeInv, TypeOK
    <2>5. CASE q # r /\ orders'[target[q]] = orders[target[q]]
      BY <2>2, <2>3, <2>5 DEF SameCanceller
    <2>6. CASE q # r /\ orders'[target[q]] # orders[target[q]]
      <3>1. target[q] = target[r]
        BY <1>1, <2>6 DEF UpdateRow, TypeInv, TypeOK
      <3>2. dirty[r] # {}
        BY <1>1, <2>6, <3>1, MergeNothing DEF UpdateRow, TypeInv, TypeOK
      <3> QED BY <1>2, <2>2, <2>6, <3>1, <3>2 DEF UpdateRow, Watched
    <2> QED BY <2>4, <2>5, <2>6
  <1> QED BY <1>2 DEF OpenInv

(* The steps of createOrder keep it: a create cancels nothing.             *)
LEMMA CreateOpen ==
  ASSUME IInv, OpenInv, NEW r \in Req, createOrder(r)
  PROVE  OpenInv'
  <1> USE DEF IInv, CreatePc, TrackPc, CancelPc, InFlight, Watched, Cancelling
  <1>0. /\ TypeInv /\ pc \in [Req -> Pc] /\ target \in [Req -> Req \cup {None}]
        /\ mem \in [Req -> Row] /\ orders \in [Req -> Row]
    BY DEF TypeInv, TypeOK
  <1>1. CASE CreateFind(r)
    <2>1. /\ UNCHANGED <<orders, mem, stale>> /\ \A q \in Req \ {r} : target'[q] = target[q]
          /\ (\E p \in {"done", "insert"} : pc' = [pc EXCEPT ![r] = p])
      BY <1>0, <1>1 DEF CreateFind, Goto, Finish
    <2> QED BY <1>0, <2>1, OpenStep
  <1>2. CASE Insert(r)
    <2>1. CASE ExtTaken(ext[r])
      BY <1>0, <1>2, <2>1, OpenGoto DEF Insert, Finish
    <2>2. CASE ~ExtTaken(ext[r])
      <3>1. /\ pc[r] = "insert" /\ r \notin placed /\ target[r] = r /\ UNCHANGED <<target, stale>>
            /\ orders' = [orders EXCEPT ![r] = NewOrder] /\ mem' = [mem EXCEPT ![r] = NewOrder]
            /\ pc' = [pc EXCEPT ![r] = "manifest"]
        BY <1>2, <2>2 DEF Insert, Goto, PlacedInv
      <3>2. SameCanceller(r)'
        BY <1>0, <3>1 DEF SameCanceller
      <3>3. ASSUME NEW q \in Req \ {r}, pc'[q] \in Watched
            PROVE  /\ pc'[q] = pc[q] /\ mem'[q] = mem[q] /\ target'[q] = target[q]
                   /\ orders'[target[q]] = orders[target[q]]
        BY <1>0, <3>1, <3>3 DEF PlacedInv
      <3> QED BY <3>1, <3>2, <3>3 DEF OpenInv, SameCanceller
    <2> QED BY <2>1, <2>2
  <1>3. CASE Manifest(r)
    <2>1. mem'[r].cancelledBy = mem[r].cancelledBy /\ \A q \in Req \ {r} : mem'[q] = mem[q]
      BY <1>0, <1>3 DEF Manifest, RecordFailure, Row
    <2> QED BY <1>0, <1>3, <2>1, OpenGoto DEF Manifest, Goto
  <1>4. CASE CreateSelect(r) \/ FailSelect(r) \/ PlacedEvent(r)
    BY <1>0, <1>4, OpenGoto DEF CreateSelect, FailSelect, PlacedEvent, Goto, Finish, appendTrackingEvent
  <1>5. CASE CreateUpdate(r) \/ FailUpdate(r)
    BY <1>0, <1>5, OpenUpdate DEF CreateUpdate, FailUpdate, Goto, Finish
  <1> QED BY <1>1, <1>2, <1>3, <1>4, <1>5 DEF createOrder

(* The steps of trackOrder keep it: the status alone of an entity changes. *)
LEMMA TrackOpen ==
  ASSUME IInv, OpenInv, NEW r \in Req, trackOrder(r)
  PROVE  OpenInv'
  <1> USE DEF IInv, CreatePc, TrackPc, CancelPc, InFlight, Watched, Cancelling
  <1>0. /\ TypeInv /\ pc \in [Req -> Pc] /\ target \in [Req -> Req \cup {None}]
        /\ mem \in [Req -> Row] /\ orders \in [Req -> Row]
    BY DEF TypeInv, TypeOK
  <1>1. CASE TrackFind(r)
    <2>1. PICK o \in Req :
            \/ pc' = [pc EXCEPT ![r] = "done"] /\ UNCHANGED <<target, mem, stale>>
            \/ /\ \E p \in {"fetch", "readEvents"} : pc' = [pc EXCEPT ![r] = p]
               /\ target' = [target EXCEPT ![r] = o]
               /\ mem' = [mem EXCEPT ![r] = orders[o]] /\ stale' = stale \ {r}
      BY <1>1 DEF TrackFind, Finish, Goto, LoadEntity
    <2>2. pc'[r] \in Watched => SameCanceller(r)'
      BY <1>0, <1>1, <2>1 DEF SameCanceller, TrackFind
    <2> QED BY <1>0, <1>1, <2>1, <2>2, OpenStep DEF TrackFind
  <1>2. CASE Fetch(r) \/ AppendScan(r)
    <2>1. \A n : AfterReply(r, n) => mem' = mem \/ mem' = [mem EXCEPT ![r].status = currentStatus(target[r], n)]
      BY DEF AfterReply
    <2>2. mem'[r].cancelledBy = mem[r].cancelledBy /\ \A q \in Req \ {r} : mem'[q] = mem[q]
      BY <1>0, <1>2, <2>1 DEF Fetch, AppendScan, Row
    <2>3. /\ pc[r] \in {"fetch", "append"} /\ UNCHANGED <<orders, target, stale>>
          /\ \E p \in {"append", "trackSelect", "readEvents"} : pc' = [pc EXCEPT ![r] = p]
      BY <1>2 DEF Fetch, AppendScan, AfterReply, Goto, appendTrackingEvent
    <2> QED BY <1>0, <2>2, <2>3, OpenGoto
  <1>3. CASE TrackSelect(r) \/ ReadEvents(r)
    BY <1>0, <1>3, OpenGoto DEF TrackSelect, ReadEvents, Goto, Finish
  <1>4. CASE TrackUpdate(r)
    BY <1>0, <1>4, OpenUpdate DEF TrackUpdate, Goto
  <1> QED BY <1>1, <1>2, <1>3, <1>4 DEF trackOrder

(* The steps of cancelOrder keep it: an order that is DELIVERED or FAILED  *)
(* is refused.                                                             *)
LEMMA CancelOpen ==
  ASSUME IInv, OpenInv, NEW r \in Req, cancelOrder(r)
  PROVE  OpenInv'
  <1> USE DEF IInv, CreatePc, TrackPc, CancelPc, InFlight, Watched, Cancelling
  <1>0. /\ TypeInv /\ pc \in [Req -> Pc] /\ target \in [Req -> Req \cup {None}]
        /\ mem \in [Req -> Row] /\ orders \in [Req -> Row]
    BY DEF TypeInv, TypeOK
  <1>1. CASE CancelFind(r)
    <2>1. PICK o \in Req :
            \/ pc' = [pc EXCEPT ![r] = "done"] /\ UNCHANGED <<target, mem, stale>>
            \/ /\ orders[o].status \in {"CREATED", "PICKED_UP", "IN_TRANSIT"}
               /\ \E p \in {"courierCancel", "cancelSelect"} : pc' = [pc EXCEPT ![r] = p]
               /\ target' = [target EXCEPT ![r] = o]
               /\ mem' = [mem EXCEPT ![r] = orders[o]] /\ stale' = stale \ {r}
      BY <1>1 DEF CancelFind, Finish, Goto, LoadEntity
    <2>2. pc'[r] \in Watched => SameCanceller(r)'
      BY <1>0, <1>1, <2>1 DEF SameCanceller, CancelFind
    <2> QED BY <1>0, <1>1, <2>1, <2>2, OpenStep DEF CancelFind
  <1>2. CASE CourierCancel(r) \/ CancelEvent(r)
    BY <1>0, <1>2, OpenGoto DEF CourierCancel, CancelEvent, Goto, Finish, appendTrackingEvent
  <1>3. CASE CancelSelect(r)
    <2>1. \A q \in Req \ {r} : mem'[q] = mem[q]
      BY <1>0, <1>3 DEF CancelSelect
    <2> QED BY <1>0, <1>3, <2>1, OpenGoto DEF CancelSelect, Goto
  <1>4. CASE CancelUpdate(r)
    BY <1>0, <1>4, OpenUpdate DEF CancelUpdate, Goto
  <1> QED BY <1>1, <1>2, <1>3, <1>4 DEF cancelOrder

(* Faults, crashes and scans keep it.                                      *)
LEMMA EnvironmentOpen ==
  ASSUME IInv, OpenInv, NEW r \in Req, DbFault(r) \/ Crash(r) \/ CourierScan(r)
  PROVE  OpenInv'
  <1> USE DEF IInv, CreatePc, TrackPc, CancelPc, InFlight, Watched, Cancelling
  <1>0. TypeInv /\ pc \in [Req -> Pc] /\ mem \in [Req -> Row]
    BY DEF TypeInv, TypeOK
  <1>1. CASE DbFault(r)
    <2>1. mem'[r].cancelledBy = mem[r].cancelledBy /\ \A q \in Req \ {r} : mem'[q] = mem[q]
      BY <1>0, <1>1 DEF DbFault, RecordFailure, Row
    <2> QED BY <1>0, <1>1, <2>1, OpenGoto DEF DbFault, Goto, Finish
  <1>2. CASE Crash(r)
    BY <1>0, <1>2, OpenGoto DEF Crash
  <1>3. CASE CourierScan(r)
    BY <1>3 DEF CourierScan, OpenInv, SameCanceller
  <1> QED BY <1>1, <1>2, <1>3

(* Every step keeps it.                                                    *)
LEMMA NextOpen == IInv /\ OpenInv /\ [Next]_vars => OpenInv'
  <1> SUFFICES ASSUME IInv, OpenInv, [Next]_vars PROVE OpenInv'
    OBVIOUS
  <1>1. CASE UNCHANGED vars
    BY <1>1 DEF vars, OpenInv, SameCanceller
  <1> QED BY <1>1, CreateOpen, TrackOpen, CancelOpen, EnvironmentOpen DEF Next, Serve

(* Every step that takes an AWB, a canceller or a cancellation off a row,  *)
(* or cancels a DELIVERED or FAILED one, is the UPDATE of a request that   *)
(* another request's write made stale.                                     *)
LEMMA LossStep ==
  ASSUME IInv, OpenInv, [Next]_vars, NEW o \in placed, LosesData(o)
  PROVE  \E r \in stale : target[r] = o /\ pc[r] \in Saving /\ pc'[r] # pc[r]
  <1> USE DEF IInv
  <1>0. /\ o \in Req /\ placed \subseteq Req /\ orders \in [Req -> Row] /\ mem \in [Req -> Row]
        /\ pc \in [Req -> Pc] /\ stale \subseteq Req /\ orders[o] \in Row
    BY DEF TypeInv, TypeOK
  <1>1. orders' # orders
    BY DEF LosesData
  <1>2. PICK r \in Req :
          \/ Insert(r)
          \/ /\ UpdateRow(r) /\ pc[r] \in Saving
             /\ pc' = [pc EXCEPT ![r] = "placedEvent"] \/ pc' = [pc EXCEPT ![r] = "done"]
                  \/ pc' = [pc EXCEPT ![r] = "readEvents"] \/ pc' = [pc EXCEPT ![r] = "cancelEvent"]
    BY <1>1 DEF vars, Next, Serve, createOrder, trackOrder, cancelOrder, Goto, Finish, Saving,
         CreateFind, Manifest, CreateSelect, CreateUpdate, PlacedEvent, FailSelect, FailUpdate,
         TrackFind, Fetch, AppendScan, TrackSelect, TrackUpdate, ReadEvents, CancelFind,
         CourierCancel, CancelSelect, CancelUpdate, CancelEvent, DbFault, Crash, CourierScan,
         appendTrackingEvent
  <1>3. CASE Insert(r)
    <2>1. r # o
      BY <1>3 DEF Insert, PlacedInv
    <2>2. orders'[o] = orders[o]
      BY <1>0, <1>3, <2>1 DEF Insert
    <2> QED BY <2>2 DEF LosesData
  <1>4. CASE UpdateRow(r) /\ pc[r] \in Saving
    <2>1. pc[r] \in InFlight \ {"insert"} /\ target[r] \in Req
      BY <1>4 DEF Saving, InFlight, CreatePc, TrackPc, CancelPc, TypeInv, TargetOK
    <2>2. target[r] = o
      BY <1>0, <1>4, <2>1 DEF UpdateRow, LosesData
    <2>3. orders'[o] = Merge(orders[o], mem[r], dirty[r])
      BY <1>0, <1>4, <2>2 DEF UpdateRow
    <2>4. \/ ~Keeps(mem[r], orders[o])
          \/ /\ orders[o].status \in {"DELIVERED", "FAILED"}
             /\ mem[r].cancelledBy # orders[o].cancelledBy
      BY <1>0, <2>3 DEF LosesData, Keeps, Merge, Row
    <2>5. r \in stale
      <3>1. pc[r] \in Watched
        BY <1>4, <2>1 DEF Saving, Watched
      <3> QED BY <2>1, <2>2, <2>4, <3>1 DEF FreshInv, OpenInv, SameCanceller
    <2>6. pc'[r] # pc[r]
      BY <1>0, <1>2, <1>3, <1>4 DEF Saving, Insert
    <2> QED BY <1>4, <2>2, <2>5, <2>6
  <1> QED BY <1>2, <1>3, <1>4

(* Requests of OrderService that do not overlap on an order never lose its *)
(* AWB, its canceller or its cancellation, nor cancel it when it is over.  *)
THEOREM OnlyStaleLoses == Spec => OnlyStaleSavesLoseData
  <1>0. Init => OpenInv
    BY DEF Init, OpenInv, Watched, InFlight, CreatePc, TrackPc, CancelPc
  <1>1. IInv /\ OpenInv /\ [Next]_vars =>
          [\A o \in placed : LosesData(o) =>
             \E r \in stale : target[r] = o /\ pc[r] \in Saving /\ pc'[r] # pc[r]]_vars
    BY LossStep
  <1> QED BY <1>0, <1>1, NextOpen, Invariant, PTL DEF Spec, OnlyStaleSavesLoseData
-----------------------------------------------------------------------------
(* Refinement of OrderLedger.  The owner of an external id is read off the *)
(* rows, so it is well defined because the ids of the rows are distinct.   *)
LEMMA OwnerOfRow ==
  ASSUME IInv
  PROVE  /\ \A o \in placed : OwnerOf(ext[o]) = o
         /\ \A e : ~ExtTaken(e) => OwnerOf(e) = None
         /\ \A e : ExtTaken(e) => OwnerOf(e) \in placed /\ ext[OwnerOf(e)] = e
  <1>1. \A e : ExtTaken(e) => OwnerOf(e) \in placed /\ ext[OwnerOf(e)] = e
    BY DEF OwnerOf, ExtTaken
  <1>2. \A o \in placed : ExtTaken(ext[o])
    BY DEF ExtTaken
  <1>3. \A o \in placed : OwnerOf(ext[o]) = o
    BY <1>1, <1>2 DEF IInv, PlacedInv
  <1> QED BY <1>1, <1>3 DEF OwnerOf

(* In the ledger a request owns an external id iff it placed its row.      *)
LEMMA OwnsIffPlaced ==
  ASSUME IInv, NEW r \in Req
  PROVE  Ledger!Owns(r) <=> r \in placed
  <1>1. ASSUME NEW e \in ExtId, OwnerOf(e) = r PROVE r \in placed
    BY <1>1, OwnerOfRow, NoneAssumption
  <1>2. r \in placed => ext[r] \in ExtId /\ OwnerOf(ext[r]) = r
    BY OwnerOfRow DEF IInv, PlacedInv
  <1> QED BY <1>1, <1>2 DEF Ledger!Owns

(* The service starts with an empty ledger.                                *)
LEMMA LedgerInitially == Init => Ledger!LedgerInit
  BY DEF Init, shipped, Ledger!LedgerInit, OwnerOf, ExtTaken, OutcomeOf

(* A step that leaves rows, shipments and answers alone is a stutter.      *)
LEMMA SameOwners ==
  ASSUME UNCHANGED placed, \A o \in placed : ext'[o] = ext[o], NEW e, IInv, IInv'
  PROVE  OwnerOf(e)' = OwnerOf(e)
  <1>1. ExtTaken(e)' <=> ExtTaken(e)
    BY DEF ExtTaken
  <1>2. CASE ExtTaken(e)
    <2>1. PICK o \in placed : ext[o] = e
      BY <1>2 DEF ExtTaken
    <2>2. OwnerOf(e) = o
      BY <2>1, OwnerOfRow
    <2>3. OwnerOf(e)' = o
      <3>1. o \in placed' /\ ext'[o] = e
        BY <2>1
      <3>2. ExtTaken(e)'
        BY <1>1, <1>2
      <3>3. OwnerOf(e)' \in placed' /\ ext'[OwnerOf(e)'] = e
        BY <3>2 DEF OwnerOf, ExtTaken
      <3> QED BY <3>1, <3>3 DEF IInv, PlacedInv
    <2> QED BY <2>2, <2>3
  <1>3. CASE ~ExtTaken(e)
    BY <1>1, <1>3 DEF OwnerOf
  <1> QED BY <1>2, <1>3

(* A request that is answered changes its own outcome only.                *)
LEMMA OutcomeStep ==
  ASSUME IInv, NEW r \in Req, NEW a, Finish(r, a)
  PROVE  [q \in Req |-> OutcomeOf(answer'[q])]
           = [[q \in Req |-> OutcomeOf(answer[q])] EXCEPT ![r] = OutcomeOf(a)]
  BY DEF Finish, IInv, TypeInv, TypeOK

(* What the ledger does not see.                                           *)
LEMMA QuietStep ==
  ASSUME IInv, IInv', UNCHANGED <<placed, shipped, answer>>, \A o \in placed : ext'[o] = ext[o]
  PROVE  UNCHANGED Ledger!ledger
  <1>1. \A e : OwnerOf(e)' = OwnerOf(e)
    BY SameOwners
  <1> QED BY <1>1 DEF Ledger!ledger

(* An answer, to a request that had none.                                  *)
LEMMA AnswerStep ==
  ASSUME IInv, IInv', NEW r \in Req, NEW a \in {"201", "400", "404", "409", "error", "200"},
         Finish(r, a), UNCHANGED <<placed, shipped>>, \A o \in placed : ext'[o] = ext[o],
         pc[r] # "done",
         a = "201" => r \in shipped,
         a = "409" => r \notin placed /\ \E e \in ExtId : ExtTaken(e)
  PROVE  [Ledger!LedgerNext]_(Ledger!ledger)
  <1>1. \A e : OwnerOf(e)' = OwnerOf(e)
    BY SameOwners
  <1>2. OutcomeOf(answer[r]) = "none"
    BY DEF IInv, ToldInv, OutcomeOf
  <1>3. CASE a = "200"
    <2>1. OutcomeOf(a) = "none"
      BY <1>3 DEF OutcomeOf
    <2>2. \A q \in Req : OutcomeOf(answer'[q]) = OutcomeOf(answer[q])
      BY <1>2, <2>1 DEF Finish, IInv, TypeInv, TypeOK
    <2> QED BY <1>1, <2>2 DEF Ledger!ledger
  <1>4. CASE a # "200"
    <2>1. \/ a = "201" /\ OutcomeOf(a) = "created"
          \/ a = "409" /\ OutcomeOf(a) = "duplicate"
          \/ OutcomeOf(a) = "failed"
      BY <1>4 DEF OutcomeOf
    <2>2. Ledger!Tell(r, OutcomeOf(a))
      BY <1>1, <1>2, OutcomeStep DEF Ledger!Tell
    <2>3. a = "201" => Ledger!Created(r)
      BY <2>1, <2>2 DEF Ledger!Created, OutcomeOf
    <2>4. a = "409" => Ledger!Duplicate(r)
      <3>1. ASSUME a = "409" PROVE \E e \in ExtId : OwnerOf(e) # None
        <4>1. PICK e \in ExtId : ExtTaken(e)
          BY <3>1
        <4>2. OwnerOf(e) \in placed /\ placed \subseteq Req
          BY <4>1, OwnerOfRow DEF IInv, TypeInv, TypeOK
        <4> QED BY <4>2, NoneAssumption
      <3> QED BY <2>1, <2>2, <3>1, OwnsIffPlaced DEF Ledger!Duplicate, OutcomeOf
    <2>5. OutcomeOf(a) = "failed" => Ledger!Fail(r)
      BY <2>2 DEF Ledger!Fail
    <2> QED BY <2>1, <2>3, <2>4, <2>5 DEF Ledger!LedgerNext
  <1> QED BY <1>3, <1>4

(* The INSERT claims the external id.                                      *)
LEMMA InsertStep ==
  ASSUME IInv, IInv', NEW r \in Req, Insert(r)
  PROVE  [Ledger!LedgerNext]_(Ledger!ledger)
  <1>1. pc[r] = "insert" /\ r \notin placed /\ ext[r] \in ExtId /\ UNCHANGED <<ext, shipped>>
    BY DEF Insert, IInv, PlacedInv
  <1>2. CASE ExtTaken(ext[r])
    <2>1. Finish(r, "error") /\ UNCHANGED placed
      BY <1>2 DEF Insert
    <2> QED BY <1>1, <2>1, AnswerStep
  <1>3. CASE ~ExtTaken(ext[r])
    <2>1. placed' = placed \cup {r} /\ UNCHANGED answer
      BY <1>3 DEF Insert, Goto
    <2>2. OwnerOf(ext[r]) = None
      BY <1>3, OwnerOfRow
    <2>3. OwnerOf(ext[r])' = r
      <3>1. r \in placed' /\ ext'[r] = ext[r]
        BY <1>1, <2>1
      <3>2. \A o \in placed' : OwnerOf(ext[o])' = o
        <4>1. \A o \in placed' : ExtTaken(ext[o])'
          BY <1>1 DEF ExtTaken
        <4>2. \A o \in placed' : OwnerOf(ext[o])' \in placed' /\ ext'[OwnerOf(ext[o])'] = ext[o]
          BY <1>1, <4>1 DEF OwnerOf, ExtTaken
        <4> QED BY <1>1, <4>2 DEF IInv, PlacedInv
      <3> QED BY <3>1, <3>2
    <2>4. ASSUME NEW e \in ExtId, e # ext[r] PROVE OwnerOf(e)' = OwnerOf(e)
      <3>1. \A o : o \in placed' /\ ext'[o] = e <=> o \in placed /\ ext[o] = e
        BY <1>1, <2>1, <2>4
      <3>2. ExtTaken(e)' <=> ExtTaken(e)
        BY <3>1 DEF ExtTaken
      <3>3. CASE ExtTaken(e)
        <4>1. OwnerOf(e) \in placed /\ ext[OwnerOf(e)] = e
          BY <3>3, OwnerOfRow
        <4>2. OwnerOf(e)' \in placed' /\ ext'[OwnerOf(e)'] = e
          BY <3>2, <3>3 DEF OwnerOf, ExtTaken
        <4>3. OwnerOf(e)' \in placed /\ ext[OwnerOf(e)'] = e
          BY <3>1, <4>2
        <4> QED BY <4>1, <4>3 DEF IInv, PlacedInv
      <3>4. CASE ~ExtTaken(e)
        BY <3>2, <3>4 DEF OwnerOf
      <3> QED BY <3>3, <3>4
    <2>5. [e \in ExtId |-> OwnerOf(e)]' = [[e \in ExtId |-> OwnerOf(e)] EXCEPT ![ext[r]] = r]
      BY <1>1, <2>3, <2>4
    <2>6. OutcomeOf(answer[r]) = "none"
      BY <1>1 DEF IInv, ToldInv, OutcomeOf
    <2>7. Ledger!Claim(r)
      BY <1>1, <2>1, <2>2, <2>5, <2>6, OwnsIffPlaced DEF Ledger!Claim
    <2> QED BY <2>7 DEF Ledger!LedgerNext
  <1> QED BY <1>2, <1>3

(* The manifest call books, or leaves the ledger as it was.                *)
LEMMA ManifestStep ==
  ASSUME IInv, IInv', NEW r \in Req, Manifest(r)
  PROVE  [Ledger!LedgerNext]_(Ledger!ledger)
  <1>1. /\ pc[r] = "manifest" /\ UNCHANGED <<placed, ext, answer>>
        /\ shipped' = shipped \/ shipped' = shipped \cup {r}
    <2>1. PICK n \in 0..maxRetries + 1 : Book(r, n)
      BY RetriesAssumption DEF Manifest
    <2> QED BY <2>1, BookShips DEF Manifest, Goto, IInv, TypeInv, TypeOK
  <1>2. CASE shipped' = shipped
    BY <1>1, <1>2, QuietStep
  <1>3. CASE shipped' = shipped \cup {r}
    <2>1. OutcomeOf(answer[r]) = "none"
      BY <1>1 DEF IInv, ToldInv, OutcomeOf
    <2>2. Ledger!Owns(r)
      BY <1>1, OwnsIffPlaced DEF IInv, PlacedInv, InFlight, CreatePc
    <2>3. \A e : OwnerOf(e)' = OwnerOf(e)
      BY <1>1, SameOwners
    <2>4. Ledger!Book(r)
      BY <1>1, <1>3, <2>1, <2>2, <2>3 DEF Ledger!Book
    <2> QED BY <2>4 DEF Ledger!LedgerNext
  <1> QED BY <1>1, <1>2, <1>3

(* Every step of the service is a step of the ledger or leaves it alone.   *)
LEMMA LedgerStep == IInv /\ IInv' /\ [Next]_vars => [Ledger!LedgerNext]_(Ledger!ledger)
  <1> SUFFICES ASSUME IInv, IInv', [Next]_vars PROVE [Ledger!LedgerNext]_(Ledger!ledger)
    OBVIOUS
  <1>1. CASE UNCHANGED vars
    BY <1>1, QuietStep DEF vars
  <1>2. ASSUME NEW r \in Req, createOrder(r) PROVE [Ledger!LedgerNext]_(Ledger!ledger)
    <2>1. CASE CreateFind(r)
      <3>1. PICK e \in ExtId :
              /\ ext' = [ext EXCEPT ![r] = e]
              /\ \/ ExtTaken(e) /\ Finish(r, "409")
                 \/ Finish(r, "400")
                 \/ Goto(r, "insert")
        BY <2>1 DEF CreateFind
      <3>2. pc[r] = "idle" /\ r \notin placed /\ UNCHANGED <<placed, shipped>>
        BY <2>1 DEF CreateFind, IInv, PlacedInv
      <3>3. \A o \in placed : ext'[o] = ext[o]
        BY <3>1, <3>2 DEF IInv, TypeInv, TypeOK
      <3>4. CASE Goto(r, "insert")
        BY <3>2, <3>3, <3>4, QuietStep DEF Goto
      <3>5. CASE ExtTaken(e) /\ Finish(r, "409")
        BY <3>2, <3>3, <3>5, AnswerStep
      <3>6. CASE Finish(r, "400")
        BY <3>2, <3>3, <3>6, AnswerStep
      <3> QED BY <3>1, <3>4, <3>5, <3>6
    <2>2. CASE CreateSelect(r) \/ CreateUpdate(r) \/ FailSelect(r)
      BY <2>2, QuietStep DEF CreateSelect, CreateUpdate, FailSelect, Goto, UpdateRow
    <2>3. CASE PlacedEvent(r)
      <3>1. /\ pc[r] = "placedEvent" /\ Finish(r, "201") /\ UNCHANGED <<placed, shipped, ext>>
            /\ r \in shipped
        BY <2>3 DEF PlacedEvent, appendTrackingEvent, IInv, ToldInv
      <3> QED BY <3>1, AnswerStep
    <2>4. CASE FailUpdate(r)
      <3>1. pc[r] = "failUpdate" /\ Finish(r, "error") /\ UNCHANGED <<placed, shipped, ext>>
        BY <2>4 DEF FailUpdate, UpdateRow
      <3> QED BY <3>1, AnswerStep
    <2> QED BY <1>2, <2>1, <2>2, <2>3, <2>4, InsertStep, ManifestStep DEF createOrder
  <1>3. ASSUME NEW r \in Req, trackOrder(r) \/ cancelOrder(r)
        PROVE  [Ledger!LedgerNext]_(Ledger!ledger)
    <2>1. /\ UNCHANGED <<placed, shipped, ext>> /\ pc[r] # "done"
          /\ UNCHANGED answer \/ Finish(r, "200") \/ Finish(r, "400") \/ Finish(r, "404")
      BY <1>3 DEF trackOrder, cancelOrder, TrackFind, Fetch, AppendScan, TrackSelect, TrackUpdate,
           ReadEvents, CancelFind, CourierCancel, CancelSelect, CancelUpdate, CancelEvent,
           AfterReply, Goto, UpdateRow, appendTrackingEvent
    <2> QED BY <2>1, QuietStep, AnswerStep
  <1>4. ASSUME NEW r \in Req, DbFault(r) \/ Crash(r) \/ CourierScan(r)
        PROVE  [Ledger!LedgerNext]_(Ledger!ledger)
    <2>1. /\ UNCHANGED <<placed, shipped, ext>>
          /\ UNCHANGED answer \/ (pc[r] # "done" /\ Finish(r, "error"))
      BY <1>4 DEF DbFault, Crash, CourierScan, Goto
    <2> QED BY <2>1, QuietStep, AnswerStep
  <1> QED BY <1>1, <1>2, <1>3, <1>4 DEF Next, Serve

(* createOrder with everything around it keeps the ledger's promise.       *)
THEOREM Refinement == Spec => RefinesLedger
  <1>1. Init => Ledger!LedgerInit
    BY LedgerInitially
  <1> QED BY <1>1, LedgerStep, Invariant, PTL DEF Spec, RefinesLedger, Ledger!LedgerSpec
=============================================================================
