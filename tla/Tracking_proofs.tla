-------------------------- MODULE Tracking_proofs --------------------------
(***************************************************************************)
(* More theorems about Orders: the loop of trackOrder over the courier's   *)
(* reply and what it leaves in the audit trail, and the progress every     *)
(* request makes.                                                          *)
(***************************************************************************)
EXTENDS Orders_proofs

USE DEF db, courier, local

-----------------------------------------------------------------------------
(* The loop of one request.  What it has fetched the courier has recorded, *)
(* what it has appended is in the trail, and it leaves the loop before the *)
(* end only for a fault.                                                   *)
Unread == Pc \ {"append", "trackSelect", "trackUpdate", "readEvents", "done", "crashed"}

AllInTrail(r, o) == target[r] = o => \A n \in 1..appended[r] : InTrail(o, n)

LoopOK(r) ==
  /\ pc[r] \in Unread => fetched[r] = 0 /\ appended[r] = 0
  /\ pc[r] = "append" => appended[r] < fetched[r]
  /\ appended[r] <= fetched[r]
  /\ fetched[r] > 0 => target[r] \in Req /\ fetched[r] <= Len(scans[target[r]])
  /\ faults = 0 /\ (pc[r] \in {"trackSelect", "trackUpdate", "readEvents"} \/ answer[r] = "200")
       => appended[r] = fetched[r]
  /\ \A o \in Req : AllInTrail(r, o)

TrackingInv == \A r \in Req : LoopOK(r)

-----------------------------------------------------------------------------
(* What steps leave alone.  Scans and events are only added.               *)
ScansGrow == \A o \in Req : /\ Len(scans[o]) <= Len(scans'[o])
                            /\ \A n \in 1..Len(scans[o]) : scans'[o][n] = scans[o][n]

TrailGrows == \A o \in Req : /\ Len(events[o]) <= Len(events'[o])
                             /\ \A i \in 1..Len(events[o]) : events'[o][i] = events[o][i]

OthersLoop(r) == \A q \in Req \ {r} : /\ pc'[q] = pc[q] /\ answer'[q] = answer[q] /\ target'[q] = target[q]
                                      /\ fetched'[q] = fetched[q] /\ appended'[q] = appended[q]

Step(r) == Serve(r) \/ DbFault(r) \/ Crash(r) \/ CourierScan(r)

(* Appending to the scans of an order only adds to them.                   *)
LEMMA ScansAppend ==
  ASSUME TypeOK, NEW o \in Req, NEW raw \in RawStatus, scans' = [scans EXCEPT ![o] = Append(@, raw)]
  PROVE  ScansGrow
  <1>1. scans \in [Req -> Seq(RawStatus)] /\ scans[o] \in Seq(RawStatus)
    BY DEF TypeOK
  <1>2. ASSUME NEW q \in Req
        PROVE  Len(scans[q]) <= Len(scans'[q]) /\ \A n \in 1..Len(scans[q]) : scans'[q][n] = scans[q][n]
    <2>1. CASE q = o
      <3>1. scans'[o] = Append(scans[o], raw)
        BY <1>1
      <3> QED BY <1>1, <2>1, <3>1
    <2>2. CASE q # o
      <3>1. scans'[q] = scans[q] /\ Len(scans[q]) \in Nat
        BY <1>1, <2>2
      <3> QED BY <3>1
    <2> QED BY <2>1, <2>2
  <1> QED BY <1>2 DEF ScansGrow

(* Scans that stay have grown.                                             *)
LEMMA SameScans == TypeOK /\ UNCHANGED scans => ScansGrow
  <1>1. TypeOK => \A o \in Req : Len(scans[o]) \in Nat
    BY DEF TypeOK
  <1> QED BY <1>1 DEF ScansGrow

(* Events that stay have grown.                                            *)
LEMMA SameTrail == TypeOK /\ UNCHANGED events => TrailGrows
  <1>1. TypeOK => \A o \in Req : Len(events[o]) \in Nat
    BY DEF TypeOK
  <1> QED BY <1>1 DEF TrailGrows

(* An append of an event adds it at the end of one order's trail.          *)
LEMMA TrailAppend ==
  ASSUME TypeOK, NEW o \in Req, NEW ev \in Event, appendTrackingEvent(o, ev)
  PROVE  /\ TrailGrows
         /\ Len(events'[o]) = Len(events[o]) + 1 /\ events'[o][Len(events[o]) + 1] = ev
         /\ \A q \in Req \ {o} : events'[q] = events[q]
  <1>1. events \in [Req -> Seq(Event)] /\ events[o] \in Seq(Event) /\ events' = [events EXCEPT ![o] = Append(events[o], ev)]
    BY DEF TypeOK, appendTrackingEvent
  <1>2. /\ Len(events'[o]) = Len(events[o]) + 1 /\ events'[o][Len(events[o]) + 1] = ev
        /\ Len(events[o]) \in Nat /\ \A i \in 1..Len(events[o]) : events'[o][i] = events[o][i]
    BY <1>1
  <1>3. \A q \in Req \ {o} : events'[q] = events[q] /\ Len(events[q]) \in Nat
    BY <1>1
  <1>4. TrailGrows
    BY <1>2, <1>3 DEF TrailGrows
  <1> QED BY <1>2, <1>3, <1>4

(* The courier only ever adds scans.                                       *)
LEMMA StepScans ==
  ASSUME TypeInv, NEW r \in Req, Step(r)
  PROVE  ScansGrow
  <1>0. TypeOK
    BY DEF TypeInv
  <1>1. CASE CourierCancel(r)
    <2>1. target[r] \in Req /\ "CANCELLED" \in RawStatus
      BY <1>1 DEF CourierCancel, TypeInv, TargetOK, InFlight, CancelPc, RawStatus
    <2> QED BY <1>0, <1>1, <2>1, ScansAppend, SameScans DEF CourierCancel
  <1>2. CASE CourierScan(r)
    <2>1. scans[r] \in Seq(RawStatus) /\ Len(scans[r]) < Len(ScanPath)
      BY <1>0, <1>2 DEF CourierScan, TypeOK
    <2>2. ScanPath[Len(scans[r]) + 1] \in RawStatus
      BY <2>1, ScanPathAssumption
    <2>3. scans' = [scans EXCEPT ![r] = Append(@, ScanPath[Len(scans[r]) + 1])]
      BY <1>2 DEF CourierScan
    <2> QED BY <1>0, <2>2, <2>3, ScansAppend
  <1>3. CASE ~CourierCancel(r) /\ ~CourierScan(r)
    <2>1. UNCHANGED scans
      BY <1>3 DEF Step, Serve, createOrder, trackOrder, cancelOrder, CreateFind, Insert, Manifest, CreateSelect,
           CreateUpdate, PlacedEvent, FailSelect, FailUpdate, TrackFind, Fetch, AppendScan, TrackSelect, TrackUpdate,
           ReadEvents, CancelFind, CancelSelect, CancelUpdate, CancelEvent, DbFault, Crash
    <2> QED BY <1>0, <2>1, SameScans
  <1> QED BY <1>1, <1>2, <1>3

(* Three steps append to the audit trail; no step does more to it.         *)
LEMMA StepTrail ==
  ASSUME TypeInv, NEW r \in Req, Step(r), ~AppendScan(r)
  PROVE  \/ UNCHANGED events
         \/ \E o \in Req, ev \in Event : ev.from = "service" /\ appendTrackingEvent(o, ev)
  <1>1. CASE PlacedEvent(r) \/ CancelEvent(r)
    <2>1. target[r] \in Req
      BY <1>1 DEF PlacedEvent, CancelEvent, TypeInv, TargetOK, InFlight, CreatePc, CancelPc
    <2>2. \A s : ServiceEvent(s).from = "service"
      BY DEF ServiceEvent
    <2>3. CASE PlacedEvent(r)
      <3>1. appendTrackingEvent(r, ServiceEvent("CREATED"))
        BY <2>3 DEF PlacedEvent
      <3> QED BY <2>2, <3>1, EventType
    <2>4. CASE CancelEvent(r)
      <3>1. appendTrackingEvent(target[r], ServiceEvent("CANCELLED"))
        BY <2>4 DEF CancelEvent
      <3> QED BY <2>1, <2>2, <3>1, EventType
    <2> QED BY <1>1, <2>3, <2>4
  <1>2. CASE ~PlacedEvent(r) /\ ~CancelEvent(r)
    <2>1. UNCHANGED events
      BY <1>2 DEF Step, Serve, createOrder, trackOrder, cancelOrder, CreateFind, Insert, Manifest, CreateSelect,
           CreateUpdate, FailSelect, FailUpdate, TrackFind, Fetch, TrackSelect, TrackUpdate, UpdateRow, CourierCancel,
           ReadEvents, CancelFind, CancelSelect, CancelUpdate, DbFault, Crash, CourierScan
    <2> QED BY <2>1
  <1> QED BY <1>1, <1>2

(* A step of one request is no step of another's loop.                     *)
LEMMA StepOthers ==
  ASSUME TypeInv, NEW r \in Req, Step(r)
  PROVE  OthersLoop(r) /\ faults \in Nat /\ faults <= faults'
  <1>1. TypeOK /\ faults \in Nat
    BY DEF TypeInv, TypeOK
  <1>2. CASE createOrder(r)
    BY <1>1, <1>2 DEF createOrder, CreateFind, Insert, Manifest, CreateSelect, CreateUpdate, PlacedEvent, FailSelect,
         FailUpdate, Goto, Finish, OthersLoop, TypeOK
  <1>3. CASE trackOrder(r)
    BY <1>1, <1>3 DEF trackOrder, TrackFind, Fetch, AppendScan, TrackSelect, TrackUpdate, ReadEvents, AfterReply,
         LoadEntity, Goto, Finish, OthersLoop, TypeOK
  <1>4. CASE cancelOrder(r)
    BY <1>1, <1>4 DEF cancelOrder, CancelFind, CourierCancel, CancelSelect, CancelUpdate, CancelEvent,
         LoadEntity, Goto, Finish, OthersLoop, TypeOK
  <1>5. CASE DbFault(r) \/ Crash(r) \/ CourierScan(r)
    BY <1>1, <1>5 DEF DbFault, Crash, CourierScan, Goto, Finish, OthersLoop, TypeOK
  <1> QED BY <1>2, <1>3, <1>4, <1>5 DEF Step, Serve

-----------------------------------------------------------------------------
(* What is in the trail stays there: its scan does not change either.      *)
LEMMA InTrailStays ==
  ASSUME ScansGrow, TrailGrows, TypeOK, NEW o \in Req, NEW n \in 1..Len(scans[o]), InTrail(o, n)
  PROVE  InTrail(o, n)'
  <1>1. PICK i \in 1..Len(events[o]) : events[o][i] = CourierEvent(o, n)
    BY DEF InTrail
  <1>2. Len(events[o]) \in Nat /\ Len(events'[o]) \in Nat /\ i \in 1..Len(events'[o]) /\ events'[o][i] = events[o][i]
    <2>1. Len(events[o]) \in Nat /\ Len(events[o]) <= Len(events'[o])
      BY DEF TrailGrows, TypeOK
    <2>2. events'[o][i] = events[o][i]
      BY DEF TrailGrows
    <2>3. i \in 1..Len(events'[o])
      BY <2>1
    <2> QED BY <2>1, <2>2, <2>3
  <1>3. scans'[o][n] = scans[o][n]
    BY DEF ScansGrow
  <1>4. CourierEvent(o, n)' = CourierEvent(o, n)
    BY <1>3 DEF CourierEvent
  <1> QED BY <1>1, <1>2, <1>4 DEF InTrail

(* A loop that fetches and appends nothing stays in order, as long as its  *)
(* request neither enters the loop nor leaves it without a fault.          *)
Past == {"trackSelect", "trackUpdate", "readEvents"}

(* The two counters of a request that is left as it was.                   *)
LEMMA LoopKept ==
  ASSUME TypeOK, ScansGrow, TrailGrows, NEW r \in Req, LoopOK(r),
         fetched'[r] = fetched[r], appended'[r] = appended[r],
         fetched[r] > 0 => target'[r] = target[r],
         pc'[r] \in Unread => pc[r] \in Unread, pc'[r] = "append" => pc[r] = "append",
         faults' = 0 /\ (pc'[r] \in Past \/ answer'[r] = "200") =>
           faults = 0 /\ (pc[r] \in Past \cup Unread \/ answer[r] = "200")
  PROVE  LoopOK(r)'
  <1>1. fetched[r] \in Nat /\ appended[r] \in Nat /\ appended[r] <= fetched[r]
    BY DEF TypeOK, LoopOK
  <1>2. pc[r] \in Unread => fetched[r] = 0 /\ appended[r] = 0
    BY DEF LoopOK
  <1>3. ASSUME fetched[r] > 0
        PROVE  /\ target'[r] = target[r] /\ target[r] \in Req /\ fetched[r] <= Len(scans'[target[r]])
               /\ \A o \in Req : AllInTrail(r, o)'
    <2>1. target[r] \in Req /\ fetched[r] <= Len(scans[target[r]]) /\ Len(scans[target[r]]) \in Nat
      BY <1>3 DEF LoopOK, TypeOK
    <2>2. Len(scans[target[r]]) <= Len(scans'[target[r]])
      BY <2>1 DEF ScansGrow
    <2>3. Len(scans'[target[r]]) >= fetched[r]
      BY <1>1, <2>1, <2>2
    <2>4. ASSUME NEW o \in Req, target[r] = o, NEW n \in 1..appended[r] PROVE InTrail(o, n)'
      <3>1. InTrail(o, n)
        BY <2>4 DEF LoopOK, AllInTrail
      <3>2. n \in 1..Len(scans[o])
        BY <1>1, <2>1, <2>4
      <3> QED BY <3>1, <3>2, InTrailStays
    <2> QED BY <1>3, <2>1, <2>3, <2>4 DEF AllInTrail
  <1>4. fetched[r] = 0 => \A n \in 1..appended[r] : FALSE
    BY <1>1
  <1>5. \A o \in Req : AllInTrail(r, o)'
    BY <1>1, <1>3, <1>4 DEF AllInTrail
  <1>6. pc'[r] = "append" => appended[r] < fetched[r]
    BY DEF LoopOK
  <1>7. faults' = 0 /\ (pc'[r] \in Past \/ answer'[r] = "200") => appended[r] = fetched[r]
    BY <1>2 DEF LoopOK, Past
  <1>8. fetched'[r] > 0 => target'[r] \in Req /\ fetched'[r] <= Len(scans'[target'[r]])
    BY <1>3
  <1> QED BY <1>1, <1>2, <1>5, <1>6, <1>7, <1>8 DEF LoopOK, Past

(* The reply of the courier carries the scans it has, and nothing has been *)
(* appended yet.                                                           *)
LEMMA FetchLoop ==
  ASSUME IInv, NEW r \in Req, LoopOK(r), Fetch(r)
  PROVE  LoopOK(r)'
  <1>0. TypeOK /\ TargetOK /\ TypeInv /\ pc[r] = "fetch" /\ pc[r] \in Unread /\ answer[r] = "none"
    BY DEF IInv, TypeInv, ToldInv, Fetch, Unread, Pc, InFlight, TrackPc
  <1>1. target[r] \in Req /\ Len(scans[target[r]]) \in Nat /\ fetched[r] = 0 /\ appended[r] = 0
    BY <1>0 DEF TargetOK, TypeOK, Fetch, InFlight, TrackPc, LoopOK
  <1>2. UNCHANGED <<target, scans, appended, faults, events, answer>> /\ ScansGrow /\ TrailGrows
    BY <1>0, SameScans, SameTrail DEF Fetch, AfterReply, Goto
  <1>3. CASE /\ Len(scans[target[r]]) > 0 /\ fetched' = [fetched EXCEPT ![r] = Len(scans[target[r]])]
             /\ Goto(r, "append")
    <2>1. fetched'[r] = Len(scans[target[r]]) /\ pc'[r] = "append"
      BY <1>0, <1>3 DEF Goto, TypeOK
    <2>2. \A n \in 1..appended'[r] : FALSE
      BY <1>1, <1>2
    <2> QED BY <1>0, <1>1, <1>2, <1>3, <2>1, <2>2 DEF LoopOK, Unread, AllInTrail
  <1>4. CASE UNCHANGED fetched /\ pc'[r] \in Past
    <2>1. pc'[r] \notin Unread /\ pc'[r] # "append"
      BY <1>4 DEF Past, Unread
    <2> QED BY <1>0, <1>1, <1>2, <1>4, <2>1, LoopKept
  <1>5. \/ UNCHANGED fetched /\ pc'[r] \in Past
        \/ /\ Len(scans[target[r]]) > 0 /\ fetched' = [fetched EXCEPT ![r] = Len(scans[target[r]])]
           /\ Goto(r, "append")
    BY <1>0 DEF Fetch, AfterReply, Goto, Past, TypeOK
  <1> QED BY <1>3, <1>4, <1>5

(* A turn of the loop appends the next scan of the reply.                  *)
LEMMA AppendLoop ==
  ASSUME IInv, NEW r \in Req, LoopOK(r), AppendScan(r)
  PROVE  /\ LoopOK(r)'
         /\ target[r] \in Req /\ appended'[r] = appended[r] + 1 /\ target'[r] = target[r]
         /\ CourierEvent(target[r], appended[r] + 1) \in Event
         /\ appendTrackingEvent(target[r], CourierEvent(target[r], appended[r] + 1))
  <1> DEFINE o == target[r]
             n == appended[r] + 1
  <1>0. TypeOK /\ TargetOK /\ TypeInv /\ pc[r] = "append" /\ pc[r] \in InFlight /\ answer[r] = "none"
    BY DEF IInv, TypeInv, ToldInv, AppendScan, InFlight, TrackPc
  <1>1. /\ o \in Req /\ Len(scans[o]) \in Nat /\ fetched[r] \in Nat /\ appended[r] \in Nat /\ n \in 1..Len(scans[o])
        /\ n <= fetched[r] /\ fetched[r] <= Len(scans[o]) /\ fetched[r] > 0
    <2>1. o \in Req /\ fetched[r] \in Nat /\ appended[r] \in Nat
      BY <1>0 DEF TargetOK, TypeOK
    <2>2. Len(scans[o]) \in Nat
      BY <1>0, <2>1 DEF TypeOK
    <2>3. appended[r] < fetched[r]
      BY <1>0 DEF LoopOK
    <2>4. fetched[r] <= Len(scans[o])
      BY <2>1, <2>3 DEF LoopOK
    <2> QED BY <2>1, <2>2, <2>3, <2>4
  <1>2. UNCHANGED <<target, scans, fetched, faults, answer>> /\ ScansGrow
    BY <1>0, SameScans DEF AppendScan, AfterReply, Goto
  <1>3. appended'[r] = n /\ CourierEvent(o, n) \in Event /\ appendTrackingEvent(o, CourierEvent(o, n))
    BY <1>0, <1>1, EventType DEF AppendScan, TypeOK
  <1>4. /\ TrailGrows /\ Len(events'[o]) = Len(events[o]) + 1 /\ Len(events[o]) \in Nat
        /\ events'[o][Len(events[o]) + 1] = CourierEvent(o, n)
    BY <1>0, <1>1, <1>3, TrailAppend DEF TypeOK
  <1>5. \/ n < fetched[r] /\ pc'[r] = "append"
        \/ n = fetched[r] /\ pc'[r] \in Past
    BY <1>0 DEF AppendScan, AfterReply, Goto, Past, TypeOK
  <1>6. ASSUME NEW p \in Req, p = o, NEW m \in 1..n PROVE InTrail(p, m)'
    <2>1. CASE m = n
      <3>1. CourierEvent(p, m)' = CourierEvent(o, n)
        BY <1>2, <1>6, <2>1 DEF CourierEvent
      <3>2. Len(events[o]) + 1 \in 1..Len(events'[p])
        BY <1>4, <1>6
      <3> QED BY <1>4, <1>6, <3>1, <3>2 DEF InTrail
    <2>2. CASE m # n
      <3>1. m \in 1..appended[r] /\ m \in 1..Len(scans[p])
        BY <1>1, <1>6, <2>2
      <3>2. InTrail(p, m)
        BY <1>6, <3>1 DEF LoopOK, AllInTrail
      <3> QED BY <1>0, <1>2, <1>4, <3>1, <3>2, InTrailStays
    <2> QED BY <2>1, <2>2
  <1>7. \A p \in Req : AllInTrail(r, p)'
    BY <1>2, <1>3, <1>6 DEF AllInTrail
  <1>8. pc'[r] \notin Unread
    BY <1>5 DEF Past, Unread
  <1>9. LoopOK(r)'
    <2> HIDE DEF o, n
    <2> QED BY <1>1, <1>2, <1>3, <1>5, <1>7, <1>8 DEF LoopOK, Past, o, n
  <1> QED BY <1>1, <1>2, <1>3, <1>9

(* Steps that are not of the loop over the reply.                          *)
LEMMA OtherLoop ==
  ASSUME IInv, NEW r \in Req, LoopOK(r), Step(r), ~Fetch(r), ~AppendScan(r)
  PROVE  LoopOK(r)'
  <1>0. /\ TypeOK /\ TypeInv /\ faults \in Nat
        /\ answer[r] # "none" => pc[r] = "done"
    BY DEF IInv, TypeInv, TypeOK, ToldInv
  <1>1. ScansGrow /\ UNCHANGED <<fetched, appended>>
    BY <1>0, StepScans
    DEF Step, Serve, createOrder, trackOrder, cancelOrder, CreateFind, Insert, Manifest, CreateSelect, CreateUpdate,
        PlacedEvent, FailSelect, FailUpdate, TrackFind, TrackSelect, TrackUpdate, ReadEvents, CancelFind, CourierCancel,
        CancelSelect, CancelUpdate, CancelEvent, DbFault, Crash, CourierScan
  <1>2. TrailGrows
    <2>1. CASE UNCHANGED events
      BY <1>0, <2>1, SameTrail
    <2>2. ASSUME NEW o \in Req, NEW ev \in Event, appendTrackingEvent(o, ev) PROVE TrailGrows
      BY <1>0, <2>2, TrailAppend
    <2> QED BY <1>0, <2>1, <2>2, StepTrail
  <1>3. /\ pc[r] = "idle" \/ target'[r] = target[r]
        /\ pc[r] = "idle" => pc[r] \in Unread /\ fetched[r] = 0
        /\ fetched[r] \in Nat
    <2>1. pc[r] = "idle" \/ UNCHANGED target
      BY DEF Step, Serve, createOrder, trackOrder, cancelOrder, CreateFind, Insert, Manifest, CreateSelect, CreateUpdate,
        PlacedEvent, FailSelect, FailUpdate, TrackFind, TrackSelect, TrackUpdate, ReadEvents, CancelFind, CourierCancel,
        CancelSelect, CancelUpdate, CancelEvent, DbFault, Crash, CourierScan
    <2> QED BY <1>0, <2>1 DEF LoopOK, Unread, Pc, TypeOK
  <1>4. /\ pc'[r] \in Unread => pc[r] \in Unread
        /\ pc'[r] = "append" => pc[r] = "append"
        /\ faults' = 0 => faults = 0
        /\ faults' = 0 /\ (pc'[r] \in Past \/ answer'[r] = "200") =>
             pc[r] \in Past \cup Unread \/ answer[r] = "200"
    <2> USE DEF Past, Unread, Pc, InFlight, CreatePc, TrackPc, CancelPc
    <2>1. CASE createOrder(r)
      BY <1>0, <2>1 DEF createOrder, CreateFind, Insert, Manifest, CreateSelect, CreateUpdate, PlacedEvent, FailSelect,
           FailUpdate, Goto, Finish, TypeOK
    <2>2. CASE trackOrder(r)
      BY <1>0, <2>2 DEF trackOrder, TrackFind, TrackSelect, TrackUpdate, ReadEvents, Goto, Finish, TypeOK
    <2>3. CASE cancelOrder(r)
      BY <1>0, <2>3 DEF cancelOrder, CancelFind, CourierCancel, CancelSelect, CancelUpdate, CancelEvent,
           Goto, Finish, TypeOK
    <2>4. CASE DbFault(r)
      <3>1. faults' # 0
        BY <1>0, <2>4 DEF DbFault
      <3>2. pc'[r] \in {"failSelect", "readEvents", "done"} /\ (pc'[r] = "failSelect" => pc[r] \in Unread)
        BY <1>0, <2>4 DEF DbFault, Goto, Finish, TypeOK
      <3> QED BY <3>1, <3>2
    <2>5. CASE Crash(r)
      BY <1>0, <2>5 DEF Crash, TypeOK
    <2>6. CASE CourierScan(r)
      BY <1>0, <2>6 DEF CourierScan, TypeOK
    <2> QED BY <2>1, <2>2, <2>3, <2>4, <2>5, <2>6 DEF Step, Serve
  <1> QED BY <1>0, <1>1, <1>2, <1>3, <1>4, LoopKept

(* Every step keeps every loop in order.                                   *)
LEMMA LoopStep ==
  ASSUME IInv, \A q \in Req : LoopOK(q), NEW r \in Req, Step(r)
  PROVE  \A q \in Req : LoopOK(q)'
  <1>0. TypeOK /\ TypeInv /\ OthersLoop(r) /\ ScansGrow /\ faults \in Nat /\ faults <= faults' /\ faults' \in Nat
    <2>1. faults' \in {faults, faults + 1} /\ faults \in Nat
      BY DEF IInv, TypeInv, TypeOK, Step, Serve, createOrder, trackOrder, cancelOrder, CreateFind, Insert, Manifest,
        CreateSelect, CreateUpdate, PlacedEvent, FailSelect, FailUpdate, TrackFind, Fetch, AppendScan, TrackSelect,
        TrackUpdate, ReadEvents, CancelFind, CourierCancel, CancelSelect, CancelUpdate, CancelEvent, DbFault, Crash,
        CourierScan
    <2> QED BY <2>1, StepScans, StepOthers DEF IInv, TypeInv
  <1>1. LoopOK(r)'
    BY FetchLoop, AppendLoop, OtherLoop
  <1>2. TrailGrows
    <2>1. CASE AppendScan(r)
      <3>1. PICK o \in Req : o = target[r] /\ appendTrackingEvent(o, CourierEvent(o, appended[r] + 1))
                             /\ CourierEvent(o, appended[r] + 1) \in Event
        BY <2>1, AppendLoop
      <3> QED BY <1>0, <3>1, TrailAppend
    <2>2. CASE UNCHANGED events
      BY <1>0, <2>2, SameTrail
    <2>3. ASSUME NEW o \in Req, NEW ev \in Event, appendTrackingEvent(o, ev) PROVE TrailGrows
      BY <1>0, <2>3, TrailAppend
    <2> QED BY <1>0, <2>1, <2>2, <2>3, StepTrail
  <1>3. ASSUME NEW q \in Req, q # r PROVE LoopOK(q)'
    <2>1. /\ pc'[q] = pc[q] /\ answer'[q] = answer[q] /\ target'[q] = target[q]
          /\ fetched'[q] = fetched[q] /\ appended'[q] = appended[q]
      BY <1>0, <1>3 DEF OthersLoop
    <2> QED BY <1>0, <1>2, <2>1, LoopKept
  <1> QED BY <1>1, <1>3

(* Nothing is fetched or saved in the beginning.                           *)
LEMMA TrackingInit == Init => TrackingInv
  BY DEF Init, LoopOK, AllInTrail, TrackingInv

(* Trackings and the trail agree in every reachable state.                 *)
THEOREM Tracking == Spec => []TrackingInv
  <1>1. IInv /\ TrackingInv /\ [Next]_vars => TrackingInv'
    <2> SUFFICES ASSUME IInv, TrackingInv, [Next]_vars PROVE TrackingInv'
      OBVIOUS
    <2>1. CASE UNCHANGED vars
      BY <2>1 DEF vars, TrackingInv, LoopOK, AllInTrail, InTrail, CourierEvent
    <2>2. ASSUME NEW r \in Req, Step(r) PROVE TrackingInv'
      BY <2>2, LoopStep DEF TrackingInv
    <2> QED BY <2>1, <2>2 DEF Next, Step
  <1> QED BY TrackingInit, <1>1, Invariant, PTL DEF Spec

(* A caller answered by trackOrder while the database holds finds the      *)
(* whole reply of the courier in the audit trail (order.service.ts:115).   *)
THEOREM TrailKept == Spec => []TrailComplete
  <1>1. IInv /\ TrackingInv => TrailComplete
    <2> SUFFICES ASSUME IInv, TrackingInv, NEW r \in Req, answer[r] = "200", faults = 0, NEW n \in 1..fetched[r]
                 PROVE  InTrail(target[r], n)
      BY DEF TrailComplete
    <2>1. LoopOK(r) /\ fetched[r] \in Nat
      BY DEF TrackingInv, IInv, TypeInv, TypeOK
    <2>2. appended[r] = fetched[r] /\ target[r] \in Req
      BY <2>1 DEF LoopOK
    <2> QED BY <2>1, <2>2 DEF LoopOK, AllInTrail
  <1> QED BY Invariant, Tracking, <1>1, PTL

-----------------------------------------------------------------------------
(* Progress.  That a request ends is a matter of fairness and of ENABLED   *)
(* and beyond this prover; what is proved is the part of the argument that *)
(* is not: each step of a request lowers a well-founded measure that no    *)
(* step of another one raises.                                             *)

\* how far a request is from its answer: the awaits it may still come to
Stage(p) ==
  CASE p = "insert" -> 7 [] p = "manifest" -> 6 [] p = "createSelect" -> 5 [] p = "createUpdate" -> 4
    [] p = "placedEvent" -> 3 [] p = "failSelect" -> 2 [] p = "failUpdate" -> 1
    [] p = "fetch" -> 5 [] p = "append" -> 4 [] p = "trackSelect" -> 3 [] p = "trackUpdate" -> 2
    [] p = "readEvents" -> 1
    [] p = "courierCancel" -> 4 [] p = "cancelSelect" -> 3 [] p = "cancelUpdate" -> 2 [] p = "cancelEvent" -> 1
    [] OTHER -> 0

\* the turns of the loop that are left
Left(r) == fetched[r] - appended[r]

Closer(r) == \/ Stage(pc'[r]) < Stage(pc[r])
             \/ pc[r] = "append" /\ pc'[r] = "append" /\ Left(r)' < Left(r)

Stays(r) == pc'[r] = pc[r] /\ answer'[r] = answer[r] /\ Left(r)' = Left(r)

(* A step of a request in flight brings it closer to its answer, also when *)
(* the step fails or the process dies.                                     *)
LEMMA OwnAdvance ==
  ASSUME IInv, TrackingInv, NEW r \in Req, pc[r] \in InFlight, Serve(r) \/ DbFault(r) \/ Crash(r)
  PROVE  Closer(r)
  <1>0. TypeOK
    BY DEF IInv, TypeInv
  <1> USE DEF Stage, InFlight, CreatePc, TrackPc, CancelPc
  <1>1. CASE createOrder(r)
    <2>1. Stage(pc'[r]) < Stage(pc[r])
      BY <1>0, <1>1 DEF createOrder, CreateFind, Insert, Manifest, CreateSelect, CreateUpdate, PlacedEvent,
           FailSelect, FailUpdate, Goto, Finish, TypeOK
    <2> QED BY <2>1 DEF Closer
  <1>2. CASE AppendScan(r)
    <2>1. LoopOK(r) /\ appended[r] \in Nat /\ fetched[r] \in Nat /\ UNCHANGED fetched
      BY <1>0, <1>2 DEF AppendScan, TrackingInv, TypeOK
    <2>2. appended'[r] = appended[r] + 1
      BY <1>2, <2>1, AppendLoop
    <2>3. Left(r)' < Left(r)
      BY <2>1, <2>2 DEF Left
    <2>4. pc[r] = "append" /\ pc'[r] \in {"append", "trackSelect", "readEvents"}
      BY <1>0, <1>2 DEF AppendScan, AfterReply, Goto, TypeOK
    <2> QED BY <2>3, <2>4 DEF Closer
  <1>3. CASE trackOrder(r) /\ ~AppendScan(r)
    <2>1. Stage(pc'[r]) < Stage(pc[r])
      BY <1>0, <1>3 DEF trackOrder, TrackFind, Fetch, TrackSelect, TrackUpdate, ReadEvents, AfterReply, Goto, Finish,
           TypeOK
    <2> QED BY <2>1 DEF Closer
  <1>4. CASE cancelOrder(r)
    <2>1. Stage(pc'[r]) < Stage(pc[r])
      BY <1>0, <1>4 DEF cancelOrder, CancelFind, CourierCancel, CancelSelect, CancelUpdate, CancelEvent, Goto, Finish,
           TypeOK
    <2> QED BY <2>1 DEF Closer
  <1>5. CASE DbFault(r) \/ Crash(r)
    <2>1. Stage(pc'[r]) < Stage(pc[r])
      BY <1>0, <1>5 DEF DbFault, Crash, Goto, Finish, TypeOK
    <2> QED BY <2>1 DEF Closer
  <1> QED BY <1>1, <1>2, <1>3, <1>4, <1>5 DEF Serve

(* Each step of a request lowers the pair of its stage and the turns left  *)
(* in its loop, a step of another request or of the courier leaves both as *)
(* they are, and an answer, once given, is final.  With weak fairness of   *)
(* the awaits this is why every request ends (order.service.ts:19-187).    *)
THEOREM RequestsAdvance ==
  Spec => /\ [](\A r \in Req : Left(r) \in Nat)
          /\ [][\A r \in Req :
                  /\ pc[r] \in InFlight => /\ Serve(r) \/ DbFault(r) \/ Crash(r) => Closer(r)
                                           /\ Closer(r) \/ Stays(r)
                  /\ pc[r] \in {"done", "crashed"} => Stays(r)]_vars
  <1>1. IInv /\ TrackingInv => \A r \in Req : Left(r) \in Nat
    <2> SUFFICES ASSUME IInv, TrackingInv, NEW r \in Req PROVE Left(r) \in Nat
      OBVIOUS
    <2>1. appended[r] <= fetched[r] /\ appended[r] \in Nat /\ fetched[r] \in Nat
      BY DEF IInv, TypeInv, TypeOK, TrackingInv, LoopOK
    <2> QED BY <2>1 DEF Left
  <1>2. IInv /\ TrackingInv /\ [Next]_vars =>
          [\A r \in Req :
             /\ pc[r] \in InFlight => /\ Serve(r) \/ DbFault(r) \/ Crash(r) => Closer(r)
                                      /\ Closer(r) \/ Stays(r)
             /\ pc[r] \in {"done", "crashed"} => Stays(r)]_vars
    <2> SUFFICES ASSUME IInv, TrackingInv, Next, NEW r \in Req
                 PROVE  /\ pc[r] \in InFlight => /\ Serve(r) \/ DbFault(r) \/ Crash(r) => Closer(r)
                                                 /\ Closer(r) \/ Stays(r)
                        /\ pc[r] \in {"done", "crashed"} => Stays(r)
      OBVIOUS
    <2>1. PICK q \in Req : Step(q)
      BY DEF Next, Step
    <2>2. CASE q # r \/ CourierScan(q)
      <3>1. OthersLoop(q)
        BY <2>1, StepOthers DEF IInv
      <3>2. CourierScan(q) => Stays(r)
        BY DEF CourierScan, Stays, Left
      <3>3. q # r => Stays(r)
        BY <3>1 DEF OthersLoop, Stays, Left
      <3>4. Stays(r)
        BY <2>2, <3>2, <3>3
      <3> QED BY <3>4, OwnAdvance
    <2>3. CASE q = r /\ ~CourierScan(q)
      <3>1. Serve(r) \/ DbFault(r) \/ Crash(r)
        BY <2>1, <2>3 DEF Step
      <3>2. pc[r] \notin {"done", "crashed"}
        BY <3>1 DEF Serve, createOrder, trackOrder, cancelOrder, CreateFind, Insert, Manifest, CreateSelect,
             CreateUpdate, PlacedEvent, FailSelect, FailUpdate, TrackFind, Fetch, AppendScan, TrackSelect, TrackUpdate,
             ReadEvents, CancelFind, CourierCancel, CancelSelect, CancelUpdate, CancelEvent, DbFault, Crash,
             InFlight, CreatePc, TrackPc, CancelPc
      <3> QED BY <3>1, <3>2, OwnAdvance
    <2> QED BY <2>2, <2>3
  <1> QED BY Invariant, Tracking, <1>1, <1>2, PTL DEF Spec
=============================================================================
